--------------------------- MODULE QuestProgress ----------------------------
(***************************************************************************)
(* Saved reading progress: the localStorage record, the write lock and the *)
(* quest-progress hook that every page of the app runs its writes through. *)
(*                                                                         *)
(* A page takes the lock, loads the record, does one operation             *)
(* (checkpoint, completion or journey launch) and releases the lock when   *)
(* the operation returns.  A save compares the record with the text the    *)
(* page last read and only then replaces it.  Three writers take no lock   *)
(* and can write between two steps: a page of another release left open,   *)
(* the browser's "clear site data", and this release's own clean-up of old *)
(* demo totals when a page loads.                                          *)
(*                                                                         *)
(* Comparing and replacing are one step here, as the code has no point     *)
(* between them at which it does anything else.  updatedAt is left out, so *)
(* two texts that differ only in it are the same record.                   *)
(***************************************************************************)
EXTENDS ActiveLesson, Sequences

CONSTANTS
    Tab,             \* pages of the app open on this origin
    MaxAttempts,     \* completed attempts kept (COMPLETED_ATTEMPT_LIMIT)
    WordStudyOpens,  \* completed lessons after which word study is offered
    Declined,        \* sessions whose result the progression engine declines
    MaxForeign,      \* bound: writes by something other than this release
    LegacySeed,      \* TRUE: the record may still hold the old demo totals
    Empty, Unreadable, NoJob, NoSnapshot

ASSUME QuestAssumption ==
    /\ MaxAttempts \in Nat \ {0}
    /\ WordStudyOpens \in Nat
    /\ Declined \subseteq SessionId
    /\ MaxForeign \in Nat
    /\ LegacySeed \in BOOLEAN
    /\ Empty # Unreadable

Attempt == [id : SessionId, graded : [Question -> BOOLEAN]]

Progress == [active   : Session \union {NoSession},
             deferred : Session \union {NoSession},
             attempts : Seq(Attempt),
             count    : Nat,
             xp       : Nat,
             seeded   : BOOLEAN]

\* LEGACY_DEMO_TOTAL_XP: what early demo records held before any lesson.
LegacyDemoXp == 120

\* What inspectStoredProgress can find: nothing, a record it must not touch
\* (malformed, or another schema version), or progress.
Raw == Progress \union {Empty, Unreadable}

ASSUME RawAssumption == {Empty, Unreadable, NoSnapshot} \cap Progress = {}

Stages == {"checkpoint", "complete", "launch", "reconcile",
           "reconcile_again", "plan"}

Job == [tab : Tab, stage : Stages, read : Raw, progress : Progress]

ASSUME NoJobAssumption == NoJob \notin Job

VARIABLES
    durable,   \* the localStorage record
    job,       \* the page holding the write lock, what it read, and the
               \* progress it works on (expectedRaw and progressRef)
    cleaning,  \* per page, the cleaned record a load is about to write back
    begun,     \* session ids handed out
    credits,   \* history: how often each session's reward became durable
    foreign    \* writes made so far by something other than this release

vars == <<durable, job, cleaning, begun, credits, foreign>>

-----------------------------------------------------------------------------
Readable(raw) == raw \notin {Empty, Unreadable}

Fresh == [active |-> NoSession, deferred |-> NoSession, attempts |-> <<>>,
          count |-> 0, xp |-> 0, seeded |-> FALSE]

State(raw) == IF Readable(raw) THEN raw ELSE Fresh

CompletedIds(p) == {p.attempts[i].id : i \in DOMAIN p.attempts}

Newest(attempts) ==
    IF Len(attempts) > MaxAttempts
    THEN SubSeq(attempts, Len(attempts) - MaxAttempts + 1, Len(attempts))
    ELSE attempts

\* Mutant: demo totals are taken off whether they are there or not.
CleanAgain(p) ==
    [p EXCEPT !.xp = IF @ >= LegacyDemoXp THEN @ - LegacyDemoXp ELSE 0,
              !.seeded = FALSE]

\* cleanLegacyDemoSeed takes the demo totals off a record that holds them.
Clean(p) ==
    IF p.seeded
    THEN [p EXCEPT !.xp = IF @ >= LegacyDemoXp THEN @ - LegacyDemoXp ELSE 0,
                   !.seeded = FALSE]
    ELSE p

\* A load cleans what it reads; the cleaned copy may fail to be written.
Loadable(raw) == IF Readable(raw) THEN {raw, Clean(raw)} ELSE {raw}

\* What a page holds of a record it has loaded.
Loaded(raw) == IF Readable(raw) THEN Clean(raw) ELSE Fresh

FrontierOpen(p) == p.count >= WordStudyOpens

WordStudy(s) == s # NoSession /\ KindOf[s.id] = "word_study"

\* recoverActiveLessonSession: a session already completed, or whose content
\* is no longer there, is dropped.
Recover(p) ==
    IF /\ p.active # NoSession
       /\ p.active.id \in CompletedIds(p) \/ ~Resumable(p.active)
    THEN [p EXCEPT !.active = NoSession]
    ELSE p

\* Mutants: a session set aside stays active too; or is not put away at all.
DeferKeepsActive(p) ==
    IF WordStudy(p.active) /\ ~FrontierOpen(p)
    THEN [p EXCEPT !.deferred = p.active]
    ELSE p

DeferForgets(p) ==
    IF WordStudy(p.active) /\ ~FrontierOpen(p)
    THEN [p EXCEPT !.active = NoSession]
    ELSE p

\* reconcileDeferredWordStudySession: a word-study session ahead of the
\* frontier is set aside, and taken up again once the frontier reaches it.
\* The slot is free whenever a session is set aside (DeferredSlotFree), so
\* chooseDeferredSession has no second candidate.
Defer(p) ==
    IF WordStudy(p.active) /\ ~FrontierOpen(p)
    THEN [p EXCEPT !.active = NoSession, !.deferred = p.active]
    ELSE IF p.active = NoSession /\ WordStudy(p.deferred) /\ FrontierOpen(p)
    THEN [p EXCEPT !.active = p.deferred, !.deferred = NoSession]
    ELSE p

Reconcile(p) == Recover(Defer(Recover(p)))

-----------------------------------------------------------------------------
\* The outcomes of an operation: the status it returns, the record it leaves,
\* the text the store now expects and the progress the page now holds.
Outcome(status, raw, read, p) ==
    [status |-> status, durable |-> raw, read |-> read, progress |-> p]

Unsaved(status) == Outcome(status, durable, job.read, job.progress)

Failures == {"write_blocked", "storage_error"}

\* Mutant: a save that does not look at the record first.
PersistUnchecked(p) == {Outcome("saved", p, p, p)}

\* Mutant: a save that finds newer progress goes on with its own.
PersistStale(p) ==
    IF durable # job.read /\ Readable(durable)
    THEN {Outcome("conflict", durable, durable, job.progress)}
    ELSE IF durable # job.read \/ durable = Unreadable
    THEN {Outcome("write_blocked", durable, durable, job.progress)}
    ELSE {Outcome("saved", p, p, p)}

\* persist: conflict adopts what another page saved; a record that vanished
\* or cannot be read is left alone; a failing setItem or read-back leaves the
\* page's progress as it was whether or not the record was replaced.
Persist(p) ==
    IF durable # job.read /\ Readable(durable)
    THEN {Outcome("conflict", durable, durable, durable)}
    ELSE IF durable # job.read \/ durable = Unreadable
    THEN {Outcome("write_blocked", durable, durable, job.progress)}
    ELSE {Outcome("saved", p, p, p)}
         \union {Outcome("storage_error", raw, job.read, job.progress) :
                    raw \in {durable, p}}

-----------------------------------------------------------------------------
\* saveActiveSession.
Repeats(active, s) ==
    /\ s.rev \in {active.rev, active.rev - 1}
    /\ SamePayload(active, s)

\* Mutant: a valid transition of any revision is taken.
ContinuesAnyRevision(active, s) ==
    ~SamePayload(active, s) /\ ValidTransition(active, s)

Continues(active, s) ==
    /\ s.rev = active.rev
    /\ ~SamePayload(active, s)
    /\ ValidTransition(active, s)

CheckpointOutcomes(s) ==
    LET p == job.progress
        current == p.active # NoSession /\ p.active.id = s.id IN
    IF s.id \in CompletedIds(p) THEN {Unsaved("ignored_completed")}
    ELSE IF p.active # NoSession /\ ~current THEN {Unsaved("conflict")}
    ELSE IF current /\ Repeats(p.active, s) THEN {Unsaved("unchanged")}
    ELSE IF current /\ Continues(p.active, s)
    THEN Persist([p EXCEPT !.active = Accepted(s)])
    ELSE {Unsaved("ignored_stale")}

\* Mutant: every question is rewarded as if it had been answered correctly.
CreditInFull(p, r) ==
    [p EXCEPT !.active = NoSession,
              !.attempts = Newest(Append(@, [id |-> r.id,
                                             graded |-> r.graded])),
              !.count = @ + 1,
              !.xp = @ + Award([q \in Question |-> TRUE])]

\* completeLesson.
Credit(p, r) ==
    [p EXCEPT !.active = NoSession,
              !.attempts = Newest(Append(@, [id |-> r.id,
                                             graded |-> r.graded])),
              !.count = @ + 1,
              !.xp = @ + Award(r.graded)]

\* Mutant: only the capped history is asked whether a result is new.
MatchesAnyBegun(p, r) == r.id \in begun

MatchesActive(p, r) ==
    /\ p.active # NoSession
    /\ p.active.id = r.id
    /\ p.active.rev = r.rev
    /\ SupportsCompletion(p.active, r)

CompleteOutcomes(r) ==
    LET p == job.progress IN
    IF r.id \in CompletedIds(p) THEN Persist(Reconcile(p))
    ELSE IF MatchesActive(p, r) /\ r.id \notin Declined
    THEN Persist(Reconcile(Credit(p, r)))
    ELSE {Unsaved("rejected")}

\* beginLessonWithContext and the planner in front of it.
Startable(id) ==
    /\ id \notin begun
    /\ KindOf[id] # "retired"
    /\ KindOf[id] = "word_study" => FrontierOpen(job.progress)

-----------------------------------------------------------------------------
\* The session whose completion an operation has just written, if any.
Completes(raw, id) ==
    /\ Readable(raw)
    /\ raw.count > job.progress.count
    /\ raw.attempts[Len(raw.attempts)].id = id

Apply(o) ==
    /\ durable' = o.durable
    /\ credits' = [id \in SessionId |->
                    credits[id] + IF Completes(o.durable, id) THEN 1 ELSE 0]

Finish(o) ==
    /\ Apply(o)
    /\ job' = NoJob
    /\ UNCHANGED <<cleaning, foreign>>

Holds(t, stages) == job # NoJob /\ job.tab = t /\ job.stage \in stages

\* Records an earlier release can have left behind.
InitialSession(id) ==
    [NewSession(id) EXCEPT !.submitted[1] = CHOOSE a \in Answer : TRUE]

TotalXp(attempts, seeded) ==
    (IF attempts = <<>> THEN 0 ELSE Award(attempts[1].graded))
    + (IF seeded THEN LegacyDemoXp ELSE 0)

Inherited(active, deferred, histories) ==
    {p \in [active : active, deferred : deferred, attempts : histories,
            count : {0, 1},
            xp : UNION {{TotalXp(h, FALSE), TotalXp(h, TRUE)} : h \in histories},
            seeded : {FALSE, LegacySeed}] :
        /\ p.count = Len(p.attempts)
        /\ p.xp = TotalXp(p.attempts, p.seeded)
        /\ WordStudy(p.active) => p.deferred = NoSession
        /\ p.deferred # NoSession => p.active # p.deferred}

InitialProgress ==
    LET saved == {InitialSession(id) : id \in SessionId}
        done == {s \in saved : KindOf[s.id] \in {"reading", "fluency"}} IN
    Inherited(saved \union {NoSession},
              {s \in saved : WordStudy(s)} \union {NoSession},
              {<<>>} \union {<<[id |-> s.id, graded |-> Graded(s)]>> : s \in done})

OpenSessions(p) == {p.active, p.deferred} \ {NoSession}

Ids(p) == CompletedIds(p) \union {s.id : s \in OpenSessions(p)}

Init ==
    /\ durable \in InitialProgress \union {Empty}
    /\ job = NoJob
    /\ cleaning = [t \in Tab |-> NoSnapshot]
    /\ begun = Ids(State(durable))
    /\ credits = [id \in SessionId |->
                    IF id \in CompletedIds(State(durable)) THEN 1 ELSE 0]
    /\ foreign = 0

-----------------------------------------------------------------------------
\* A page loads outside the lock when it opens and on every storage event.
\* The load writes only if it finds the old demo totals: it reads the record,
\* and then puts the cleaned copy back without looking again, or fails to.
LoadSeeded(t) ==
    /\ ~Holds(t, Stages)
    /\ cleaning[t] = NoSnapshot
    /\ State(durable).seeded
    /\ cleaning' = [cleaning EXCEPT ![t] = Clean(durable)]
    /\ UNCHANGED <<durable, job, begun, credits, foreign>>

WriteCleaned(t) ==
    /\ cleaning[t] # NoSnapshot
    /\ durable' \in {cleaning[t], durable}
    /\ cleaning' = [cleaning EXCEPT ![t] = NoSnapshot]
    /\ UNCHANGED <<job, begun, credits, foreign>>

\* runCoordinated: the lock is granted and the record loaded (and cleaned).
\* An unreadable record is refused without running the operation.
Acquire(t, stage) ==
    /\ job = NoJob
    /\ cleaning[t] = NoSnapshot
    /\ durable # Unreadable
    /\ durable' \in Loadable(durable)
    /\ job' = [tab |-> t, stage |-> stage, read |-> durable',
               progress |-> Loaded(durable)]
    /\ UNCHANGED <<cleaning, begun, credits, foreign>>

Checkpoint(t, s, o) ==
    /\ Holds(t, {"checkpoint"})
    /\ s.rev < MaxRev
    /\ o \in CheckpointOutcomes(s)
    /\ Finish(o)
    /\ UNCHANGED begun

Complete(t, r, o) ==
    /\ Holds(t, {"complete"})
    /\ o \in CompleteOutcomes(r)
    /\ Finish(o)
    /\ UNCHANGED begun

\* prepareJourneyLaunch: load again, save what reconciling changed (once more
\* if another page saved meanwhile), then resume, begin or rest.
Reload(t) ==
    /\ Holds(t, {"launch"})
    /\ durable' \in Loadable(durable)
    /\ job' = [job EXCEPT !.stage = "reconcile", !.read = durable',
                          !.progress = IF Readable(durable)
                                       THEN Loaded(durable) ELSE @]
    /\ UNCHANGED <<cleaning, begun, credits, foreign>>

ReconcileUnchanged(t) ==
    /\ Holds(t, {"reconcile", "reconcile_again"})
    /\ Reconcile(job.progress) = job.progress
    /\ job' = [job EXCEPT !.stage = "plan"]
    /\ UNCHANGED <<durable, cleaning, begun, credits, foreign>>

ReconcileSave(t, o) ==
    /\ Holds(t, {"reconcile", "reconcile_again"})
    /\ o \in Persist(Reconcile(job.progress))
    /\ \/ o.status = "saved"
       \/ o.status = "conflict" /\ job.stage = "reconcile"
    /\ Apply(o)
    /\ job' = [job EXCEPT !.stage = IF o.status = "saved" THEN "plan"
                                    ELSE "reconcile_again",
                          !.read = o.read, !.progress = o.progress]
    /\ UNCHANGED <<cleaning, begun, foreign>>

ReconcileFailed(t, o) ==
    /\ Holds(t, {"reconcile", "reconcile_again"})
    /\ o \in Persist(Reconcile(job.progress))
    /\ \/ o.status \in Failures
       \/ o.status = "conflict" /\ job.stage = "reconcile_again"
    /\ Finish(o)
    /\ UNCHANGED begun

Resume(t) ==
    /\ Holds(t, {"plan"})
    /\ job.progress.active # NoSession
    /\ Finish(Unsaved("resume"))
    /\ UNCHANGED begun

Begin(t, id, o) ==
    /\ Holds(t, {"plan"})
    /\ job.progress.active = NoSession
    /\ Startable(id)
    /\ o \in Persist([job.progress EXCEPT !.active = NewSession(id)])
    /\ Finish(o)
    /\ begun' = begun \union {id}

\* The planner has nothing to offer; the plan is saved whatever comes of it.
Rest(t, o) ==
    /\ Holds(t, {"plan"})
    /\ job.progress.active = NoSession
    /\ o \in Persist(job.progress)
    /\ Finish(o)
    /\ UNCHANGED begun

\* A page is closed or crashes: the browser releases its lock.
Close(t) ==
    /\ \/ Holds(t, Stages)
       \/ cleaning[t] # NoSnapshot
    /\ job' = IF Holds(t, Stages) THEN NoJob ELSE job
    /\ cleaning' = [cleaning EXCEPT ![t] = NoSnapshot]
    /\ UNCHANGED <<durable, begun, credits, foreign>>

\* What a page of another release saves of the session it has open: a lawful
\* continuation of the record, as both releases validate checkpoints alike.
ForeignCheckpoints ==
    IF Readable(durable) /\ durable.active # NoSession
    THEN {[durable EXCEPT !.active = Accepted(s)] :
             s \in {s \in Session : /\ s.rev < MaxRev
                                    /\ Continues(durable.active, s)}}
    ELSE {}

\* A page of another release, which takes no lock, saves a checkpoint; a newer
\* release saves another schema; or the site's data is cleared.
ForeignWrite ==
    /\ foreign < MaxForeign
    /\ foreign' = foreign + 1
    /\ durable' \in ForeignCheckpoints \union {Empty, Unreadable}
    /\ UNCHANGED <<job, cleaning, begun, credits>>

Next ==
    \/ \E t \in Tab :
        \/ LoadSeeded(t)
        \/ WriteCleaned(t)
        \/ \E stage \in {"checkpoint", "complete", "launch"} : Acquire(t, stage)
        \/ \E s \in Session : Holds(t, {"checkpoint"}) /\
              \E o \in CheckpointOutcomes(s) : Checkpoint(t, s, o)
        \/ \E r \in Result : Holds(t, {"complete"}) /\
              \E o \in CompleteOutcomes(r) : Complete(t, r, o)
        \/ Reload(t)
        \/ ReconcileUnchanged(t)
        \/ Holds(t, {"reconcile", "reconcile_again"}) /\
              \E o \in Persist(Reconcile(job.progress)) :
                 ReconcileSave(t, o) \/ ReconcileFailed(t, o)
        \/ Resume(t)
        \/ Holds(t, {"plan"}) /\ \E id \in SessionId :
              \E o \in Persist([job.progress EXCEPT !.active = NewSession(id)]) :
                 Begin(t, id, o)
        \/ Holds(t, {"plan"}) /\ \E o \in Persist(job.progress) : Rest(t, o)
        \/ Close(t)
    \/ ForeignWrite

Spec == Init /\ [][Next]_vars

-----------------------------------------------------------------------------
TypeOK ==
    /\ durable \in Raw
    /\ job \in Job \union {NoJob}
    /\ cleaning \in [Tab -> Progress \union {NoSnapshot}]
    /\ begun \subseteq SessionId
    /\ credits \in [SessionId -> Nat]
    /\ foreign \in 0..MaxForeign

\* No session is ever rewarded twice, whatever is retried, repeated by another
\* page or lost between the write and its confirmation, and however many
\* newer attempts have pushed it out of the capped history.
CreditedOnce == \A id \in SessionId : credits[id] <= 1

\* The one slot for a set-aside word-study session is free whenever another
\* would have to be set aside, so no paused work is displaced.
DeferredSlotFree ==
    \A p \in {State(durable)} \union
             (IF job = NoJob THEN {} ELSE {job.progress}) :
        WordStudy(p.active) /\ ~FrontierOpen(p) => p.deferred = NoSession

OwnStep == foreign' = foreign

KeepsWork(old, new) ==
    /\ KeepsSubmissions(old, new)
    /\ old.assist \subseteq new.assist
    /\ old.practice \subseteq new.practice
    /\ old.index <= new.index
    /\ SamePayload(old, new) => new.rev = old.rev
    /\ ~SamePayload(old, new) => new.rev = old.rev + 1

\* While a session stays open in the record, active or set aside, nothing
\* accepted in it is ever removed, changed or moved back, and each change is
\* one new revision: also when a page without the lock saves a checkpoint in
\* the middle of an operation.
AcceptedWorkKept ==
    [][\A old \in OpenSessions(State(durable)),
          new \in OpenSessions(State(durable')) :
          old.id = new.id => KeepsWork(old, new)]_vars

\* A session with usable content leaves the record only by being completed:
\* pages that race, resume, set aside or launch never drop one.
SessionNeverLost ==
    [][OwnStep =>
       \A s \in OpenSessions(State(durable)) :
          Resumable(s) => s.id \in Ids(State(durable'))]_vars

\* The XP a learner has earned: the total without what the demo put there.
EarnedXp(p) == IF p.seeded THEN p.xp - LegacyDemoXp ELSE p.xp

\* A reward is written only for a session whose every question is durably
\* answered, from those very answers; earned XP changes by that award alone,
\* and the demo totals, once taken off, never come back or go twice.
RewardMatchesAnswers ==
    [][OwnStep /\ Readable(durable) =>
       LET old == durable
           new == durable' IN
       /\ new.seeded => old.seeded
       /\ \/ new.count = old.count /\ EarnedXp(new) = EarnedXp(old)
          \/ /\ new.count = old.count + 1
             /\ Answered(old.active) = Question
             /\ new.attempts[Len(new.attempts)] =
                   [id |-> old.active.id, graded |-> Graded(old.active)]
             /\ EarnedXp(new) = EarnedXp(old) + Award(Graded(old.active))]_vars

\* A record this release cannot read is never overwritten by it.
UnreadableKept ==
    [][OwnStep /\ durable = Unreadable => durable' = Unreadable]_vars

-----------------------------------------------------------------------------
\* The ledger a page works on: what the page holding the lock has loaded, else
\* the record.  A record cleared under a page that then writes its copy back
\* was, to every later reader, never cleared.
Held == IF job = NoJob THEN State(durable) ELSE job.progress

OpenSheet(id) ==
    LET open == {s \in {Held.active, Held.deferred} \ {NoSession} :
                    s.id = id /\ credits[id] = 0} IN
    IF open = {} THEN NoSession ELSE (CHOOSE s \in open : TRUE).submitted

ASSUME SheetAssumption ==
    NoSession \notin [Question -> Answer \union {NoAnswer}]

Ledger == INSTANCE ProgressLedger WITH
            NoSheet <- NoSession,
            sheet   <- [id \in SessionId |-> OpenSheet(id)],
            paid    <- {id \in SessionId : credits[id] > 0},
            total   <- EarnedXp(Held)

\* The record, the lock and the hook together keep the ledger's promise:
\* however pages interleave, fail and retry, each answer on a sheet is given
\* once, a full sheet is paid once for its own answers, and the XP earned is
\* what was paid.
KeepsLedger == Ledger!Spec

=============================================================================
