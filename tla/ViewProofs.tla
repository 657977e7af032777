----------------------------- MODULE ViewProofs -----------------------------
(***************************************************************************)
(* Theorems about what LessonJourney shows, for any number of pages,       *)
(* sessions and questions.  As long as nothing fails, a lesson screen that *)
(* waits for no reply shows the checkpoint its next action is built on,    *)
(* and a lesson finished on it is supported by the saved answers.          *)
(*                                                                         *)
(* The argument compares the copies of a session that a page holds (the    *)
(* one it mounted from, the one its next checkpoint is built on, the one a *)
(* waiting call carries) with the record: a copy is never newer, a copy of *)
(* the same revision is the record's own session, and a session that has   *)
(* left the active slot does not come back to it.                          *)
(***************************************************************************)
EXTENDS LessonJourneyProofs

-----------------------------------------------------------------------------
(* The invariant.  Of the record and the lock: *)

Record == State(durable)

\* A session as the screens build it: answered up to its question, a draft
\* for that question only, milestones in fluency practice only.
Sturdy(s) ==
    /\ \A q \in Question : q < s.index => q \in Answered(s)
    /\ \A q \in Answered(s) : q <= s.index
    /\ DraftFits(s)
    /\ KindOf[s.id] # "fluency" => s.practice = {}

\* Reconciling has nothing to do for the active session.
Settled(p) ==
    p.active # NoSession =>
        /\ p.active.id \notin CompletedIds(p)
        /\ WordStudy(p.active) => FrontierOpen(p)

RecordOK ==
    /\ durable # Unreadable
    /\ job # NoJob => job.read = durable /\ job.progress = Record
    /\ \A s \in {Record.active, Record.deferred} \ {NoSession} : Sturdy(s)
    /\ Holds(job.tab, {"plan"}) => Settled(Record)

(* Of a page, with what it shows v, its calls cs, the record raw and the   *)
(* sessions begun: *)

Copies(v) == {v.shown, v.ref} \ {NoSession}

\* A copy is not of the session set aside, and is no newer than the record.
Older(s, p) ==
    /\ p.deferred # NoSession => s.id # p.deferred.id
    /\ p.active # NoSession /\ p.active.id = s.id =>
        /\ s.rev <= p.active.rev
        /\ s.rev = p.active.rev => s = p.active

CopyOf(s, raw, ids) ==
    /\ Readable(raw) /\ Settled(State(raw))
    /\ s.id \in ids /\ Sturdy(s) /\ Older(s, State(raw))

\* The screen shows the work of session s.
Reflects(v, s) ==
    v.evals = s.submitted /\ v.index = s.index /\ v.assist = s.assist

Proposes(old, s) == SamePayload(old, s) \/ ValidTransition(old, s)

Live(cs) == {c \in cs : c.live}

Asking(cs) == {c \in Live(cs) : c.kind = "checkpoint"}

\* The session the next checkpoint is built on is the one on screen.
Own(v) == v.ref # NoSession /\ v.ref.id = v.shown.id

\* A screen of the session its next checkpoint is built on reflects it unless
\* a checkpoint waits; one whose next checkpoint is for another session, or
\* for none, has lost its own for good.
ScreenOK(v, cs, p) ==
    /\ Own(v) => /\ v.shown.rev <= v.ref.rev
                 /\ Asking(cs) = {} => Reflects(v, v.ref)
    /\ v.screen = "lesson_run" /\ ~Own(v) =>
        p.active = NoSession \/ p.active.id # v.shown.id
    /\ v.screen # "lesson_run" => v.ref = NoSession

\* What a live call says of the session it was built on.
CallOK(v, c) ==
    LET own == v.ref.id = v.shown.id IN
    /\ v.ref # NoSession
    /\ c.kind = "checkpoint" =>
        /\ c.session.id = v.ref.id /\ c.session.rev = v.ref.rev
        /\ own => Reflects(v, c.session) /\ Proposes(v.ref, c.session)
    /\ c.kind = "complete" =>
        /\ c.result.id = v.ref.id /\ c.result.rev = v.ref.rev
        /\ own /\ KindOf[v.ref.id] # "fluency"
           => SupportsCompletion(v.ref, c.result)

Synced(v, cs, raw, ids) ==
    /\ \A s \in Copies(v) : CopyOf(s, raw, ids)
    /\ ScreenOK(v, cs, State(raw))
    /\ \A c, d \in Live(cs) : c = d
    /\ \A c \in Live(cs) : CallOK(v, c)

PageSynced(t) == Synced(view[t], calls[t], durable, begun)

VInv ==
    /\ JInv /\ LInv
    /\ faults = 0 => RecordOK /\ \A t \in Tab : PageSynced(t)

-----------------------------------------------------------------------------
(* What reconciling does to the two slots.                                 *)

LEMMA ReconcileSettles ==
    ASSUME NEW p \in Progress
    PROVE  Settled(Reconcile(p))
<1> DEFINE q == Recover(p)
           r == Defer(q)
           n == Recover(r)
<1>1. q \in Progress
  BY RecoverProgress
<1> HIDE DEF q
<1>2. /\ r \in Progress
      /\ WordStudy(r.active) => FrontierOpen(r)
  BY <1>1, DeferProgress DEF Defer, WordStudy, FrontierOpen, Progress
<1> HIDE DEF r
<1>3. /\ n.active \in {r.active, NoSession}
      /\ n.attempts = r.attempts /\ n.count = r.count
      /\ n.active # NoSession => n.active.id \notin CompletedIds(r)
  BY <1>2, RecoverProgress
<1> HIDE DEF n
<1>4. Settled(n)
  BY <1>2, <1>3 DEF Settled, WordStudy, FrontierOpen, CompletedIds
<1> QED  BY <1>4 DEF Reconcile, n, r, q

LEMMA ReconcileSlots ==
    ASSUME NEW p \in Progress, Settled(p)
    PROVE  /\ Reconcile(p).deferred \in {p.deferred, NoSession}
           /\ Reconcile(p).active \in {p.active, p.deferred, NoSession}
<1> DEFINE q == Recover(p)
           r == Defer(q)
           n == Recover(r)
<1>1. /\ q \in Progress /\ q.active \in {p.active, NoSession}
      /\ q.deferred = p.deferred /\ q.count = p.count
  BY RecoverProgress
<1> HIDE DEF q
<1>2. r \in Progress
  BY <1>1, DeferProgress
<1>3. ~(WordStudy(q.active) /\ ~FrontierOpen(q))
  BY <1>1 DEF Settled, WordStudy, FrontierOpen
<1>4. /\ r.active \in {q.active, q.deferred}
      /\ r.deferred \in {q.deferred, NoSession}
  BY <1>1, <1>3, DeferProgress
<1> HIDE DEF r
<1>5. n.active \in {r.active, NoSession} /\ n.deferred = r.deferred
  BY <1>2, RecoverProgress
<1> HIDE DEF n
<1> QED  BY <1>1, <1>4, <1>5 DEF Reconcile, n, r, q

\* Whatever is settled or not, reconciling brings no session in.
LEMMA ReconcileOpen ==
    ASSUME NEW p \in Progress
    PROVE  {Reconcile(p).active, Reconcile(p).deferred}
             \subseteq {p.active, p.deferred, NoSession}
<1> DEFINE q == Recover(p)
           r == Defer(q)
<1>1. /\ q \in Progress /\ q.active \in {p.active, NoSession}
      /\ q.deferred = p.deferred
  BY RecoverProgress
<1> HIDE DEF q
<1>2. /\ r \in Progress
      /\ {r.active, r.deferred} \subseteq {q.active, q.deferred, NoSession}
  BY <1>1, DeferProgress
<1> HIDE DEF r
<1>3. /\ Recover(r).active \in {r.active, NoSession}
      /\ Recover(r).deferred = r.deferred
  BY <1>2, RecoverProgress
<1> QED  BY <1>1, <1>2, <1>3 DEF Reconcile, r, q

-----------------------------------------------------------------------------
(* What one step of the application does to the record.                    *)

LEMMA NewSturdy ==
    ASSUME NEW id \in SessionId
    PROVE  Sturdy(NewSession(id)) /\ NewSession(id).rev = 0
BY DEF Sturdy, NewSession, Answered, DraftFits, Question

LEMMA InitialSturdy ==
    ASSUME NEW id \in SessionId
    PROVE  Sturdy(InitialSession(id))
<1>1. /\ InitialSession(id).index = 1
      /\ InitialSession(id).draft = NoDraft
      /\ InitialSession(id).practice = {}
      /\ \A q \in Question \ {1} : InitialSession(id).submitted[q] = NoAnswer
  BY DEF InitialSession, NewSession
<1>2. Answered(InitialSession(id)) \subseteq {1}
  BY <1>1 DEF Answered
<1>3. \A q \in Question : ~(q < 1)
  BY DEF Question
<1> QED  BY <1>1, <1>2, <1>3 DEF Sturdy, DraftFits

LEMMA AcceptedSturdy ==
    ASSUME NEW old \in Session, NEW s \in Session, s.rev < MaxRev,
           Continues(old, s), Sturdy(old)
    PROVE  /\ Sturdy(Accepted(s))
           /\ Accepted(s).rev = old.rev + 1
<1> DEFINE new == Accepted(s)
<1>1. /\ new \in Session /\ new.rev = s.rev + 1 /\ new.id = s.id
      /\ new.submitted = s.submitted /\ new.index = s.index
      /\ new.draft = s.draft /\ new.practice = s.practice
  BY AcceptedType DEF Accepted, Session
<1>2. /\ s.rev = old.rev /\ FollowsPosition(old, s) /\ KeepsSubmissions(old, s)
      /\ DraftFits(s) /\ KeepsSupport(old, s)
  BY DEF Continues, ValidTransition
<1> HIDE DEF new
<1>3. Answered(new) = Answered(s) /\ Answered(old) \subseteq Answered(s)
  BY <1>1, <1>2 DEF Answered, KeepsSubmissions
<1>4. \A q \in Question : q < s.index => q \in Answered(s)
  <2> SUFFICES ASSUME NEW q \in Question, q < s.index PROVE q \in Answered(s)
    OBVIOUS
  <2>1. q \in Nat /\ s.index \in Nat /\ old.index \in Nat
    BY LessonAssumption DEF Question, Session
  <2>2. q < old.index \/ (q = old.index /\ s.index > old.index)
    BY <1>2, <2>1 DEF FollowsPosition
  <2> QED  BY <1>2, <1>3, <2>2 DEF FollowsPosition, Sturdy
<1>5. Sturdy(new)
  BY <1>1, <1>2, <1>3, <1>4 DEF Sturdy, FollowsPosition, DraftFits, KeepsSupport
<1> QED  BY <1>1, <1>2, <1>5 DEF new

\* What a write may make of a settled record.
Succeeds(p, ids, q, more) ==
    /\ ids \subseteq more
    /\ Settled(q)
    /\ q.deferred \in {p.deferred, NoSession}
    /\ \/ q.active \in {p.active, p.deferred, NoSession}
       \/ /\ p.active # NoSession /\ q.active.id = p.active.id
          /\ q.active.rev = p.active.rev + 1
       \/ q.active.id \notin ids

LEMMA BegunGrows == ASSUME [Next]_vars PROVE begun \subseteq begun'
BY DEF Next, LoadSeeded, WriteCleaned, Acquire, Checkpoint, Complete, Reload,
       ReconcileUnchanged, ReconcileSave, ReconcileFailed, Resume, Begin, Rest,
       Close, ForeignWrite, vars

\* The values at hand in a step that writes.
LEMMA AtWrite ==
    ASSUME LInv, RecordOK, Written
    PROVE  /\ job # NoJob /\ job.progress = Record /\ Record \in Progress
           /\ Sound(Record, begun, credits) /\ Orderly(Record, credits)
           /\ CompletedIds(Record) \subseteq begun
<1>1. job # NoJob /\ job.progress = Record /\ Held = Record
  BY DEF RecordOK, Written, Held
<1>2. /\ Sound(Record, begun, credits) /\ Orderly(Record, credits)
      /\ Record \in Progress
  BY <1>1, HeldSound DEF LInv
<1>3. CompletedIds(Record) \subseteq SessionId
  <2>1. Record.attempts \in Seq(Attempt)
    BY <1>2 DEF Progress
  <2>2. \A i \in DOMAIN Record.attempts : Record.attempts[i] \in Attempt
    BY <2>1, ElementOfSeq, LenProperties
  <2>3. \A a \in Attempt : a.id \in SessionId
    BY DEF Attempt
  <2> QED  BY <2>2, <2>3 DEF CompletedIds
<1>4. CompletedIds(Record) \subseteq begun
  BY <1>2, <1>3 DEF Orderly, LInv, IInv
<1> QED  BY <1>1, <1>2, <1>4

LEMMA WriteSucceeds ==
    ASSUME LInv, RecordOK, Written, begun \subseteq begun'
    PROVE  /\ Readable(durable') /\ Record' = durable'
           /\ \A s \in {durable'.active, durable'.deferred} \ {NoSession} :
                 Sturdy(s)
           /\ Settled(Record) => Succeeds(Record, begun, durable', begun')
<1> DEFINE p == Record
           Goal == /\ Readable(durable') /\ Record' = durable'
                   /\ \A s \in {durable'.active, durable'.deferred} \ {NoSession} :
                         Sturdy(s)
                   /\ Settled(p) => Succeeds(p, begun, durable', begun')
<1>1. /\ job.progress = p /\ p \in Progress
      /\ Sound(p, begun, credits) /\ CompletedIds(p) \subseteq begun
  BY AtWrite
<1>2. \A s \in {p.active, p.deferred} \ {NoSession} : Sturdy(s) /\ s \in Session
  BY <1>1 DEF RecordOK, Progress
<1> HIDE DEF p
<1>3. ASSUME durable' \in Progress
      PROVE  Readable(durable') /\ Record' = durable'
  BY <1>3, RawAssumption DEF Record, State, Readable
<1>4. ASSUME NEW x \in Session, durable' = [p EXCEPT !.active = x]
      PROVE  /\ durable' \in Progress /\ durable'.active = x
             /\ durable'.deferred = p.deferred
             /\ CompletedIds(durable') = CompletedIds(p)
             /\ FrontierOpen(durable') <=> FrontierOpen(p)
  BY <1>1, <1>4, WithActive DEF CompletedIds, FrontierOpen
<1>5. ASSUME NEW s \in Session, durable' = [p EXCEPT !.active = Accepted(s)],
             s.rev < MaxRev, p.active # NoSession, p.active.id = s.id,
             Continues(p.active, s)
      PROVE  Goal
  <2>1. /\ Accepted(s) \in Session /\ Accepted(s).id = s.id
        /\ Accepted(s) # NoSession
    BY <1>5, AcceptedType, NoSessionAssumption
  <2>2. p.active \in Session /\ Sturdy(p.active)
    BY <1>2, <1>5
  <2>3. Sturdy(Accepted(s)) /\ Accepted(s).rev = p.active.rev + 1
    BY <1>5, <2>2, AcceptedSturdy
  <2>4. /\ durable' \in Progress /\ durable'.active = Accepted(s)
        /\ durable'.deferred = p.deferred
        /\ CompletedIds(durable') = CompletedIds(p)
        /\ FrontierOpen(durable') <=> FrontierOpen(p)
    BY <1>4, <1>5, <2>1
  <2>5. Settled(p) => Settled(durable')
    BY <1>5, <2>1, <2>4 DEF Settled, WordStudy
  <2> QED  BY <1>2, <1>3, <1>5, <2>1, <2>3, <2>4, <2>5 DEF Succeeds
<1>6. ASSUME NEW r \in Result, durable' = Reconcile(Credit(p, r))
      PROVE  Goal
  <2>1. /\ Credit(p, r) \in Progress /\ Credit(p, r).active = NoSession
        /\ Credit(p, r).deferred = p.deferred
    BY <1>1, CreditProgress
  <2>2. durable' \in Progress /\ Settled(durable')
    BY <1>6, <2>1, ReconcileProgress, ReconcileSettles
  <2>3. Settled(Credit(p, r))
    BY <2>1 DEF Settled
  <2>4. /\ durable'.deferred \in {p.deferred, NoSession}
        /\ durable'.active \in {p.deferred, NoSession}
    BY <1>6, <2>1, <2>3, ReconcileSlots
  <2> QED  BY <1>2, <1>3, <2>2, <2>4 DEF Succeeds
<1>7. ASSUME durable' = Reconcile(p)
      PROVE  Goal
  <2>1. durable' \in Progress /\ Settled(durable')
    BY <1>1, <1>7, ReconcileProgress, ReconcileSettles
  <2>2. {durable'.active, durable'.deferred}
           \subseteq {p.active, p.deferred, NoSession}
    BY <1>1, <1>7, ReconcileOpen
  <2>3. Settled(p) => /\ durable'.deferred \in {p.deferred, NoSession}
                      /\ durable'.active \in {p.active, p.deferred, NoSession}
    BY <1>1, <1>7, ReconcileSlots
  <2> QED  BY <1>2, <1>3, <2>1, <2>2, <2>3 DEF Succeeds
<1>8. ASSUME NEW id \in SessionId, durable' = [p EXCEPT !.active = NewSession(id)],
             Startable(id)
      PROVE  Goal
  <2>1. /\ NewSession(id) \in Session /\ NewSession(id).id = id
        /\ Sturdy(NewSession(id)) /\ NewSession(id) # NoSession
    BY NewSessionType, NewSturdy, NoSessionAssumption
  <2>2. /\ durable' \in Progress /\ durable'.active = NewSession(id)
        /\ durable'.deferred = p.deferred
        /\ CompletedIds(durable') = CompletedIds(p)
        /\ FrontierOpen(durable') <=> FrontierOpen(p)
    BY <1>4, <1>8, <2>1
  <2>3. id \notin begun /\ (KindOf[id] = "word_study" => FrontierOpen(p))
    BY <1>1, <1>8 DEF Startable
  <2>4. Settled(durable')
    BY <1>1, <2>1, <2>2, <2>3 DEF Settled, WordStudy
  <2> QED  BY <1>2, <1>3, <2>1, <2>2, <2>3, <2>4 DEF Succeeds
<1>9. ASSUME durable' = p
      PROVE  Goal
  BY <1>1, <1>2, <1>3, <1>9 DEF Succeeds
<1> QED  BY <1>1, <1>5, <1>6, <1>7, <1>8, <1>9 DEF Written, p

\* The record the lock leaves is the one its page works on, until it is
\* given up.
JobOK == /\ job # NoJob => job.read = durable /\ job.progress = Record
         /\ Holds(job.tab, {"plan"}) => Settled(Record)

\* With no old demo totals in the record a load finds it as it is.
LEMMA PlainLoad ==
    ASSUME ~LegacySeed, LInv
    PROVE  /\ Loaded(durable) = State(durable)
           /\ \A raw \in Loadable(durable) : raw = durable
<1>1. /\ ~State(durable).seeded
      /\ Readable(durable) => durable \in Progress
  BY NoCleanUps DEF LInv, IInv, TypeInv, TypeOK, Raw, Readable
<1>2. Readable(durable) => Clean(durable) = durable
  BY <1>1, CleanType DEF State
<1> QED  BY <1>2 DEF Loaded, Loadable, State

LEMMA JobStep ==
    ASSUME ~LegacySeed, LInv, RecordOK, [Next]_vars, OwnStep
    PROVE  JobOK'
<1>0. /\ job # NoJob => /\ job \in Job /\ job.progress \in Progress
                        /\ job.read = durable /\ job.progress = Record
      /\ State(durable) \in Progress /\ ~State(durable).seeded
      /\ \A t \in Tab : cleaning[t] = NoSnapshot
      /\ LInv
  BY NoCleanUps DEF LInv, IInv, TypeInv, TypeOK, ValidProgress, Sound, RecordOK
<1>1. ASSUME NEW o, Finish(o) PROVE JobOK'
  BY <1>1 DEF Finish, JobOK, Holds
<1>2. ASSUME NEW t \in Tab, LoadSeeded(t) \/ WriteCleaned(t) PROVE JobOK'
  BY <1>0, <1>2 DEF LoadSeeded, WriteCleaned
<1>3. ASSUME NEW t \in Tab, NEW stage \in {"checkpoint", "complete", "launch"},
             Acquire(t, stage)
      PROVE  JobOK'
  <2>1. /\ durable' = durable
        /\ job'.read = durable' /\ job'.progress = State(durable')
        /\ job'.stage = stage
    BY <1>0, <1>3, PlainLoad DEF Acquire
  <2> QED  BY <2>1 DEF JobOK, Record, Holds
<1>4. ASSUME NEW t \in Tab, Reload(t) PROVE JobOK'
  <2>1. /\ job # NoJob /\ durable' = durable
        /\ job' = [job EXCEPT !.stage = "reconcile", !.read = durable,
                              !.progress = IF Readable(durable) THEN durable
                                           ELSE job.progress]
    BY <1>0, <1>4, PlainLoad DEF Reload, Holds, State
  <2>2. /\ job'.read = durable /\ job'.stage = "reconcile"
        /\ job'.progress = IF Readable(durable) THEN durable ELSE Record
    BY <1>0, <2>1 DEF Job
  <2> QED  BY <2>1, <2>2 DEF JobOK, Record, State, Holds
<1>5. ASSUME NEW t \in Tab, ReconcileUnchanged(t) PROVE JobOK'
  <2>1. /\ job # NoJob /\ durable' = durable
        /\ Reconcile(job.progress) = job.progress
        /\ job' = [job EXCEPT !.stage = "plan"]
    BY <1>5 DEF ReconcileUnchanged, Holds
  <2>2. job'.read = job.read /\ job'.progress = job.progress
    BY <1>0, <2>1 DEF Job
  <2>3. Settled(Record)
    BY <1>0, <2>1, ReconcileSettles
  <2> QED  BY <1>0, <2>1, <2>2, <2>3 DEF JobOK, Record
<1>6. ASSUME NEW t \in Tab, NEW o \in Persist(Reconcile(job.progress)),
             ReconcileSave(t, o)
      PROVE  JobOK'
  <2> DEFINE P == Reconcile(job.progress)
  <2>1. /\ job # NoJob /\ durable' = o.durable
        /\ o.status \in {"saved", "conflict"}
        /\ job'.read = o.read /\ job'.progress = o.progress
    BY <1>0, <1>6 DEF ReconcileSave, Holds, Apply, Job
  <2>2. P \in Progress /\ Settled(P)
    BY <1>0, <2>1, ReconcileProgress, ReconcileSettles
  <2> HIDE DEF P
  <2>3. o.durable = P /\ o.read = P /\ o.progress = P
    <3>1. o \in Persist(P)
      BY DEF P
    <3>2. o.status # "conflict"
      BY <1>0, <2>1, <3>1, Persisted
    <3> QED  BY <2>1, <3>1, <3>2, Persisted DEF Saves
  <2>4. State(durable') = P
    BY <2>1, <2>2, <2>3, RawAssumption DEF State, Readable
  <2> QED  BY <2>1, <2>2, <2>3, <2>4 DEF JobOK, Record
<1>7. ASSUME NEW t \in Tab, Close(t) PROVE JobOK'
  <2>1. job' \in {job, NoJob} /\ durable' = durable
    BY <1>7 DEF Close
  <2> QED  BY <2>1 DEF JobOK, RecordOK, Record, Holds
<1>8. ~ForeignWrite
  <2>1. foreign \in Nat
    BY QuestAssumption DEF LInv, IInv, TypeInv, TypeOK
  <2> QED  BY <2>1 DEF ForeignWrite, OwnStep
<1>9. CASE UNCHANGED vars
  BY <1>9 DEF vars, JobOK, RecordOK, Record, Holds
<1> QED
  BY <1>1, <1>2, <1>3, <1>4, <1>5, <1>6, <1>7, <1>8, <1>9
  DEF Next, Checkpoint, Complete, ReconcileFailed, Resume, Begin, Rest

LEMMA RecordStep ==
    ASSUME ~LegacySeed, LInv, RecordOK, [Next]_vars, OwnStep
    PROVE  RecordOK'
<1>1. JobOK'
  BY JobStep
<1>2. CASE durable' = durable
  BY <1>1, <1>2 DEF RecordOK, JobOK, Record
<1>3. CASE durable' # durable
  <2>1. Written /\ begun \subseteq begun'
    BY <1>3, OwnWrites, BegunGrows DEF LInv
  <2>2. /\ Readable(durable') /\ Record' = durable'
        /\ \A s \in {durable'.active, durable'.deferred} \ {NoSession} : Sturdy(s)
    BY <2>1, WriteSucceeds
  <2> QED  BY <1>1, <2>2 DEF RecordOK, JobOK, Readable
<1> QED  BY <1>2, <1>3

LEMMA RecordSucceeds ==
    ASSUME ~LegacySeed, LInv, RecordOK, [Next]_vars, OwnStep,
           Readable(durable), Settled(Record)
    PROVE  Readable(durable') /\ Succeeds(Record, begun, Record', begun')
<1>1. begun \subseteq begun'
  BY BegunGrows
<1>2. CASE durable' = durable
  BY <1>1, <1>2 DEF Record, Succeeds
<1>3. CASE durable' # durable
  <2>1. Written
    BY <1>3, OwnWrites DEF LInv
  <2> QED  BY <1>1, <2>1, WriteSucceeds
<1> QED  BY <1>2, <1>3


-----------------------------------------------------------------------------
(* A page that does nothing stays as it was with the record a step leaves. *)

Before == JInv /\ LInv /\ RecordOK /\ \A t \in Tab : PageSynced(t)

\* The pages as they were, with the record after the step; and as they are.
Stayed == \A t \in Tab : Synced(view[t], calls[t], durable', begun')

SyncedNext == \A t \in Tab : Synced(view'[t], calls'[t], durable', begun')

LEMMA RecordTypes ==
    ASSUME TypeInv
    PROVE  /\ Record \in Progress
           /\ Record.active # NoSession => /\ Record.active \in Session
                                           /\ Record.active.rev \in Nat
BY RawCases, LessonAssumption DEF TypeInv, TypeOK, Record, Progress, Session

LEMMA CopyStays ==
    ASSUME TypeInv, NEW s \in Session, CopyOf(s, durable, begun),
           Readable(durable'), Succeeds(Record, begun, Record', begun')
    PROVE  CopyOf(s, durable', begun')
<1> DEFINE p == Record
           q == Record'
<1>1. /\ s.rev \in Nat
      /\ p.active # NoSession => p.active.rev \in Nat
  BY RecordTypes, LessonAssumption DEF Session
<1>2. /\ s.id \in begun' /\ s.id \in begun /\ Sturdy(s) /\ Older(s, p)
      /\ Settled(q)
  BY DEF CopyOf, Succeeds, Record
<1>3. /\ q.deferred \in {p.deferred, NoSession}
      /\ \/ q.active \in {p.active, p.deferred, NoSession}
         \/ /\ p.active # NoSession /\ q.active.id = p.active.id
            /\ q.active.rev = p.active.rev + 1
         \/ q.active.id \notin begun
  BY DEF Succeeds
<1> HIDE DEF p, q
<1>4. q.deferred # NoSession => s.id # q.deferred.id
  BY <1>2, <1>3 DEF Older
<1>5. ASSUME q.active # NoSession, q.active.id = s.id
      PROVE  s.rev <= q.active.rev /\ (s.rev = q.active.rev => s = q.active)
  <2>1. CASE q.active = p.active
    BY <1>2, <1>5, <2>1 DEF Older
  <2>2. CASE q.active = p.deferred
    BY <1>2, <1>5, <2>2 DEF Older
  <2>3. CASE /\ p.active # NoSession /\ q.active.id = p.active.id
             /\ q.active.rev = p.active.rev + 1
    BY <1>1, <1>2, <1>5, <2>3 DEF Older
  <2> QED  BY <1>2, <1>3, <1>5, <2>1, <2>2, <2>3
<1>6. Older(s, q)
  BY <1>4, <1>5 DEF Older
<1> QED  BY <1>2, <1>6 DEF CopyOf, q, Record

LEMMA PageStays ==
    ASSUME ~LegacySeed, JInv, LInv, RecordOK, [Next]_vars, OwnStep,
           NEW v \in View, HasLesson(v), NEW cs,
           Synced(v, cs, durable, begun)
    PROVE  Synced(v, cs, durable', begun')
<1>1. TypeInv
  BY DEF JInv
<1>2. CASE Copies(v) = {}
  <2>1. v.shown = NoSession /\ v.ref = NoSession
    BY <1>2 DEF Copies
  <2> QED  BY <1>2, <2>1 DEF Synced, ScreenOK, Own, HasLesson
<1>3. CASE Copies(v) # {}
  <2>1. Readable(durable) /\ Settled(Record)
    BY <1>3 DEF Synced, CopyOf, Record
  <2>2. Readable(durable') /\ Succeeds(Record, begun, Record', begun')
    BY <2>1, RecordSucceeds
  <2>3. \A s \in Copies(v) : CopyOf(s, durable', begun')
    <3> SUFFICES ASSUME NEW s \in Copies(v) PROVE CopyOf(s, durable', begun')
      OBVIOUS
    <3>1. s \in Session
      BY DEF Copies, View
    <3> QED  BY <1>1, <2>2, <3>1, CopyStays DEF Synced
  <2>4. ScreenOK(v, cs, Record')
    <3> DEFINE p == Record
               q == Record'
    <3>1. ScreenOK(v, cs, p)
      BY DEF Synced, Record
    <3>2. CASE v.screen # "lesson_run"
      BY <3>1, <3>2 DEF ScreenOK, Own
    <3>3. CASE v.screen = "lesson_run"
      <4>1. v.shown # NoSession /\ v.shown \in Copies(v)
        BY <3>3 DEF HasLesson, Copies
      <4>2. v.shown.id \in begun /\ Older(v.shown, p)
        BY <4>1 DEF Synced, CopyOf, Record
      <4>3. /\ \/ q.active \in {p.active, p.deferred, NoSession}
               \/ p.active # NoSession /\ q.active.id = p.active.id
               \/ q.active.id \notin begun
        BY <2>2 DEF Succeeds
      <4> HIDE DEF p, q
      <4>4. p.active = NoSession \/ p.active.id # v.shown.id =>
            q.active = NoSession \/ q.active.id # v.shown.id
        BY <4>2, <4>3 DEF Older
      <4> QED  BY <3>1, <4>4 DEF ScreenOK, Own, q
    <3> QED  BY <3>2, <3>3
  <2> QED  BY <2>3, <2>4 DEF Synced, Record
<1> QED  BY <1>2, <1>3

LEMMA PagesStay ==
    ASSUME ~LegacySeed, Before, [Next]_vars, OwnStep
    PROVE  Stayed
<1> SUFFICES ASSUME NEW t \in Tab
             PROVE  Synced(view[t], calls[t], durable', begun')
  BY DEF Stayed
<1>1. view[t] \in View /\ HasLesson(view[t])
  BY DEF Before, JInv, PagesOK, NeverStranded, HasLesson
<1>2. Synced(view[t], calls[t], durable, begun)
  BY DEF Before, PageSynced
<1>3. JInv /\ LInv /\ RecordOK
  BY DEF Before
<1> QED  BY <1>1, <1>2, <1>3, PageStays

\* So a step of one page has to answer for that page only.
LEMMA PageGoes ==
    ASSUME PagesOK, Stayed, NEW t \in Tab, NEW w, NEW cs,
           view' = [view EXCEPT ![t] = w],
           calls' = [calls EXCEPT ![t] = cs],
           Synced(w, cs, durable', begun')
    PROVE  SyncedNext
BY DEF PagesOK, Stayed, SyncedNext

-----------------------------------------------------------------------------
(* What each kind of change of a page does to it.                          *)

\* Two views that differ in nothing that is compared with the record.
Alike(v, w) ==
    /\ v.screen = w.screen /\ v.shown = w.shown /\ v.ref = w.ref
    /\ v.evals = w.evals /\ v.index = w.index /\ v.assist = w.assist

LEMMA AlikeSynced ==
    ASSUME NEW v, NEW w, NEW cs, NEW ds, NEW raw, NEW ids,
           Alike(v, w), Live(cs) = Live(ds), Synced(v, cs, raw, ids)
    PROVE  Synced(w, ds, raw, ids)
<1>1. Copies(w) = Copies(v) /\ Asking(cs) = Asking(ds)
  BY DEF Copies, Alike, Asking
<1>2. ScreenOK(w, ds, State(raw))
  BY <1>1 DEF Synced, ScreenOK, Own, Alike, Reflects
<1>3. \A c \in Live(ds) : CallOK(w, c)
  BY DEF Synced, CallOK, Alike, Reflects
<1> QED  BY <1>1, <1>2, <1>3 DEF Synced

LEMMA SilentOrphans ==
    ASSUME NEW cs \in SUBSET Call
    PROVE  Live(Orphaned(cs)) = {}
<1>1. \A c \in Call : ~[c EXCEPT !.live = FALSE].live
  BY DEF Call
<1> QED  BY <1>1 DEF Live, Orphaned

LEMMA MountSynced ==
    ASSUME NEW w, NEW cs, NEW raw, NEW ids, NEW s \in Session,
           w.screen = "lesson_run", w.shown = s, w.ref = s, Reflects(w, s),
           CopyOf(s, raw, ids), Live(cs) = {}
    PROVE  Synced(w, cs, raw, ids)
<1>1. s.rev <= s.rev
  BY LessonAssumption DEF Session
<1>2. Copies(w) \subseteq {s} /\ Asking(cs) = {}
  BY DEF Copies, Asking
<1>3. Own(w)
  BY NoSessionAssumption DEF Own
<1> QED  BY <1>1, <1>2, <1>3 DEF Synced, ScreenOK

LEMMA MountedReflects ==
    ASSUME NEW v \in View, NEW s \in Session, NEW launching \in BOOLEAN
    PROVE  /\ LET w == Mounted(v, s)
              IN  /\ w.screen = "lesson_run" /\ w.shown = s /\ w.ref = s
                  /\ Reflects(w, s)
           /\ LET w == [Mounted(v, s) EXCEPT !.launching = launching]
              IN  /\ w.screen = "lesson_run" /\ w.shown = s /\ w.ref = s
                  /\ Reflects(w, s)
<1> DEFINE chosen == IF s.draft # NoDraft /\ s.draft.question = s.index
                     THEN s.draft.answer ELSE NoAnswer
           m == Mounted(v, s)
<1>1. m = [v EXCEPT !.screen = "lesson_run", !.shown = s, !.ref = s,
                    !.index = s.index, !.evals = s.submitted,
                    !.selected = chosen, !.assist = s.assist, !.sent = FALSE]
  BY DEF Mounted
<1> HIDE DEF chosen, m
<1>2. /\ m.screen = "lesson_run" /\ m.shown = s /\ m.ref = s
      /\ Reflects(m, s)
  BY <1>1 DEF View, Reflects
<1>3. LET w == [m EXCEPT !.launching = launching]
      IN  /\ w.screen = "lesson_run" /\ w.shown = s /\ w.ref = s
          /\ Reflects(w, s)
  BY <1>1 DEF View, Reflects
<1> QED  BY <1>2, <1>3 DEF m

LEMMA AwaySynced ==
    ASSUME NEW w, NEW cs, NEW raw, NEW ids,
           w.screen # "lesson_run", w.ref = NoSession,
           w.shown # NoSession => CopyOf(w.shown, raw, ids),
           Live(cs) = {}
    PROVE  Synced(w, cs, raw, ids)
BY DEF Synced, ScreenOK, Own, Copies

\* The session in the active slot is a copy of itself.
LEMMA ActiveCopy ==
    ASSUME NEW raw, NEW ids, NEW paid, Readable(raw),
           Sound(State(raw), ids, paid), Settled(State(raw)),
           State(raw).active # NoSession, Sturdy(State(raw).active)
    PROVE  CopyOf(State(raw).active, raw, ids)
<1> DEFINE a == State(raw).active
<1>1. a \in Session /\ a.id \in ids /\ a.rev <= a.rev
  BY LessonAssumption DEF Sound, Progress, Session
<1> QED  BY <1>1 DEF CopyOf, Older, Sound


-----------------------------------------------------------------------------
(* The shell's steps, for a record that stayed or was just written.        *)

LEMMA KeepSynced ==
    ASSUME JInv, Stayed, NEW t \in Tab, NEW v \in View, NEW cs,
           Alike(view[t], v), Live(cs) = Live(calls[t]),
           Keep(t, v, cs) \/ LaunchFrom(t, v, cs)
    PROVE  SyncedNext
<1> DEFINE w == view'[t]
<1>1. /\ view' = [view EXCEPT ![t] = w]
      /\ calls' = [calls EXCEPT ![t] = cs]
      /\ Alike(view[t], w)
  <2>1. CASE Keep(t, v, cs)
    BY <2>1 DEF Keep, JInv, PagesOK
  <2>2. CASE LaunchFrom(t, v, cs)
    <3> DEFINE u == [v EXCEPT !.launching = TRUE]
    <3>1. Alike(v, u)
      BY DEF Alike, View
    <3>2. view' = [view EXCEPT ![t] = u] /\ calls' = [calls EXCEPT ![t] = cs]
      BY <2>2 DEF LaunchFrom
    <3> HIDE DEF u
    <3>3. view' = [view EXCEPT ![t] = w] /\ w = u
      BY <3>2 DEF JInv, PagesOK
    <3> QED  BY <3>1, <3>2, <3>3 DEF Alike
  <2> QED  BY <2>1, <2>2
<1> HIDE DEF w
<1>2. Synced(view[t], calls[t], durable', begun')
  BY DEF Stayed
<1>3. Synced(w, cs, durable', begun')
  BY <1>1, <1>2, AlikeSynced
<1> QED  BY <1>1, <1>3, PageGoes DEF JInv

LEMMA AwayFields ==
    ASSUME NEW v \in View, NEW screen, NEW parent, NEW retryable
    PROVE  /\ LET w == Away(v, screen) IN
              w.screen = screen /\ w.ref = NoSession /\ w.shown = v.shown
           /\ LET w == [Away(v, screen) EXCEPT !.launching = FALSE] IN
              w.screen = screen /\ w.ref = NoSession /\ w.shown = v.shown
           /\ LET w == [Away(v, screen) EXCEPT !.retryable = retryable] IN
              w.screen = screen /\ w.ref = NoSession /\ w.shown = v.shown
           /\ LET w == [Away(v, screen) EXCEPT !.parent = parent,
                                               !.launching = FALSE] IN
              w.screen = screen /\ w.ref = NoSession /\ w.shown = v.shown
           /\ LET w == [Away(v, screen) EXCEPT !.shown = NoSession,
                            !.launching = FALSE, !.retryable = retryable] IN
              w.screen = screen /\ w.ref = NoSession /\ w.shown = NoSession
BY DEF Away, Closed

LEMMA LeaveSynced ==
    ASSUME JInv, Stayed, NEW t \in Tab, NEW w, NEW cs \in SUBSET Call,
           Leave(t, w, cs),
           w.screen # "lesson_run", w.ref = NoSession,
           w.shown \in {view[t].shown, NoSession}
    PROVE  SyncedNext
<1>1. Live(Orphaned(cs)) = {}
  BY SilentOrphans
<1>2. w.shown # NoSession => CopyOf(w.shown, durable', begun')
  BY DEF Stayed, Synced, Copies
<1>3. Synced(w, Orphaned(cs), durable', begun')
  BY <1>1, <1>2, AwaySynced
<1> QED  BY <1>3, PageGoes DEF Leave, JInv

\* A lesson screen mounts from a copy of the session.
LEMMA RemountSynced ==
    ASSUME JInv, Stayed, NEW t \in Tab, NEW v \in View, NEW s \in Session,
           NEW cs \in SUBSET Call, CopyOf(s, durable', begun'),
           NEW launching \in BOOLEAN, NEW w,
           \/ w = Mounted(v, s)
           \/ w = [Mounted(v, s) EXCEPT !.launching = launching],
           view' = [view EXCEPT ![t] = w],
           calls' = [calls EXCEPT ![t] = Orphaned(cs)]
    PROVE  SyncedNext
<1>1. /\ w.screen = "lesson_run" /\ w.shown = s /\ w.ref = s
      /\ Reflects(w, s)
  <2>1. CASE w = Mounted(v, s)
    BY <2>1, MountedReflects
  <2>2. CASE w = [Mounted(v, s) EXCEPT !.launching = launching]
    BY <2>2, MountedReflects
  <2> QED  BY <2>1, <2>2
<1>2. Live(Orphaned(cs)) = {}
  BY SilentOrphans
<1>3. Synced(w, Orphaned(cs), durable', begun')
  BY <1>1, <1>2, MountSynced
<1> QED  BY <1>3, PageGoes DEF JInv

\* One that shows the active session at the revision it has takes it as it
\* is: the two are the same.
LEMMA SameShown ==
    ASSUME NEW v \in View, HasLesson(v), NEW cs, NEW raw, NEW ids,
           State(raw).active # NoSession, SameKey(v, State(raw).active),
           v.shown # NoSession => CopyOf(v.shown, raw, ids)
    PROVE  v.shown = State(raw).active
BY DEF SameKey, HasLesson, CopyOf, Older

LEMMA ShowSynced ==
    ASSUME JInv, Stayed, NEW t \in Tab, NEW v \in View, NEW s \in Session,
           NEW cs \in SUBSET Call, s = State(durable').active,
           CopyOf(s, durable', begun'), SamePlace(v, view[t]),
           SameKey(v, s) \/ v.screen # "lesson_run" =>
              Synced(v, cs, durable', begun'),
           Show(t, v, s, cs)
    PROVE  SyncedNext
<1>0. s # NoSession /\ HasLesson(v)
  BY NoSessionAssumption DEF HasLesson, SamePlace, JInv, PagesOK, NeverStranded
<1>1. CASE v.screen = "lesson_run" /\ ~SameKey(v, s)
  <2>1. /\ view' = [view EXCEPT ![t] = Mounted(v, s)]
        /\ calls' = [calls EXCEPT ![t] = Orphaned(cs)]
    BY <1>1 DEF Show
  <2>2. TRUE \in BOOLEAN
    OBVIOUS
  <2> QED  BY <2>1, <2>2, RemountSynced
<1>2. CASE ~(v.screen = "lesson_run" /\ ~SameKey(v, s))
  <2> DEFINE w == [v EXCEPT !.shown = IF v.shown = NoSession THEN v.shown
                                      ELSE s]
  <2>1. /\ view' = [view EXCEPT ![t] = w]
        /\ calls' = [calls EXCEPT ![t] = cs]
    BY <1>2 DEF Show
  <2>2. Synced(v, cs, durable', begun')
    BY <1>2 DEF SameKey
  <2>3. CASE SameKey(v, s)
    <3>1. v.shown = s
      BY <1>0, <2>2, <2>3, SameShown DEF Synced, Copies
    <3>2. Alike(v, w)
      BY <3>1 DEF Alike, View
    <3> HIDE DEF w
    <3>3. Synced(w, cs, durable', begun')
      BY <2>2, <3>2, AlikeSynced
    <3> QED  BY <2>1, <3>3, PageGoes DEF JInv
  <2>4. CASE v.screen # "lesson_run"
    <3>1. v.ref = NoSession /\ Live(cs) = {}
      BY <2>2, <2>4 DEF Synced, ScreenOK, Own, CallOK
    <3>2. /\ w.screen # "lesson_run" /\ w.ref = NoSession
          /\ w.shown \in {NoSession, s}
      BY <2>4, <3>1 DEF View
    <3> HIDE DEF w
    <3>3. Synced(w, cs, durable', begun')
      BY <3>1, <3>2, AwaySynced
    <3> QED  BY <2>1, <3>3, PageGoes DEF JInv
  <2> QED  BY <1>2, <2>3, <2>4
<1> QED  BY <1>1, <1>2

LEMMA EnterSynced ==
    ASSUME JInv, Stayed, NEW t \in Tab, NEW s \in Session,
           s = State(durable').active, CopyOf(s, durable', begun'),
           Enter(t, s)
    PROVE  SyncedNext
<1> DEFINE v == view[t]
<1>0. /\ v \in View /\ HasLesson(v) /\ calls[t] \in SUBSET Call
      /\ s # NoSession
      /\ Synced(v, calls[t], durable', begun')
  BY NoSessionAssumption
     DEF HasLesson, JInv, PagesOK, NeverStranded, Stayed
<1>1. CASE SameKey(v, s) /\ view' = [view EXCEPT ![t].shown = s] /\ UNCHANGED calls
  <2> DEFINE w == [v EXCEPT !.shown = s]
  <2>1. v.shown = s
    BY <1>0, <1>1, SameShown DEF Synced, Copies
  <2>2. Alike(v, w)
    BY <1>0, <2>1 DEF Alike, View
  <2>3. /\ view' = [view EXCEPT ![t] = w]
        /\ calls' = [calls EXCEPT ![t] = calls[t]]
    BY <1>1 DEF JInv, PagesOK
  <2> HIDE DEF w
  <2>4. Synced(w, calls[t], durable', begun')
    BY <1>0, <2>2, AlikeSynced
  <2> QED  BY <2>3, <2>4, PageGoes DEF JInv
<1>2. CASE Leave(t, [Mounted(v, s) EXCEPT !.launching =
                       @ /\ v.screen = "lesson_run"], calls[t])
  <2> DEFINE launching == Mounted(v, s).launching /\ v.screen = "lesson_run"
             w == [Mounted(v, s) EXCEPT !.launching = launching]
  <2>1. launching \in BOOLEAN
    OBVIOUS
  <2>2. view' = [view EXCEPT ![t] = w]
        /\ calls' = [calls EXCEPT ![t] = Orphaned(calls[t])]
    BY <1>2 DEF Leave
  <2> HIDE DEF launching
  <2> QED  BY <1>0, <2>1, <2>2, RemountSynced
<1>3. CASE Leave(t, Away([v EXCEPT !.shown = s], "writing_pilot"), calls[t])
  <2> DEFINE w == Away([v EXCEPT !.shown = s], "writing_pilot")
  <2>1. [v EXCEPT !.shown = s] \in View /\ [v EXCEPT !.shown = s].shown = s
    BY <1>0 DEF View
  <2>2. w.screen = "writing_pilot" /\ w.ref = NoSession /\ w.shown = s
    BY <2>1, AwayFields
  <2>3. /\ view' = [view EXCEPT ![t] = w]
        /\ calls' = [calls EXCEPT ![t] = Orphaned(calls[t])]
    BY <1>3 DEF Leave
  <2> HIDE DEF w
  <2>4. Live(Orphaned(calls[t])) = {}
    BY <1>0, SilentOrphans
  <2>5. Synced(w, Orphaned(calls[t]), durable', begun')
    BY <2>2, <2>4, AwaySynced
  <2> QED  BY <2>3, <2>5, PageGoes DEF JInv
<1> QED  BY <1>1, <1>2, <1>3 DEF Enter

LEMMA UnavailableSynced ==
    ASSUME JInv, Stayed, NEW t \in Tab, NEW retryable,
           Unavailable(t, retryable)
    PROVE  SyncedNext
<1> DEFINE w == [Away(view[t], "load_error") EXCEPT
                   !.shown = NoSession, !.launching = FALSE,
                   !.retryable = retryable]
<1>1. view[t] \in View /\ calls[t] \in SUBSET Call
  BY DEF JInv, PagesOK
<1>2. w.screen = "load_error" /\ w.ref = NoSession /\ w.shown = NoSession
  BY <1>1, AwayFields
<1>3. Leave(t, w, calls[t])
  BY DEF Unavailable
<1> HIDE DEF w
<1> QED  BY <1>1, <1>2, <1>3, LeaveSynced

\* A step that leaves the pages alone.
LEMMA NothingShown ==
    ASSUME Stayed, UNCHANGED <<view, calls>>
    PROVE  SyncedNext
BY DEF Stayed, SyncedNext


-----------------------------------------------------------------------------
(* What the lesson screens propose continues the session they show.        *)

LEMMA DraftProposes ==
    ASSUME NEW s \in Session, Sturdy(s), NEW a \in Answer,
           s.index \notin Answered(s)
    PROVE  LET c == DraftCheckpoint(s, s.index, a) IN
           /\ c.submitted = s.submitted /\ c.index = s.index
           /\ c.assist = s.assist
           /\ ValidTransition(s, c)
<1> DEFINE c == DraftCheckpoint(s, s.index, a)
<1>1. /\ c.id = s.id /\ c.index = s.index /\ c.submitted = s.submitted
      /\ c.draft = [question |-> s.index, answer |-> a]
      /\ c.assist = s.assist /\ c.practice = s.practice
  BY DEF DraftCheckpoint, Session
<1> HIDE DEF c
<1>2. Answered(c) = Answered(s) /\ s.index \in Nat
  BY <1>1, LessonAssumption DEF Answered, Session, Question
<1>3. ValidTransition(s, c)
  BY <1>1, <1>2 DEF ValidTransition, FollowsPosition, KeepsSubmissions,
                    DraftFits, KeepsSupport, Sturdy
<1> QED  BY <1>1, <1>3 DEF c

LEMMA SubmitProposes ==
    ASSUME NEW s \in Session, Sturdy(s), NEW a \in Answer,
           s.index \notin Answered(s)
    PROVE  LET c == SubmitCheckpoint(s, s.index, a) IN
           /\ c.submitted = [s.submitted EXCEPT ![s.index] = a]
           /\ c.index = s.index /\ c.assist = s.assist
           /\ ValidTransition(s, c)
<1> DEFINE c == SubmitCheckpoint(s, s.index, a)
<1>1. c = [s EXCEPT !.index = s.index, !.submitted[s.index] = a,
                    !.draft = NoDraft]
  BY DEF SubmitCheckpoint
<1>2. /\ c.id = s.id /\ c.index = s.index
      /\ c.submitted = [s.submitted EXCEPT ![s.index] = a]
      /\ c.draft = NoDraft
      /\ c.assist = s.assist /\ c.practice = s.practice
  BY <1>1 DEF Session
<1> HIDE DEF c
<1>3. s.index \in Nat /\ s.index \in Question
      /\ s.submitted \in [Question -> Answer \union {NoAnswer}]
  BY LessonAssumption DEF Session, Question
<1>4. Answered(c) \subseteq Answered(s) \union {s.index}
  BY <1>2, <1>3 DEF Answered
<1>5. \A q \in Answered(s) : c.submitted[q] = s.submitted[q]
  BY <1>2, <1>3 DEF Answered
<1>6. ValidTransition(s, c)
  BY <1>2, <1>3, <1>4, <1>5
     DEF ValidTransition, FollowsPosition, KeepsSubmissions, DraftFits,
         KeepsSupport, Sturdy
<1> QED  BY <1>2, <1>6 DEF c

LEMMA AdvanceProposes ==
    ASSUME NEW s \in Session, Sturdy(s), s.index \in Answered(s)
    PROVE  LET c == AdvanceCheckpoint(s, s.index + 1) IN
           /\ c.submitted = s.submitted /\ c.index = s.index + 1
           /\ c.assist = s.assist
           /\ ValidTransition(s, c)
<1> DEFINE c == AdvanceCheckpoint(s, s.index + 1)
<1>1. /\ c.id = s.id /\ c.index = s.index + 1 /\ c.submitted = s.submitted
      /\ c.draft = NoDraft
      /\ c.assist = s.assist /\ c.practice = s.practice
  BY DEF AdvanceCheckpoint, Session
<1> HIDE DEF c
<1>2. Answered(c) = Answered(s) /\ s.index \in Nat
  BY <1>1, LessonAssumption DEF Answered, Session, Question
<1>3. \A q \in Answered(s) : q \in Nat /\ q <= s.index
  BY LessonAssumption DEF Sturdy, Answered, Question
<1>4. ValidTransition(s, c)
  BY <1>1, <1>2, <1>3
     DEF ValidTransition, FollowsPosition, KeepsSubmissions, DraftFits,
         KeepsSupport, Sturdy
<1> QED  BY <1>1, <1>4 DEF c

LEMMA AssistProposes ==
    ASSUME NEW s \in Session, Sturdy(s), NEW h \in Help
    PROVE  LET c == [s EXCEPT !.assist = s.assist \union {h}] IN
           /\ c.submitted = s.submitted /\ c.index = s.index
           /\ c.assist = s.assist \union {h}
           /\ ValidTransition(s, c)
<1> DEFINE c == [s EXCEPT !.assist = s.assist \union {h}]
<1>1. /\ c.id = s.id /\ c.index = s.index /\ c.submitted = s.submitted
      /\ c.draft = s.draft
      /\ c.assist = s.assist \union {h} /\ c.practice = s.practice
  BY DEF Session
<1> HIDE DEF c
<1>2. Answered(c) = Answered(s) /\ s.index \in Nat
  BY <1>1, LessonAssumption DEF Answered, Session, Question
<1>3. ValidTransition(s, c)
  BY <1>1, <1>2 DEF ValidTransition, FollowsPosition, KeepsSubmissions,
                    DraftFits, KeepsSupport, Sturdy
<1> QED  BY <1>1, <1>3 DEF c

\* A screen at the end of its session has the answers the result is for.
LEMMA EndSupports ==
    ASSUME NEW v \in View, v.ref # NoSession, Sturdy(v.ref),
           Reflects(v, v.ref), v.index = NQ, Feedback(v),
           KindOf[v.ref.id] # "fluency"
    PROVE  SupportsCompletion(v.ref, ScreenResult(v))
<1> DEFINE s == v.ref
<1>1. /\ s \in Session /\ s.index = NQ /\ NQ \in Nat /\ NQ \in Question
      /\ v.evals = s.submitted /\ v.assist = s.assist
  BY LessonAssumption DEF View, Reflects, Question
<1>2. \A q \in Question : q = NQ \/ q < NQ
  BY LessonAssumption DEF Question
<1>3. NQ \in Answered(s)
  BY <1>1 DEF Feedback, Answered
<1>4. Answered(s) = Question
  BY <1>1, <1>2, <1>3 DEF Sturdy, Answered
<1>5. /\ ScreenResult(v).graded = Graded(s)
      /\ ScreenResult(v).assisted = Cardinality(s.assist)
  BY <1>1 DEF ScreenResult, Graded
<1> QED  BY <1>1, <1>4, <1>5 DEF SupportsCompletion


-----------------------------------------------------------------------------
(* The learner's steps.                                                    *)

LEMMA ReadySynced ==
    ASSUME JInv, Stayed, NEW t \in Tab, Ready(t)
    PROVE  LET v == view[t] IN
           /\ v \in View /\ calls[t] \in SUBSET Call
           /\ v.screen = "lesson_run"
           /\ Live(calls[t]) = {}
           /\ v.ref # NoSession =>
                /\ v.ref \in Session /\ Sturdy(v.ref)
                /\ v.ref.id = v.shown.id => Reflects(v, v.ref)
<1> DEFINE v == view[t]
<1>1. v \in View /\ calls[t] \in SUBSET Call /\ v.screen = "lesson_run"
  BY DEF Ready, JInv, PagesOK
<1>2. Live(calls[t]) = {} /\ Asking(calls[t]) = {}
  BY DEF Ready, Pending, Live, Asking
<1>3. Synced(v, calls[t], durable', begun')
  BY DEF Stayed
<1>4. ASSUME v.ref # NoSession PROVE v.ref \in Session /\ Sturdy(v.ref)
  BY <1>1, <1>3, <1>4 DEF Synced, Copies, CopyOf, View
<1>5. v.ref # NoSession /\ v.ref.id = v.shown.id => Reflects(v, v.ref)
  BY <1>2, <1>3 DEF Synced, ScreenOK, Own
<1> QED  BY <1>1, <1>2, <1>4, <1>5

\* A step that sends one call for the session the page is built on.
LEMMA SendSynced ==
    ASSUME JInv, Stayed, NEW t \in Tab, Ready(t), NEW w, NEW c,
           LET v == view[t] IN
           /\ w.screen = v.screen /\ w.shown = v.shown /\ w.ref = v.ref
           /\ v.ref # NoSession => c.live /\ CallOK(w, c)
           /\ c.kind # "checkpoint" => Alike(v, w),
           view' = [view EXCEPT ![t] = w],
           calls' = [calls EXCEPT ![t] =
                       IF view[t].ref = NoSession THEN calls[t]
                       ELSE calls[t] \union {c}]
    PROVE  SyncedNext
<1> DEFINE v == view[t]
           cs == IF v.ref = NoSession THEN calls[t] ELSE calls[t] \union {c}
<1>1. /\ Live(calls[t]) = {}
      /\ v.ref # NoSession /\ v.ref.id = v.shown.id => Reflects(v, v.ref)
      /\ v.screen = "lesson_run"
  BY ReadySynced
<1>2. Synced(v, calls[t], durable', begun')
  BY DEF Stayed
<1>3. Copies(w) = Copies(v)
  BY DEF Copies
<1>4. CASE v.ref = NoSession
  <2>1. Live(cs) = {}
    BY <1>1, <1>4
  <2>2. Synced(w, cs, durable', begun')
    BY <1>1, <1>2, <1>3, <1>4, <2>1 DEF Synced, ScreenOK, Own
  <2> QED  BY <2>2, PageGoes DEF JInv
<1>5. CASE v.ref # NoSession
  <2>1. cs = calls[t] \union {c}
    BY <1>5
  <2> HIDE DEF cs
  <2>2. Live(cs) = {c}
    BY <1>1, <1>5, <2>1 DEF Live
  <2>3. ScreenOK(w, cs, State(durable'))
    <3>1. CASE c.kind = "checkpoint"
      <4>1. Asking(cs) # {}
        BY <2>2, <3>1 DEF Asking
      <4> QED  BY <1>1, <1>2, <4>1 DEF Synced, ScreenOK, Own
    <3>2. CASE c.kind # "checkpoint"
      <4>1. v.ref # NoSession /\ v.ref.id = v.shown.id => Reflects(w, v.ref)
        BY <1>1, <3>2 DEF Alike, Reflects
      <4> QED  BY <1>1, <1>2, <4>1 DEF Synced, ScreenOK, Own
    <3> QED  BY <3>1, <3>2
  <2>4. Synced(w, cs, durable', begun')
    BY <1>2, <1>3, <1>5, <2>2, <2>3 DEF Synced
  <2> QED  BY <2>4, PageGoes DEF JInv, cs
<1> QED  BY <1>4, <1>5

LEMMA ActSynced ==
    ASSUME JInv, Stayed, NEW t \in Tab, Ready(t), NEW w, NEW c,
           LET v == view[t] IN
           /\ w.screen = v.screen /\ w.shown = v.shown /\ w.ref = v.ref
           /\ v.ref # NoSession =>
                /\ c.id = v.ref.id /\ c.rev = v.ref.rev
                /\ v.ref.id = v.shown.id =>
                     Reflects(w, c) /\ Proposes(v.ref, c),
           Act(t, w, c)
    PROVE  SyncedNext
<1> DEFINE call == CheckpointCall(c)
<1>1. call.live /\ call.kind = "checkpoint" /\ call.session = c
  BY DEF CheckpointCall
<1>2. /\ view' = [view EXCEPT ![t] = w]
      /\ calls' = [calls EXCEPT ![t] =
                     IF view[t].ref = NoSession THEN calls[t]
                     ELSE calls[t] \union {call}]
  BY DEF Act, Keep
<1> HIDE DEF call
<1>3. view[t].ref # NoSession => CallOK(w, call)
  BY <1>1 DEF CallOK
<1> QED  BY <1>1, <1>2, <1>3, SendSynced

LEMMA AnswersSynced ==
    ASSUME JInv, Stayed, NEW t \in Tab
    PROVE  /\ \A a \in Answer : Select(t, a) => SyncedNext
           /\ Submit(t) => SyncedNext
           /\ NextQuestion(t) => SyncedNext
           /\ \A h \in Help : RequestAssistance(t, h) => SyncedNext
<1> DEFINE v == view[t]
           s == v.ref
<1>1. ASSUME Ready(t)
      PROVE  /\ v \in View
             /\ v.index \in Question /\ v.assist \in SUBSET Help
             /\ v.evals \in [Question -> Answer \union {NoAnswer}]
             /\ v.selected # NoAnswer => v.selected \in Answer
             /\ s # NoSession =>
                  /\ s \in Session /\ Sturdy(s)
                  /\ s.id = v.shown.id => Reflects(v, s)
  BY <1>1, ReadySynced DEF View
<1>2. Feedback(v) /\ Reflects(v, s) =>
        v.index = s.index /\ s.index \in Answered(s)
  <2> SUFFICES ASSUME v.index \in Question, Reflects(v, s), Feedback(v)
               PROVE  s.index \in Answered(s)
    BY DEF Reflects, JInv, PagesOK, View
  <2> QED  BY DEF Reflects, Feedback, Answered
<1>3. ASSUME NEW a \in Answer, Select(t, a) PROVE SyncedNext
  <2> DEFINE w == [v EXCEPT !.selected = a]
             c == DraftCheckpoint(s, v.index, a)
  <2>0. Ready(t) /\ ~Feedback(v) /\ Act(t, w, c)
    BY <1>3 DEF Select
  <2>1. /\ w.screen = v.screen /\ w.shown = v.shown /\ w.ref = v.ref
        /\ w.evals = v.evals /\ w.index = v.index /\ w.assist = v.assist
    BY <1>1, <2>0 DEF View
  <2>2. s # NoSession => c.id = s.id /\ c.rev = s.rev
    BY <1>1, <2>0 DEF DraftCheckpoint, Session
  <2>3. ASSUME s # NoSession, s.id = v.shown.id
        PROVE  Reflects(w, c) /\ Proposes(s, c)
    <3>1. Reflects(v, s) /\ s.index = v.index /\ s.index \notin Answered(s)
      BY <1>1, <2>0, <2>3 DEF Reflects, Feedback, Answered
    <3> QED  BY <1>1, <2>0, <2>1, <2>3, <3>1, DraftProposes DEF Reflects, Proposes
  <2> HIDE DEF w, c
  <2> QED  BY <2>0, <2>1, <2>2, <2>3, ActSynced
<1>4. ASSUME Submit(t) PROVE SyncedNext
  <2> DEFINE w == [v EXCEPT !.evals[v.index] = v.selected]
             c == SubmitCheckpoint(s, v.index, v.selected)
  <2>0. /\ Ready(t) /\ v.selected \in Answer /\ Act(t, w, c)
        /\ s # NoSession => v.index \notin Answered(s)
    BY <1>1, <1>4 DEF Submit
  <2>1. /\ w.screen = v.screen /\ w.shown = v.shown /\ w.ref = v.ref
        /\ w.evals = [v.evals EXCEPT ![v.index] = v.selected]
        /\ w.index = v.index /\ w.assist = v.assist
    BY <1>1, <2>0 DEF View
  <2>2. s # NoSession => c.id = s.id /\ c.rev = s.rev
    BY <1>1, <2>0 DEF SubmitCheckpoint, Session
  <2>3. ASSUME s # NoSession, s.id = v.shown.id
        PROVE  Reflects(w, c) /\ Proposes(s, c)
    <3>1. Reflects(v, s) /\ s.index = v.index /\ s.index \notin Answered(s)
      BY <1>1, <2>0, <2>3 DEF Reflects
    <3> QED
      BY <1>1, <2>0, <2>1, <2>3, <3>1, SubmitProposes DEF Reflects, Proposes
  <2> HIDE DEF w, c
  <2> QED  BY <2>0, <2>1, <2>2, <2>3, ActSynced
<1>5. ASSUME NextQuestion(t) PROVE SyncedNext
  <2> DEFINE w == [v EXCEPT !.index = v.index + 1, !.selected = NoAnswer]
             c == AdvanceCheckpoint(s, v.index + 1)
  <2>0. Ready(t) /\ Feedback(v) /\ Act(t, w, c)
    BY <1>5 DEF NextQuestion
  <2>1. /\ w.screen = v.screen /\ w.shown = v.shown /\ w.ref = v.ref
        /\ w.evals = v.evals /\ w.index = v.index + 1 /\ w.assist = v.assist
    BY <1>1, <2>0 DEF View
  <2>2. s # NoSession => c.id = s.id /\ c.rev = s.rev
    BY <1>1, <2>0 DEF AdvanceCheckpoint, Session
  <2>3. ASSUME s # NoSession, s.id = v.shown.id
        PROVE  Reflects(w, c) /\ Proposes(s, c)
    <3>1. Reflects(v, s) /\ s.index = v.index /\ s.index \in Answered(s)
      BY <1>1, <1>2, <2>0, <2>3
    <3> QED
      BY <1>1, <2>0, <2>1, <2>3, <3>1, AdvanceProposes DEF Reflects, Proposes
  <2> HIDE DEF w, c
  <2> QED  BY <2>0, <2>1, <2>2, <2>3, ActSynced
<1>6. ASSUME NEW h \in Help, RequestAssistance(t, h) PROVE SyncedNext
  <2> DEFINE events == v.assist \union {h}
             w == [v EXCEPT !.assist = events]
             c == [s EXCEPT !.assist = events]
  <2>0. Ready(t) /\ Act(t, w, c)
    BY <1>6 DEF RequestAssistance
  <2>1. /\ w.screen = v.screen /\ w.shown = v.shown /\ w.ref = v.ref
        /\ w.evals = v.evals /\ w.index = v.index /\ w.assist = events
    BY <1>1, <2>0 DEF View
  <2>2. s # NoSession => c.id = s.id /\ c.rev = s.rev
    BY <1>1, <2>0 DEF Session
  <2>3. ASSUME s # NoSession, s.id = v.shown.id
        PROVE  Reflects(w, c) /\ Proposes(s, c)
    <3>1. Reflects(v, s) /\ v.assist = s.assist
      BY <1>1, <2>0, <2>3 DEF Reflects
    <3> QED
      BY <1>1, <2>0, <2>1, <2>3, <3>1, AssistProposes DEF Reflects, Proposes
  <2> HIDE DEF w, c
  <2> QED  BY <2>0, <2>1, <2>2, <2>3, ActSynced
<1> QED  BY <1>3, <1>4, <1>5, <1>6

LEMMA CompleteSynced ==
    ASSUME JInv, Stayed, NEW t \in Tab, CompleteLesson(t)
    PROVE  SyncedNext
<1> DEFINE v == view[t]
           r == ScreenResult(v)
           w == [v EXCEPT !.sent = TRUE]
           c == CompleteCall(r)
<1>1. /\ Ready(t) /\ Feedback(v) /\ v.index = NQ /\ v.ref # NoSession
      /\ view' = [view EXCEPT ![t] = w]
      /\ calls' = [calls EXCEPT ![t] = IF v.ref = NoSession THEN calls[t]
                                       ELSE calls[t] \union {c}]
  BY DEF CompleteLesson, Keep
<1>2. /\ v \in View /\ v.ref \in Session /\ Sturdy(v.ref)
      /\ v.ref.id = v.shown.id => Reflects(v, v.ref)
  BY <1>1, ReadySynced
<1>3. Alike(v, w)
  BY <1>2 DEF Alike, View
<1>4. c.live /\ c.kind = "complete" /\ c.result = r
  BY DEF CompleteCall
<1>5. r.id = v.ref.id /\ r.rev = v.ref.rev
  BY DEF ScreenResult
<1>6. v.ref.id = v.shown.id /\ KindOf[v.ref.id] # "fluency"
        => SupportsCompletion(v.ref, r)
  BY <1>1, <1>2, EndSupports
<1> HIDE DEF w, c, r
<1>7. CallOK(w, c)
  BY <1>1, <1>3, <1>4, <1>5, <1>6 DEF CallOK, Alike
<1>8. w.screen = v.screen /\ w.shown = v.shown /\ w.ref = v.ref
  BY <1>3 DEF Alike
<1> QED  BY <1>1, <1>3, <1>4, <1>7, <1>8, SendSynced


-----------------------------------------------------------------------------
(* The shell's own steps and the events it hears of.                       *)

LEMMA AwayQuiet ==
    ASSUME JInv, Stayed, NEW t \in Tab, view[t].screen # "lesson_run"
    PROVE  /\ view[t].ref = NoSession /\ Live(calls[t]) = {}
           /\ view[t].shown # NoSession =>
                CopyOf(view[t].shown, durable', begun')
BY DEF Stayed, Synced, ScreenOK, CallOK, Copies

LEMMA OpenSynced ==
    ASSUME JInv, Stayed, NEW t \in Tab, OpenPage(t)
    PROVE  SyncedNext
<1> DEFINE v == view[t]
<1>1. PICK w : /\ view' = [view EXCEPT ![t] = w]
               /\ w.screen # "lesson_run"
               /\ w.ref = v.ref /\ w.shown = v.shown
  <2>1. CASE view' = [view EXCEPT ![t].screen = "loading",
                                  ![t].launching = TRUE]
    <3> DEFINE w == [v EXCEPT !.screen = "loading", !.launching = TRUE]
    <3>1. view' = [view EXCEPT ![t] = w]
      BY <2>1 DEF JInv, PagesOK
    <3>2. w.screen # "lesson_run" /\ w.ref = v.ref /\ w.shown = v.shown
      BY DEF JInv, PagesOK, View
    <3> QED  BY <3>1, <3>2
  <2>2. CASE view' = [view EXCEPT ![t].screen = "parent_gate",
                                  ![t].parent = TRUE, ![t].launching = FALSE]
    <3> DEFINE w == [v EXCEPT !.screen = "parent_gate", !.parent = TRUE,
                              !.launching = FALSE]
    <3>1. view' = [view EXCEPT ![t] = w]
      BY <2>2 DEF JInv, PagesOK
    <3>2. w.screen # "lesson_run" /\ w.ref = v.ref /\ w.shown = v.shown
      BY DEF JInv, PagesOK, View
    <3> QED  BY <3>1, <3>2
  <2> QED  BY <2>1, <2>2 DEF OpenPage
<1>2. v.screen # "lesson_run" /\ calls' = [calls EXCEPT ![t] = calls[t]]
  BY DEF OpenPage, JInv, PagesOK
<1>3. Synced(w, calls[t], durable', begun')
  BY <1>1, <1>2, AwayQuiet, AwaySynced
<1> QED  BY <1>1, <1>2, <1>3, PageGoes DEF JInv

LEMMA ShellSynced ==
    ASSUME JInv, Stayed, NEW t \in Tab,
           \/ LeaveWithoutSession(t) \/ Retry(t) \/ FinishWriting(t)
           \/ OpenParent(t) \/ LeaveParent(t) \/ WakeUp(t)
           \/ ScheduleWriting(t)
    PROVE  SyncedNext
<1> DEFINE v == view[t]
<1>1. v \in View /\ calls[t] \in SUBSET Call
  BY DEF JInv, PagesOK
<1>2. ASSUME NEW u \in View, u.shown = v.shown, NEW screen,
             screen \in {"loading", "writing_pilot"},
             Leave(t, Away(u, screen), calls[t])
      PROVE  SyncedNext
  <2> DEFINE w == Away(u, screen)
  <2>1. w.screen # "lesson_run" /\ w.ref = NoSession /\ w.shown = v.shown
    BY <1>2, AwayFields
  <2> HIDE DEF w
  <2>2. Leave(t, w, calls[t])
    BY <1>2 DEF w
  <2> QED  BY <1>1, <2>1, <2>2, LeaveSynced
<1>3. CASE LeaveWithoutSession(t) \/ Retry(t)
  BY <1>1, <1>2, <1>3 DEF LeaveWithoutSession, Retry
<1>4. CASE FinishWriting(t)
  <2>1. CASE Leave(t, Away(v, "loading"), calls[t])
    BY <1>1, <1>2, <2>1
  <2>2. CASE /\ v.shown # NoSession
             /\ Leave(t, [Mounted(v, v.shown) EXCEPT !.launching = FALSE],
                      calls[t])
    <3>1. v.shown \in Session /\ CopyOf(v.shown, durable', begun')
      BY <1>1, <2>2 DEF View, Stayed, Synced, Copies
    <3> DEFINE w == [Mounted(v, v.shown) EXCEPT !.launching = FALSE]
    <3>2. view' = [view EXCEPT ![t] = w]
          /\ calls' = [calls EXCEPT ![t] = Orphaned(calls[t])]
      BY <2>2 DEF Leave
    <3> QED  BY <1>1, <3>1, <3>2, RemountSynced
  <2> QED  BY <1>4, <2>1, <2>2 DEF FinishWriting
<1>5. CASE OpenParent(t)
  <2> DEFINE w == [Away(v, "parent_gate") EXCEPT
                     !.parent = TRUE, !.launching = FALSE]
  <2>1. w.screen # "lesson_run" /\ w.ref = NoSession /\ w.shown = v.shown
    BY <1>1, AwayFields
  <2>2. Leave(t, w, calls[t])
    BY <1>5 DEF OpenParent
  <2> HIDE DEF w
  <2> QED  BY <1>1, <2>1, <2>2, LeaveSynced
<1>6. CASE LeaveParent(t)
  <2> DEFINE u == [v EXCEPT !.parent = FALSE]
  <2>1. u \in View /\ Alike(v, u) /\ u.shown = v.shown
    BY <1>1 DEF View, Alike
  <2>2. IF u.screen = "parent_gate"
        THEN Leave(t, Away(u, "loading"), calls[t])
        ELSE /\ view' = [view EXCEPT ![t] = [u EXCEPT !.launching = TRUE]]
             /\ UNCHANGED calls
    BY <1>6 DEF LeaveParent
  <2> HIDE DEF u
  <2>3. CASE Leave(t, Away(u, "loading"), calls[t])
    BY <1>2, <2>1, <2>3
  <2>4. CASE /\ view' = [view EXCEPT ![t] = [u EXCEPT !.launching = TRUE]]
             /\ UNCHANGED calls
    <3> DEFINE w == [u EXCEPT !.launching = TRUE]
    <3>1. Alike(v, w)
      BY <2>1 DEF View, Alike
    <3>2. /\ view' = [view EXCEPT ![t] = w]
          /\ calls' = [calls EXCEPT ![t] = calls[t]]
      BY <2>4 DEF JInv, PagesOK
    <3> HIDE DEF w
    <3>3. Synced(w, calls[t], durable', begun')
      BY <3>1, AlikeSynced DEF Stayed
    <3> QED  BY <3>2, <3>3, PageGoes DEF JInv
  <2> QED  BY <2>2, <2>3, <2>4
<1>7. CASE WakeUp(t)
  <2>1. Alike(v, v) /\ LaunchFrom(t, v, calls[t])
    BY <1>7 DEF WakeUp, Alike
  <2> QED  BY <1>1, <2>1, KeepSynced
<1>8. CASE ScheduleWriting(t)
  BY <1>1, <1>2, <1>8, NothingShown DEF ScheduleWriting
<1> QED  BY <1>3, <1>4, <1>5, <1>6, <1>7, <1>8

\* A storage event shows the record's own active session, or keeps or
\* launches what is there.
LEMMA EventSynced ==
    ASSUME Before, Stayed, NEW t \in Tab, StorageEvent(t)
    PROVE  SyncedNext
<1> DEFINE v == view[t]
           active == IF Readable(durable) /\ ~v.parent THEN durable.active
                     ELSE seen[t]
<1>1. /\ JInv /\ LInv /\ RecordOK /\ v \in View /\ HasLesson(v)
      /\ calls[t] \in SUBSET Call
      /\ durable' = durable /\ begun' = begun
      /\ Alike(v, v) /\ SamePlace(v, v)
  BY DEF Before, JInv, PagesOK, NeverStranded, HasLesson, StorageEvent, vars,
         Alike, SamePlace
<1>2. CASE Keep(t, v, calls[t]) \/ LaunchFrom(t, v, calls[t])
  BY <1>1, <1>2, KeepSynced
<1>3. CASE /\ ~v.parent /\ v.screen = "lesson_run" /\ active # NoSession
           /\ active.rev # v.shown.rev
           /\ Show(t, v, active, calls[t])
  <2>1. v.shown \in Copies(v)
    BY <1>1, <1>3 DEF HasLesson, Copies
  <2>2. Readable(durable) /\ Settled(Record)
    BY <2>1 DEF Before, PageSynced, Synced, CopyOf, Record
  <2>3. active = Record.active
    BY <1>3, <2>2 DEF Record, State
  <2> HIDE DEF active
  <2>4. Sound(State(durable), begun, credits) /\ Record = State(durable)
    BY <1>1 DEF LInv, IInv, Record
  <2>5. Sturdy(active) /\ active \in Session
    BY <1>1, <1>3, <2>3, <2>4 DEF RecordOK, Sound, Progress
  <2>6. CopyOf(active, durable', begun')
    BY <1>1, <1>3, <2>2, <2>3, <2>4, <2>5, ActiveCopy
  <2>7. Synced(v, calls[t], durable', begun')
    BY DEF Stayed
  <2>8. active = State(durable').active
    BY <1>1, <2>3 DEF Record
  <2> QED  BY <1>1, <1>3, <2>5, <2>6, <2>7, <2>8, ShowSynced
<1> QED  BY <1>2, <1>3 DEF StorageEvent


-----------------------------------------------------------------------------
(* The replies of the hook when nothing fails.                             *)

LEMMA NoFault ==
    ASSUME JInv, NEW o, Charge(o), faults' = 0
    PROVE  o.status # "storage_error"
BY JourneyAssumption DEF JInv, EventsOK, Charge

LEMMA CheckpointResult ==
    ASSUME LInv, RecordOK, job # NoJob, NEW s \in Session, s.rev < MaxRev,
           NEW o \in CheckpointOutcomes(s), o.status # "storage_error",
           durable' = o.durable
    PROVE  LET old == Record.active
               new == Record'.active IN
           /\ o.progress.active = new
           /\ old # NoSession => old \in Session
           /\ \/ /\ o.status = "saved" /\ new = Accepted(s)
              \/ /\ new = old
                 /\ \/ /\ o.status = "unchanged"
                       /\ old # NoSession /\ old.id = s.id
                       /\ Repeats(old, s)
                    \/ /\ o.status = "ignored_completed"
                       /\ s.id \in CompletedIds(Record)
                    \/ /\ o.status = "conflict"
                       /\ old.id # s.id
                    \/ /\ o.status = "ignored_stale"
                       /\ old # NoSession /\ old.id = s.id =>
                            ~Repeats(old, s) /\ ~Continues(old, s)
<1> DEFINE p == Record
           P == [p EXCEPT !.active = Accepted(s)]
<1>1. /\ job.progress = p /\ job.read = durable /\ durable # Unreadable
      /\ p \in Progress
  BY HeldSound DEF RecordOK, LInv, Held, Sound
<1>2. p.active # NoSession => p.active \in Session
  BY <1>1 DEF Progress
<1>3. CASE o \in Persist(P)
  <2>1. P \in Progress /\ P.active = Accepted(s)
    BY <1>1, AcceptedType, WithActive
  <2> HIDE DEF P
  <2>2. o.durable = P /\ o.progress = P /\ o.status = "saved"
    BY <1>1, <1>3 DEF Persist, Outcome
  <2>3. Record' = P
    BY <2>1, <2>2, RawAssumption DEF Record, State, Readable
  <2> QED  BY <1>2, <2>1, <2>2, <2>3
<1>4. ASSUME NEW status, o = Unsaved(status)
      PROVE  /\ o.status = status /\ o.progress = p
             /\ Record' = p
  <2>1. o.status = status /\ o.progress = p /\ o.durable = durable
    BY <1>1, <1>4 DEF Unsaved, Outcome
  <2> QED  BY <2>1 DEF Record
<1> HIDE DEF p
<1>5. CASE s.id \in CompletedIds(p)
  <2>1. o = Unsaved("ignored_completed")
    BY <1>1, <1>5 DEF CheckpointOutcomes
  <2> QED  BY <1>2, <1>4, <1>5, <2>1 DEF p
<1>6. CASE s.id \notin CompletedIds(p) /\ p.active # NoSession /\ p.active.id # s.id
  <2>1. o = Unsaved("conflict")
    BY <1>1, <1>6 DEF CheckpointOutcomes
  <2> QED  BY <1>2, <1>4, <1>6, <2>1 DEF p
<1>7. CASE /\ s.id \notin CompletedIds(p)
           /\ p.active # NoSession /\ p.active.id = s.id
           /\ Repeats(p.active, s)
  <2>1. o = Unsaved("unchanged")
    BY <1>1, <1>7 DEF CheckpointOutcomes
  <2> QED  BY <1>2, <1>4, <1>7, <2>1 DEF p
<1>8. CASE /\ s.id \notin CompletedIds(p)
           /\ p.active # NoSession /\ p.active.id = s.id
           /\ ~Repeats(p.active, s) /\ Continues(p.active, s)
  <2>1. o \in Persist(P)
    BY <1>1, <1>8 DEF CheckpointOutcomes
  <2> QED  BY <1>3, <2>1
<1>9. CASE /\ s.id \notin CompletedIds(p)
           /\ p.active # NoSession => p.active.id = s.id
           /\ p.active # NoSession /\ p.active.id = s.id =>
                ~Repeats(p.active, s) /\ ~Continues(p.active, s)
  <2>1. o = Unsaved("ignored_stale")
    BY <1>1, <1>9 DEF CheckpointOutcomes
  <2> QED  BY <1>2, <1>4, <1>9, <2>1 DEF p
<1> QED  BY <1>5, <1>6, <1>7, <1>8, <1>9

\* The active session after a step, for a page that has a copy of any.
LEMMA ActiveCopied ==
    ASSUME LInv', RecordOK', NEW v, NEW cs, Synced(v, cs, durable', begun'),
           Copies(v) # {}, Record'.active # NoSession
    PROVE  CopyOf(Record'.active, durable', begun')
<1>1. Readable(durable') /\ Settled(State(durable'))
  BY DEF Synced, CopyOf
<1>2. /\ Sound(State(durable'), begun', credits')
      /\ Record' = State(durable')
  BY DEF LInv, IInv, Record
<1>3. Sturdy(State(durable').active)
  BY <1>2 DEF RecordOK
<1>4. State(durable').active # NoSession
  BY <1>2
<1> QED  BY <1>1, <1>2, <1>3, <1>4, ActiveCopy

\* sessionRef takes the session the hook reports.
LEMMA RefSynced ==
    ASSUME LInv', RecordOK', NEW v, NEW w, NEW cs, NEW ds,
           Synced(v, cs, durable', begun'),
           v.screen = "lesson_run", HasLesson(v),
           w.screen = v.screen, w.shown = v.shown, w.ref = Record'.active,
           Live(ds) = {},
           w.ref # NoSession /\ w.ref.id = v.shown.id => Reflects(w, w.ref)
    PROVE  Synced(w, ds, durable', begun')
<1> DEFINE a == Record'.active
<1>1. v.shown \in Copies(v)
  BY DEF Copies, HasLesson
<1>2. a # NoSession => CopyOf(a, durable', begun')
  BY <1>1, ActiveCopied
<1>3. a # NoSession /\ a.id = v.shown.id => v.shown.rev <= a.rev
  BY <1>1 DEF Synced, CopyOf, Older, Record
<1>4. Asking(ds) = {} /\ Copies(w) \subseteq Copies(v) \union ({a} \ {NoSession})
  BY DEF Asking, Copies
<1>5. ScreenOK(w, ds, State(durable'))
  BY <1>3 DEF ScreenOK, Own, Record
<1> QED  BY <1>2, <1>4, <1>5 DEF Synced


\* A reply to a screen that is gone changes no screen but for the session the
\* shell shows.
LEMMA LateReplySynced ==
    ASSUME JInv, Stayed, LInv', RecordOK', NEW t \in Tab, NEW c \in Call,
           ~c.live, NEW status,
           CheckpointReply(t, c, status, Record'.active)
    PROVE  SyncedNext
<1> DEFINE v == view[t]
           cs == calls[t] \ {c}
           a == Record'.active
<1>1. /\ v \in View /\ cs \in SUBSET Call /\ HasLesson(v)
      /\ Live(cs) = Live(calls[t])
      /\ Alike(v, v) /\ SamePlace(v, v)
  BY DEF JInv, PagesOK, NeverStranded, HasLesson, Live, Alike, SamePlace
<1>2. Synced(v, calls[t], durable', begun')
  BY DEF Stayed
<1>3. Synced(v, cs, durable', begun')
  BY <1>1, <1>2, AlikeSynced
<1>4. \/ Keep(t, v, cs) \/ LaunchFrom(t, v, cs)
      \/ a # NoSession /\ Show(t, v, a, cs)
  BY DEF CheckpointReply
<1>5. CASE Keep(t, v, cs) \/ LaunchFrom(t, v, cs)
  BY <1>1, <1>5, KeepSynced
<1>6. CASE a # NoSession /\ Show(t, v, a, cs) /\ Copies(v) # {}
  <2>1. CopyOf(a, durable', begun')
    BY <1>2, <1>6, ActiveCopied
  <2>2. a \in Session /\ a = State(durable').active
    BY <1>6 DEF LInv, IInv, Sound, Progress, Record
  <2> HIDE DEF a
  <2> QED  BY <1>1, <1>3, <1>6, <2>1, <2>2, ShowSynced
<1>7. CASE a # NoSession /\ Show(t, v, a, cs) /\ Copies(v) = {}
  <2>1. v.shown = NoSession /\ v.screen # "lesson_run"
    BY <1>1, <1>7 DEF Copies, HasLesson
  <2> DEFINE w == [v EXCEPT !.shown = IF v.shown = NoSession THEN v.shown
                                      ELSE a]
  <2>2. view' = [view EXCEPT ![t] = w] /\ calls' = [calls EXCEPT ![t] = cs]
    BY <1>7, <2>1 DEF Show
  <2>3. Alike(v, w)
    BY <1>1, <2>1 DEF Alike, View
  <2> HIDE DEF w
  <2>4. Synced(w, cs, durable', begun')
    BY <1>3, <2>3, AlikeSynced
  <2> QED  BY <2>2, <2>4, PageGoes DEF JInv
<1> QED  BY <1>4, <1>5, <1>6, <1>7

LEMMA LiveReplySynced ==
    ASSUME Before, Stayed, LInv', RecordOK', job # NoJob, NEW t \in Tab,
           NEW c \in calls[t], c.live, c.kind = "checkpoint",
           c.session.rev < MaxRev,
           NEW o \in CheckpointOutcomes(c.session),
           o.status # "storage_error", durable' = o.durable,
           CheckpointReply(t, c, o.status, o.progress.active)
    PROVE  SyncedNext
<1> DEFINE v == view[t]
           s == c.session
           old == Record.active
           a == Record'.active
           cs == calls[t] \ {c}
           w == [v EXCEPT !.ref = a]
<1>1. /\ v \in View /\ calls[t] \in SUBSET Call /\ HasLesson(v)
      /\ c \in Call /\ s \in Session /\ JInv /\ LInv /\ RecordOK
  BY CallTypes DEF Before, JInv, PagesOK, NeverStranded, HasLesson
<1>2. /\ Synced(v, calls[t], durable, begun)
      /\ Synced(v, calls[t], durable', begun')
  BY DEF Before, PageSynced, Stayed
<1>3. /\ c \in Live(calls[t]) /\ Live(cs) = {} /\ cs \in SUBSET Call
  BY <1>1, <1>2 DEF Live, Synced
<1>4. /\ v.ref # NoSession /\ s.id = v.ref.id /\ s.rev = v.ref.rev
      /\ v.ref.id = v.shown.id => Reflects(v, s) /\ Proposes(v.ref, s)
      /\ v.screen = "lesson_run" /\ v.shown # NoSession
  BY <1>1, <1>2, <1>3 DEF Synced, CallOK, ScreenOK, HasLesson
<1>5. /\ v.ref \in Copies(v) /\ v.shown \in Copies(v)
      /\ v.ref \in Session /\ v.shown \in Session
  BY <1>1, <1>4 DEF Copies, View
<1>6. Settled(Record)
  BY <1>2, <1>5 DEF Synced, CopyOf, Record
<1>7. /\ o.progress.active = a
      /\ old # NoSession => old \in Session
      /\ \/ o.status = "saved" /\ a = Accepted(s)
         \/ /\ a = old
            /\ \/ /\ o.status = "unchanged"
                  /\ old # NoSession /\ old.id = s.id /\ Repeats(old, s)
               \/ /\ o.status = "ignored_completed"
                  /\ s.id \in CompletedIds(Record)
               \/ o.status = "conflict" /\ old.id # s.id
               \/ /\ o.status = "ignored_stale"
                  /\ old # NoSession /\ old.id = s.id =>
                       ~Repeats(old, s) /\ ~Continues(old, s)
  BY <1>1, CheckpointResult
<1>8. a # NoSession => a \in Session
  BY DEF LInv, IInv, Sound, Progress, Record
<1>9. a = State(durable').active
  BY DEF Record
<1>10. a # NoSession => CopyOf(a, durable', begun')
  BY <1>2, <1>5, ActiveCopied
<1>11. /\ w \in View /\ w.screen = v.screen /\ w.shown = v.shown /\ w.ref = a
       /\ w.evals = v.evals /\ w.index = v.index /\ w.assist = v.assist
       /\ SamePlace(w, v)
  BY <1>1, <1>8 DEF View, SamePlace
<1>12. \/ o.status \in {"saved", "unchanged"} /\ Keep(t, w, cs)
       \/ /\ o.status \notin {"saved", "unchanged"}
          /\ a # NoSession /\ a.id = s.id /\ Show(t, w, a, cs)
       \/ /\ ~(a # NoSession /\ a.id = s.id)
          /\ LaunchFrom(t, w, cs)
  BY <1>7 DEF CheckpointReply, Failures
<1> HIDE DEF a, w, cs
<1>13. ASSUME a # NoSession /\ a.id = v.shown.id => Reflects(w, a)
       PROVE  Synced(w, cs, durable', begun')
  BY <1>1, <1>2, <1>3, <1>4, <1>11, <1>13, RefSynced DEF a
<1>14. CASE o.status \in {"saved", "unchanged"} /\ Keep(t, w, cs)
  <2>1. a.id = s.id /\ a.submitted = s.submitted /\ a.index = s.index
        /\ a.assist = s.assist
    <3>1. CASE a = Accepted(s)
      BY <1>1, <3>1 DEF Accepted, Session
    <3>2. CASE o.status = "unchanged"
      <4>1. a \in Session /\ a.id = s.id /\ SamePayload(a, s)
        BY <1>7, <3>2 DEF Repeats
      <4>2. [a EXCEPT !.rev = 0] = [s EXCEPT !.rev = 0]
        BY <4>1 DEF SamePayload
      <4>3. \A x \in Session :
              LET y == [x EXCEPT !.rev = 0] IN
              /\ y.submitted = x.submitted /\ y.index = x.index
              /\ y.assist = x.assist
        BY DEF Session
      <4> QED  BY <1>1, <4>1, <4>2, <4>3
    <3> QED  BY <1>7, <1>14, <3>1, <3>2
  <2>2. a.id = v.shown.id => Reflects(w, a)
    BY <1>4, <1>11, <2>1 DEF Reflects
  <2>3. Synced(w, cs, durable', begun')
    BY <1>13, <2>2
  <2> QED  BY <1>1, <1>14, <2>3, PageGoes DEF JInv, Keep
<1>15. CASE /\ o.status \notin {"saved", "unchanged"}
            /\ a # NoSession /\ a.id = s.id /\ Show(t, w, a, cs)
  <2>1. o.status = "ignored_stale" /\ a = old /\ ~Repeats(a, s) /\ ~Continues(a, s)
    <3>1. a = old /\ s.id \notin CompletedIds(Record)
      BY <1>6, <1>7, <1>15 DEF Settled
    <3> QED  BY <1>7, <1>15, <3>1
  <2>2. ~SameKey(w, a)
    <3> SUFFICES ASSUME w.shown.id = a.id, w.shown.rev = a.rev PROVE FALSE
      BY DEF SameKey
    <3>1. v.ref.id = v.shown.id /\ v.shown.rev <= v.ref.rev
      BY <1>2, <1>4, <1>11, <1>15 DEF Synced, ScreenOK, Own
    <3>2. Older(v.ref, Record')
      BY <1>2, <1>5 DEF Synced, CopyOf, Record
    <3>3. v.ref.rev <= a.rev /\ (v.ref.rev = a.rev => v.ref = a)
      BY <1>4, <1>15, <3>2 DEF Older, a
    <3>4. v.ref = a
      <4>1. v.ref.rev \in Nat /\ a.rev \in Nat
        BY <1>5, <1>8, <1>15, LessonAssumption DEF Session
      <4> QED  BY <1>11, <3>1, <3>3, <4>1
    <3>5. s.rev = a.rev /\ (SamePayload(a, s) \/ ValidTransition(a, s))
      BY <1>4, <3>1, <3>4 DEF Proposes
    <3> QED  BY <2>1, <3>5 DEF Repeats, Continues
  <2>3. w.screen = "lesson_run"
    BY <1>4, <1>11
  <2> QED
    BY <1>1, <1>3, <1>8, <1>9, <1>10, <1>11, <1>15, <2>2, <2>3, ShowSynced
<1>16. CASE ~(a # NoSession /\ a.id = s.id) /\ LaunchFrom(t, w, cs)
  <2>1. ~(a # NoSession /\ a.id = v.shown.id)
    BY <1>2, <1>4, <1>9, <1>16 DEF Synced, ScreenOK, Own
  <2>2. Synced(w, cs, durable', begun')
    BY <1>13, <2>1
  <2> DEFINE u == [w EXCEPT !.launching = TRUE]
  <2>3. Alike(w, u)
    BY <1>11 DEF Alike, View
  <2>4. view' = [view EXCEPT ![t] = u] /\ calls' = [calls EXCEPT ![t] = cs]
    BY <1>16 DEF LaunchFrom
  <2> HIDE DEF u
  <2>5. Synced(u, cs, durable', begun')
    BY <2>2, <2>3, AlikeSynced
  <2> QED  BY <1>1, <2>4, <2>5, PageGoes DEF JInv
<1> QED  BY <1>12, <1>14, <1>15, <1>16

LEMMA CheckpointSynced ==
    ASSUME Before, Stayed, LInv', RecordOK', faults' = 0, NEW t \in Tab,
           RunCheckpoint(t)
    PROVE  SyncedNext
<1>1. JInv /\ LInv /\ RecordOK
  BY DEF Before
<1>2. PICK c \in calls[t] :
        /\ c.kind = "checkpoint"
        /\ Holds(t, {"checkpoint"})
        /\ \E o \in CheckpointOutcomes(c.session) :
            /\ Checkpoint(t, c.session, o)
            /\ CheckpointReply(t, c, o.status, o.progress.active)
            /\ Settle(t, o)
  BY DEF RunCheckpoint
<1>3. PICK o \in CheckpointOutcomes(c.session) :
        /\ Checkpoint(t, c.session, o)
        /\ CheckpointReply(t, c, o.status, o.progress.active)
        /\ Settle(t, o)
  BY <1>2
<1>4. c \in Call /\ c.session \in Session
  BY <1>1, <1>2, CallTypes DEF JInv, PagesOK
<1>5. /\ job # NoJob /\ c.session.rev < MaxRev /\ durable' = o.durable
      /\ o.status # "storage_error"
  BY <1>1, <1>2, <1>3, NoFault DEF Holds, Checkpoint, Finish, Apply, Settle
<1>6. o.progress.active = Record'.active
  BY <1>1, <1>4, <1>5, CheckpointResult
<1>7. CASE c.live
  BY <1>2, <1>3, <1>5, <1>7, LiveReplySynced
<1>8. CASE ~c.live
  BY <1>1, <1>3, <1>4, <1>6, <1>8, LateReplySynced
<1> QED  BY <1>7, <1>8


LEMMA CompletionSynced ==
    ASSUME Before, Stayed, NEW t \in Tab, RunCompletion(t)
    PROVE  SyncedNext
<1> DEFINE v == view[t]
<1>1. JInv /\ v \in View /\ calls[t] \in SUBSET Call
  BY DEF Before, JInv, PagesOK
<1>2. PICK c \in calls[t] :
        /\ c.kind = "complete"
        /\ \E status : CompleteReply(t, c, status)
  BY DEF RunCompletion
<1>3. PICK status : CompleteReply(t, c, status)
  BY <1>2
<1> DEFINE cs == calls[t] \ {c}
<1>4. cs \in SUBSET Call
  BY <1>1
<1>5. CASE LaunchFrom(t, v, cs)
  <2>1. Synced(v, calls[t], durable', begun')
    BY DEF Stayed
  <2>2. Live(cs) \subseteq Live(calls[t]) /\ Asking(cs) = Asking(calls[t])
    BY <1>2 DEF Live, Asking
  <2> HIDE DEF cs
  <2>3. Synced(v, cs, durable', begun')
    BY <2>1, <2>2 DEF Synced, ScreenOK, Own
  <2> DEFINE w == [v EXCEPT !.launching = TRUE]
  <2>4. Alike(v, w)
    BY <1>1 DEF Alike, View
  <2>5. view' = [view EXCEPT ![t] = w] /\ calls' = [calls EXCEPT ![t] = cs]
    BY <1>5 DEF LaunchFrom
  <2> HIDE DEF w
  <2>6. Synced(w, cs, durable', begun')
    BY <2>3, <2>4, AlikeSynced
  <2> QED  BY <1>1, <2>5, <2>6, PageGoes DEF JInv
<1>6. CASE CompleteFailed(t, c, TRUE)
  <2> DEFINE w == [Away(v, "load_error") EXCEPT !.retryable = TRUE]
  <2>1. w.screen # "lesson_run" /\ w.ref = NoSession /\ w.shown = v.shown
    BY <1>1, AwayFields
  <2>2. Leave(t, w, cs)
    BY <1>6 DEF CompleteFailed
  <2> HIDE DEF w, cs
  <2> QED  BY <1>1, <1>4, <2>1, <2>2, LeaveSynced
<1> QED  BY <1>3, <1>5, <1>6 DEF CompleteReply

\* The session a launch enters is the record's, and settled.
LEMMA EnterActive ==
    ASSUME JInv, Stayed, LInv', RecordOK', NEW t \in Tab,
           Readable(durable'), Settled(Record'), Record'.active # NoSession,
           Enter(t, Record'.active)
    PROVE  SyncedNext
<1> DEFINE a == Record'.active
<1>1. /\ Sound(State(durable'), begun', credits')
      /\ Record' = State(durable')
  BY DEF LInv, IInv, Record
<1>2. a \in Session /\ Sturdy(a)
  BY <1>1 DEF RecordOK, Sound, Progress
<1>3. CopyOf(a, durable', begun')
  BY <1>1, <1>2, ActiveCopy
<1>4. a = State(durable').active
  BY <1>1
<1> HIDE DEF a
<1> QED  BY <1>2, <1>3, <1>4, EnterSynced DEF a

LEMMA ResumedSynced ==
    ASSUME Before, Stayed, LInv', RecordOK', NEW t \in Tab, LaunchResumed(t)
    PROVE  SyncedNext
<1>1. /\ JInv /\ LInv /\ RecordOK
      /\ Holds(t, {"plan"}) /\ job.progress.active # NoSession
      /\ durable' = durable
      /\ Enter(t, job.progress.active)
  BY DEF Before, LaunchResumed, Resume, Finish, Apply, Unsaved, Outcome
<1>2. /\ job # NoJob /\ job.tab = t
      /\ job.progress = Record /\ durable # Unreadable
  BY <1>1 DEF RecordOK, Holds
<1>3. Settled(Record)
  BY <1>1, <1>2 DEF RecordOK
<1>4. Readable(durable) /\ Record' = Record
  BY <1>1, <1>2 DEF Record, State, Fresh, Readable
<1> QED  BY <1>1, <1>2, <1>3, <1>4, EnterActive DEF Readable

LEMMA BegunSynced ==
    ASSUME Before, Stayed, LInv', RecordOK', faults' = 0, NEW t \in Tab,
           LaunchBegun(t)
    PROVE  SyncedNext
<1> DEFINE P(id) == [Record EXCEPT !.active = NewSession(id)]
<1>1. /\ JInv /\ LInv /\ RecordOK
      /\ Holds(t, {"plan"}) /\ job.progress.active = NoSession
  BY DEF Before, LaunchBegun
<1>2. /\ job # NoJob /\ job.tab = t /\ job.read = durable
      /\ job.progress = Record /\ durable # Unreadable
      /\ Record \in Progress
  BY <1>1, HeldSound DEF RecordOK, Holds, LInv, Held
<1>3. Settled(Record)
  BY <1>1, <1>2 DEF RecordOK
<1>4. PICK id \in SessionId :
        \E o \in Persist(P(id)) :
          /\ Begin(t, id, o)
          /\ IF o.status \in Failures
             THEN Unavailable(t, TRUE)
             ELSE Enter(t, IF o.progress.active = NoSession
                           THEN NewSession(id)
                           ELSE o.progress.active)
          /\ Settle(t, o)
  BY <1>2 DEF LaunchBegun
<1>5. PICK o \in Persist(P(id)) :
        /\ Begin(t, id, o)
        /\ IF o.status \in Failures
           THEN Unavailable(t, TRUE)
           ELSE Enter(t, IF o.progress.active = NoSession
                         THEN NewSession(id)
                         ELSE o.progress.active)
        /\ Settle(t, o)
  BY <1>4
<1>6. o.status # "storage_error"
  BY <1>1, <1>5, NoFault DEF Settle
<1>7. o.status = "saved" /\ o.durable = P(id) /\ o.progress = P(id)
  BY <1>2, <1>6 DEF Persist, Outcome
<1>8. /\ durable' = P(id) /\ Startable(id)
      /\ begun' = begun \union {id}
  BY <1>5, <1>7 DEF Begin, Finish, Apply
<1>9. /\ NewSession(id) \in Session /\ P(id) \in Progress
      /\ P(id).active = NewSession(id) /\ NewSession(id) # NoSession
  BY <1>2, NewSessionType, WithActive, NoSessionAssumption
<1>10. Enter(t, NewSession(id))
  BY <1>5, <1>7, <1>9 DEF Failures
<1>11. Written
  BY <1>1, <1>2, <1>8 DEF Written
<1>12. /\ Readable(durable') /\ Record' = durable'
       /\ Settled(durable')
  BY <1>1, <1>3, <1>8, <1>11, WriteSucceeds DEF Succeeds
<1> HIDE DEF P
<1> QED  BY <1>1, <1>8, <1>9, <1>10, <1>12, EnterActive

LEMMA RestedSynced ==
    ASSUME JInv, Stayed, NEW t \in Tab, LaunchRested(t)
    PROVE  SyncedNext
<1> DEFINE w == [Away(view[t], "rest") EXCEPT !.launching = FALSE]
<1>1. view[t] \in View /\ calls[t] \in SUBSET Call
  BY DEF JInv, PagesOK
<1>2. w.screen # "lesson_run" /\ w.ref = NoSession /\ w.shown = view[t].shown
  BY <1>1, AwayFields
<1>3. Leave(t, w, calls[t])
  BY DEF LaunchRested
<1> HIDE DEF w
<1> QED  BY <1>1, <1>2, <1>3, LeaveSynced

\* With a readable record a refusal is a fault, and so is a crash.
LEMMA NotAFault ==
    ASSUME JInv, RecordOK, faults' = 0, NEW t \in Tab
    PROVE  /\ ~Crash(t)
           /\ \A retryable \in BOOLEAN : ~Refused(t, retryable)
BY DEF JInv, EventsOK, Crash, Refused, RecordOK


-----------------------------------------------------------------------------
(* Every step.                                                             *)

LEMMA QuietSteps ==
    ASSUME JInv, [JourneyNext]_journeyVars, faults' = 0
    PROVE  faults = 0 /\ OwnStep
<1>0. faults \in Nat
  BY JourneyAssumption DEF JInv, EventsOK
<1>1. ASSUME NEW o, Charge(o) PROVE faults = 0
  BY <1>0, <1>1 DEF Charge
<1>2. ASSUME NEW t \in Tab, OpenPage(t) PROVE faults' = faults /\ OwnStep
  BY <1>2 DEF OpenPage, vars, OwnStep
<1>3. ASSUME NEW t \in Tab,
             \/ Learn(t) \/ FinishWriting(t)
             \/ \E a \in Answer : Select(t, a)
             \/ \E h \in Help : RequestAssistance(t, h)
      PROVE  faults' = faults /\ OwnStep
  BY <1>3 DEF Learn, Select, Submit, NextQuestion, CompleteLesson,
              LeaveWithoutSession, Retry, FinishWriting, LeaveParent,
              RequestAssistance, Act, vars, OwnStep
<1>4. ASSUME NEW t \in Tab,
             \/ OpenParent(t) \/ WakeUp(t)
             \/ StorageEvent(t) \/ ScheduleWriting(t)
      PROVE  faults' = faults /\ OwnStep
  BY <1>4 DEF OpenParent, WakeUp, StorageEvent, ScheduleWriting, vars, OwnStep
<1>5. ASSUME NEW t \in Tab, NEW kind, Grant(t, kind)
      PROVE  faults' = faults /\ OwnStep
  BY <1>5 DEF Grant, Acquire, pageVars, OwnStep
<1>6. ASSUME NEW t \in Tab, Operate(t)
      PROVE  faults = 0 /\ OwnStep
  <2>1. CASE PrepareLaunch(t)
    BY <2>1 DEF PrepareLaunch, Reload, ReconcileUnchanged, ReconcileSave,
                pageVars, OwnStep
  <2>2. CASE RunCheckpoint(t)
    BY <1>1, <2>2 DEF RunCheckpoint, Settle, Checkpoint, Finish, OwnStep
  <2>3. CASE RunCompletion(t)
    BY <1>1, <2>3 DEF RunCompletion, Settle, Complete, Finish, OwnStep
  <2>4. CASE LaunchFailed(t) \/ LaunchRested(t)
    BY <1>1, <2>4 DEF LaunchFailed, LaunchRested, Settle, ReconcileFailed, Rest,
                      Finish, OwnStep
  <2>5. CASE LaunchResumed(t)
    BY <1>1, <2>5 DEF LaunchResumed, Settle, Resume, Finish, OwnStep
  <2>6. CASE LaunchBegun(t)
    BY <1>1, <2>6 DEF LaunchBegun, Settle, Begin, Finish, OwnStep
  <2> QED  BY <1>6, <2>1, <2>2, <2>3, <2>4, <2>5, <2>6 DEF Operate
<1>7. ASSUME NEW t \in Tab, NEW retryable \in BOOLEAN,
             RefuseCall(t, retryable) \/ RefuseLaunch(t, retryable)
      PROVE  faults = 0 /\ OwnStep
  BY <1>0, <1>7 DEF RefuseCall, RefuseLaunch, Refused, vars, OwnStep
<1>8. ASSUME NEW t \in Tab, Crash(t) PROVE FALSE
  BY <1>0, <1>8 DEF Crash
<1>9. ~Foreign
  BY <1>0 DEF Foreign
<1>10. CASE UNCHANGED journeyVars
  BY <1>10 DEF journeyVars, vars, pageVars, OwnStep
<1> QED
  BY <1>2, <1>3, <1>4, <1>5, <1>6, <1>7, <1>8, <1>9, <1>10 DEF JourneyNext

LEMMA PagesFollow ==
    ASSUME Before, Stayed, LInv', RecordOK', faults' = 0,
           [JourneyNext]_journeyVars
    PROVE  SyncedNext
<1>0. JInv /\ RecordOK
  BY DEF Before
<1>1. ASSUME NEW t \in Tab, Learn(t) \/ FinishWriting(t) PROVE SyncedNext
  BY <1>0, <1>1, AnswersSynced, CompleteSynced, ShellSynced DEF Learn
<1>2. ASSUME NEW t \in Tab, OpenPage(t) PROVE SyncedNext
  BY <1>0, <1>2, OpenSynced
<1>3. ASSUME NEW t \in Tab,
             \/ \E a \in Answer : Select(t, a)
             \/ \E h \in Help : RequestAssistance(t, h)
      PROVE  SyncedNext
  BY <1>0, <1>3, AnswersSynced
<1>4. ASSUME NEW t \in Tab,
             \/ OpenParent(t) \/ WakeUp(t)
             \/ StorageEvent(t) \/ ScheduleWriting(t)
      PROVE  SyncedNext
  BY <1>0, <1>4, ShellSynced, EventSynced
<1>5. ASSUME NEW t \in Tab, NEW kind, Grant(t, kind) PROVE SyncedNext
  BY <1>5, NothingShown DEF Grant, pageVars
<1>6. ASSUME NEW t \in Tab, Operate(t) PROVE SyncedNext
  <2>1. CASE PrepareLaunch(t)
    BY <2>1, NothingShown DEF PrepareLaunch, pageVars
  <2>2. CASE LaunchFailed(t)
    BY <1>0, <2>2, UnavailableSynced DEF LaunchFailed
  <2> QED
    BY <1>0, <1>6, <2>1, <2>2, CheckpointSynced, CompletionSynced,
       ResumedSynced, BegunSynced, RestedSynced DEF Operate
<1>7. ASSUME NEW t \in Tab, NEW retryable \in BOOLEAN,
             RefuseCall(t, retryable) \/ RefuseLaunch(t, retryable)
      PROVE  FALSE
  BY <1>0, <1>7, NotAFault DEF RefuseCall, RefuseLaunch
<1>8. ASSUME NEW t \in Tab, Crash(t) PROVE FALSE
  BY <1>0, <1>8, NotAFault
<1>9. ~Foreign
  BY <1>0, JourneyAssumption DEF JInv, EventsOK, Foreign
<1>10. CASE UNCHANGED journeyVars
  BY <1>10, NothingShown DEF journeyVars, pageVars
<1> QED
  BY <1>1, <1>2, <1>3, <1>4, <1>5, <1>6, <1>7, <1>8, <1>9, <1>10
  DEF JourneyNext

LEMMA VInvInit == ASSUME ~LegacySeed PROVE JourneyInit => VInv
<1> SUFFICES ASSUME JourneyInit PROVE VInv
  OBVIOUS
<1>1. JInv /\ LInv
  BY JourneyInitInv, LInvInit DEF JourneyInit
<1>2. RecordOK
  <2>1. durable \in InitialProgress \union {Empty} /\ job = NoJob
    BY DEF JourneyInit, Init
  <2>2. durable # Unreadable
    <3>1. Sound(State(durable), begun, credits)
      BY <1>1 DEF LInv, IInv
    <3>2. InitialProgress \subseteq Progress
      BY InheritedProgress
    <3> QED  BY <2>1, <3>2, RawAssumption, QuestAssumption
  <2>3. \A s \in {Record.active, Record.deferred} \ {NoSession} :
           \E id \in SessionId : s = InitialSession(id)
    BY <2>1, <2>2, InheritedProgress
       DEF Record, State, Fresh, Readable, OpenSessions
  <2> QED  BY <2>1, <2>2, <2>3, InitialSturdy DEF RecordOK, Holds
<1>3. ASSUME NEW t \in Tab PROVE PageSynced(t)
  <2>1. view[t] = Closed /\ calls[t] = {}
    BY DEF JourneyInit
  <2>2. view[t].screen # "lesson_run" /\ view[t].ref = NoSession
        /\ view[t].shown = NoSession /\ Live(calls[t]) = {}
    BY <2>1 DEF Closed, Live
  <2> QED  BY <2>2, AwaySynced DEF PageSynced
<1> QED  BY <1>1, <1>2, <1>3 DEF VInv

LEMMA VInvStep ==
    ASSUME ~LegacySeed PROVE VInv /\ [JourneyNext]_journeyVars => VInv'
<1> SUFFICES ASSUME VInv, [JourneyNext]_journeyVars PROVE VInv'
  OBVIOUS
<1>0. CleanUpUndisturbed
  BY DEF CleanUpUndisturbed
<1>1. JInv' /\ LInv' /\ [Next]_vars
  BY <1>0, JourneyStep, StepsOfTheRecord, LInvStep DEF VInv
<1>2. ASSUME faults' = 0 PROVE RecordOK' /\ \A t \in Tab : PageSynced(t)'
  <2>1. faults = 0 /\ OwnStep
    BY <1>2, QuietSteps DEF VInv
  <2>2. Before
    BY <2>1 DEF VInv, Before
  <2>3. RecordOK'
    BY <1>1, <2>1, <2>2, RecordStep DEF Before
  <2>4. Stayed
    BY <1>1, <2>1, <2>2, PagesStay
  <2>5. SyncedNext
    BY <1>1, <1>2, <2>2, <2>3, <2>4, PagesFollow
  <2> QED  BY <2>3, <2>5 DEF SyncedNext, PageSynced
<1> QED  BY <1>1, <1>2 DEF VInv


\* As long as nothing fails (no storage error, lock time-out or crash, no
\* write by anything else), a lesson screen that waits for no reply, of the
\* session the record has open or of the one in its sessionRef, is built on
\* that session and shows the question and feedback of it, however the pages
\* race for the lock and whatever storage events, launches, parent visits and
\* turns of writing come between: only a screen whose lesson another page has
\* ended or set aside is left with another session to build on, or none.  The
\* run "desync" shows that failed saves are enough to lose this.
THEOREM ViewsInStep ==
    JourneySpec => [](faults = 0 => ViewResynchronized)
<1>1. ASSUME VInv, faults = 0 PROVE ViewResynchronized
  <2> SUFFICES ASSUME NEW t \in Tab, Ready(t), view[t].shown # NoSession,
                      \/ Own(view[t])
                      \/ /\ State(durable).active # NoSession
                         /\ State(durable).active.id = view[t].shown.id
               PROVE  Own(view[t]) /\ Reflects(view[t], view[t].ref)
    BY DEF ViewResynchronized, Reflects, Own
  <2>1. ScreenOK(view[t], calls[t], State(durable))
    BY <1>1 DEF VInv, PageSynced, Synced
  <2>2. Asking(calls[t]) = {} /\ view[t].screen = "lesson_run"
    BY DEF Ready, Pending, Asking, Live
  <2> QED  BY <2>1, <2>2 DEF ScreenOK
<1> QED
  BY <1>1, JourneyAssumption, VInvInit, VInvStep, PTL DEF JourneySpec

\* As long as nothing fails, a lesson that its screen let the learner finish
\* is supported by the saved answers: the hook does not turn it away as
\* inconsistent while the record has the revision it was finished at.
THEOREM FinishedLessonsAccepted ==
    JourneySpec => [](faults = 0 => FinishedIsAccepted)
<1>1. ASSUME VInv, faults = 0 PROVE FinishedIsAccepted
  <2> DEFINE saved == State(durable).active
  <2> SUFFICES ASSUME NEW t \in Tab, NEW c \in calls[t],
                      c.kind = "complete", c.live,
                      view[t].shown # NoSession,
                      view[t].shown.id = c.result.id,
                      saved # NoSession, saved.id = c.result.id,
                      saved.rev = c.result.rev,
                      KindOf[saved.id] # "fluency"
               PROVE  SupportsCompletion(saved, c.result)
    BY DEF FinishedIsAccepted
  <2>1. Synced(view[t], calls[t], durable, begun)
    BY <1>1 DEF VInv, PageSynced
  <2>2. CallOK(view[t], c)
    BY <2>1 DEF Synced, Live
  <2>3. /\ view[t].ref # NoSession
        /\ c.result.id = view[t].ref.id /\ c.result.rev = view[t].ref.rev
        /\ SupportsCompletion(view[t].ref, c.result)
    BY <2>2 DEF CallOK
  <2>4. Older(view[t].ref, State(durable))
    BY <2>1, <2>3 DEF Synced, Copies, CopyOf
  <2>5. saved = view[t].ref
    BY <2>3, <2>4 DEF Older
  <2> QED  BY <2>3, <2>5
<1> QED
  BY <1>1, JourneyAssumption, VInvInit, VInvStep, PTL DEF JourneySpec


=============================================================================
