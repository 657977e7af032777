------------------------ MODULE ProgressLedgerProofs ------------------------
(***************************************************************************)
(* QuestProgress implements ProgressLedger, for any number of pages,       *)
(* sessions, questions and answers: every step of the record, the lock and *)
(* the hook is a step of the ledger or none.                               *)
(***************************************************************************)
EXTENDS QuestProgressProofs

-----------------------------------------------------------------------------
(* The sheets of a progress value.                                         *)

SheetIn(p, paid, id) ==
    LET open == {s \in {p.active, p.deferred} \ {NoSession} :
                    s.id = id /\ paid[id] = 0} IN
    IF open = {} THEN NoSession ELSE (CHOOSE s \in open : TRUE).submitted

\* The same, without a choice: the ids of the two slots differ.
SheetOf(p, paid, id) ==
    IF paid[id] # 0 THEN NoSession
    ELSE IF p.active # NoSession /\ p.active.id = id THEN p.active.submitted
    ELSE IF p.deferred # NoSession /\ p.deferred.id = id
    THEN p.deferred.submitted
    ELSE NoSession

LEMMA SheetsAgree ==
    ASSUME NEW p, NEW ids, NEW paid, Sound(p, ids, paid), NEW id \in SessionId
    PROVE  SheetIn(p, paid, id) = SheetOf(p, paid, id)
<1> DEFINE open == {s \in {p.active, p.deferred} \ {NoSession} :
                       s.id = id /\ paid[id] = 0}
<1>1. SheetIn(p, paid, id) =
        IF open = {} THEN NoSession ELSE (CHOOSE s \in open : TRUE).submitted
  BY DEF SheetIn
<1>2. ASSUME NEW x \in open, \A s \in open : s = x
      PROVE  SheetIn(p, paid, id) = x.submitted
  <2> HIDE DEF open
  <2>1. open # {} /\ (CHOOSE s \in open : TRUE) \in open
    BY <1>2
  <2> QED  BY <1>1, <1>2, <2>1
<1>3. p.active # NoSession /\ p.deferred # NoSession =>
        p.active.id # p.deferred.id
  BY DEF Sound
<1>4. CASE paid[id] # 0
  BY <1>1, <1>4 DEF SheetOf
<1>5. CASE paid[id] = 0 /\ p.active # NoSession /\ p.active.id = id
  <2>1. p.active \in open /\ \A s \in open : s = p.active
    BY <1>3, <1>5
  <2> QED  BY <1>2, <1>5, <2>1 DEF SheetOf
<1>6. CASE /\ paid[id] = 0 /\ ~(p.active # NoSession /\ p.active.id = id)
           /\ p.deferred # NoSession /\ p.deferred.id = id
  <2>1. p.deferred \in open /\ \A s \in open : s = p.deferred
    BY <1>3, <1>6
  <2> QED  BY <1>2, <1>6, <2>1 DEF SheetOf
<1>7. CASE /\ paid[id] = 0 /\ ~(p.active # NoSession /\ p.active.id = id)
           /\ ~(p.deferred # NoSession /\ p.deferred.id = id)
  <2>1. open = {}
    BY <1>7
  <2> QED  BY <1>1, <1>7, <2>1 DEF SheetOf
<1> QED  BY <1>4, <1>5, <1>6, <1>7

\* A completed session is a paid one, and no question ahead of the one a
\* session is at has an answer.
Orderly(p, paid) ==
    /\ \A id \in CompletedIds(p) : paid[id] # 0
    /\ p.active # NoSession => Behind(p.active)
    /\ p.deferred # NoSession => Behind(p.deferred)

LInv == IInv /\ Orderly(Held, credits)

\* So a session is dropped for its content only when the lesson is gone.
LEMMA BehindResumable ==
    ASSUME NEW s \in Session, Behind(s), KindOf[s.id] # "retired"
    PROVE  Resumable(s)
<1>1. s.index \in Nat /\ s.index \in 1..NQ
  BY LessonAssumption DEF Session, Question
<1>2. Answered(s) \subseteq 1..s.index
  BY <1>1, LessonAssumption DEF Behind, Answered, Question
<1>3. IsFiniteSet(1..s.index) /\ Cardinality(1..s.index) = s.index
  BY <1>1, FS_Interval
<1>4. Cardinality(Answered(s)) <= s.index /\ Cardinality(Answered(s)) \in Nat
  BY <1>2, <1>3, FS_Subset, FS_CardinalityType
<1> QED  BY <1>1, <1>4 DEF Resumable

-----------------------------------------------------------------------------
(* What each way of changing the progress does to its sheets.              *)

LEMMA RecoverSheets ==
    ASSUME NEW p, NEW ids, NEW paid, Sound(p, ids, paid), Orderly(p, paid)
    PROVE  /\ Orderly(Recover(p), paid)
           /\ \/ \A id \in SessionId :
                    SheetOf(Recover(p), paid, id) = SheetOf(p, paid, id)
              \/ /\ p.active # NoSession /\ KindOf[p.active.id] = "retired"
                 /\ \A id \in SessionId :
                       SheetOf(Recover(p), paid, id) =
                          IF id = p.active.id THEN NoSession
                          ELSE SheetOf(p, paid, id)
<1>1. p \in Progress
  BY DEF Sound
<1>2. CASE Recover(p) = p
  BY <1>2
<1>3. CASE Recover(p) # p
  <2>1. /\ p.active # NoSession
        /\ p.active.id \in CompletedIds(p) \/ ~Resumable(p.active)
        /\ Recover(p) = [p EXCEPT !.active = NoSession]
    BY <1>3 DEF Recover
  <2>2. /\ Recover(p).active = NoSession /\ Recover(p).deferred = p.deferred
        /\ Recover(p).attempts = p.attempts
    BY <1>1, <2>1, WithActive
  <2>3. Orderly(Recover(p), paid)
    BY <2>2 DEF Orderly, CompletedIds
  <2>4. \A id \in SessionId :
          SheetOf(Recover(p), paid, id) = IF id = p.active.id THEN NoSession
                                          ELSE SheetOf(p, paid, id)
    BY <2>1, <2>2 DEF SheetOf, Sound
  <2>5. CASE KindOf[p.active.id] = "retired"
    BY <2>1, <2>3, <2>4, <2>5
  <2>6. CASE KindOf[p.active.id] # "retired"
    <3>1. p.active \in Session /\ Behind(p.active)
      BY <1>1, <2>1 DEF Progress, Orderly
    <3>2. p.active.id \in CompletedIds(p)
      BY <2>1, <2>6, <3>1, BehindResumable
    <3>3. SheetOf(p, paid, p.active.id) = NoSession
      BY <3>2 DEF Orderly, SheetOf
    <3> QED  BY <2>3, <2>4, <3>3
  <2> QED  BY <2>5, <2>6
<1> QED  BY <1>2, <1>3

LEMMA DeferSheets ==
    ASSUME NEW p, NEW ids, NEW paid, Sound(p, ids, paid), Orderly(p, paid),
           Slot(p), p.active # NoSession => paid[p.active.id] = 0
    PROVE  /\ Sound(Defer(p), ids, paid)
           /\ Orderly(Defer(p), paid)
           /\ \A id \in SessionId :
                 SheetOf(Defer(p), paid, id) = SheetOf(p, paid, id)
           /\ Defer(p).active # NoSession =>
                \/ Defer(p).active = p.active
                \/ KindOf[Defer(p).active.id] # "retired"
<1> DEFINE r == Defer(p)
<1>1. p \in Progress
  BY DEF Sound
<1>2. /\ r \in Progress /\ r.attempts = p.attempts /\ r.seeded = p.seeded
      /\ r.xp = p.xp
  BY <1>1, DeferProgress
<1>3. \/ r.active = p.active /\ r.deferred = p.deferred
      \/ /\ r.active = NoSession /\ r.deferred = p.active
         /\ WordStudy(p.active) /\ p.deferred = NoSession
      \/ /\ r.active = p.deferred /\ r.deferred = NoSession
         /\ p.active = NoSession /\ WordStudy(p.deferred)
  BY <1>1 DEF Defer, Slot, Progress
<1> HIDE DEF r
<1>4. CompletedIds(r) = CompletedIds(p)
  BY <1>2 DEF CompletedIds
<1>5. Sound(r, ids, paid)
  BY <1>2, <1>3, <1>4 DEF Sound, Totalled
<1>6. Orderly(r, paid)
  BY <1>3, <1>4 DEF Orderly
<1>7. \A id \in SessionId : SheetOf(r, paid, id) = SheetOf(p, paid, id)
  BY <1>3 DEF SheetOf, Sound
<1>8. r.active # NoSession =>
        r.active = p.active \/ KindOf[r.active.id] # "retired"
  BY <1>3 DEF WordStudy
<1> QED  BY <1>5, <1>6, <1>7, <1>8 DEF r

\* Reconciling keeps every sheet, except that of a withdrawn lesson.
LEMMA ReconcileSheets ==
    ASSUME NEW p, NEW ids, NEW paid, Sound(p, ids, paid), Orderly(p, paid),
           Slot(p)
    PROVE  /\ Orderly(Reconcile(p), paid)
           /\ \/ \A id \in SessionId :
                    SheetOf(Reconcile(p), paid, id) = SheetOf(p, paid, id)
              \/ /\ p.active # NoSession /\ KindOf[p.active.id] = "retired"
                 /\ \A id \in SessionId :
                       SheetOf(Reconcile(p), paid, id) =
                          IF id = p.active.id THEN NoSession
                          ELSE SheetOf(p, paid, id)
<1> DEFINE q == Recover(p)
           r == Defer(q)
           n == Recover(r)
<1>1. /\ Sound(q, ids, paid) /\ Orderly(q, paid)
      /\ q.active # NoSession => paid[q.active.id] = 0
  BY SoundRecover, RecoverSheets
<1>2. q.active \in {p.active, NoSession} /\ Slot(q)
  <2>1. /\ q.active \in {p.active, NoSession} /\ q.deferred = p.deferred
        /\ q.count = p.count
    BY RecoverProgress DEF Sound
  <2> QED  BY <2>1 DEF Slot, WordStudy, FrontierOpen
<1>3. /\ Sound(r, ids, paid) /\ Orderly(r, paid)
      /\ \A id \in SessionId : SheetOf(r, paid, id) = SheetOf(q, paid, id)
      /\ r.active # NoSession =>
            r.active = q.active \/ KindOf[r.active.id] # "retired"
  <2> HIDE DEF q
  <2> QED  BY <1>1, <1>2, DeferSheets DEF r
<1>4. /\ Orderly(n, paid)
      /\ \/ \A id \in SessionId : SheetOf(n, paid, id) = SheetOf(r, paid, id)
         \/ /\ r.active # NoSession /\ KindOf[r.active.id] = "retired"
            /\ \A id \in SessionId :
                  SheetOf(n, paid, id) = IF id = r.active.id THEN NoSession
                                         ELSE SheetOf(r, paid, id)
  <2> HIDE DEF r
  <2> QED  BY <1>3, RecoverSheets DEF n
<1>5. Reconcile(p) = n
  BY DEF Reconcile
<1>6. \/ \A id \in SessionId : SheetOf(q, paid, id) = SheetOf(p, paid, id)
      \/ /\ p.active # NoSession /\ KindOf[p.active.id] = "retired"
         /\ \A id \in SessionId :
               SheetOf(q, paid, id) = IF id = p.active.id THEN NoSession
                                      ELSE SheetOf(p, paid, id)
  BY RecoverSheets
<1> HIDE DEF q, r, n
<1> QED  BY <1>2, <1>3, <1>4, <1>5, <1>6

\* A kept prefix or suffix of the history holds no attempt of its own.
LEMMA NewestIds ==
    ASSUME NEW p \in Progress, NEW r \in Result
    PROVE  CompletedIds(Credit(p, r)) \subseteq CompletedIds(p) \union {r.id}
<1> DEFINE a == [id |-> r.id, graded |-> r.graded]
           all == Append(p.attempts, a)
           c == Credit(p, r)
<1>1. p.attempts \in Seq(Attempt) /\ a \in Attempt /\ a.id = r.id
  BY DEF Progress, Result, Attempt
<1>2. /\ all \in Seq(Attempt) /\ Len(all) = Len(p.attempts) + 1
      /\ \A i \in 1..Len(p.attempts) : all[i] = p.attempts[i]
      /\ all[Len(all)] = a
      /\ Len(p.attempts) \in Nat /\ DOMAIN p.attempts = 1..Len(p.attempts)
  BY <1>1, AppendProperties, LenProperties
<1>3. \A i \in 1..Len(all) : all[i].id \in CompletedIds(p) \union {r.id}
  BY <1>1, <1>2 DEF CompletedIds
<1>4. c.attempts = Newest(all)
  BY DEF Credit, Progress
<1> HIDE DEF all, c
<1>5. \A i \in DOMAIN Newest(all) :
         \E j \in 1..Len(all) : Newest(all)[i] = all[j]
  <2>1. Len(all) \in Nat /\ DOMAIN all = 1..Len(all)
    BY <1>2, LenProperties
  <2>2. CASE Len(all) > MaxAttempts
    <3> DEFINE from == Len(all) - MaxAttempts + 1
    <3>1. from \in 1..Len(all)
      BY <2>1, <2>2, QuestAssumption
    <3>2. /\ Len(SubSeq(all, from, Len(all))) = Len(all) - from + 1
          /\ DOMAIN SubSeq(all, from, Len(all)) = 1..(Len(all) - from + 1)
          /\ \A i \in 1..(Len(all) - from + 1) :
                SubSeq(all, from, Len(all))[i] = all[from + i - 1]
      BY <1>2, <2>1, <3>1, SubSeqProperties
    <3>3. \A i \in 1..(Len(all) - from + 1) : from + i - 1 \in 1..Len(all)
      BY <2>1, <3>1
    <3>4. Newest(all) = SubSeq(all, from, Len(all))
      BY <2>2 DEF Newest
    <3> HIDE DEF from
    <3> QED  BY <3>2, <3>3, <3>4
  <2>3. CASE ~(Len(all) > MaxAttempts)
    BY <2>1, <2>3 DEF Newest
  <2> QED  BY <2>2, <2>3
<1> QED  BY <1>3, <1>4, <1>5 DEF CompletedIds, c

-----------------------------------------------------------------------------
(* What a step does to the progress the ledger is read from.               *)

Grew == Grows(Held, Held') /\ credits' = credits

Lost == Held' = Fresh /\ credits' = credits

Moved == Held' = Reconcile(Held) /\ credits' = credits

Started == \E id \in SessionId :
    /\ id \notin begun
    /\ Held.active = NoSession
    /\ Held' = [Held EXCEPT !.active = NewSession(id)]
    /\ credits' = credits

Rewarded == \E r \in Result :
    /\ MatchesActive(Held, r)
    /\ r.id \notin CompletedIds(Held)
    /\ Held' = Reconcile(Credit(Held, r))
    /\ credits' \in [SessionId -> Nat]
    /\ credits'[r.id] = credits[r.id] + 1
    /\ \A id \in SessionId : id # r.id => credits'[id] = credits[id]

LedgerStep == Grew \/ Lost \/ Moved \/ Started \/ Rewarded

LEMMA SameGrew ==
    ASSUME IInv, Held' = Held, credits' = credits
    PROVE  Grew
<1>1. Held \in Progress /\ Totalled(Held)
  BY DEF IInv, Sound, Held
<1> QED  BY <1>1, GrowsClean DEF Grew

\* An operation that returns without a write leaves what it worked on, with
\* what another release added, or finds the record cleared under it.
LEMMA Returned ==
    ASSUME IInv, job # NoJob, job' = NoJob, durable' = durable,
           credits' = credits
    PROVE  Grew \/ Lost
<1>1. Held = job.progress /\ Held' = State(durable)
  BY DEF Held
<1>2. Readable(durable) => Grows(Held, durable)
  BY <1>1 DEF IInv, Underway
<1> QED  BY <1>1, <1>2 DEF Grew, Lost, State

LEMMA ReturnedUnsaved ==
    ASSUME IInv, job # NoJob, NEW o, Finish(o), o.durable = durable
    PROVE  Grew \/ Lost
<1>1. credits' = credits /\ durable' = durable /\ job' = NoJob
  BY NoReward DEF Finish, Apply
<1> QED  BY <1>1, Returned

\* One that returns after a write leaves what it wrote.
LEMMA Wrote ==
    ASSUME NEW o, Finish(o), o.durable \in Progress
    PROVE  Held' = o.durable
BY RawAssumption DEF Finish, Apply, Held, State, Readable

LEMMA HeldSteps ==
    ASSUME CleanUpUndisturbed, IInv, [Next]_vars
    PROVE  LedgerStep
<1>1. /\ Sound(State(durable), begun, credits) /\ durable \in Raw
      /\ job # NoJob => /\ Held = job.progress
                        /\ Sound(Held, begun, credits) /\ Held \in Progress
      /\ Held \in Progress /\ Totalled(Held)
  BY DEF IInv, Held, Sound, TypeInv, TypeOK
<1>2. ASSUME NEW t \in Tab, LoadSeeded(t) PROVE Grew
  BY <1>2, SameGrew DEF LoadSeeded, Held
<1>7. ASSUME NEW t \in Tab, WriteCleaned(t) PROVE Grew
  <2>1. /\ job = NoJob /\ job' = NoJob /\ credits' = credits
        /\ Readable(durable) /\ durable' \in {durable, Clean(durable)}
    BY <1>7 DEF WriteCleaned, IInv, CleanUps
  <2>2. Held = durable /\ durable \in Progress /\ Clean(durable) \in Progress
    BY <1>1, <2>1, RawCases, CleanType DEF Held, State
  <2>3. Held' = durable'
    BY <2>1, <2>2, RawCases DEF Held
  <2> QED  BY <1>1, <2>1, <2>2, <2>3, GrowsClean DEF Grew
<1>3. ASSUME NEW t \in Tab, NEW stage \in {"checkpoint", "complete", "launch"},
             Acquire(t, stage)
      PROVE  Grew
  <2>1. /\ job = NoJob /\ credits' = credits
        /\ durable' \in Loadable(durable)
        /\ job' = [tab |-> t, stage |-> stage, read |-> durable',
                   progress |-> Loaded(durable)]
    BY <1>3 DEF Acquire
  <2>2. Held' = Loaded(durable)
    <3>1. durable' \in Raw /\ Loaded(durable) \in Progress
      BY <1>1, <2>1, LoadCases, CleanType, RawCases
    <3>2. job' \in Job
      BY <2>1, <3>1 DEF Job, Stages
    <3> QED  BY <2>1, <3>2, NoJobAssumption DEF Held
  <2>3. Loaded(durable) = IF Readable(durable) THEN Clean(Held) ELSE Held
    BY <2>1 DEF Loaded, Held, State
  <2> QED  BY <1>1, <2>1, <2>2, <2>3, GrowsClean DEF Grew
<1>4. ASSUME NEW t \in Tab, NEW s \in Session,
             NEW o \in CheckpointOutcomes(s), Checkpoint(t, s, o)
      PROVE  Grew \/ Lost
  <2>1. job # NoJob /\ Finish(o) /\ s.rev < MaxRev
    BY <1>4 DEF Checkpoint, Holds
  <2>2. CASE o.durable = durable
    BY <2>1, <2>2, ReturnedUnsaved
  <2>3. CASE o.durable # durable
    <3> DEFINE P == [Held EXCEPT !.active = Accepted(s)]
    <3>1. /\ o.durable = P
          /\ Held.active # NoSession /\ Held.active.id = s.id
          /\ Continues(Held.active, s)
      BY <1>1, <1>4, <2>1, <2>3, Checkpointed DEF Saves
    <3>2. P \in Progress /\ P.count = Held.count
      BY <1>1, <2>1, AcceptedType, WithActive
    <3>3. Grows(Held, P)
      BY <1>1, <2>1, <3>1, GrowsByCheckpoint DEF CheckpointedBy
    <3> HIDE DEF P
    <3>4. Held' = P /\ credits' = credits
      BY <1>1, <2>1, <3>1, <3>2, Wrote, NoReward DEF Finish
    <3> QED  BY <3>3, <3>4 DEF Grew
  <2> QED  BY <2>2, <2>3
<1>5. ASSUME NEW t \in Tab, NEW r \in Result,
             NEW o \in CompleteOutcomes(r), Complete(t, r, o)
      PROVE  Grew \/ Lost \/ Moved \/ Rewarded
  <2>1. job # NoJob /\ Finish(o)
    BY <1>5 DEF Complete, Holds
  <2>2. CASE o.durable = durable
    BY <2>1, <2>2, ReturnedUnsaved
  <2>3. CASE o.durable # durable
    <3>1. CASE o.durable = Reconcile(Held)
      <4>1. Reconcile(Held) \in Progress /\ Reconcile(Held).count = Held.count
        BY <1>1, <2>1, ReconcileProgress
      <4>2. Held' = Reconcile(Held) /\ credits' = credits
        BY <1>1, <2>1, <3>1, <4>1, Wrote, NoReward DEF Finish
      <4> QED  BY <4>2 DEF Moved
    <3>2. CASE /\ o.durable = Reconcile(Credit(Held, r))
               /\ r.id \notin CompletedIds(Held) /\ MatchesActive(Held, r)
      <4>1. Reconcile(Credit(Held, r)) \in Progress
        BY <1>1, <2>1, CreditProgress, ReconcileProgress
      <4>2. Held' = Reconcile(Credit(Held, r))
        BY <2>1, <3>2, <4>1, Wrote
      <4>3. /\ credits' \in [SessionId -> Nat]
            /\ credits'[r.id] = credits[r.id] + 1
            /\ \A id \in SessionId : id # r.id => credits'[id] = credits[id]
        BY <1>1, <2>1, <3>2, OneReward DEF Finish
      <4> QED  BY <3>2, <4>2, <4>3 DEF Rewarded
    <3> QED  BY <1>1, <1>5, <2>1, <2>3, <3>1, <3>2, Completed DEF Saves
  <2> QED  BY <2>2, <2>3
<1>6. ASSUME NEW t \in Tab, Reload(t) \/ ReconcileUnchanged(t) PROVE Grew
  <2>1. job # NoJob /\ job \in Job /\ credits' = credits
    BY <1>6 DEF Reload, ReconcileUnchanged, Holds, IInv, TypeInv, TypeOK
  <2>2. job' \in Job
    <3>1. TypeInv'
      BY TypeStep DEF IInv
    <3>2. job' # NoJob
      <4>1. CASE ReconcileUnchanged(t)
        BY <2>1, <4>1, NoJobAssumption DEF ReconcileUnchanged, Job, Stages
      <4>2. CASE Reload(t)
        <5>1. durable' \in Raw /\ (Readable(durable) => Loaded(durable) \in Progress)
          BY <1>1, <4>2, LoadCases, CleanType DEF Reload
        <5> QED  BY <2>1, <4>2, <5>1, NoJobAssumption DEF Reload, Job, Stages
      <4> QED  BY <1>6, <4>1, <4>2
    <3> QED  BY <3>1, <3>2 DEF TypeInv, TypeOK
  <2>3. Held' = job'.progress
    BY <2>2, NoJobAssumption DEF Held
  <2>4. CASE ReconcileUnchanged(t)
    BY <1>1, <2>1, <2>3, <2>4, SameGrew DEF ReconcileUnchanged, Job
  <2>5. CASE Reload(t)
    <3>1. Held' = IF Readable(durable) THEN Clean(durable) ELSE Held
      BY <1>1, <2>1, <2>3, <2>5 DEF Reload, Job, Loaded
    <3>2. CASE ~Readable(durable)
      BY <2>1, <3>1, <3>2, SameGrew
    <3>3. CASE Readable(durable)
      <4>1. durable \in Progress /\ Totalled(durable)
        BY <1>1, <3>3 DEF State, Sound
      <4>2. Grows(Held, durable)
        BY <1>1, <2>1, <3>3 DEF IInv, Underway
      <4> QED  BY <2>1, <3>1, <3>3, <4>1, <4>2, GrowsClean, GrowsOn DEF Grew
    <3> QED  BY <3>2, <3>3
  <2> QED  BY <1>6, <2>4, <2>5
<1>8. ASSUME NEW t \in Tab, NEW o \in Persist(Reconcile(job.progress)),
             ReconcileSave(t, o)
      PROVE  Moved \/ Grew
  <2>1. /\ job # NoJob /\ job \in Job /\ Apply(o)
        /\ o.status \in {"saved", "conflict"}
        /\ job' = [job EXCEPT !.stage = IF o.status = "saved" THEN "plan"
                                        ELSE "reconcile_again",
                              !.read = o.read, !.progress = o.progress]
    BY <1>8 DEF ReconcileSave, Holds, IInv, TypeInv, TypeOK
  <2>2. Reconcile(Held) \in Progress /\ Reconcile(Held).count = Held.count
    BY <1>1, <2>1, ReconcileProgress
  <2>3. o \in Persist(Reconcile(Held))
    BY <1>1, <1>8, <2>1
  <2>4. /\ o.progress \in Progress /\ o.read = o.progress
        /\ o.durable = durable \/ o.durable = Reconcile(Held)
        /\ \/ o.progress = Reconcile(Held)
           \/ o.progress = durable /\ Readable(durable)
    <3>1. Readable(durable) => durable \in Progress
      BY <1>1, RawCases
    <3> QED  BY <2>1, <2>2, <2>3, <3>1, Persisted DEF Saves
  <2>5. credits' = credits
    BY <1>1, <2>1, <2>2, <2>4, NoReward
  <2>6. job' \in Job /\ job'.progress = o.progress
    BY <2>1, <2>4 DEF Job, Stages, Raw
  <2>7. Held' = o.progress
    BY <2>6, NoJobAssumption DEF Held
  <2>8. Readable(durable) => Grows(Held, durable)
    BY <1>1, <2>1 DEF IInv, Underway
  <2> QED  BY <2>4, <2>5, <2>7, <2>8 DEF Moved, Grew
<1>9. ASSUME NEW t \in Tab, NEW o \in Persist(Reconcile(job.progress)),
             ReconcileFailed(t, o)
      PROVE  Grew \/ Lost \/ Moved
  <2>1. job # NoJob /\ Finish(o)
    BY <1>9 DEF ReconcileFailed, Holds
  <2>2. CASE o.durable = durable
    BY <2>1, <2>2, ReturnedUnsaved
  <2>3. CASE o.durable # durable
    <3>1. o.durable = Reconcile(Held)
      BY <1>1, <2>1, <2>3, Persisted DEF Saves
    <3>2. Reconcile(Held) \in Progress /\ Reconcile(Held).count = Held.count
      BY <1>1, <2>1, ReconcileProgress
    <3>3. Held' = Reconcile(Held) /\ credits' = credits
      BY <1>1, <2>1, <3>1, <3>2, Wrote, NoReward DEF Finish
    <3> QED  BY <3>3 DEF Moved
  <2> QED  BY <2>2, <2>3
<1>10. ASSUME NEW t \in Tab, Resume(t) PROVE Grew \/ Lost
  <2>1. /\ job # NoJob /\ Finish(Unsaved("resume"))
        /\ Unsaved("resume").durable = durable
    BY <1>10 DEF Resume, Holds, Unsaved, Outcome
  <2> QED  BY <2>1, ReturnedUnsaved
<1>11. ASSUME NEW t \in Tab, NEW id \in SessionId,
              NEW o \in Persist([job.progress EXCEPT !.active = NewSession(id)]),
              Begin(t, id, o)
       PROVE  Grew \/ Lost \/ Started
  <2> DEFINE P == [Held EXCEPT !.active = NewSession(id)]
  <2>1. /\ job # NoJob /\ Finish(o) /\ id \notin begun
        /\ Held.active = NoSession
    BY <1>1, <1>11 DEF Begin, Holds, Startable
  <2>2. CASE o.durable = durable
    BY <2>1, <2>2, ReturnedUnsaved
  <2>3. CASE o.durable # durable
    <3>1. o.durable = P
      BY <1>1, <2>1, <2>3, Persisted DEF Saves
    <3>2. P \in Progress /\ P.count = Held.count
      BY <1>1, <2>1, NewSessionType, WithActive
    <3> HIDE DEF P
    <3>3. Held' = P /\ credits' = credits
      BY <1>1, <2>1, <3>1, <3>2, Wrote, NoReward DEF Finish
    <3> QED  BY <2>1, <3>3 DEF Started, P
  <2> QED  BY <2>2, <2>3
<1>12. ASSUME NEW t \in Tab, NEW o \in Persist(job.progress), Rest(t, o)
       PROVE  Grew \/ Lost
  <2>1. job # NoJob /\ Finish(o)
    BY <1>12 DEF Rest, Holds
  <2>2. CASE o.durable = durable
    BY <2>1, <2>2, ReturnedUnsaved
  <2>3. CASE o.durable # durable
    <3>1. o.durable = Held
      BY <1>1, <2>1, <2>3, Persisted DEF Saves
    <3>2. Held' = Held /\ credits' = credits
      BY <1>1, <2>1, <3>1, Wrote, NoReward DEF Finish
    <3> QED  BY <3>2, SameGrew
  <2> QED  BY <2>2, <2>3
<1>13. ASSUME NEW t \in Tab, Close(t) PROVE Grew \/ Lost
  <2>1. UNCHANGED <<durable, credits>>
    BY <1>13 DEF Close
  <2>2. CASE job' = job
    BY <2>1, <2>2, SameGrew DEF Held
  <2>3. CASE job' # job
    <3>1. job # NoJob /\ job' = NoJob
      BY <1>13, <2>3 DEF Close, Holds
    <3> QED  BY <2>1, <3>1, Returned
  <2> QED  BY <2>2, <2>3
<1>14. ASSUME ForeignWrite PROVE Grew \/ Lost
  <2>1. /\ UNCHANGED <<job, credits>>
        /\ durable' \in {Empty, Unreadable} \/ durable' \in ForeignCheckpoints
    BY <1>14 DEF ForeignWrite
  <2>2. CASE job # NoJob
    BY <2>1, <2>2, SameGrew DEF Held
  <2>3. CASE job = NoJob /\ durable' \in {Empty, Unreadable}
    BY <2>1, <2>3 DEF Lost, Held, State, Readable
  <2>4. CASE job = NoJob /\ durable' \in ForeignCheckpoints
    <3>1. PICK s \in Session : CheckpointedBy(durable, s, durable')
      BY <2>4, ForeignCheckpointed
    <3>2. Held = durable
      BY <2>4, ForeignCheckpointed DEF Held, State
    <3>3. Grows(Held, durable') /\ durable' \in Progress
      BY <1>1, <3>1, <3>2, GrowsByCheckpoint
    <3>4. Held' = durable'
      BY <2>1, <2>4, <3>3, RawCases DEF Held
    <3> QED  BY <2>1, <3>3, <3>4 DEF Grew
  <2> QED  BY <2>1, <2>2, <2>3, <2>4
<1>15. CASE UNCHANGED vars
  BY <1>15, SameGrew DEF vars, LedgerStep, Held
<1> QED
  BY <1>2, <1>3, <1>4, <1>5, <1>6, <1>7, <1>8, <1>9, <1>10, <1>11, <1>12,
     <1>13, <1>14, <1>15
  DEF Next, LedgerStep

-----------------------------------------------------------------------------
(* The progress held stays in order.                                       *)

LEMMA HeldSound ==
    ASSUME IInv
    PROVE  /\ Sound(Held, begun, credits) /\ Slot(Held) /\ Held \in Progress
           /\ credits \in [SessionId -> Nat] /\ begun \in SUBSET SessionId
<1>1. Sound(Held, begun, credits)
  BY DEF IInv, Held
<1>2. Slot(Held)
  BY DEF IInv, TypeInv, ValidProgress, Held, State, Fresh, Slot, WordStudy
<1> QED  BY <1>1, <1>2 DEF Sound, IInv, TypeInv, TypeOK

LEMMA FreshOrder ==
    /\ Orderly(Fresh, credits)
    /\ \A id \in SessionId : SheetOf(Fresh, credits, id) = NoSession
BY DEF Orderly, Fresh, CompletedIds, SheetOf

LEMMA NewSessionOrder ==
    ASSUME NEW id \in SessionId
    PROVE  /\ Behind(NewSession(id))
           /\ NewSession(id).submitted = [q \in Question |-> NoAnswer]
BY DEF NewSession, Behind, Answered

\* A session put in the active slot changes its own sheet only.
LEMMA ActiveSheets ==
    ASSUME NEW p, NEW ids, NEW paid, Sound(p, ids, paid), Orderly(p, paid),
           NEW s \in Session, Behind(s),
           p.active = NoSession \/ p.active.id = s.id,
           p.deferred # NoSession => p.deferred.id # s.id
    PROVE  LET new == [p EXCEPT !.active = s] IN
           /\ Orderly(new, paid)
           /\ \A id \in SessionId :
                 SheetOf(new, paid, id) =
                    IF id = s.id /\ paid[id] = 0 THEN s.submitted
                    ELSE SheetOf(p, paid, id)
<1> DEFINE new == [p EXCEPT !.active = s]
<1>1. /\ new.active = s /\ new.deferred = p.deferred
      /\ new.attempts = p.attempts
  BY WithActive DEF Sound
<1> HIDE DEF new
<1>2. CompletedIds(new) = CompletedIds(p)
  BY <1>1 DEF CompletedIds
<1>3. Orderly(new, paid)
  BY <1>1, <1>2 DEF Orderly
<1>4. ASSUME NEW id \in SessionId
      PROVE  SheetOf(new, paid, id) =
                IF id = s.id /\ paid[id] = 0 THEN s.submitted
                ELSE SheetOf(p, paid, id)
  BY <1>1, NoSessionAssumption DEF SheetOf
<1> QED  BY <1>3, <1>4 DEF new

\* A reward closes the sheet it is for, and no other.
LEMMA RewardedSheets ==
    ASSUME NEW p, NEW ids \in SUBSET SessionId, NEW paid \in [SessionId -> Nat],
           NEW new \in [SessionId -> Nat], Sound(p, ids, paid),
           Orderly(p, paid), NEW r \in Result, MatchesActive(p, r),
           new[r.id] # 0, \A id \in SessionId : id # r.id => new[id] = paid[id]
    PROVE  LET next == Reconcile(Credit(p, r)) IN
           /\ Orderly(next, new)
           /\ \A id \in SessionId :
                 SheetOf(next, new, id) = IF id = r.id THEN NoSession
                                          ELSE SheetOf(p, paid, id)
<1> DEFINE c == Credit(p, r)
<1>1. /\ p \in Progress /\ r.id \in SessionId
      /\ p.active # NoSession /\ p.active.id = r.id
  BY DEF Sound, MatchesActive, Result
<1>2. /\ c \in Progress /\ c.active = NoSession
      /\ c.deferred = p.deferred /\ c.seeded = p.seeded
      /\ c.xp = p.xp + Award(r.graded)
  BY <1>1, CreditProgress
<1>3. CompletedIds(c) \subseteq CompletedIds(p) \union {r.id}
  BY <1>1, NewestIds
<1> HIDE DEF c
<1>4. CompletedIds(p) \subseteq SessionId
  <2>1. p.attempts \in Seq(Attempt)
    BY <1>1 DEF Progress
  <2>2. \A i \in DOMAIN p.attempts : p.attempts[i] \in Attempt
    BY <2>1, ElementOfSeq, LenProperties
  <2> QED  BY <2>2 DEF CompletedIds, Attempt
<1>5. Orderly(c, new)
  BY <1>1, <1>2, <1>3, <1>4 DEF Orderly
<1>6. Sound(c, ids, new) /\ Slot(c)
  <2>1. Totalled(c)
    <3>1. Award(r.graded) \in Nat /\ p.xp \in Nat /\ Totalled(p)
      BY <1>1, AwardType DEF Result, Progress, Sound
    <3> QED  BY <1>2, <3>1 DEF Totalled, LegacyDemoXp
  <2> QED  BY <1>1, <1>2, <2>1 DEF Sound, Slot, WordStudy
<1>7. \A id \in SessionId :
        SheetOf(c, new, id) = IF id = r.id THEN NoSession
                              ELSE SheetOf(p, paid, id)
  BY <1>1, <1>2 DEF SheetOf
<1>8. /\ Orderly(Reconcile(c), new)
      /\ \A id \in SessionId : SheetOf(Reconcile(c), new, id) = SheetOf(c, new, id)
  BY <1>2, <1>5, <1>6, ReconcileSheets
<1> QED  BY <1>7, <1>8 DEF c

\* Growth leaves the history as it is and answers in order.
LEMMA GrownSheets ==
    ASSUME NEW p, NEW new, NEW paid, Grows(p, new), Orderly(p, paid)
    PROVE  /\ Orderly(new, paid)
           /\ new.active = p.active =>
                \A id \in SessionId : SheetOf(new, paid, id) = SheetOf(p, paid, id)
           /\ new.active # p.active =>
                \A id \in SessionId :
                   SheetOf(new, paid, id) =
                      IF id = p.active.id /\ paid[id] = 0 THEN new.active.submitted
                      ELSE SheetOf(p, paid, id)
<1>1. /\ new.deferred = p.deferred /\ CompletedIds(new) = CompletedIds(p)
      /\ new.active = p.active \/ Grown(p.active, new.active)
  BY DEF Grows, CompletedIds
<1>2. Orderly(new, paid)
  BY <1>1 DEF Orderly, Grown
<1>3. new.active = p.active =>
        \A id \in SessionId : SheetOf(new, paid, id) = SheetOf(p, paid, id)
  BY <1>1 DEF SheetOf
<1>4. new.active # p.active =>
        \A id \in SessionId :
           SheetOf(new, paid, id) =
              IF id = p.active.id /\ paid[id] = 0 THEN new.active.submitted
              ELSE SheetOf(p, paid, id)
  BY <1>1 DEF SheetOf, Grown
<1> QED  BY <1>2, <1>3, <1>4

LEMMA LInvInit == Init => LInv
<1> SUFFICES ASSUME Init PROVE LInv
  OBVIOUS
<1>1. IInv /\ Held = State(durable)
  BY IInvInit DEF Init, Held
<1>2. CASE ~Readable(durable)
  BY <1>1, <1>2, FreshOrder DEF State, LInv
<1>3. CASE Readable(durable)
  <2>1. State(durable) = durable /\ durable \in InitialProgress
    BY <1>3 DEF State, Init, Readable
  <2>2. \A id \in CompletedIds(durable) : credits[id] # 0
    <3>1. CompletedIds(durable) \subseteq SessionId
      BY <1>1, <2>1 DEF Init, Ids, IInv, TypeInv, TypeOK
    <3> QED  BY <2>1, <3>1 DEF Init
  <2>3. \A id \in SessionId : Behind(InitialSession(id))
    BY InitialSessionType, LessonAssumption
       DEF InitialSession, NewSession, Behind, Answered, Question
  <2>4. \A s \in OpenSessions(durable) : Behind(s)
    BY <2>1, <2>3, InheritedProgress
  <2>5. /\ durable.active # NoSession => Behind(durable.active)
        /\ durable.deferred # NoSession => Behind(durable.deferred)
    BY <2>4 DEF OpenSessions
  <2> QED  BY <1>1, <2>1, <2>2, <2>5 DEF Orderly, LInv
<1> QED  BY <1>2, <1>3

LEMMA LInvStep == ASSUME CleanUpUndisturbed PROVE LInv /\ [Next]_vars => LInv'
<1> SUFFICES ASSUME LInv, [Next]_vars PROVE LInv'
  OBVIOUS
<1>1. /\ Sound(Held, begun, credits) /\ Orderly(Held, credits) /\ Slot(Held)
      /\ credits \in [SessionId -> Nat] /\ begun \in SUBSET SessionId
      /\ Held \in Progress
  BY HeldSound DEF LInv
<1>2. IInv'
  BY IInvStep DEF LInv
<1>3. Orderly(Held', credits')
  <2>1. CASE Grew
    BY <1>1, <2>1, GrownSheets DEF Grew
  <2>2. CASE Lost
    BY <2>2, FreshOrder DEF Lost
  <2>3. CASE Moved
    BY <1>1, <2>3, ReconcileSheets DEF Moved
  <2>5. CASE Started
    <3>1. PICK id \in SessionId :
            /\ id \notin begun /\ Held.active = NoSession
            /\ Held' = [Held EXCEPT !.active = NewSession(id)]
            /\ credits' = credits
      BY <2>5 DEF Started
    <3> QED  BY <1>1, <3>1, NewSessionType, NewSessionOrder, ActiveSheets DEF Sound
  <2>6. CASE Rewarded
    <3>1. PICK r \in Result :
            /\ MatchesActive(Held, r)
            /\ Held' = Reconcile(Credit(Held, r))
            /\ credits' \in [SessionId -> Nat]
            /\ credits'[r.id] = credits[r.id] + 1
            /\ \A id \in SessionId : id # r.id => credits'[id] = credits[id]
      BY <2>6 DEF Rewarded
    <3>2. credits'[r.id] # 0
      BY <1>1, <3>1 DEF Result
    <3> QED  BY <1>1, <3>1, <3>2, RewardedSheets
  <2> QED
    BY <2>1, <2>2, <2>3, <2>5, <2>6, HeldSteps
    DEF LedgerStep, LInv
<1> QED  BY <1>2, <1>3 DEF LInv

-----------------------------------------------------------------------------
(* The steps of the ledger.                                                *)

SheetMap == [id \in SessionId |-> OpenSheet(id)]

PaidSet == {id \in SessionId : credits[id] > 0}

LEMMA Sheets ==
    ASSUME IInv
    PROVE  \A id \in SessionId : SheetMap[id] = SheetOf(Held, credits, id)
<1>1. \A id \in SessionId : OpenSheet(id) = SheetIn(Held, credits, id)
  BY DEF OpenSheet, SheetIn
<1> QED  BY <1>1, HeldSound, SheetsAgree DEF SheetMap

LEMMA SheetsNext ==
    ASSUME IInv'
    PROVE  \A id \in SessionId : SheetMap'[id] = SheetOf(Held', credits', id)
<1>1. \A id \in SessionId : OpenSheet(id)' = SheetIn(Held', credits', id)
  BY DEF OpenSheet, SheetIn
<1>2. Sound(Held', begun', credits')
  BY DEF IInv, Held
<1> QED  BY <1>1, <1>2, SheetsAgree DEF SheetMap

LEMMA SheetType ==
    ASSUME NEW p, NEW ids, NEW paid, Sound(p, ids, paid), NEW id \in SessionId
    PROVE  SheetOf(p, paid, id) \in
             [Question -> Answer \union {NoAnswer}] \union {NoSession}
BY DEF Sound, SheetOf, Progress, Session

LEMMA LedgerStarts == ASSUME IInv PROVE Ledger!Init
<1>1. /\ Sound(Held, begun, credits) /\ Held \in Progress
      /\ credits \in [SessionId -> Nat]
  BY HeldSound
<1>2. SheetMap \in [SessionId -> [Question -> Answer \union {NoAnswer}]
                                \union {NoSession}]
  BY <1>1, Sheets, SheetType DEF SheetMap
<1>3. \A id \in PaidSet : id \in SessionId /\ SheetMap[id] = NoSession
  BY <1>1, Sheets DEF PaidSet, SheetOf
<1>4. EarnedXp(Held) \in Nat
  BY <1>1, CleanTotals DEF Sound
<1> QED
  BY <1>2, <1>3, <1>4
  DEF Ledger!Init, Ledger!Sheet, Ledger!Open, Ledger!Question, Question,
      SheetMap, PaidSet

LEMMA LedgerUnchanged ==
    ASSUME IInv, IInv', credits' = credits, EarnedXp(Held') = EarnedXp(Held),
           \A id \in SessionId :
              SheetOf(Held', credits', id) = SheetOf(Held, credits, id)
    PROVE  UNCHANGED Ledger!ledgerVars
<1>1. SheetMap' = SheetMap
  BY Sheets, SheetsNext DEF SheetMap
<1>2. PaidSet' = PaidSet
  BY DEF PaidSet
<1> QED  BY <1>1, <1>2 DEF Ledger!ledgerVars, SheetMap, PaidSet

LEMMA LedgerErase ==
    ASSUME IInv, IInv', Lost
    PROVE  Ledger!Erase
<1>1. \A id \in SessionId : SheetMap'[id] = NoSession
  BY SheetsNext, FreshOrder DEF Lost
<1>2. SheetMap' = [id \in SessionId |-> NoSession]
  BY <1>1 DEF SheetMap
<1>3. PaidSet' = PaidSet /\ EarnedXp(Held') = 0
  BY DEF PaidSet, Lost, Fresh, EarnedXp
<1> QED  BY <1>2, <1>3 DEF Ledger!Erase, SheetMap, PaidSet

LEMMA LedgerWithdraw ==
    ASSUME IInv, IInv', credits' = credits, EarnedXp(Held') = EarnedXp(Held),
           NEW w \in SessionId, KindOf[w] = "retired",
           \A id \in SessionId :
              SheetOf(Held', credits', id) =
                 IF id = w THEN NoSession ELSE SheetOf(Held, credits, id)
    PROVE  Ledger!Withdraw(w)
<1>1. SheetMap' = [SheetMap EXCEPT ![w] = NoSession]
  BY Sheets, SheetsNext DEF SheetMap
<1>2. PaidSet' = PaidSet
  BY DEF PaidSet
<1> QED  BY <1>1, <1>2 DEF Ledger!Withdraw, SheetMap, PaidSet

LEMMA LedgerFill ==
    ASSUME IInv, IInv', credits' = credits, EarnedXp(Held') = EarnedXp(Held),
           NEW w \in SessionId,
           NEW answers \in [Question -> Answer \union {NoAnswer}],
           SheetOf(Held, credits, w) # NoSession,
           \A q \in Question :
              SheetOf(Held, credits, w)[q] \in {NoAnswer, answers[q]},
           \A id \in SessionId :
              SheetOf(Held', credits', id) =
                 IF id = w THEN answers ELSE SheetOf(Held, credits, id)
    PROVE  Ledger!Fill(w, answers)
<1>1. SheetMap' = [SheetMap EXCEPT ![w] = answers]
  BY Sheets, SheetsNext DEF SheetMap
<1>2. /\ SheetMap[w] # NoSession
      /\ \A q \in Question : SheetMap[w][q] \in {NoAnswer, answers[q]}
  BY Sheets
<1>3. PaidSet' = PaidSet
  BY DEF PaidSet
<1> QED
  BY <1>1, <1>2, <1>3
  DEF Ledger!Fill, Ledger!Open, Ledger!Question, Question, SheetMap, PaidSet

LEMMA LedgerStart ==
    ASSUME IInv, IInv', credits' = credits, EarnedXp(Held') = EarnedXp(Held),
           NEW w \in SessionId, credits[w] = 0,
           SheetOf(Held, credits, w) = NoSession,
           \A id \in SessionId :
              SheetOf(Held', credits', id) =
                 IF id = w THEN [q \in Question |-> NoAnswer]
                 ELSE SheetOf(Held, credits, id)
    PROVE  Ledger!Start(w)
<1> DEFINE blank == [q \in Question |-> NoAnswer]
<1>1. SheetMap' = [SheetMap EXCEPT ![w] = blank]
  <2>1. \A id \in SessionId : SheetMap'[id] = IF id = w THEN blank
                                             ELSE SheetMap[id]
    BY Sheets, SheetsNext
  <2> HIDE DEF blank
  <2> QED  BY <2>1 DEF SheetMap
<1>2. SheetMap[w] = NoSession
  BY Sheets
<1>3. PaidSet' = PaidSet /\ w \notin PaidSet
  BY DEF PaidSet
<1> QED
  BY <1>1, <1>2, <1>3
  DEF Ledger!Start, Ledger!Open, Ledger!Question, Question, SheetMap, PaidSet

LEMMA LedgerPay ==
    ASSUME IInv, IInv', NEW w \in SessionId,
           credits' \in [SessionId -> Nat], credits'[w] > 0,
           \A id \in SessionId : id # w => credits'[id] = credits[id],
           NEW answers \in [Question -> Answer],
           SheetOf(Held, credits, w) = answers, NoAnswer \notin Answer,
           answers # NoSession,
           EarnedXp(Held') = EarnedXp(Held) + Award([q \in Question |-> answers[q] \in Correct]),
           \A id \in SessionId :
              SheetOf(Held', credits', id) =
                 IF id = w THEN NoSession ELSE SheetOf(Held, credits, id)
    PROVE  Ledger!Pay(w)
<1>1. SheetMap' = [SheetMap EXCEPT ![w] = NoSession] /\ SheetMap[w] = answers
  BY Sheets, SheetsNext DEF SheetMap
<1>2. PaidSet' = PaidSet \union {w}
  BY DEF PaidSet
<1>3. \A q \in Question : SheetMap[w][q] # NoAnswer
  BY <1>1
<1>4. EarnedXp(Held') = EarnedXp(Held) + Award([q \in Question |-> SheetMap[w][q] \in Correct])
  BY <1>1
<1>5. \A graded : Ledger!Award(graded) = Award(graded)
  <2>1. \A S : Ledger!Cardinality(S) = Cardinality(S)
    BY Zenon DEF Ledger!Cardinality, Cardinality
  <2> QED  BY <2>1 DEF Ledger!Award, Award, Ledger!Question, Question
<1> QED
  BY <1>1, <1>2, <1>3, <1>4, <1>5
  DEF Ledger!Pay, Ledger!Open, Ledger!Question, Question, SheetMap, PaidSet

LEMMA LedgerSteps ==
    ASSUME CleanUpUndisturbed, LInv, [Next]_vars
    PROVE  [Ledger!Next]_(Ledger!ledgerVars)
<1>1. /\ Sound(Held, begun, credits) /\ Orderly(Held, credits) /\ Slot(Held)
      /\ credits \in [SessionId -> Nat] /\ begun \in SUBSET SessionId
      /\ Held \in Progress /\ IInv
  BY HeldSound DEF LInv
<1>2. IInv'
  BY IInvStep DEF LInv
<1>3. CASE Grew
  <2>1. /\ credits' = credits /\ EarnedXp(Held') = EarnedXp(Held)
        /\ Held'.active = Held.active \/ Grown(Held.active, Held'.active)
    BY <1>3 DEF Grew, Grows
  <2>2. CASE Held'.active = Held.active
    BY <1>1, <1>2, <1>3, <2>1, <2>2, GrownSheets, LedgerUnchanged DEF Grew
  <2>3. CASE Held'.active # Held.active
    <3> DEFINE w == Held.active.id
               answers == Held'.active.submitted
    <3>1. \A id \in SessionId :
            SheetOf(Held', credits', id) =
               IF id = w /\ credits[id] = 0 THEN answers
               ELSE SheetOf(Held, credits, id)
      BY <1>1, <1>3, <2>1, <2>3, GrownSheets DEF Grew
    <3>2. /\ w \in SessionId /\ Held.active # NoSession
          /\ Held.active.submitted \in [Question -> Answer \union {NoAnswer}]
          /\ answers \in [Question -> Answer \union {NoAnswer}]
          /\ \A q \in Question : Held.active.submitted[q] \in {NoAnswer, answers[q]}
      <4>1. Held' \in Progress
        BY <1>2 DEF IInv, Sound, Held
      <4>2. Held.active \in Session /\ Held'.active \in Session
        BY <1>1, <2>1, <2>3, <4>1 DEF Grown, Progress
      <4> QED  BY <2>1, <2>3, <4>2 DEF Grown, KeepsSubmissions, Answered, Session
    <3> HIDE DEF answers
    <3>3. CASE credits[w] # 0
      BY <1>1, <1>2, <2>1, <3>1, <3>3, LedgerUnchanged
    <3>4. CASE credits[w] = 0
      <4>1. SheetOf(Held, credits, w) = Held.active.submitted
        BY <3>2, <3>4 DEF SheetOf
      <4>2. SheetOf(Held, credits, w) # NoSession
        BY <3>2, <4>1, SheetAssumption
      <4>3. \A id \in SessionId :
              SheetOf(Held', credits', id) =
                 IF id = w THEN answers ELSE SheetOf(Held, credits, id)
        BY <3>1, <3>4
      <4> HIDE DEF w
      <4>4. Ledger!Fill(w, answers)
        BY <1>1, <1>2, <2>1, <3>2, <4>1, <4>2, <4>3, LedgerFill
      <4> QED
        BY <3>2, <4>4 DEF Ledger!Next, Ledger!Sheet, Ledger!Question, Question
    <3> QED  BY <3>3, <3>4
  <2> QED  BY <2>2, <2>3
<1>4. CASE Lost
  BY <1>1, <1>2, <1>4, LedgerErase DEF Ledger!Next
<1>5. CASE Moved
  <2>1. credits' = credits /\ EarnedXp(Held') = EarnedXp(Held) /\ Held' = Reconcile(Held)
    BY <1>1, <1>5, ReconcileProgress DEF Moved, EarnedXp
  <2>2. CASE \A id \in SessionId :
               SheetOf(Reconcile(Held), credits, id) = SheetOf(Held, credits, id)
    BY <1>1, <1>2, <2>1, <2>2, LedgerUnchanged
  <2>3. CASE /\ Held.active # NoSession /\ KindOf[Held.active.id] = "retired"
             /\ \A id \in SessionId :
                   SheetOf(Reconcile(Held), credits, id) =
                      IF id = Held.active.id THEN NoSession
                      ELSE SheetOf(Held, credits, id)
    <3>1. Held.active.id \in SessionId
      BY <1>1, <2>3 DEF Progress, Session
    <3>2. Ledger!Withdraw(Held.active.id)
      BY <1>1, <1>2, <2>1, <2>3, <3>1, LedgerWithdraw
    <3> QED  BY <3>1, <3>2 DEF Ledger!Next
  <2> QED  BY <1>1, <2>2, <2>3, ReconcileSheets
<1>7. CASE Started
  <2>1. PICK w \in SessionId :
          /\ w \notin begun /\ Held.active = NoSession
          /\ Held' = [Held EXCEPT !.active = NewSession(w)]
          /\ credits' = credits
    BY <1>7 DEF Started
  <2>2. /\ NewSession(w) \in Session /\ NewSession(w).id = w
        /\ Behind(NewSession(w))
        /\ NewSession(w).submitted = [q \in Question |-> NoAnswer]
    BY NewSessionType, NewSessionOrder
  <2>3. credits[w] = 0 /\ (Held.deferred # NoSession => Held.deferred.id # w)
    BY <1>1, <2>1 DEF IInv, Sound
  <2>4. EarnedXp(Held') = EarnedXp(Held)
    BY <1>1, <2>1, <2>2, WithActive DEF EarnedXp
  <2>5. \A id \in SessionId :
          SheetOf(Held', credits', id) =
             IF id = w THEN NewSession(w).submitted
             ELSE SheetOf(Held, credits, id)
    BY <1>1, <2>1, <2>2, <2>3, ActiveSheets
  <2>6. SheetOf(Held, credits, w) = NoSession
    BY <2>1, <2>3 DEF SheetOf
  <2>7. Ledger!Start(w)
    BY <1>1, <1>2, <2>1, <2>2, <2>3, <2>4, <2>5, <2>6, LedgerStart
  <2> QED  BY <2>7 DEF Ledger!Next
<1>8. CASE Rewarded
  <2>1. PICK r \in Result :
          /\ MatchesActive(Held, r)
          /\ r.id \notin CompletedIds(Held)
          /\ Held' = Reconcile(Credit(Held, r))
          /\ credits' \in [SessionId -> Nat]
          /\ credits'[r.id] = credits[r.id] + 1
          /\ \A id \in SessionId : id # r.id => credits'[id] = credits[id]
    BY <1>8 DEF Rewarded
  <2> DEFINE answers == Held.active.submitted
  <2>2. /\ r.id \in SessionId /\ Held.active \in Session
        /\ Held.active # NoSession /\ Held.active.id = r.id
        /\ Answered(Held.active) = Question
        /\ r.graded = Graded(Held.active)
    BY <1>1, <2>1 DEF MatchesActive, SupportsCompletion, Result, Progress
  <2>3. credits[r.id] = 0 /\ SheetOf(Held, credits, r.id) = answers
    BY <1>1, <2>1, <2>2 DEF Sound, SheetOf
  <2>4. /\ answers \in [Question -> Answer]
        /\ answers # NoSession
        /\ r.graded = [q \in Question |-> answers[q] \in Correct]
    <3>1. answers \in [Question -> Answer \union {NoAnswer}]
      BY <2>2 DEF Session
    <3>2. \A q \in Question : answers[q] # NoAnswer
      BY <2>2 DEF Answered
    <3>3. answers # NoSession
      BY <3>1, SheetAssumption
    <3>4. r.graded = [q \in Question |-> answers[q] \in Correct]
      BY <2>2 DEF Graded
    <3> HIDE DEF answers
    <3> QED  BY <3>1, <3>2, <3>3, <3>4
  <2>5. EarnedXp(Held') = EarnedXp(Held) + Award(r.graded)
    <3>1. Held'.xp = Held.xp + Award(r.graded) /\ Held'.seeded = Held.seeded
      BY <1>1, <2>1, CreditedRecord
    <3>2. Award(r.graded) \in Nat /\ Held.xp \in Nat
      BY <1>1, AwardType DEF Result, Progress
    <3> QED  BY <3>1, <3>2 DEF EarnedXp, LegacyDemoXp
  <2>6. credits'[r.id] > 0 /\ credits'[r.id] # 0
    BY <2>1, <2>3
  <2>7. \A id \in SessionId :
          SheetOf(Held', credits', id) = IF id = r.id THEN NoSession
                                         ELSE SheetOf(Held, credits, id)
    BY <1>1, <2>1, <2>6, RewardedSheets
  <2> HIDE DEF answers
  <2>8. Ledger!Pay(r.id)
    BY <1>1, <1>2, <2>1, <2>2, <2>3, <2>4, <2>5, <2>6, <2>7, LessonAssumption,
       LedgerPay
  <2> QED  BY <2>2, <2>8 DEF Ledger!Next
<1> QED
  BY <1>1, <1>3, <1>4, <1>5, <1>7, <1>8, HeldSteps
  DEF LedgerStep

\* The record, the lock and the hook implement the ledger: however pages
\* interleave, fail and retry, each answer on a sheet is given once, a full
\* sheet is paid once for its own answers, and the XP earned is what was paid.
THEOREM RecordImplementsLedger ==
    ASSUME CleanUpUndisturbed PROVE Spec => KeepsLedger
<1>1. LInv => Ledger!Init
  BY LedgerStarts DEF LInv
<1>2. LInv /\ [Next]_vars => [Ledger!Next]_(Ledger!ledgerVars)
  BY LedgerSteps
<1> QED
  BY <1>1, <1>2, LInvInit, LInvStep, PTL
  DEF Spec, KeepsLedger, Ledger!Spec

=============================================================================
