------------------------- MODULE QuestProgressProofs ------------------------
(***************************************************************************)
(* Theorems about QuestProgress, for any number of pages, sessions,        *)
(* questions and answers: its types, the single reward per session, the    *)
(* free slot for set-aside work, accepted work that is never taken away    *)
(* and records of another release that are never overwritten.              *)
(***************************************************************************)
EXTENDS QuestProgress, SequenceTheorems, FiniteSetTheorems, TLAPS

-----------------------------------------------------------------------------
(* What the operations do to a progress value.                             *)

Slot(p) == WordStudy(p.active) /\ ~FrontierOpen(p) => p.deferred = NoSession

LEMMA NewSessionType ==
    ASSUME NEW id \in SessionId
    PROVE  /\ NewSession(id) \in Session
           /\ NewSession(id).id = id
BY LessonAssumption DEF NewSession, Session, Question

LEMMA AcceptedType ==
    ASSUME NEW s \in Session, s.rev < MaxRev
    PROVE  /\ Accepted(s) \in Session
           /\ Accepted(s).id = s.id
BY LessonAssumption DEF Accepted, Session

LEMMA WithActive ==
    ASSUME NEW p \in Progress, NEW s \in Session \union {NoSession}
    PROVE  /\ [p EXCEPT !.active = s] \in Progress
           /\ [p EXCEPT !.active = s].active = s
           /\ [p EXCEPT !.active = s].deferred = p.deferred
           /\ [p EXCEPT !.active = s].attempts = p.attempts
           /\ [p EXCEPT !.active = s].count = p.count
           /\ [p EXCEPT !.active = s].xp = p.xp
           /\ [p EXCEPT !.active = s].seeded = p.seeded
BY DEF Progress

LEMMA RecoverProgress ==
    ASSUME NEW p \in Progress
    PROVE  /\ Recover(p) \in Progress
           /\ Recover(p).active \in {p.active, NoSession}
           /\ Recover(p).deferred = p.deferred
           /\ Recover(p).attempts = p.attempts
           /\ Recover(p).count = p.count
           /\ Recover(p).xp = p.xp
           /\ Recover(p).seeded = p.seeded
           /\ Recover(p).active # NoSession =>
                Recover(p).active.id \notin CompletedIds(p)
BY WithActive DEF Recover

LEMMA DeferProgress ==
    ASSUME NEW p \in Progress
    PROVE  /\ Defer(p) \in Progress
           /\ \/ /\ Defer(p).active = p.active
                 /\ Defer(p).deferred = p.deferred
              \/ /\ Defer(p).active = NoSession
                 /\ Defer(p).deferred = p.active
                 /\ WordStudy(p.active) /\ ~FrontierOpen(p)
              \/ /\ Defer(p).active = p.deferred
                 /\ Defer(p).deferred = NoSession
                 /\ p.active = NoSession
           /\ Defer(p).attempts = p.attempts
           /\ Defer(p).count = p.count
           /\ Defer(p).xp = p.xp
           /\ Defer(p).seeded = p.seeded
BY DEF Defer, Progress

LEMMA ReconcileProgress ==
    ASSUME NEW p \in Progress
    PROVE  /\ Reconcile(p) \in Progress
           /\ Reconcile(p).attempts = p.attempts
           /\ Reconcile(p).count = p.count
           /\ Reconcile(p).xp = p.xp
           /\ Reconcile(p).seeded = p.seeded
           /\ Slot(p) => Slot(Reconcile(p))
<1> DEFINE q == Recover(p)
           r == Defer(q)
<1>1. q \in Progress /\ r \in Progress /\ Recover(r) \in Progress
  BY RecoverProgress, DeferProgress
<1>2. /\ Recover(r).attempts = p.attempts
      /\ Recover(r).count = p.count
      /\ Recover(r).xp = p.xp
      /\ Recover(r).seeded = p.seeded
  <2>1. /\ q.attempts = p.attempts /\ q.count = p.count
        /\ q.xp = p.xp /\ q.seeded = p.seeded
    BY RecoverProgress
  <2>2. /\ r.attempts = q.attempts /\ r.count = q.count
        /\ r.xp = q.xp /\ r.seeded = q.seeded
    BY <1>1, DeferProgress
  <2>3. /\ Recover(r).attempts = r.attempts
        /\ Recover(r).count = r.count
        /\ Recover(r).xp = r.xp
        /\ Recover(r).seeded = r.seeded
    BY <1>1, RecoverProgress
  <2> QED  BY <2>1, <2>2, <2>3
<1>3. ASSUME Slot(p) PROVE Slot(Recover(r))
  <2>1. /\ q.active \in {p.active, NoSession}
        /\ q.deferred = p.deferred /\ q.count = p.count
    BY RecoverProgress
  <2>2. Slot(q)
    BY <1>3, <2>1 DEF Slot, WordStudy, FrontierOpen
  <2>3. Slot(r)
    BY <2>2, <1>1, DeferProgress DEF Slot, Defer, WordStudy, FrontierOpen, Progress
  <2>4. /\ Recover(r).active \in {r.active, NoSession}
        /\ Recover(r).deferred = r.deferred /\ Recover(r).count = r.count
    BY <1>1, RecoverProgress
  <2> QED  BY <2>3, <2>4 DEF Slot, WordStudy, FrontierOpen
<1> QED  BY <1>1, <1>2, <1>3 DEF Reconcile

LEMMA NewestAttempts ==
    ASSUME NEW as \in Seq(Attempt), NEW a \in Attempt
    PROVE  LET new == Newest(Append(as, a)) IN
           /\ new \in Seq(Attempt)
           /\ Len(new) \in Nat \ {0}
           /\ new[Len(new)] = a
<1> DEFINE all == Append(as, a)
           from == Len(all) - MaxAttempts + 1
           kept == SubSeq(all, from, Len(all))
<1>1. /\ all \in Seq(Attempt)
      /\ Len(all) \in Nat \ {0}
      /\ all[Len(all)] = a
  <2> HIDE DEF all
  <2>1. /\ all \in Seq(Attempt) /\ Len(all) = Len(as) + 1
        /\ all[Len(as) + 1] = a
    BY AppendProperties DEF all
  <2>2. Len(as) \in Nat
    BY LenProperties
  <2>3. all[Len(all)] = a
    BY <2>1
  <2>4. Len(all) \in Nat \ {0}
    <3> DEFINE n == Len(as)
               m == Len(all)
    <3>1. n \in Nat /\ m = n + 1
      BY <2>1, <2>2
    <3> HIDE DEF n, m
    <3>2. m \in Nat \ {0}
      BY <3>1
    <3> QED  BY <3>2 DEF m
  <2> QED  BY <2>1, <2>3, <2>4
<1> HIDE DEF all
<1>2. CASE Len(all) > MaxAttempts
  <2>1. /\ from \in Int /\ Len(all) \in Int
        /\ from <= Len(all) /\ 1 <= from
        /\ Len(all) - from + 1 = MaxAttempts
        /\ from + MaxAttempts - 1 = Len(all)
    BY <1>1, <1>2, QuestAssumption
  <2>2. \A i \in from..Len(all) : all[i] \in Attempt
    <3>1. from..Len(all) \subseteq 1..Len(all)
      BY <2>1
    <3> QED  BY <1>1, <3>1, ElementOfSeq
  <2> HIDE DEF from
  <2>3. /\ kept \in Seq(Attempt)
        /\ Len(kept) = MaxAttempts
        /\ kept[MaxAttempts] = all[from + MaxAttempts - 1]
    BY <2>1, <2>2, SubSeqProperties, QuestAssumption
  <2>4. Newest(all) = kept
    BY <1>2 DEF Newest, from
  <2> HIDE DEF kept
  <2>5. Newest(all) \in Seq(Attempt) /\ Newest(all)[Len(Newest(all))] = a
    BY <1>1, <2>1, <2>3, <2>4
  <2> QED  BY <2>3, <2>4, <2>5, QuestAssumption DEF all
<1>3. CASE ~(Len(all) > MaxAttempts)
  <2>1. Newest(all) = all
    BY <1>3 DEF Newest
  <2> QED  BY <1>1, <2>1 DEF all
<1> QED  BY <1>2, <1>3

LEMMA AwardType ==
    ASSUME NEW graded \in [Question -> BOOLEAN]
    PROVE  Award(graded) \in Nat
<1>1. IsFiniteSet(1..NQ)
  BY LessonAssumption, FS_Interval
<1>2. Cardinality({q \in Question : graded[q]}) \in Nat
  BY <1>1, FS_Subset, FS_CardinalityType DEF Question
<1> QED  BY <1>2, LessonAssumption DEF Award

LEMMA CreditProgress ==
    ASSUME NEW p \in Progress, NEW r \in Result
    PROVE  /\ Credit(p, r) \in Progress
           /\ Credit(p, r).active = NoSession
           /\ Credit(p, r).deferred = p.deferred
           /\ Credit(p, r).count = p.count + 1
           /\ Credit(p, r).seeded = p.seeded
           /\ Len(Credit(p, r).attempts) \in Nat \ {0}
           /\ Credit(p, r).attempts[Len(Credit(p, r).attempts)] =
                [id |-> r.id, graded |-> r.graded]
           /\ Credit(p, r).attempts \in Seq(Attempt)
           /\ Credit(p, r).xp = p.xp + Award(r.graded)
<1> DEFINE a == [id |-> r.id, graded |-> r.graded]
           new == Newest(Append(p.attempts, a))
<1>1. a \in Attempt /\ r.graded \in [Question -> BOOLEAN]
  BY DEF Result, Attempt
<1>2. p.attempts \in Seq(Attempt) /\ p.count \in Nat /\ p.xp \in Nat
  BY DEF Progress
<1>3. /\ new \in Seq(Attempt) /\ Len(new) \in Nat \ {0}
      /\ new[Len(new)] = a
  BY <1>1, <1>2, NewestAttempts
<1>4. p.xp + Award(r.graded) \in Nat /\ p.count + 1 \in Nat
  BY <1>1, <1>2, AwardType
<1>5. Credit(p, r) = [p EXCEPT !.active = NoSession, !.attempts = new,
                               !.count = @ + 1, !.xp = @ + Award(r.graded)]
  BY DEF Credit
<1> HIDE DEF new
<1>6. Credit(p, r) \in Progress
  BY <1>3, <1>4, <1>5 DEF Progress
<1> QED  BY <1>3, <1>5, <1>6 DEF Progress

-----------------------------------------------------------------------------
(* What each operation can write.  A write needs the record to be the one  *)
(* the page read, and never replaces an unreadable one.                    *)

Saves(o, p) == o.durable = p /\ durable = job.read /\ durable # Unreadable

LEMMA Persisted ==
    ASSUME NEW p, NEW o \in Persist(p)
    PROVE  /\ o.durable # durable => Saves(o, p)
           /\ o.status = "saved" =>
                Saves(o, p) /\ o.read = p /\ o.progress = p
           /\ o.status = "conflict" =>
                /\ o.durable = durable /\ o.read = durable
                /\ o.progress = durable
                /\ Readable(durable) /\ durable # job.read
BY DEF Persist, Outcome, Saves

LEMMA Checkpointed ==
    ASSUME NEW s, NEW o \in CheckpointOutcomes(s), o.durable # durable
    PROVE  LET p == job.progress IN
           /\ Saves(o, [p EXCEPT !.active = Accepted(s)])
           /\ p.active # NoSession /\ p.active.id = s.id
           /\ Continues(p.active, s)
<1> DEFINE p == job.progress
           P == [p EXCEPT !.active = Accepted(s)]
<1>1. /\ p.active # NoSession /\ p.active.id = s.id
      /\ Continues(p.active, s)
      /\ o \in Persist(P)
  BY DEF CheckpointOutcomes, Unsaved, Outcome
<1> HIDE DEF P
<1>2. Saves(o, P)
  BY <1>1, Persisted
<1> QED  BY <1>1, <1>2 DEF P

LEMMA Completed ==
    ASSUME NEW r, NEW o \in CompleteOutcomes(r), o.durable # durable
    PROVE  LET p == job.progress IN
           \/ Saves(o, Reconcile(p))
           \/ /\ Saves(o, Reconcile(Credit(p, r)))
              /\ r.id \notin CompletedIds(p)
              /\ MatchesActive(p, r)
<1> DEFINE p == job.progress
<1>1. \/ o \in Persist(Reconcile(p))
      \/ /\ o \in Persist(Reconcile(Credit(p, r)))
         /\ r.id \notin CompletedIds(p)
         /\ MatchesActive(p, r)
  BY DEF CompleteOutcomes, Unsaved, Outcome
<1> QED  BY <1>1, Persisted

LEMMA CleanType ==
    ASSUME NEW p \in Progress
    PROVE  /\ Clean(p) \in Progress
           /\ Clean(p).active = p.active
           /\ Clean(p).deferred = p.deferred
           /\ Clean(p).attempts = p.attempts
           /\ Clean(p).count = p.count
           /\ ~Clean(p).seeded
           /\ ~p.seeded => Clean(p) = p
<1> DEFINE xp == IF p.xp >= LegacyDemoXp THEN p.xp - LegacyDemoXp ELSE 0
<1>1. xp \in Nat
  BY DEF LegacyDemoXp, Progress
<1>2. p.seeded => Clean(p) = [p EXCEPT !.xp = xp, !.seeded = FALSE]
  BY DEF Clean, Progress
<1>3. ~p.seeded => Clean(p) = p
  BY DEF Clean
<1> HIDE DEF xp
<1> QED  BY <1>1, <1>2, <1>3 DEF Progress

\* The demo totals are part of the total as long as they are there, and the
\* clean-up takes off exactly them.
Totalled(p) == p.seeded => LegacySeed /\ p.xp >= LegacyDemoXp

LEMMA CleanTotals ==
    ASSUME NEW p \in Progress, Totalled(p)
    PROVE  /\ EarnedXp(p) \in Nat
           /\ EarnedXp(Clean(p)) = EarnedXp(p)
           /\ Totalled(Clean(p))
BY DEF Clean, EarnedXp, Totalled, LegacyDemoXp, Progress

LEMMA RawCases ==
    /\ \A raw \in Raw : Readable(raw) <=> raw \in Progress
    /\ \A raw \in Raw : State(raw) \in Progress
    /\ \A p \in Progress : Readable(p) /\ State(p) = p
    /\ Fresh \in Progress
<1>1. Fresh \in Progress
  BY DEF Fresh, Progress
<1> QED  BY <1>1, RawAssumption DEF Raw, Readable, State

\* A load finds the record, or leaves it cleaned.
LEMMA LoadCases ==
    ASSUME NEW raw \in Raw, NEW left \in Loadable(raw)
    PROVE  /\ left \in Raw /\ (Readable(left) <=> Readable(raw))
           /\ Readable(raw) => /\ raw \in Progress /\ Loaded(raw) = Clean(raw)
                               /\ left \in {raw, Clean(raw)}
           /\ ~Readable(raw) => left = raw /\ Loaded(raw) = Fresh
<1>1. CASE Readable(raw)
  <2>1. raw \in Progress /\ Clean(raw) \in Progress
    BY <1>1, RawCases, CleanType
  <2> QED  BY <1>1, <2>1, RawCases DEF Loadable, Loaded, Raw
<1>2. CASE ~Readable(raw)
  BY <1>2 DEF Loadable, Loaded
<1> QED  BY <1>1, <1>2

-----------------------------------------------------------------------------
(* Types, and the free slot for set-aside work.                            *)

\* Every progress value at hand: saved, worked on, or about to be written
\* back by a clean-up.
ValidProgress == {p \in Progress : Slot(p)}

TypeInv ==
    /\ TypeOK
    /\ Readable(durable) => durable \in ValidProgress
    /\ job # NoJob => job.progress \in ValidProgress
    /\ \A t \in Tab : cleaning[t] # NoSnapshot => cleaning[t] \in ValidProgress

LEMMA FinishKeepsTypes ==
    ASSUME TypeInv, NEW o, NEW p \in ValidProgress, Finish(o),
           o.durable # durable => o.durable = p,
           begun' \subseteq SessionId
    PROVE  TypeInv'
<1>1. durable' \in Raw /\ (Readable(durable') => durable' \in ValidProgress)
  BY DEF Finish, Apply, TypeInv, TypeOK, ValidProgress, Raw
<1>2. credits' \in [SessionId -> Nat]
  BY DEF Finish, Apply, TypeInv, TypeOK
<1>3. job' = NoJob /\ cleaning' = cleaning /\ foreign' = foreign
  BY DEF Finish
<1> QED  BY <1>1, <1>2, <1>3 DEF TypeInv, TypeOK

LEMMA ValidUpdates ==
    ASSUME NEW p \in ValidProgress
    PROVE  /\ Reconcile(p) \in ValidProgress
           /\ Clean(p) \in ValidProgress
           /\ \A r \in Result : Reconcile(Credit(p, r)) \in ValidProgress
           /\ \A s \in Session :
                /\ WordStudy(s) => FrontierOpen(p) \/ WordStudy(p.active)
                => [p EXCEPT !.active = s] \in ValidProgress
<1>1. p \in Progress /\ Slot(p)
  BY DEF ValidProgress
<1>2. Reconcile(p) \in ValidProgress
  BY <1>1, ReconcileProgress DEF ValidProgress
<1>3. Clean(p) \in ValidProgress
  BY <1>1, CleanType DEF ValidProgress, Slot, WordStudy, FrontierOpen
<1>4. ASSUME NEW r \in Result PROVE Reconcile(Credit(p, r)) \in ValidProgress
  <2>1. Credit(p, r) \in Progress /\ Slot(Credit(p, r))
    BY <1>1, CreditProgress DEF Slot, WordStudy
  <2> QED  BY <2>1, ReconcileProgress DEF ValidProgress
<1>5. ASSUME NEW s \in Session,
             WordStudy(s) => FrontierOpen(p) \/ WordStudy(p.active)
      PROVE  [p EXCEPT !.active = s] \in ValidProgress
  <2> DEFINE P == [p EXCEPT !.active = s]
  <2>1. /\ P \in Progress
        /\ P.active = s /\ P.deferred = p.deferred /\ P.count = p.count
    BY <1>1, WithActive
  <2> HIDE DEF P
  <2>2. Slot(P)
    BY <1>1, <1>5, <2>1 DEF Slot, FrontierOpen
  <2> QED  BY <2>1, <2>2 DEF ValidProgress, P
<1> QED  BY <1>2, <1>3, <1>4, <1>5

LEMMA LoadedValid ==
    ASSUME NEW raw \in Raw, Readable(raw) => raw \in ValidProgress,
           NEW left \in Loadable(raw)
    PROVE  /\ left \in Raw /\ (Readable(left) => left \in ValidProgress)
           /\ Loaded(raw) \in ValidProgress
<1>1. CASE Readable(raw)
  BY <1>1, LoadCases, ValidUpdates
<1>2. CASE ~Readable(raw)
  <2>1. Fresh \in ValidProgress
    BY RawCases DEF ValidProgress, Slot, Fresh, WordStudy
  <2> QED  BY <1>2, <2>1, LoadCases
<1> QED  BY <1>1, <1>2

LEMMA InitialSessionType ==
    ASSUME NEW id \in SessionId
    PROVE  InitialSession(id) \in Session /\ InitialSession(id).id = id
<1>1. (CHOOSE a \in Answer : TRUE) \in Answer
  BY LessonAssumption
<1>2. 1 \in Question
  BY LessonAssumption DEF Question
<1> HIDE DEF Question
<1> QED  BY <1>1, <1>2, NewSessionType DEF InitialSession, Session

LEMMA InheritedProgress ==
    ASSUME NEW p \in InitialProgress
    PROVE  /\ p \in Progress
           /\ Totalled(p)
           /\ Slot(p)
           /\ p.active # NoSession /\ p.deferred # NoSession =>
                p.active.id # p.deferred.id
           /\ p.deferred # NoSession => p.deferred.id \notin CompletedIds(p)
           /\ \A s \in OpenSessions(p) : \E id \in SessionId : s = InitialSession(id)
<1> DEFINE saved == {InitialSession(id) : id \in SessionId}
           done == {s \in saved : KindOf[s.id] \in {"reading", "fluency"}}
           histories == {<<>>} \union
                        {<<[id |-> s.id, graded |-> Graded(s)]>> : s \in done}
           actives == saved \union {NoSession}
           deferreds == {s \in saved : WordStudy(s)} \union {NoSession}
           totals == UNION {{TotalXp(h, FALSE), TotalXp(h, TRUE)} : h \in histories}
<1>1. /\ saved \subseteq Session
      /\ \A s \in saved : s = InitialSession(s.id)
  BY InitialSessionType
<1>2. p \in {x \in [active : actives, deferred : deferreds, attempts : histories,
                    count : {0, 1}, xp : totals, seeded : {FALSE, LegacySeed}] :
                /\ x.count = Len(x.attempts)
                /\ x.xp = TotalXp(x.attempts, x.seeded)
                /\ WordStudy(x.active) => x.deferred = NoSession
                /\ x.deferred # NoSession => x.active # x.deferred}
  BY DEF InitialProgress, Inherited
<1>3. /\ p.active \in actives /\ p.deferred \in deferreds
      /\ p.attempts \in histories /\ p.count \in {0, 1}
      /\ p.seeded \in {FALSE, LegacySeed}
      /\ p = [active |-> p.active, deferred |-> p.deferred,
              attempts |-> p.attempts, count |-> p.count,
              xp |-> p.xp, seeded |-> p.seeded]
      /\ p.xp = TotalXp(p.attempts, p.seeded)
      /\ WordStudy(p.active) => p.deferred = NoSession
      /\ p.deferred # NoSession => p.active # p.deferred
  <2> HIDE DEF actives, deferreds, histories, totals
  <2> QED  BY <1>2
<1>4. OpenSessions(p) \subseteq saved
  <2> HIDE DEF saved
  <2> QED  BY <1>3 DEF OpenSessions
<1>5. \A s \in OpenSessions(p) : \E id \in SessionId : s = InitialSession(id)
  BY <1>4
<1> HIDE DEF saved
<1> DEFINE Lawful ==
             /\ p.attempts \in Seq(Attempt)
             /\ TotalXp(p.attempts, FALSE) \in Nat
             /\ TotalXp(p.attempts, TRUE) \in Nat
             /\ TotalXp(p.attempts, TRUE) >= LegacyDemoXp
             /\ \A i \in DOMAIN p.attempts :
                   KindOf[p.attempts[i].id] \in {"reading", "fluency"}
<1>6. Lawful
  <2>1. CASE p.attempts = <<>>
    BY <2>1 DEF TotalXp, LegacyDemoXp
  <2>2. ASSUME NEW s \in done,
               p.attempts = <<[id |-> s.id, graded |-> Graded(s)]>>
        PROVE  Lawful
    <3>1. Graded(s) \in [Question -> BOOLEAN]
      BY DEF Graded
    <3>2. [id |-> s.id, graded |-> Graded(s)] \in Attempt
      BY <1>1, <3>1 DEF Attempt, Session
    <3>3. p.attempts # <<>> /\ p.attempts[1].graded = Graded(s)
      BY <2>2
    <3>4. Award(p.attempts[1].graded) \in Nat
      BY <3>1, <3>3, AwardType
    <3>5. /\ TotalXp(p.attempts, FALSE) \in Nat
          /\ TotalXp(p.attempts, TRUE) \in Nat
          /\ TotalXp(p.attempts, TRUE) >= LegacyDemoXp
      BY <3>3, <3>4 DEF TotalXp, LegacyDemoXp
    <3>6. /\ p.attempts \in Seq(Attempt) /\ DOMAIN p.attempts = {1}
          /\ p.attempts[1].id = s.id
      BY <2>2, <3>2
    <3> QED  BY <3>5, <3>6
  <2> QED  BY <1>3, <2>1, <2>2
<1> HIDE DEF histories
<1>7. p.seeded \in BOOLEAN /\ (p.seeded => LegacySeed)
  <2>1. p.seeded \in {FALSE, LegacySeed} /\ LegacySeed \in BOOLEAN
    BY <1>3, QuestAssumption
  <2> QED  BY <2>1, Zenon
<1>8. p.xp \in Nat /\ (p.seeded => p.xp >= LegacyDemoXp)
  <2>1. CASE p.seeded = TRUE
    BY <1>3, <1>6, <2>1
  <2>2. CASE p.seeded = FALSE
    BY <1>3, <1>6, <2>2
  <2> QED  BY <1>7, <2>1, <2>2
<1>9. p \in Progress
  <2>1. p.active \in Session \union {NoSession}
        /\ p.deferred \in Session \union {NoSession} /\ p.count \in Nat
    BY <1>1, <1>3
  <2> HIDE DEF actives, deferreds
  <2> QED  BY <1>3, <1>6, <1>7, <1>8, <2>1 DEF Progress
<1>10. p.deferred # NoSession => p.deferred.id \notin CompletedIds(p)
  BY <1>3, <1>6 DEF CompletedIds, WordStudy
<1>11. p.active # NoSession /\ p.deferred # NoSession =>
        p.active.id # p.deferred.id
  BY <1>1, <1>3
<1>12. Slot(p) /\ Totalled(p)
  BY <1>3, <1>7, <1>8 DEF Slot, Totalled
<1> QED  BY <1>5, <1>9, <1>10, <1>11, <1>12

\* A checkpoint of the open session: the record's next revision of it.
CheckpointedBy(old, s, new) ==
    /\ s.rev < MaxRev
    /\ old.active # NoSession /\ old.active.id = s.id
    /\ Continues(old.active, s)
    /\ new = [old EXCEPT !.active = Accepted(s)]

LEMMA ForeignCheckpointed ==
    ASSUME NEW new \in ForeignCheckpoints
    PROVE  /\ Readable(durable)
           /\ \E s \in Session : CheckpointedBy(durable, s, new)
BY DEF ForeignCheckpoints, CheckpointedBy, Continues, ValidTransition

LEMMA TypeInit == Init => TypeInv
<1> SUFFICES ASSUME Init PROVE TypeInv
  OBVIOUS
<1>1. /\ durable \in Raw
      /\ Readable(durable) => durable \in ValidProgress /\ durable \in InitialProgress
  BY InheritedProgress DEF Init, Raw, Readable, ValidProgress
<1>2. begun \subseteq SessionId
  <2> DEFINE p == State(durable)
  <2>1. p \in Progress /\ p.attempts \in Seq(Attempt)
    BY <1>1, RawCases DEF Progress
  <2>2. CompletedIds(p) \subseteq SessionId
    <3>1. \A i \in DOMAIN p.attempts : p.attempts[i] \in Attempt
      BY <2>1, ElementOfSeq, LenProperties
    <3>2. \A a \in Attempt : a.id \in SessionId
      BY DEF Attempt
    <3> QED  BY <3>1, <3>2 DEF CompletedIds
  <2>3. \A x \in {p.active, p.deferred} \ {NoSession} : x.id \in SessionId
    BY <2>1 DEF Progress, Session
  <2> QED  BY <2>2, <2>3 DEF Init, Ids, OpenSessions
<1>3. credits \in [SessionId -> Nat]
  BY DEF Init
<1> QED
  BY <1>1, <1>2, <1>3, QuestAssumption DEF Init, TypeInv, TypeOK

LEMMA TypeStep == TypeInv /\ [Next]_vars => TypeInv'
<1> SUFFICES ASSUME TypeInv, [Next]_vars PROVE TypeInv'
  OBVIOUS
<1>1. /\ durable \in Raw
      /\ State(durable) \in ValidProgress
      /\ Readable(durable) => durable \in ValidProgress
      /\ job # NoJob => job \in Job /\ job.progress \in ValidProgress
      /\ begun \subseteq SessionId
  BY RawCases DEF TypeInv, TypeOK, State, ValidProgress, Slot, Fresh, WordStudy
<1>2. ASSUME NEW t \in Tab, LoadSeeded(t) PROVE TypeInv'
  <2>1. Readable(durable) /\ Clean(durable) \in ValidProgress
    BY <1>1, <1>2, ValidUpdates DEF LoadSeeded, State, Fresh
  <2>2. Clean(durable) \in Progress
    BY <2>1 DEF ValidProgress
  <2> QED  BY <1>2, <2>1, <2>2 DEF LoadSeeded, TypeInv, TypeOK
<1>3. ASSUME NEW t \in Tab, WriteCleaned(t) PROVE TypeInv'
  <2>1. durable' = durable \/ durable' \in ValidProgress
    BY <1>3 DEF WriteCleaned, TypeInv
  <2>2. durable' \in Raw /\ (Readable(durable') => durable' \in ValidProgress)
    BY <1>1, <2>1 DEF ValidProgress, Raw
  <2> QED  BY <1>3, <2>2 DEF WriteCleaned, TypeInv, TypeOK
<1>4. ASSUME NEW t \in Tab, NEW stage \in {"checkpoint", "complete", "launch"},
             Acquire(t, stage)
      PROVE  TypeInv'
  <2>1. /\ durable' \in Raw
        /\ Readable(durable') => durable' \in ValidProgress
        /\ Loaded(durable) \in ValidProgress
    BY <1>1, <1>4, LoadedValid DEF Acquire
  <2>2. /\ job' = [tab |-> t, stage |-> stage, read |-> durable',
                   progress |-> Loaded(durable)]
        /\ cleaning' = cleaning /\ begun' = begun /\ credits' = credits
        /\ foreign' = foreign
    BY <1>4 DEF Acquire
  <2>3. job' \in Job /\ job'.progress \in ValidProgress
    <3>1. Loaded(durable) \in Progress
      BY <2>1 DEF ValidProgress
    <3> QED  BY <2>1, <2>2, <3>1 DEF Job, Stages
  <2> QED  BY <2>1, <2>2, <2>3 DEF TypeInv, TypeOK
<1>5. ASSUME NEW t \in Tab, NEW s \in Session,
             NEW o \in CheckpointOutcomes(s), Checkpoint(t, s, o)
      PROVE  TypeInv'
  <2> DEFINE p == job.progress
             P == [p EXCEPT !.active = Accepted(s)]
  <2>1. s.rev < MaxRev /\ Finish(o) /\ begun' = begun /\ job # NoJob
    BY <1>5 DEF Checkpoint, Holds
  <2>2. CASE o.durable = durable
    BY <1>1, <2>1, <2>2, FinishKeepsTypes
  <2>3. CASE o.durable # durable
    <3>1. /\ o.durable = P
          /\ p.active # NoSession /\ p.active.id = s.id
      BY <1>5, <2>3, Checkpointed DEF Saves
    <3>2. /\ Accepted(s) \in Session /\ Accepted(s).id = s.id
          /\ Accepted(s) # NoSession
      BY <2>1, AcceptedType, NoSessionAssumption
    <3>3. WordStudy(Accepted(s)) => WordStudy(p.active)
      BY <3>1, <3>2 DEF WordStudy
    <3>4. P \in ValidProgress
      BY <1>1, <2>1, <3>2, <3>3, ValidUpdates
    <3> HIDE DEF P
    <3> QED  BY <1>1, <2>1, <3>1, <3>4, FinishKeepsTypes
  <2> QED  BY <2>2, <2>3
<1>6. ASSUME NEW t \in Tab, NEW r \in Result,
             NEW o \in CompleteOutcomes(r), Complete(t, r, o)
      PROVE  TypeInv'
  <2>1. Finish(o) /\ begun' = begun /\ job # NoJob
    BY <1>6 DEF Complete, Holds
  <2>2. CASE o.durable = durable
    BY <1>1, <2>1, <2>2, FinishKeepsTypes
  <2>3. CASE o.durable # durable
    <3>1. o.durable \in {Reconcile(job.progress),
                         Reconcile(Credit(job.progress, r))}
      BY <1>6, <2>3, Completed DEF Saves
    <3>2. o.durable \in ValidProgress
      BY <1>1, <2>1, <3>1, ValidUpdates
    <3> QED  BY <1>1, <2>1, <3>2, FinishKeepsTypes
  <2> QED  BY <2>2, <2>3
<1>7. ASSUME NEW t \in Tab, Reload(t) \/ ReconcileUnchanged(t)
      PROVE  TypeInv'
  <2>1. job # NoJob /\ UNCHANGED <<cleaning, begun, credits, foreign>>
    BY <1>7 DEF Reload, ReconcileUnchanged, Holds
  <2>2. durable' \in Raw /\ (Readable(durable') => durable' \in ValidProgress)
    BY <1>1, <1>7, LoadedValid DEF Reload, ReconcileUnchanged
  <2>3. job' \in Job /\ job'.progress \in ValidProgress
    <3>1. CASE Reload(t)
      <4>1. Loaded(durable) \in ValidProgress
        BY <1>1, <3>1, LoadedValid DEF Reload
      <4> QED  BY <1>1, <2>1, <2>2, <3>1, <4>1 DEF Reload, Job, Stages, ValidProgress
    <3>2. CASE ReconcileUnchanged(t)
      BY <1>1, <2>1, <3>2 DEF ReconcileUnchanged, Job, Stages, ValidProgress
    <3> QED  BY <1>7, <3>1, <3>2
  <2> QED  BY <2>1, <2>2, <2>3 DEF TypeInv, TypeOK
<1>8. ASSUME NEW t \in Tab, NEW o \in Persist(Reconcile(job.progress)),
             ReconcileSave(t, o)
      PROVE  TypeInv'
  <2> DEFINE P == Reconcile(job.progress)
  <2>1. /\ job # NoJob /\ Apply(o)
        /\ UNCHANGED <<cleaning, begun, foreign>>
        /\ \/ o.status = "saved"
           \/ o.status = "conflict"
        /\ job' = [job EXCEPT !.stage = IF o.status = "saved" THEN "plan"
                                        ELSE "reconcile_again",
                              !.read = o.read, !.progress = o.progress]
    BY <1>8 DEF ReconcileSave, Holds
  <2>2. P \in ValidProgress
    BY <1>1, <2>1, ValidUpdates
  <2> HIDE DEF P
  <2>3. /\ o.durable \in ValidProgress
        /\ o.read = o.durable /\ o.progress = o.durable
    <3>1. o \in Persist(P)
      BY DEF P
    <3> QED  BY <1>1, <2>1, <2>2, <3>1, Persisted DEF Saves
  <2>4. durable' = o.durable /\ durable' \in Raw
    BY <2>1, <2>3 DEF Apply, Raw, ValidProgress
  <2>5. job' \in Job /\ job'.progress \in ValidProgress
    BY <1>1, <2>1, <2>3 DEF Job, Stages, Raw, ValidProgress
  <2>6. credits' \in [SessionId -> Nat]
    BY <2>1 DEF Apply, TypeInv, TypeOK
  <2> QED  BY <2>1, <2>3, <2>4, <2>5, <2>6 DEF TypeInv, TypeOK
<1>9. ASSUME NEW t \in Tab, NEW o \in Persist(Reconcile(job.progress)),
             ReconcileFailed(t, o)
      PROVE  TypeInv'
  <2>1. Finish(o) /\ begun' = begun /\ job # NoJob
    BY <1>9 DEF ReconcileFailed, Holds
  <2>2. Reconcile(job.progress) \in ValidProgress
    BY <1>1, <2>1, ValidUpdates
  <2>3. o.durable # durable => o.durable = Reconcile(job.progress)
    BY Persisted DEF Saves
  <2> QED  BY <1>1, <2>1, <2>2, <2>3, FinishKeepsTypes
<1>10. ASSUME NEW t \in Tab, Resume(t) PROVE TypeInv'
  <2>1. Finish(Unsaved("resume")) /\ begun' = begun /\ job # NoJob
    BY <1>10 DEF Resume, Holds
  <2>2. Unsaved("resume").durable = durable
    BY DEF Unsaved, Outcome
  <2> QED  BY <1>1, <2>1, <2>2, FinishKeepsTypes
<1>11. ASSUME NEW t \in Tab, NEW id \in SessionId,
              NEW o \in Persist([job.progress EXCEPT !.active = NewSession(id)]),
              Begin(t, id, o)
       PROVE  TypeInv'
  <2> DEFINE P == [job.progress EXCEPT !.active = NewSession(id)]
  <2>1. /\ Finish(o) /\ begun' = begun \union {id} /\ job # NoJob
        /\ Startable(id)
    BY <1>11 DEF Begin, Holds
  <2>2. WordStudy(NewSession(id)) => FrontierOpen(job.progress)
    BY <2>1, NewSessionType DEF Startable, WordStudy
  <2>3. P \in ValidProgress
    BY <1>1, <2>1, <2>2, ValidUpdates, NewSessionType
  <2> HIDE DEF P
  <2>4. o.durable # durable => o.durable = P
    <3>1. o \in Persist(P)
      BY DEF P
    <3> QED  BY <3>1, Persisted DEF Saves
  <2> QED  BY <1>1, <2>1, <2>3, <2>4, FinishKeepsTypes
<1>12. ASSUME NEW t \in Tab, NEW o \in Persist(job.progress), Rest(t, o)
       PROVE  TypeInv'
  <2>1. Finish(o) /\ begun' = begun /\ job # NoJob
    BY <1>12 DEF Rest, Holds
  <2>2. o.durable # durable => o.durable = job.progress
    BY Persisted DEF Saves
  <2> QED  BY <1>1, <2>1, <2>2, FinishKeepsTypes
<1>13. ASSUME NEW t \in Tab, Close(t) PROVE TypeInv'
  BY <1>13 DEF Close, TypeInv, TypeOK
<1>14. ASSUME ForeignWrite PROVE TypeInv'
  <2>1. /\ durable' \in {Empty, Unreadable} \/ durable' \in ForeignCheckpoints
        /\ foreign' \in 0..MaxForeign
        /\ UNCHANGED <<job, cleaning, begun, credits>>
    BY <1>14, QuestAssumption DEF ForeignWrite, TypeInv, TypeOK
  <2>2. durable' \in Raw /\ (Readable(durable') => durable' \in ValidProgress)
    <3>1. CASE durable' \in {Empty, Unreadable}
      BY <3>1 DEF Raw, Readable
    <3>2. CASE durable' \in ForeignCheckpoints
      <4>1. durable \in ValidProgress /\ durable \in Progress
        BY <1>1, <3>2 DEF ForeignCheckpoints, ValidProgress
      <4>2. PICK s \in Session : CheckpointedBy(durable, s, durable')
        BY <3>2, <4>1, ForeignCheckpointed
      <4>3. durable' \in ValidProgress
        <5>1. Accepted(s) \in Session /\ Accepted(s).id = s.id
          BY <4>2, AcceptedType DEF CheckpointedBy
        <5>2. WordStudy(Accepted(s)) => WordStudy(durable.active)
          BY <4>2, <5>1 DEF CheckpointedBy, WordStudy
        <5> QED  BY <4>1, <4>2, <5>1, <5>2, ValidUpdates DEF CheckpointedBy
      <4> QED  BY <4>3 DEF Raw, ValidProgress
    <3> QED  BY <2>1, <3>1, <3>2
  <2> QED  BY <2>1, <2>2 DEF TypeInv, TypeOK
<1>15. CASE UNCHANGED vars
  BY <1>15 DEF vars, TypeInv, TypeOK
<1> QED
  BY <1>2, <1>3, <1>4, <1>5, <1>6, <1>7, <1>8, <1>9, <1>10, <1>11, <1>12,
     <1>13, <1>14, <1>15
  DEF Next

\* Every value the record, the lock and the hook handle has its type.
THEOREM TypeCorrect == Spec => []TypeOK
<1>1. TypeInv => TypeOK
  BY DEF TypeInv
<1> QED  BY <1>1, TypeInit, TypeStep, PTL DEF Spec

\* No paused word-study session is ever displaced by another: the slot is
\* free whenever one would have to be set aside.
THEOREM SlotAlwaysFree == Spec => []DeferredSlotFree
<1>1. TypeInv => DeferredSlotFree
  BY DEF TypeInv, DeferredSlotFree, ValidProgress, Slot, State, Fresh, WordStudy
<1> QED  BY <1>1, TypeInit, TypeStep, PTL DEF Spec

-----------------------------------------------------------------------------
(* One reward per session.  The clean-up of the old demo totals writes     *)
(* outside the lock without looking again.  What follows is for records    *)
(* without demo totals, or for a single page that nothing else disturbs.   *)

CleanUpUndisturbed ==
    \/ ~LegacySeed
    \/ MaxForeign = 0 /\ \A t, u \in Tab : t = u

\* What is true of every progress value the code holds, given the ids begun
\* so far and the rewards written so far.
Sound(p, ids, paid) ==
    /\ p \in Progress
    /\ p.active # NoSession =>
        /\ p.active.id \in ids
        /\ paid[p.active.id] = 0 \/ p.active.id \in CompletedIds(p)
    /\ p.deferred # NoSession =>
        /\ p.deferred.id \in ids
        /\ paid[p.deferred.id] = 0
    /\ p.active # NoSession /\ p.deferred # NoSession =>
        p.active.id # p.deferred.id
    /\ Totalled(p)

\* No question ahead of the one a session is at has an answer.
Behind(s) == \A q \in Answered(s) : q <= s.index

\* What checkpoints can have added to the session under way.
Grown(old, new) ==
    /\ old # NoSession /\ new # NoSession /\ new.id = old.id
    /\ KeepsSubmissions(old, new)
    /\ Behind(new)

Grows(p, new) ==
    /\ new.active = p.active \/ Grown(p.active, new.active)
    /\ new.deferred = p.deferred /\ new.attempts = p.attempts
    /\ new.count = p.count /\ EarnedXp(new) = EarnedXp(p)

\* The page holding the lock works on what it read, cleaned or not,
LockedCopy ==
    job # NoJob /\ Readable(job.read) =>
        job.progress \in {job.read, Clean(job.read)}

\* and the record is that, with checkpoints another release may have added,
\* unless it was cleared or made unreadable under the page.
Underway ==
    job # NoJob /\ Readable(durable) => Grows(job.progress, durable)

\* What a clean-up is about to write back is the record, cleaned; and no page
\* has the lock.
CleanUps ==
    \A t \in Tab : cleaning[t] # NoSnapshot =>
        /\ LegacySeed
        /\ job = NoJob
        /\ Readable(durable) /\ cleaning[t] = Clean(durable)

IInv ==
    /\ TypeInv
    /\ CreditedOnce
    /\ CleanUps
    /\ \A id \in SessionId : id \notin begun => credits[id] = 0
    /\ Sound(State(durable), begun, credits)
    /\ job # NoJob => Sound(job.progress, begun, credits)
    /\ LockedCopy
    /\ Underway

\* A record without the old demo totals is never cleaned.
LEMMA NoCleanUps ==
    ASSUME ~LegacySeed, IInv
    PROVE  /\ \A t \in Tab : cleaning[t] = NoSnapshot
           /\ ~State(durable).seeded
           /\ job # NoJob => ~job.progress.seeded
BY DEF IInv, CleanUps, Sound, Totalled

LEMMA SoundClean ==
    ASSUME NEW p, NEW ids, NEW paid, Sound(p, ids, paid)
    PROVE  Sound(Clean(p), ids, paid)
BY CleanType, CleanTotals DEF Sound, CompletedIds

LEMMA KeepsOwnWork == \A s \in Session : KeepsWork(s, s)
BY LessonAssumption DEF KeepsWork, KeepsSubmissions, SamePayload, Session, Question

\* Growing is reflexive and transitive, and a clean-up does not touch it.
LEMMA GrowsClean ==
    ASSUME NEW p \in Progress, Totalled(p)
    PROVE  Grows(p, p) /\ Grows(p, Clean(p)) /\ Grows(Clean(p), p)
BY CleanType, CleanTotals DEF Grows

LEMMA GrowsOn ==
    ASSUME NEW p, NEW q, NEW r, Grows(p, q), Grows(q, r)
    PROVE  Grows(p, r)
<1>1. ASSUME Grown(p.active, q.active), Grown(q.active, r.active)
      PROVE  Grown(p.active, r.active)
  BY <1>1 DEF Grown, KeepsSubmissions, Answered
<1> QED  BY <1>1 DEF Grows

LEMMA AcceptedOrder ==
    ASSUME NEW old \in Session, NEW s \in Session, Continues(old, s)
    PROVE  /\ Behind(Accepted(s))
           /\ Accepted(s).submitted = s.submitted
           /\ KeepsSubmissions(old, Accepted(s))
<1>1. Accepted(s).submitted = s.submitted /\ Accepted(s).index = s.index
  BY DEF Accepted, Session
<1>2. \A q \in Answered(s) : q <= s.index
  BY DEF Continues, ValidTransition, FollowsPosition
<1>3. Behind(Accepted(s))
  BY <1>1, <1>2 DEF Behind, Answered
<1>4. KeepsSubmissions(old, Accepted(s))
  BY <1>1 DEF Continues, ValidTransition, KeepsSubmissions
<1> QED  BY <1>1, <1>3, <1>4

LEMMA GrowsByCheckpoint ==
    ASSUME NEW p \in Progress, NEW s \in Session, NEW new,
           CheckpointedBy(p, s, new)
    PROVE  Grows(p, new) /\ new \in Progress /\ Accepted(s) \in Session
<1>1. /\ Accepted(s) \in Session /\ Accepted(s).id = s.id
      /\ Accepted(s) # NoSession /\ p.active \in Session
  BY AcceptedType, NoSessionAssumption DEF CheckpointedBy, Progress
<1>2. /\ new \in Progress /\ new.active = Accepted(s)
      /\ new.deferred = p.deferred /\ new.attempts = p.attempts
      /\ new.count = p.count /\ new.xp = p.xp /\ new.seeded = p.seeded
  BY <1>1, WithActive DEF CheckpointedBy
<1>3. Grown(p.active, new.active)
  BY <1>1, <1>2, AcceptedOrder DEF Grown, CheckpointedBy
<1> QED  BY <1>1, <1>2, <1>3 DEF Grows, EarnedXp

LEMMA SoundRecover ==
    ASSUME NEW p, NEW ids, NEW paid, Sound(p, ids, paid)
    PROVE  /\ Sound(Recover(p), ids, paid)
           /\ Recover(p).active # NoSession => paid[Recover(p).active.id] = 0
BY RecoverProgress DEF Sound, CompletedIds, Totalled

LEMMA SoundReconcile ==
    ASSUME NEW p, NEW ids, NEW paid, Sound(p, ids, paid)
    PROVE  Sound(Reconcile(p), ids, paid)
<1> DEFINE q == Recover(p)
           r == Defer(q)
<1>1. Sound(q, ids, paid) /\ (q.active # NoSession => paid[q.active.id] = 0)
  BY SoundRecover
<1> HIDE DEF q
<1>2. q \in Progress
  BY <1>1 DEF Sound
<1>3. Sound(r, ids, paid)
  <2> HIDE DEF r
  <2>1. /\ r \in Progress
        /\ \/ r.active = q.active /\ r.deferred = q.deferred
           \/ r.active = NoSession /\ r.deferred = q.active
           \/ r.active = q.deferred /\ r.deferred = NoSession
        /\ r.seeded = q.seeded /\ r.xp = q.xp
    BY <1>2, DeferProgress DEF r
  <2> QED  BY <1>1, <2>1 DEF Sound, Totalled
<1> HIDE DEF r
<1>4. Sound(Recover(r), ids, paid)
  BY <1>3, SoundRecover
<1> QED  BY <1>4 DEF Reconcile, q, r

LEMMA SoundCredit ==
    ASSUME NEW p, NEW ids \in SUBSET SessionId, NEW paid \in [SessionId -> Nat],
           NEW new \in [SessionId -> Nat], Sound(p, ids, paid),
           NEW r \in Result, MatchesActive(p, r),
           \A id \in SessionId : id # r.id => new[id] = paid[id]
    PROVE  Sound(Reconcile(Credit(p, r)), ids, new)
<1>1. /\ p \in Progress
      /\ p.active # NoSession /\ p.active.id = r.id
  BY DEF Sound, MatchesActive
<1>2. /\ Credit(p, r) \in Progress
      /\ Credit(p, r).active = NoSession
      /\ Credit(p, r).deferred = p.deferred
      /\ Credit(p, r).seeded = p.seeded
      /\ Credit(p, r).xp = p.xp + Award(r.graded)
  BY <1>1, CreditProgress
<1>3. Totalled(Credit(p, r))
  <2>1. Award(r.graded) \in Nat
    BY AwardType DEF Result
  <2>2. p.xp \in Nat /\ Totalled(p)
    BY <1>1 DEF Sound, Progress
  <2> QED  BY <1>2, <2>1, <2>2 DEF Totalled, LegacyDemoXp
<1>4. Sound(Credit(p, r), ids, new)
  BY <1>1, <1>2, <1>3 DEF Sound
<1> QED  BY <1>4, SoundReconcile

LEMMA SoundActive ==
    ASSUME NEW p, NEW ids, NEW more, NEW paid, Sound(p, ids, paid),
           ids \subseteq more, NEW s \in Session, s.id \in more,
           \/ p.active # NoSession /\ p.active.id = s.id
           \/ s.id \notin ids /\ paid[s.id] = 0
    PROVE  Sound([p EXCEPT !.active = s], more, paid)
<1> DEFINE P == [p EXCEPT !.active = s]
<1>1. /\ P \in Progress /\ P.active = s /\ P.deferred = p.deferred
      /\ P.attempts = p.attempts /\ P.seeded = p.seeded /\ P.xp = p.xp
  BY WithActive DEF Sound
<1> HIDE DEF P
<1>2. CompletedIds(P) = CompletedIds(p)
  BY <1>1 DEF CompletedIds
<1>3. Sound(P, more, paid)
  BY <1>1, <1>2 DEF Sound, Totalled
<1> QED  BY <1>3 DEF P

LEMMA SoundMore ==
    ASSUME NEW p, NEW ids, NEW more, NEW paid, Sound(p, ids, paid),
           ids \subseteq more
    PROVE  Sound(p, more, paid)
BY DEF Sound

\* While a page has the lock nothing is about to be written outside it.
LEMMA NoCleanUpUnderLock ==
    ASSUME IInv, job # NoJob
    PROVE  \A t \in Tab : cleaning[t] = NoSnapshot
BY DEF IInv, CleanUps

\* A write that completes no session adds no reward; one that does adds the
\* one reward of that session.
LEMMA NoReward ==
    ASSUME IInv, job # NoJob, NEW o, Apply(o),
           \/ o.durable = durable
           \/ o.durable \in Progress /\ o.durable.count = job.progress.count
    PROVE  credits' = credits
<1>1. job.progress.count \in Nat /\ credits \in [SessionId -> Nat]
  BY DEF IInv, TypeInv, TypeOK, ValidProgress, Progress
<1>2. \A id \in SessionId : ~Completes(o.durable, id)
  BY <1>1 DEF Completes, IInv, Underway, Grows
<1>3. credits' = [id \in SessionId |-> credits[id] + 0]
  BY <1>2 DEF Apply
<1> QED  BY <1>1, <1>3

LEMMA OneReward ==
    ASSUME IInv, job # NoJob, NEW o, Apply(o), NEW r \in Result,
           o.durable = Reconcile(Credit(job.progress, r))
    PROVE  /\ credits' \in [SessionId -> Nat]
           /\ credits'[r.id] = credits[r.id] + 1
           /\ \A id \in SessionId : id # r.id => credits'[id] = credits[id]
<1> DEFINE p == job.progress
           c == Credit(p, r)
<1>1. p \in Progress /\ p.count \in Nat /\ credits \in [SessionId -> Nat]
  BY DEF IInv, TypeInv, TypeOK, ValidProgress, Progress
<1>2. /\ c \in Progress /\ c.count = p.count + 1
      /\ c.attempts[Len(c.attempts)].id = r.id
  <2>1. /\ c \in Progress /\ c.count = p.count + 1
        /\ c.attempts[Len(c.attempts)] = [id |-> r.id, graded |-> r.graded]
    BY <1>1, CreditProgress
  <2> HIDE DEF c
  <2> QED  BY <2>1
<1> HIDE DEF c
<1>3. /\ o.durable \in Progress /\ o.durable.attempts = c.attempts
      /\ o.durable.count = c.count
  BY <1>2, ReconcileProgress DEF c
<1>4. Readable(o.durable)
  BY <1>3, RawAssumption DEF Readable
<1>5. \A id \in SessionId : Completes(o.durable, id) <=> id = r.id
  BY <1>1, <1>2, <1>3, <1>4 DEF Completes
<1>6. credits' = [id \in SessionId |->
                    credits[id] + IF Completes(o.durable, id) THEN 1 ELSE 0]
  BY DEF Apply
<1>7. r.id \in SessionId
  BY DEF Result
<1> QED  BY <1>1, <1>5, <1>6, <1>7

LEMMA IInvInit == Init => IInv
<1> SUFFICES ASSUME Init PROVE IInv
  OBVIOUS
<1> DEFINE p == State(durable)
<1>1. TypeInv
  BY TypeInit
<1>2. /\ begun = Ids(p)
      /\ credits = [id \in SessionId |-> IF id \in CompletedIds(p) THEN 1 ELSE 0]
      /\ job = NoJob
      /\ cleaning = [t \in Tab |-> NoSnapshot]
      /\ p \in InitialProgress \/ p = Fresh
  <2>1. p \in InitialProgress \/ p = Fresh
    BY DEF Init, State, Readable
  <2> HIDE DEF p
  <2>2. /\ begun = Ids(p)
        /\ credits = [id \in SessionId |->
                        IF id \in CompletedIds(p) THEN 1 ELSE 0]
        /\ job = NoJob
        /\ cleaning = [t \in Tab |-> NoSnapshot]
    BY DEF Init, p
  <2> QED  BY <2>1, <2>2
<1>3. /\ p \in Progress /\ Totalled(p)
      /\ p.active # NoSession /\ p.deferred # NoSession =>
           p.active.id # p.deferred.id
      /\ p.deferred # NoSession => p.deferred.id \notin CompletedIds(p)
  <2>1. CASE p \in InitialProgress
    BY <2>1, InheritedProgress
  <2>2. CASE p = Fresh
    BY <2>2, RawCases DEF Fresh, Totalled
  <2> QED  BY <1>2, <2>1, <2>2
<1> HIDE DEF p
<1>4. Sound(p, begun, credits)
  <2>1. \A s \in {p.active, p.deferred} \ {NoSession} :
            s.id \in SessionId /\ s.id \in begun
    BY <1>2, <1>3 DEF Progress, Session, Ids, OpenSessions
  <2> QED  BY <1>2, <1>3, <2>1 DEF Sound
<1>5. \A id \in SessionId : credits[id] <= 1
  BY <1>2
<1>6. \A id \in SessionId : id \notin begun => credits[id] = 0
  BY <1>2 DEF Ids
<1>7. CleanUps
  BY <1>2 DEF CleanUps
<1> QED  BY <1>1, <1>2, <1>4, <1>5, <1>6, <1>7 DEF IInv, CreditedOnce, LockedCopy, Underway, p

\* The parts of IInv that a finished operation leaves to show: the value it
\* wrote is sound and no session got a second reward.
LEMMA FinishKeepsIInv ==
    ASSUME IInv, TypeInv', NEW o, Finish(o), job # NoJob,
           begun' = begun, credits' = credits,
           o.durable # durable => Sound(o.durable, begun, credits)
    PROVE  IInv'
<1>1. job' = NoJob /\ cleaning' = cleaning /\ durable' = o.durable
  BY DEF Finish, Apply
<1>2. Sound(State(durable'), begun', credits')
  <2>1. CASE o.durable = durable
    BY <1>1, <2>1 DEF IInv
  <2>2. CASE o.durable # durable
    <3>1. durable' \in Progress
      BY <1>1, <2>2 DEF Sound
    <3>2. State(durable') = durable'
      BY <3>1, RawAssumption DEF State, Readable
    <3> QED  BY <1>1, <2>2, <3>2
  <2> QED  BY <2>1, <2>2
<1>3. CleanUps'
  BY <1>1, NoCleanUpUnderLock DEF CleanUps
<1> QED  BY <1>1, <1>2, <1>3 DEF IInv, CreditedOnce, LockedCopy, Underway

\* A load leaves a sound record and gives the page a sound copy of it.
Loads(left, p) ==
    /\ Sound(State(left), begun, credits)
    /\ Sound(p, begun, credits)
    /\ Readable(left) => p \in {left, Clean(left)} /\ Grows(p, left)

LEMMA LoadSound ==
    ASSUME durable \in Raw, Sound(State(durable), begun, credits),
           NEW left \in Loadable(durable)
    PROVE  Loads(left, Loaded(durable))
<1>1. CASE Readable(durable)
  <2>1. /\ Sound(durable, begun, credits) /\ durable \in Progress
        /\ Totalled(durable)
    BY <1>1, RawCases DEF State, Sound
  <2>2. /\ Sound(Clean(durable), begun, credits) /\ Clean(durable) \in Progress
        /\ Clean(Clean(durable)) = Clean(durable)
        /\ Totalled(Clean(durable))
    BY <2>1, SoundClean, CleanType DEF Sound
  <2>3. left \in {durable, Clean(durable)} /\ Loaded(durable) = Clean(durable)
    BY <1>1, LoadCases
  <2>4. Grows(Clean(durable), durable) /\ Grows(Clean(durable), Clean(durable))
    BY <2>1, <2>2, GrowsClean
  <2>5. State(left) = left
    BY <2>1, <2>2, <2>3, RawCases
  <2> QED  BY <2>1, <2>2, <2>3, <2>4, <2>5 DEF Loads
<1>2. CASE ~Readable(durable)
  BY <1>2, LoadCases DEF State, Loads
<1> QED  BY <1>1, <1>2

LEMMA IInvStep == ASSUME CleanUpUndisturbed PROVE IInv /\ [Next]_vars => IInv'
<1> SUFFICES ASSUME IInv, [Next]_vars PROVE IInv'
  OBVIOUS
<1>0. TypeInv'
  BY TypeStep DEF IInv
<1>1. /\ durable \in Raw
      /\ Sound(State(durable), begun, credits)
      /\ job # NoJob => Sound(job.progress, begun, credits)
      /\ begun \in SUBSET SessionId
      /\ credits \in [SessionId -> Nat]
      /\ job # NoJob => \A t \in Tab : cleaning[t] = NoSnapshot
      /\ cleaning \in [Tab -> Progress \union {NoSnapshot}]
      /\ CleanUps
  BY NoCleanUpUnderLock DEF IInv, TypeInv, TypeOK
<1>2. ASSUME NEW t \in Tab, LoadSeeded(t) PROVE IInv'
  <2>1. /\ State(durable).seeded
        /\ ~Holds(t, Stages)
        /\ cleaning' = [cleaning EXCEPT ![t] = Clean(durable)]
        /\ UNCHANGED <<durable, job, begun, credits, foreign>>
    BY <1>2 DEF LoadSeeded
  <2>2. LegacySeed /\ \A u \in Tab : u = t
    BY <1>1, <2>1 DEF Sound, Totalled, CleanUpUndisturbed
  <2>3. job = NoJob
    BY <2>1, <2>2 DEF Holds, IInv, TypeInv, TypeOK, Job
  <2>4. Readable(durable)
    BY <2>1 DEF State, Fresh
  <2>5. CleanUps'
    BY <1>1, <2>1, <2>2, <2>3, <2>4 DEF CleanUps
  <2> QED  BY <1>0, <2>1, <2>5 DEF IInv, CreditedOnce, LockedCopy, Underway
<1>3. ASSUME NEW t \in Tab, WriteCleaned(t) PROVE IInv'
  <2>1. /\ cleaning[t] # NoSnapshot
        /\ durable' \in {cleaning[t], durable}
        /\ cleaning' = [cleaning EXCEPT ![t] = NoSnapshot]
        /\ UNCHANGED <<job, begun, credits>>
    BY <1>3 DEF WriteCleaned
  <2>2. /\ job = NoJob /\ Readable(durable) /\ cleaning[t] = Clean(durable)
        /\ \A u \in Tab : u = t
    BY <1>1, <2>1 DEF CleanUps, CleanUpUndisturbed
  <2>3. Sound(durable', begun, credits)
    BY <1>1, <2>1, <2>2, SoundClean DEF State
  <2>4. State(durable') = durable'
    BY <2>3, RawCases DEF Sound
  <2>5. CleanUps'
    BY <1>1, <2>1, <2>2 DEF CleanUps
  <2> QED  BY <1>0, <2>1, <2>2, <2>3, <2>4, <2>5
           DEF IInv, CreditedOnce, LockedCopy, Underway
<1>4. ASSUME NEW t \in Tab, NEW stage \in {"checkpoint", "complete", "launch"},
             Acquire(t, stage)
      PROVE  IInv'
  <2>1. /\ cleaning[t] = NoSnapshot /\ job = NoJob
        /\ durable' \in Loadable(durable)
        /\ job' = [tab |-> t, stage |-> stage, read |-> durable',
                   progress |-> Loaded(durable)]
        /\ UNCHANGED <<cleaning, begun, credits>>
    BY <1>4 DEF Acquire
  <2>2. Loads(durable', Loaded(durable))
    BY <1>1, <2>1, LoadSound
  <2>3. \A u \in Tab : cleaning[u] = NoSnapshot
    BY <1>1, <2>1 DEF CleanUps, CleanUpUndisturbed
  <2>4. CleanUps'
    BY <2>1, <2>3 DEF CleanUps
  <2>5. job'.progress = Loaded(durable) /\ job'.read = durable'
    BY <2>1
  <2> QED  BY <1>0, <2>1, <2>2, <2>4, <2>5
           DEF IInv, CreditedOnce, LockedCopy, Underway, Loads
<1>5. ASSUME NEW t \in Tab, NEW s \in Session,
             NEW o \in CheckpointOutcomes(s), Checkpoint(t, s, o)
      PROVE  IInv'
  <2> DEFINE p == job.progress
             P == [p EXCEPT !.active = Accepted(s)]
  <2>1. /\ s.rev < MaxRev /\ Finish(o) /\ Apply(o) /\ begun' = begun
        /\ job # NoJob
    BY <1>5 DEF Checkpoint, Holds, Finish
  <2>2. CASE o.durable = durable
    BY <1>0, <2>1, <2>2, NoReward, FinishKeepsIInv
  <2>3. CASE o.durable # durable
    <3>1. /\ o.durable = P
          /\ p.active # NoSession /\ p.active.id = s.id
      BY <1>5, <2>3, Checkpointed DEF Saves
    <3>2. Accepted(s) \in Session /\ Accepted(s).id = s.id
      BY <2>1, AcceptedType
    <3>3. Sound(p, begun, credits) /\ p \in Progress /\ s.id \in begun
      BY <1>1, <2>1, <3>1 DEF Sound
    <3>4. Sound(P, begun, credits)
      BY <3>1, <3>2, <3>3, SoundActive
    <3>5. P \in Progress /\ P.count = p.count
      BY <3>2, <3>3, WithActive
    <3> HIDE DEF P
    <3>6. credits' = credits
      BY <2>1, <3>1, <3>5, NoReward
    <3> QED  BY <1>0, <2>1, <3>1, <3>4, <3>6, FinishKeepsIInv
  <2> QED  BY <2>2, <2>3
<1>6. ASSUME NEW t \in Tab, NEW r \in Result,
             NEW o \in CompleteOutcomes(r), Complete(t, r, o)
      PROVE  IInv'
  <2> DEFINE p == job.progress
  <2>1. Finish(o) /\ Apply(o) /\ begun' = begun /\ job # NoJob
    BY <1>6 DEF Complete, Holds, Finish
  <2>2. Sound(p, begun, credits) /\ p \in Progress
    BY <1>1, <2>1 DEF Sound
  <2>3. CASE o.durable = durable
    BY <1>0, <2>1, <2>3, NoReward, FinishKeepsIInv
  <2>4. CASE o.durable = Reconcile(p)
    <3>1. Sound(o.durable, begun, credits)
      BY <2>2, <2>4, SoundReconcile
    <3>2. o.durable \in Progress /\ o.durable.count = p.count
      BY <2>2, <2>4, ReconcileProgress
    <3>3. credits' = credits
      BY <2>1, <3>2, NoReward
    <3> QED  BY <1>0, <2>1, <3>1, <3>3, FinishKeepsIInv
  <2>5. CASE /\ o.durable = Reconcile(Credit(p, r))
             /\ r.id \notin CompletedIds(p)
             /\ MatchesActive(p, r)
    <3>1. /\ credits' \in [SessionId -> Nat]
          /\ credits'[r.id] = credits[r.id] + 1
          /\ \A id \in SessionId : id # r.id => credits'[id] = credits[id]
      BY <2>1, <2>5, OneReward
    <3>2. r.id \in begun /\ credits[r.id] = 0
      BY <2>2, <2>5 DEF MatchesActive, Sound
    <3>3. Sound(o.durable, begun, credits')
      BY <1>1, <2>2, <2>5, <3>1, SoundCredit
    <3>4. /\ durable' = o.durable /\ job' = NoJob /\ cleaning' = cleaning
          /\ State(durable') = durable'
      <4>1. durable' = o.durable /\ job' = NoJob /\ cleaning' = cleaning
        BY <2>1 DEF Finish, Apply
      <4>2. durable' \in Progress
        BY <3>3, <4>1 DEF Sound
      <4> QED  BY <4>1, <4>2, RawAssumption DEF State, Readable
    <3>5. CreditedOnce'
      BY <3>1, <3>2 DEF IInv, CreditedOnce
    <3>6. \A id \in SessionId : id \notin begun' => credits'[id] = 0
      BY <2>1, <3>1, <3>2 DEF IInv
    <3>7. CleanUps'
      BY <1>1, <2>1, <3>4 DEF CleanUps
    <3> QED  BY <1>0, <1>1, <2>1, <3>3, <3>4, <3>5, <3>6, <3>7
             DEF IInv, LockedCopy, Underway
  <2> QED  BY <1>6, <2>3, <2>4, <2>5, Completed DEF Saves
<1>7. ASSUME NEW t \in Tab, Reload(t) PROVE IInv'
  <2>1. /\ job # NoJob /\ job \in Job
        /\ durable' \in Loadable(durable)
        /\ UNCHANGED <<cleaning, begun, credits>>
        /\ job' = [job EXCEPT !.stage = "reconcile", !.read = durable',
                      !.progress = IF Readable(durable)
                                   THEN Loaded(durable) ELSE @]
    BY <1>7 DEF Reload, Holds, IInv, TypeInv, TypeOK
  <2>2. /\ job'.read = durable'
        /\ job'.progress = IF Readable(durable) THEN Loaded(durable)
                           ELSE job.progress
    BY <2>1 DEF Job
  <2>3. Loads(durable', Loaded(durable))
    BY <1>1, <2>1, LoadSound
  <2>4. Readable(durable') <=> Readable(durable)
    BY <1>1, <2>1, LoadCases
  <2>5. CleanUps'
    BY <1>1, <2>1 DEF CleanUps
  <2> QED  BY <1>0, <1>1, <2>1, <2>2, <2>3, <2>4, <2>5
           DEF IInv, CreditedOnce, LockedCopy, Underway, Loads
<1>17. ASSUME NEW t \in Tab, ReconcileUnchanged(t) PROVE IInv'
  <2>1. /\ job # NoJob /\ job \in Job
        /\ UNCHANGED <<durable, cleaning, begun, credits>>
        /\ job' = [job EXCEPT !.stage = "plan"]
    BY <1>17 DEF ReconcileUnchanged, Holds, IInv, TypeInv, TypeOK
  <2>2. job'.read = job.read /\ job'.progress = job.progress
    BY <2>1 DEF Job
  <2>3. CleanUps'
    BY <1>1, <2>1 DEF CleanUps
  <2> QED  BY <1>0, <1>1, <2>1, <2>2, <2>3
           DEF IInv, CreditedOnce, LockedCopy, Underway
<1>8. ASSUME NEW t \in Tab, NEW o \in Persist(Reconcile(job.progress)),
             ReconcileSave(t, o)
      PROVE  IInv'
  <2> DEFINE P == Reconcile(job.progress)
  <2>1. /\ job # NoJob /\ job \in Job /\ Apply(o)
        /\ UNCHANGED <<cleaning, begun>>
        /\ o.status \in {"saved", "conflict"}
        /\ job'.read = o.read /\ job'.progress = o.progress
    BY <1>8 DEF ReconcileSave, Holds, IInv, TypeInv, TypeOK, Job
  <2>2. /\ Sound(P, begun, credits)
        /\ P \in Progress /\ P.count = job.progress.count
    <3>1. Sound(job.progress, begun, credits) /\ job.progress \in Progress
      BY <1>1, <2>1 DEF Sound
    <3> QED  BY <3>1, SoundReconcile, ReconcileProgress
  <2> HIDE DEF P
  <2>3. o \in Persist(P)
    BY DEF P
  <2>4. \E new \in {P, durable} :
            /\ o.durable = new /\ o.read = new /\ o.progress = new
            /\ Sound(new, begun, credits)
    BY <1>1, <2>1, <2>2, <2>3, Persisted DEF Saves, State
  <2>5. credits' = credits /\ durable' = o.durable
    BY <2>1, <2>2, <2>4, NoReward DEF Apply
  <2>6. durable' \in Progress /\ State(durable') = durable' /\ Totalled(durable')
    BY <2>4, <2>5, RawCases DEF Sound
  <2>7. Grows(durable', durable')
    BY <2>6, GrowsClean
  <2>8. CleanUps'
    BY <1>1, <2>1 DEF CleanUps
  <2> QED  BY <1>0, <1>1, <2>1, <2>4, <2>5, <2>6, <2>7, <2>8
           DEF IInv, CreditedOnce, LockedCopy, Underway
<1>9. ASSUME NEW t \in Tab, NEW o \in Persist(Reconcile(job.progress)),
             ReconcileFailed(t, o)
      PROVE  IInv'
  <2> DEFINE P == Reconcile(job.progress)
  <2>1. Finish(o) /\ Apply(o) /\ begun' = begun /\ job # NoJob
    BY <1>9 DEF ReconcileFailed, Holds, Finish
  <2>2. /\ Sound(P, begun, credits)
        /\ P \in Progress /\ P.count = job.progress.count
    <3>1. Sound(job.progress, begun, credits) /\ job.progress \in Progress
      BY <1>1, <2>1 DEF Sound
    <3> QED  BY <3>1, SoundReconcile, ReconcileProgress
  <2>3. o.durable # durable => o.durable = P
    BY Persisted DEF Saves
  <2> HIDE DEF P
  <2>4. credits' = credits
    BY <2>1, <2>2, <2>3, NoReward
  <2> QED  BY <1>0, <2>1, <2>2, <2>3, <2>4, FinishKeepsIInv
<1>10. ASSUME NEW t \in Tab, Resume(t) PROVE IInv'
  <2> DEFINE o == Unsaved("resume")
  <2>1. /\ Finish(o) /\ Apply(o) /\ begun' = begun /\ job # NoJob
        /\ o.durable = durable
    BY <1>10 DEF Resume, Holds, Finish, Unsaved, Outcome
  <2> HIDE DEF o
  <2>2. credits' = credits
    BY <2>1, NoReward
  <2> QED  BY <1>0, <2>1, <2>2, FinishKeepsIInv
<1>11. ASSUME NEW t \in Tab, NEW id \in SessionId,
              NEW o \in Persist([job.progress EXCEPT !.active = NewSession(id)]),
              Begin(t, id, o)
       PROVE  IInv'
  <2> DEFINE p == job.progress
             P == [p EXCEPT !.active = NewSession(id)]
  <2>1. /\ Finish(o) /\ Apply(o) /\ begun' = begun \union {id} /\ job # NoJob
        /\ id \notin begun
    BY <1>11 DEF Begin, Holds, Finish, Startable
  <2>2. Sound(p, begun, credits) /\ p \in Progress /\ credits[id] = 0
    BY <1>1, <2>1 DEF Sound, IInv
  <2>3. Sound(P, begun', credits)
    BY <2>1, <2>2, NewSessionType, SoundActive
  <2>4. P \in Progress /\ P.count = p.count
    BY <2>2, NewSessionType, WithActive
  <2>5. o.durable # durable => o.durable = P
    BY Persisted DEF Saves
  <2> HIDE DEF P
  <2>6. credits' = credits
    BY <2>1, <2>4, <2>5, NoReward
  <2>7. durable' = o.durable /\ job' = NoJob /\ cleaning' = cleaning
    BY <2>1 DEF Finish, Apply
  <2>8. Sound(State(durable'), begun', credits')
    <3>1. CASE o.durable = durable
      BY <1>1, <2>1, <2>6, <2>7, <3>1, SoundMore
    <3>2. CASE o.durable = P
      <4>1. State(durable') = P
        BY <2>4, <2>7, <3>2, RawAssumption DEF State, Readable
      <4> QED  BY <2>3, <2>6, <4>1
    <3> QED  BY <2>5, <3>1, <3>2
  <2>9. CleanUps'
    BY <1>1, <2>1, <2>7 DEF CleanUps
  <2> QED  BY <1>0, <1>1, <2>1, <2>6, <2>7, <2>8, <2>9
           DEF IInv, CreditedOnce, LockedCopy, Underway
<1>12. ASSUME NEW t \in Tab, NEW o \in Persist(job.progress), Rest(t, o)
       PROVE  IInv'
  <2>1. Finish(o) /\ Apply(o) /\ begun' = begun /\ job # NoJob
    BY <1>12 DEF Rest, Holds, Finish
  <2>2. o.durable # durable => o.durable = job.progress
    BY Persisted DEF Saves
  <2>3. credits' = credits
    BY <1>1, <2>1, <2>2, NoReward DEF Sound
  <2> QED  BY <1>0, <1>1, <2>1, <2>2, <2>3, FinishKeepsIInv
<1>13. ASSUME NEW t \in Tab, Close(t) PROVE IInv'
  <2>1. /\ job' \in {job, NoJob}
        /\ cleaning' = [cleaning EXCEPT ![t] = NoSnapshot]
        /\ UNCHANGED <<durable, begun, credits, foreign>>
    BY <1>13 DEF Close
  <2>2. CleanUps'
    <3> SUFFICES ASSUME NEW u \in Tab, cleaning'[u] # NoSnapshot
                 PROVE  /\ LegacySeed
                        /\ job' = NoJob
                        /\ Readable(durable') /\ cleaning'[u] = Clean(durable')
      BY DEF CleanUps
    <3>1. cleaning[u] # NoSnapshot /\ cleaning'[u] = cleaning[u]
      BY <1>1, <2>1
    <3> QED  BY <1>1, <2>1, <3>1 DEF CleanUps
  <2> QED  BY <1>0, <1>1, <2>1, <2>2
           DEF IInv, CreditedOnce, LockedCopy, Underway
<1>14. ASSUME ForeignWrite PROVE IInv'
  <2>1. /\ durable' \in {Empty, Unreadable} \/ durable' \in ForeignCheckpoints
        /\ UNCHANGED <<job, cleaning, begun, credits>>
        /\ MaxForeign # 0
    <3>1. foreign \in 0..MaxForeign
      BY DEF IInv, TypeInv, TypeOK
    <3> QED  BY <1>14, <3>1, QuestAssumption DEF ForeignWrite
  <2>2. CleanUps'
    BY <1>1, <2>1 DEF CleanUps, CleanUpUndisturbed
  <2>3. CASE durable' \in {Empty, Unreadable}
    <3>1. ~Readable(durable') /\ Sound(State(durable'), begun', credits')
      BY <2>1, <2>3, RawCases DEF State, Fresh, Sound, Readable, Totalled
    <3> QED  BY <1>0, <1>1, <2>1, <2>2, <3>1
             DEF IInv, CreditedOnce, LockedCopy, Underway
  <2>4. CASE durable' \in ForeignCheckpoints
    <3>1. Readable(durable) /\ Sound(durable, begun, credits)
          /\ durable \in Progress
      BY <1>1, <2>4, ForeignCheckpointed DEF State, Sound
    <3>2. PICK s \in Session : CheckpointedBy(durable, s, durable')
      BY <2>4, ForeignCheckpointed
    <3>3. /\ Grows(durable, durable') /\ durable' \in Progress
          /\ Accepted(s) \in Session
      BY <3>1, <3>2, GrowsByCheckpoint
    <3>4. Accepted(s).id = s.id
      BY <3>2, AcceptedType DEF CheckpointedBy
    <3>5. Sound(durable', begun, credits)
      <4>1. /\ durable.active # NoSession /\ durable.active.id = s.id
            /\ durable' = [durable EXCEPT !.active = Accepted(s)]
        BY <3>2 DEF CheckpointedBy
      <4>2. Accepted(s).id \in begun
        BY <3>1, <3>4, <4>1 DEF Sound
      <4> QED  BY <3>1, <3>3, <3>4, <4>1, <4>2, SoundActive
    <3>6. State(durable') = durable'
      BY <3>3, RawCases
    <3>7. Underway'
      BY <2>1, <3>1, <3>3, GrowsOn DEF Underway, IInv
    <3> QED  BY <1>0, <1>1, <2>1, <2>2, <3>5, <3>6, <3>7
             DEF IInv, CreditedOnce, LockedCopy
  <2> QED  BY <2>1, <2>3, <2>4
<1>15. CASE UNCHANGED vars
  BY <1>0, <1>15 DEF vars, IInv, CreditedOnce, LockedCopy, Underway, CleanUps
<1> QED
  BY <1>2, <1>3, <1>4, <1>5, <1>6, <1>7, <1>8, <1>9, <1>10, <1>11, <1>12,
     <1>13, <1>14, <1>15, <1>17
  DEF Next

\* No session is rewarded twice, whatever the pages, failures and retries.
THEOREM RewardedOnce == ASSUME CleanUpUndisturbed PROVE Spec => []CreditedOnce
<1>1. IInv => CreditedOnce
  BY DEF IInv
<1> QED  BY <1>1, IInvInit, IInvStep, PTL DEF Spec

-----------------------------------------------------------------------------
(* What the application itself may do to a saved record in one step.       *)

\* Every write of the application under the lock, in the terms of the value
\* the page works on.
Written ==
    LET p == job.progress IN
    /\ job # NoJob /\ durable = job.read /\ durable # Unreadable
    /\ \/ \E s \in Session :
            /\ durable' = [p EXCEPT !.active = Accepted(s)]
            /\ s.rev < MaxRev
            /\ p.active # NoSession /\ p.active.id = s.id
            /\ Continues(p.active, s)
       \/ \E r \in Result : /\ durable' = Reconcile(Credit(p, r))
                            /\ MatchesActive(p, r)
       \/ durable' = Reconcile(p)
       \/ \E id \in SessionId :
            /\ durable' = [p EXCEPT !.active = NewSession(id)]
            /\ p.active = NoSession
            /\ Startable(id) /\ begun' = begun \union {id}
       \/ durable' = p

\* ... and its clean-up of the old demo totals, under the lock or outside it.
CleanedUp ==
    /\ LegacySeed
    /\ credits' = credits
    /\ Readable(durable) /\ durable' = Clean(durable)

LEMMA LoadCleans ==
    ASSUME IInv, durable' \in Loadable(durable), durable' # durable,
           credits' = credits
    PROVE  CleanedUp
<1>1. Readable(durable) /\ durable' = Clean(durable) /\ durable \in Progress
  BY LoadCases DEF IInv, TypeInv, TypeOK
<1>2. durable.seeded
  BY <1>1, CleanType
<1>3. LegacySeed
  BY <1>1, <1>2 DEF IInv, Sound, Totalled, State
<1> QED  BY <1>1, <1>3 DEF CleanedUp

LEMMA RecordWrites ==
    ASSUME IInv, [Next]_vars, OwnStep, durable' # durable
    PROVE  Written \/ CleanedUp
<1>1. ASSUME NEW t \in Tab, NEW s \in Session,
             NEW o \in CheckpointOutcomes(s), Checkpoint(t, s, o)
      PROVE  Written
  <2>1. durable' = o.durable /\ job # NoJob /\ s.rev < MaxRev
    BY <1>1 DEF Checkpoint, Finish, Apply, Holds
  <2>2. LET p == job.progress IN
        /\ Saves(o, [p EXCEPT !.active = Accepted(s)])
        /\ p.active # NoSession /\ p.active.id = s.id
        /\ Continues(p.active, s)
    BY <1>1, <2>1, Checkpointed
  <2> QED  BY <2>1, <2>2 DEF Written, Saves
<1>2. ASSUME NEW t \in Tab, NEW r \in Result,
             NEW o \in CompleteOutcomes(r), Complete(t, r, o)
      PROVE  Written
  <2>1. durable' = o.durable /\ job # NoJob
    BY <1>2 DEF Complete, Finish, Apply, Holds
  <2> QED  BY <1>2, <2>1, Completed DEF Written, Saves
<1>3. ASSUME NEW t \in Tab, NEW o \in Persist(Reconcile(job.progress)),
             ReconcileSave(t, o) \/ ReconcileFailed(t, o)
      PROVE  Written
  <2>1. durable' = o.durable /\ job # NoJob
    BY <1>3 DEF ReconcileSave, ReconcileFailed, Finish, Apply, Holds
  <2> QED  BY <2>1, Persisted DEF Written, Saves
<1>4. ASSUME NEW t \in Tab, NEW id \in SessionId,
             NEW o \in Persist([job.progress EXCEPT !.active = NewSession(id)]),
             Begin(t, id, o)
      PROVE  Written
  <2>1. /\ durable' = o.durable /\ job # NoJob
        /\ job.progress.active = NoSession
        /\ Startable(id) /\ begun' = begun \union {id}
    BY <1>4 DEF Begin, Finish, Apply, Holds
  <2>2. Saves(o, [job.progress EXCEPT !.active = NewSession(id)])
    BY <2>1, Persisted
  <2> QED  BY <2>1, <2>2 DEF Written, Saves
<1>5. ASSUME NEW t \in Tab, NEW o \in Persist(job.progress), Rest(t, o)
      PROVE  Written
  <2>1. durable' = o.durable /\ job # NoJob
    BY <1>5 DEF Rest, Finish, Apply, Holds
  <2> QED  BY <2>1, Persisted DEF Written, Saves
<1>6. ASSUME NEW t \in Tab, NEW stage \in {"checkpoint", "complete", "launch"},
             Acquire(t, stage) \/ Reload(t)
      PROVE  CleanedUp
  BY <1>6, LoadCleans DEF Acquire, Reload
<1>7. ASSUME NEW t \in Tab,
             LoadSeeded(t) \/ ReconcileUnchanged(t) \/ Resume(t) \/ Close(t)
      PROVE  FALSE
  BY <1>7 DEF LoadSeeded, ReconcileUnchanged, Resume,
              Close, Finish, Apply, Unsaved, Outcome
<1>8. ASSUME NEW t \in Tab, WriteCleaned(t) PROVE CleanedUp
  BY <1>8 DEF WriteCleaned, CleanedUp, IInv, CleanUps
<1>9. ~ForeignWrite
  <2>1. foreign \in Nat
    BY QuestAssumption DEF IInv, TypeInv, TypeOK
  <2> QED  BY <2>1 DEF ForeignWrite, OwnStep
<1> QED
  BY <1>1, <1>2, <1>3, <1>4, <1>5, <1>6, <1>7, <1>8, <1>9 DEF Next, vars

LEMMA OwnWrites ==
    ASSUME ~LegacySeed, IInv, [Next]_vars, OwnStep, durable' # durable
    PROVE  Written
BY RecordWrites DEF CleanedUp

\* A record the page cannot read is left exactly as it is, with any number of
\* pages: only the clean-up, which does not look again, could replace one.
THEOREM UnreadableNeverOverwritten ==
    ASSUME CleanUpUndisturbed PROVE Spec => UnreadableKept
<1>1. IInv /\ [Next]_vars =>
        [OwnStep /\ durable = Unreadable => durable' = Unreadable]_vars
  <2> SUFFICES ASSUME IInv, [Next]_vars, OwnStep, durable = Unreadable,
                      durable' # durable
               PROVE  FALSE
    OBVIOUS
  <2>1. CleanedUp
    BY RecordWrites DEF Written
  <2> QED  BY <2>1 DEF CleanedUp, Readable
<1> QED  BY <1>1, IInvInit, IInvStep, PTL DEF Spec, UnreadableKept

\* Reconciling moves open sessions between the two slots and can only drop one
\* that is completed or whose content is gone.
LEMMA ReconcileSessions ==
    ASSUME NEW p \in Progress
    PROVE  /\ OpenSessions(Reconcile(p)) \subseteq OpenSessions(p)
           /\ Slot(p) =>
                \A s \in OpenSessions(p) :
                    Resumable(s) => s.id \in Ids(Reconcile(p))
<1> DEFINE q == Recover(p)
           r == Defer(q)
           n == Recover(r)
<1>1. /\ q \in Progress /\ q.active \in {p.active, NoSession}
      /\ q.deferred = p.deferred /\ q.attempts = p.attempts
      /\ q.count = p.count
  BY RecoverProgress
<1>2. /\ r \in Progress /\ r.attempts = q.attempts
      /\ \/ r.active = q.active /\ r.deferred = q.deferred
         \/ /\ r.active = NoSession /\ r.deferred = q.active
            /\ WordStudy(q.active) /\ ~FrontierOpen(q)
         \/ /\ r.active = q.deferred /\ r.deferred = NoSession
            /\ q.active = NoSession
  BY <1>1, DeferProgress
<1>3. /\ n \in Progress /\ n.active \in {r.active, NoSession}
      /\ n.deferred = r.deferred /\ n.attempts = r.attempts
  BY <1>2, RecoverProgress
<1>4. \A x \in Progress : \A s \in {x.active, x.deferred} \ {NoSession} :
        Resumable(s) =>
            \/ s.id \in CompletedIds(x)
            \/ s = Recover(x).active \/ s = Recover(x).deferred
  BY WithActive DEF Recover
<1>5. /\ CompletedIds(q) = CompletedIds(p) /\ CompletedIds(r) = CompletedIds(p)
      /\ CompletedIds(n) = CompletedIds(p)
  BY <1>1, <1>2, <1>3 DEF CompletedIds
<1>6. ASSUME Slot(p), NEW s \in OpenSessions(p), Resumable(s)
      PROVE  s.id \in Ids(n)
  <2>0. s \in {p.active, p.deferred} \ {NoSession}
    BY DEF OpenSessions
  <2>1. s.id \in CompletedIds(p) \/ s = q.active \/ s = q.deferred
    BY <1>4, <1>6, <2>0
  <2>2. Slot(q)
    BY <1>1, <1>6 DEF Slot, WordStudy, FrontierOpen
  <2>3. s = q.active \/ s = q.deferred => s = r.active \/ s = r.deferred
    BY <1>2, <1>6, <2>0, <2>2 DEF Slot
  <2>4. s = r.active \/ s = r.deferred =>
            s.id \in CompletedIds(r) \/ s = n.active \/ s = n.deferred
    BY <1>2, <1>4, <1>6, <2>0
  <2> QED  BY <1>5, <1>6, <2>0, <2>1, <2>3, <2>4 DEF Ids, OpenSessions
<1>7. OpenSessions(n) \subseteq OpenSessions(p)
  BY <1>1, <1>2, <1>3 DEF OpenSessions
<1> QED  BY <1>6, <1>7 DEF Reconcile

\* Under the lock the page's own value is the saved one, cleaned or not.
SameLearning(p, saved) ==
    /\ p.active = saved.active /\ p.deferred = saved.deferred
    /\ p.attempts = saved.attempts /\ p.count = saved.count
    /\ EarnedXp(p) = EarnedXp(saved)
    /\ p.seeded => saved.seeded

LEMMA LockedValue ==
    ASSUME IInv, Written, Readable(durable)
    PROVE  /\ durable \in Progress /\ State(durable) = durable
           /\ Sound(durable, begun, credits)
           /\ job.progress \in Progress /\ Slot(job.progress)
           /\ Sound(job.progress, begun, credits)
           /\ SameLearning(job.progress, durable)
<1>1. /\ durable \in Progress /\ State(durable) = durable
      /\ Sound(durable, begun, credits)
      /\ job.progress \in Progress /\ Slot(job.progress)
      /\ Sound(job.progress, begun, credits)
      /\ job.progress \in {durable, Clean(durable)}
  BY DEF IInv, TypeInv, ValidProgress, LockedCopy, Written, State
<1>2. Totalled(durable)
  BY <1>1 DEF Sound
<1>3. SameLearning(job.progress, durable)
  BY <1>1, <1>2, CleanType, CleanTotals DEF SameLearning
<1> QED  BY <1>1, <1>3

LEMMA KeepsAcceptedWork ==
    ASSUME NEW old \in Session, NEW s \in Session, s.rev < MaxRev,
           Continues(old, s)
    PROVE  KeepsWork(old, Accepted(s))
<1> DEFINE new == Accepted(s)
<1>1. /\ new.submitted = s.submitted /\ new.index = s.index
      /\ new.assist = s.assist /\ new.practice = s.practice
      /\ new.rev = s.rev + 1
      /\ [new EXCEPT !.rev = 0] = [s EXCEPT !.rev = 0]
  BY DEF Accepted, Session
<1> HIDE DEF new
<1>2. /\ s.rev = old.rev /\ ~SamePayload(old, new)
      /\ KeepsSubmissions(old, new)
      /\ old.assist \subseteq new.assist /\ old.practice \subseteq new.practice
  BY <1>1 DEF Continues, SamePayload, ValidTransition, KeepsSubmissions,
              KeepsSupport
<1>3. old.index <= new.index
  BY <1>1 DEF Continues, ValidTransition, FollowsPosition, Session, Question
<1>4. KeepsWork(old, new)
  BY <1>1, <1>2, <1>3 DEF KeepsWork
<1> QED  BY <1>4 DEF new

\* A step of anything but the application clears the record, makes it
\* unreadable, or saves a checkpoint of the session under way.
LEMMA ForeignWrites ==
    ASSUME [Next]_vars, ~OwnStep
    PROVE  \/ durable' \in {Empty, Unreadable}
           \/ Readable(durable) /\ \E s \in Session : CheckpointedBy(durable, s, durable')
<1>1. ASSUME NEW t \in Tab, NEW o, Finish(o) PROVE FALSE
  BY <1>1 DEF Finish, OwnStep
<1>2. ASSUME NEW t \in Tab,
             \/ LoadSeeded(t) \/ WriteCleaned(t) \/ Reload(t)
             \/ ReconcileUnchanged(t) \/ Close(t)
      PROVE  FALSE
  BY <1>2 DEF LoadSeeded, WriteCleaned, Reload, ReconcileUnchanged, Close, OwnStep
<1>3. ASSUME NEW t \in Tab, NEW stage \in {"checkpoint", "complete", "launch"},
             Acquire(t, stage)
      PROVE  FALSE
  BY <1>3 DEF Acquire, OwnStep
<1>4. ASSUME NEW t \in Tab, NEW o, ReconcileSave(t, o) PROVE FALSE
  BY <1>4 DEF ReconcileSave, OwnStep
<1>5. CASE ForeignWrite
  BY <1>5, ForeignCheckpointed DEF ForeignWrite
<1>6. CASE UNCHANGED vars
  BY <1>6 DEF vars, OwnStep
<1> QED
  BY <1>1, <1>2, <1>3, <1>4, <1>5, <1>6
  DEF Next, Checkpoint, Complete, ReconcileFailed, Resume, Begin, Rest

\* What a checkpoint leaves of the two open sessions.
LEMMA CheckpointKeepsWork ==
    ASSUME NEW p \in Progress, NEW s \in Session, NEW new,
           CheckpointedBy(p, s, new),
           p.deferred # NoSession => p.active.id # p.deferred.id,
           NEW x \in OpenSessions(p), NEW y \in OpenSessions(new), x.id = y.id
    PROVE  KeepsWork(x, y)
<1>1. /\ Accepted(s) \in Session /\ Accepted(s).id = s.id
      /\ p.active \in Session /\ p.active.id = s.id
  BY AcceptedType DEF CheckpointedBy, Progress
<1>2. new.active = Accepted(s) /\ new.deferred = p.deferred
  BY <1>1, WithActive DEF CheckpointedBy
<1>3. KeepsWork(p.active, Accepted(s))
  BY <1>1, KeepsAcceptedWork DEF CheckpointedBy
<1>4. x \in Session
  BY DEF OpenSessions, Progress
<1>5. x = y \/ (x = p.active /\ y = Accepted(s))
  BY <1>1, <1>2 DEF OpenSessions
<1> QED  BY <1>3, <1>4, <1>5, KeepsOwnWork

\* What a session has accepted stays accepted, and each change of it is one
\* new revision.
THEOREM AcceptedWorkIsKept ==
    ASSUME CleanUpUndisturbed PROVE Spec => AcceptedWorkKept
<1> DEFINE Kept == \A old \in OpenSessions(State(durable)),
                      new \in OpenSessions(State(durable')) :
                      old.id = new.id => KeepsWork(old, new)
<1>1. ASSUME IInv, [Next]_vars PROVE Kept
  <2> SUFFICES ASSUME NEW old \in OpenSessions(State(durable)),
                      NEW new \in OpenSessions(State(durable')),
                      old.id = new.id
               PROVE  KeepsWork(old, new)
    OBVIOUS
  <2>1. /\ Readable(durable) /\ State(durable) = durable /\ durable \in Progress
        /\ Sound(durable, begun, credits)
    <3>1. Readable(durable)
      BY DEF State, Fresh, OpenSessions
    <3> QED  BY <1>1, <3>1 DEF State, IInv, Sound
  <2>2. /\ old \in Session
        /\ \A s \in OpenSessions(durable) : old.id = s.id => s = old
        /\ durable.active # NoSession /\ durable.deferred # NoSession =>
             durable.active.id # durable.deferred.id
    BY <2>1 DEF OpenSessions, Progress, Sound
  <2>3. ASSUME OpenSessions(State(durable')) \subseteq OpenSessions(durable)
        PROVE  KeepsWork(old, new)
    BY <2>2, <2>3, KeepsOwnWork
  <2>4. ASSUME NEW s \in Session, NEW p \in Progress, CheckpointedBy(p, s, durable'),
               OpenSessions(p) = OpenSessions(durable),
               p.active = durable.active, p.deferred = durable.deferred
        PROVE  KeepsWork(old, new)
    <3>1. State(durable') = durable'
      BY <2>4, GrowsByCheckpoint, RawCases
    <3> QED  BY <2>1, <2>2, <2>4, <3>1, CheckpointKeepsWork DEF CheckpointedBy
  <2>5. CASE durable' = durable
    BY <2>1, <2>3, <2>5
  <2>6. CASE durable' # durable /\ ~OwnStep
    <3>1. CASE durable' \in {Empty, Unreadable}
      BY <3>1 DEF State, Readable, Fresh, OpenSessions
    <3>2. ASSUME NEW s \in Session, CheckpointedBy(durable, s, durable')
          PROVE  KeepsWork(old, new)
      BY <2>1, <2>4, <3>2
    <3> QED  BY <1>1, <2>6, <3>1, <3>2, ForeignWrites
  <2>7. CASE durable' # durable /\ OwnStep /\ CleanedUp
    <3>1. OpenSessions(State(durable')) = OpenSessions(durable)
      BY <2>1, <2>7, CleanType, RawCases DEF CleanedUp, OpenSessions
    <3> QED  BY <2>3, <3>1
  <2>8. CASE durable' # durable /\ OwnStep /\ Written
    <3> DEFINE p == job.progress
    <3>1. /\ p \in Progress /\ p.active = durable.active
          /\ p.deferred = durable.deferred
          /\ OpenSessions(p) = OpenSessions(durable)
      BY <1>1, <2>1, <2>8, LockedValue DEF SameLearning, OpenSessions
    <3> HIDE DEF p
    <3>2. \A x \in Progress : State(x) = x
      BY RawCases
    <3>3. ASSUME NEW s \in Session, durable' = [p EXCEPT !.active = Accepted(s)],
                 s.rev < MaxRev, p.active # NoSession, p.active.id = s.id,
                 Continues(p.active, s)
          PROVE  KeepsWork(old, new)
      BY <2>4, <3>1, <3>3 DEF CheckpointedBy
    <3>4. ASSUME NEW r \in Result, durable' = Reconcile(Credit(p, r))
          PROVE  KeepsWork(old, new)
      <4>1. /\ Credit(p, r) \in Progress /\ Credit(p, r).active = NoSession
            /\ Credit(p, r).deferred = p.deferred
        BY <3>1, CreditProgress
      <4>2. OpenSessions(Credit(p, r)) \subseteq OpenSessions(p)
        BY <4>1 DEF OpenSessions
      <4>3. /\ durable' \in Progress
            /\ OpenSessions(durable') \subseteq OpenSessions(Credit(p, r))
        BY <3>4, <4>1, ReconcileProgress, ReconcileSessions
      <4> QED  BY <2>3, <3>1, <3>2, <4>2, <4>3
    <3>5. CASE durable' = Reconcile(p) \/ durable' = p
      <4>1. /\ durable' \in Progress
            /\ OpenSessions(durable') \subseteq OpenSessions(p)
        BY <3>1, <3>5, ReconcileProgress, ReconcileSessions
      <4> QED  BY <2>3, <3>1, <3>2, <4>1
    <3>6. ASSUME NEW id \in SessionId, p.active = NoSession, id \notin begun,
                 durable' = [p EXCEPT !.active = NewSession(id)]
          PROVE  KeepsWork(old, new)
      <4>1. /\ durable' \in Progress /\ durable'.active = NewSession(id)
            /\ durable'.deferred = p.deferred /\ NewSession(id).id = id
        BY <3>1, <3>6, NewSessionType, WithActive
      <4>2. old.id \in begun
        BY <2>1 DEF Sound, OpenSessions
      <4>3. new = p.deferred
        BY <2>1, <3>2, <3>6, <4>1, <4>2 DEF OpenSessions
      <4> QED  BY <2>1, <2>2, <3>1, <4>3, KeepsOwnWork DEF OpenSessions
    <3> QED  BY <2>8, <3>3, <3>4, <3>5, <3>6 DEF Written, Startable, p
  <2> QED  BY <1>1, <2>5, <2>6, <2>7, <2>8, RecordWrites
<1>2. IInv /\ [Next]_vars => [Kept]_vars
  BY <1>1
<1> HIDE DEF Kept
<1>3. AcceptedWorkKept <=> [][Kept]_vars
  BY DEF AcceptedWorkKept, Kept
<1> QED  BY <1>2, <1>3, IInvInit, IInvStep, PTL DEF Spec

\* What a completion leaves: the rewarded attempt is the newest one, and the
\* set-aside session is still there.
LEMMA CreditedRecord ==
    ASSUME NEW p \in Progress, NEW r \in Result
    PROVE  LET new == Reconcile(Credit(p, r)) IN
           /\ new \in Progress
           /\ new.count = p.count + 1
           /\ new.xp = p.xp + Award(r.graded)
           /\ new.seeded = p.seeded
           /\ new.attempts[Len(new.attempts)] =
                [id |-> r.id, graded |-> r.graded]
           /\ r.id \in Ids(new)
           /\ p.deferred # NoSession /\ Resumable(p.deferred) =>
                p.deferred.id \in Ids(new)
<1> DEFINE c == Credit(p, r)
           new == Reconcile(c)
<1>1. /\ c \in Progress /\ c.active = NoSession /\ c.deferred = p.deferred
      /\ c.count = p.count + 1 /\ c.xp = p.xp + Award(r.graded)
      /\ c.seeded = p.seeded
      /\ Len(c.attempts) \in Nat \ {0}
      /\ c.attempts[Len(c.attempts)] = [id |-> r.id, graded |-> r.graded]
      /\ c.attempts \in Seq(Attempt)
  BY CreditProgress
<1> HIDE DEF c
<1>2. /\ new \in Progress /\ new.attempts = c.attempts
      /\ new.count = c.count /\ new.xp = c.xp /\ new.seeded = c.seeded
  BY <1>1, ReconcileProgress
<1>3. r.id \in CompletedIds(c)
  <2>1. Len(c.attempts) \in DOMAIN c.attempts
    BY <1>1, LenProperties
  <2>2. c.attempts[Len(c.attempts)].id = r.id
    BY <1>1
  <2> QED  BY <2>1, <2>2 DEF CompletedIds
<1>4. r.id \in Ids(new)
  <2>1. CompletedIds(new) = CompletedIds(c)
    BY <1>2 DEF CompletedIds
  <2> HIDE DEF new
  <2> QED  BY <1>3, <2>1 DEF Ids
<1>5. Slot(c)
  BY <1>1 DEF Slot, WordStudy
<1>6. p.deferred # NoSession /\ Resumable(p.deferred) => p.deferred.id \in Ids(new)
  BY <1>1, <1>5, ReconcileSessions DEF OpenSessions
<1> HIDE DEF new
<1>7. /\ new.count = p.count + 1 /\ new.xp = p.xp + Award(r.graded)
      /\ new.seeded = p.seeded
      /\ new.attempts[Len(new.attempts)] = [id |-> r.id, graded |-> r.graded]
  BY <1>1, <1>2
<1> QED  BY <1>2, <1>4, <1>6, <1>7 DEF new, c

\* Completing is the only way the application takes a session with usable
\* content out of the record.
THEOREM SessionIsNeverLost ==
    ASSUME CleanUpUndisturbed PROVE Spec => SessionNeverLost
<1> DEFINE Kept == OwnStep =>
                     \A s \in OpenSessions(State(durable)) :
                        Resumable(s) => s.id \in Ids(State(durable'))
<1>1. ASSUME IInv, [Next]_vars PROVE Kept
  <2> SUFFICES ASSUME OwnStep, NEW s \in OpenSessions(State(durable)), Resumable(s)
               PROVE  s.id \in Ids(State(durable'))
    OBVIOUS
  <2>1. CASE durable' = durable
    BY <2>1 DEF Ids
  <2>2. CASE durable' # durable
    <3> DEFINE p == job.progress
    <3>2. Readable(durable)
      BY DEF State, Fresh, OpenSessions
    <3>0. CASE CleanedUp
      <4>1. durable \in Progress /\ durable' = Clean(durable) /\ State(durable) = durable
        BY <1>1, <3>0, <3>2 DEF State, CleanedUp, IInv, Sound
      <4>2. /\ State(durable').active = durable.active
            /\ State(durable').deferred = durable.deferred
        BY <4>1, CleanType, RawCases
      <4> QED  BY <4>1, <4>2 DEF Ids, OpenSessions
    <3> SUFFICES ASSUME Written
                 PROVE  s.id \in Ids(State(durable'))
      BY <1>1, <2>2, <3>0, RecordWrites
    <3>1. Written
      OBVIOUS
    <3>3. /\ p \in Progress /\ Slot(p)
          /\ s \in OpenSessions(p)
      BY <1>1, <3>1, <3>2, LockedValue DEF SameLearning, OpenSessions
    <3> HIDE DEF p
    <3>4. durable' \in Progress => State(durable') = durable'
      BY RawCases
    <3>5. ASSUME NEW x \in Session, durable' = [p EXCEPT !.active = x],
                 p.active # NoSession => p.active.id = x.id
          PROVE  s.id \in Ids(State(durable'))
      <4>1. /\ durable' \in Progress /\ durable'.active = x
            /\ durable'.deferred = p.deferred
        BY <3>3, <3>5, WithActive
      <4>2. s # NoSession /\ (s = p.deferred \/ s.id = x.id)
        BY <3>3, <3>5 DEF OpenSessions
      <4> QED  BY <3>4, <4>1, <4>2, NoSessionAssumption DEF Ids, OpenSessions
    <3>6. ASSUME NEW x \in Session, durable' = [p EXCEPT !.active = Accepted(x)],
                 x.rev < MaxRev, p.active # NoSession, p.active.id = x.id
          PROVE  s.id \in Ids(State(durable'))
      BY <3>5, <3>6, AcceptedType
    <3>7. ASSUME NEW id \in SessionId,
                 durable' = [p EXCEPT !.active = NewSession(id)],
                 p.active = NoSession
          PROVE  s.id \in Ids(State(durable'))
      BY <3>5, <3>7, NewSessionType
    <3>8. ASSUME NEW r \in Result, durable' = Reconcile(Credit(p, r)),
                 MatchesActive(p, r)
          PROVE  s.id \in Ids(State(durable'))
      <4>1. s # NoSession /\ (s = p.deferred \/ s.id = r.id)
        BY <3>3, <3>8 DEF MatchesActive, OpenSessions
      <4> QED  BY <3>3, <3>4, <3>8, <4>1, CreditedRecord
    <3>9. CASE durable' = Reconcile(p)
      BY <3>3, <3>4, <3>9, ReconcileProgress, ReconcileSessions
    <3>10. CASE durable' = p
      BY <3>3, <3>4, <3>10 DEF Ids
    <3> QED  BY <3>1, <3>6, <3>7, <3>8, <3>9, <3>10 DEF Written, p
  <2> QED  BY <2>1, <2>2
<1>2. IInv /\ [Next]_vars => [Kept]_vars
  BY <1>1
<1>3. SessionNeverLost <=> [][Kept]_vars
  BY DEF SessionNeverLost
<1> HIDE DEF Kept
<1> QED  BY <1>2, <1>3, IInvInit, IInvStep, PTL DEF Spec

\* Earned XP and the lesson count change only together, by completing a
\* session whose every question is durably answered, and by the award for
\* exactly those answers; the demo totals are taken off once and stay off.
THEOREM RewardsMatchAnswers ==
    ASSUME CleanUpUndisturbed PROVE Spec => RewardMatchesAnswers
<1> DEFINE Kept ==
        OwnStep /\ Readable(durable) =>
          LET old == durable
              new == durable' IN
          /\ new.seeded => old.seeded
          /\ \/ new.count = old.count /\ EarnedXp(new) = EarnedXp(old)
             \/ /\ new.count = old.count + 1
                /\ Answered(old.active) = Question
                /\ new.attempts[Len(new.attempts)] =
                      [id |-> old.active.id, graded |-> Graded(old.active)]
                /\ EarnedXp(new) = EarnedXp(old) + Award(Graded(old.active))
<1>1. ASSUME IInv, [Next]_vars PROVE Kept
  <2> SUFFICES ASSUME OwnStep, Readable(durable), durable' # durable
               PROVE  Kept
    OBVIOUS
  <2> DEFINE p == job.progress
  <2>0. CASE CleanedUp
    <3>1. /\ durable \in Progress /\ durable' = Clean(durable)
          /\ Totalled(durable)
      BY <1>1, <2>0 DEF State, CleanedUp, IInv, Sound
    <3>2. /\ durable'.count = durable.count /\ ~durable'.seeded
          /\ EarnedXp(durable') = EarnedXp(durable)
      BY <3>1, CleanType, CleanTotals
    <3> QED  BY <3>2
  <2> SUFFICES ASSUME Written PROVE Kept
    <3> HIDE DEF Kept
    <3> QED  BY <1>1, <2>0, RecordWrites
  <2>1. Written
    OBVIOUS
  <2>2. /\ p \in Progress /\ Totalled(p) /\ EarnedXp(p) \in Nat
        /\ p.active = durable.active /\ p.count = durable.count
        /\ EarnedXp(p) = EarnedXp(durable) /\ (p.seeded => durable.seeded)
    <3>1. p \in Progress /\ Totalled(p) /\ SameLearning(p, durable)
      BY <1>1, <2>1, LockedValue DEF Sound
    <3> QED  BY <3>1, CleanTotals DEF SameLearning
  <2> HIDE DEF p
  <2>3. ASSUME NEW x \in Session, durable' = [p EXCEPT !.active = x] PROVE Kept
    <3>1. /\ durable'.count = p.count /\ durable'.xp = p.xp
          /\ durable'.seeded = p.seeded
      BY <2>2, <2>3, WithActive
    <3> QED  BY <2>2, <3>1 DEF EarnedXp
  <2>4. ASSUME NEW r \in Result, durable' = Reconcile(Credit(p, r)),
               MatchesActive(p, r)
        PROVE  Kept
    <3>1. /\ p.active.id = r.id /\ r.graded = Graded(p.active)
          /\ Answered(p.active) = Question
      BY <2>4 DEF MatchesActive, SupportsCompletion
    <3>2. /\ durable'.count = p.count + 1
          /\ durable'.xp = p.xp + Award(r.graded)
          /\ durable'.seeded = p.seeded
          /\ durable'.attempts[Len(durable'.attempts)] =
                [id |-> r.id, graded |-> r.graded]
      BY <2>2, <2>4, CreditedRecord
    <3>3. EarnedXp(durable') = EarnedXp(p) + Award(r.graded)
      <4>1. Award(r.graded) \in Nat /\ p.xp \in Nat
        BY <2>2, AwardType DEF Result, Progress
      <4> QED  BY <3>2, <4>1 DEF EarnedXp, LegacyDemoXp
    <3> QED  BY <2>2, <3>1, <3>2, <3>3
  <2>5. CASE durable' = Reconcile(p) \/ durable' = p
    <3>1. /\ durable'.count = p.count /\ durable'.xp = p.xp
          /\ durable'.seeded = p.seeded
      BY <2>2, <2>5, ReconcileProgress
    <3> QED  BY <2>2, <3>1 DEF EarnedXp
  <2> HIDE DEF Kept
  <2> QED  BY <2>1, <2>3, <2>4, <2>5, AcceptedType, NewSessionType DEF Written, p
<1>2. IInv /\ [Next]_vars => [Kept]_vars
  BY <1>1
<1>3. RewardMatchesAnswers <=> [][Kept]_vars
  BY DEF RewardMatchesAnswers
<1> HIDE DEF Kept
<1> QED  BY <1>2, <1>3, IInvInit, IInvStep, PTL DEF Spec

=============================================================================
