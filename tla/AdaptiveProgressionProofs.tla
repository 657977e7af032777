---------------------- MODULE AdaptiveProgressionProofs ----------------------
(***************************************************************************)
(* Theorems about AdaptiveProgression, for any track laid out as the packs *)
(* are: its types, that a lesson which is opened counts, that a mastered   *)
(* level was earned and stays in review, and that remediation leads back.  *)
(***************************************************************************)
EXTENDS AdaptiveProgression, FiniteSetTheorems, WellFoundedInduction, TLAPS

-----------------------------------------------------------------------------
(* Constants and choices.                                                  *)

LEMMA Constant ==
    /\ Completion \in Nat /\ Completion > 0 /\ MaxFailures \in Nat
    /\ NoUnit \notin Unit /\ NoReview \notin Nat
    /\ NoPlan \notin Plan /\ NoContext \notin Context
    /\ \A l \in Lesson : /\ l.unit \in Unit /\ l.level \in Level
                         /\ l.role \in {"guide", "checkpoint", "fluency"}
BY TrackAssumption DEF Plan, Purpose, Urgent, Step, Context

LEMMA IntervalsFit ==
    /\ Len(Intervals) \in Nat /\ Len(Intervals) > 0
    /\ \A i \in 1..Len(Intervals) : Intervals[i] \in Wait
    /\ \A s \in Step : s + 1 \in 1..Len(Intervals)
    /\ 0 \in Step
<1>1. /\ Intervals \in Seq(Nat) /\ Intervals # <<>>
      /\ \A i \in DOMAIN Intervals : Intervals[i] <= Intervals[Len(Intervals)]
  BY TrackAssumption
<1>2. Len(Intervals) \in Nat /\ Len(Intervals) > 0 /\ DOMAIN Intervals = 1..Len(Intervals)
  BY <1>1
<1>3. \A i \in 1..Len(Intervals) : Intervals[i] \in Nat
  BY <1>1, <1>2
<1> QED  BY <1>1, <1>2, <1>3 DEF Wait, Step

\* A set of numbers has a lowest one, and with a bound a highest one.
LEMMA Lowest ==
    ASSUME NEW S \in SUBSET Nat, S # {}
    PROVE  \E m \in S : \A n \in S : m <= n
<1> DEFINE R == OpToRel(<, Nat)
<1>1. PICK m \in S : \A n \in S : ~(<<n, m>> \in R)
  <2> HIDE DEF R
  <2>1. IsWellFoundedOn(R, Nat)
    BY NatLessThanWellFounded DEF R
  <2> QED  BY <2>1, WFMin
<1>2. \A n \in S : ~(n < m)
  BY <1>1 DEF OpToRel
<1>3. \A n \in S : n \in Nat
  OBVIOUS
<1> QED  BY <1>2, <1>3

LEMMA Highest ==
    ASSUME NEW S \in SUBSET Nat, NEW b \in Nat, \A s \in S : s <= b, S # {}
    PROVE  \E m \in S : \A n \in S : n <= m
<1> DEFINE T == {b - s : s \in S}
<1>1. \A s \in S : s \in Nat /\ b - s \in Nat
  OBVIOUS
<1>2. T \in SUBSET Nat /\ T # {}
  BY <1>1
<1>3. PICK t \in T : \A y \in T : t <= y
  <2> HIDE DEF T
  <2> QED  BY <1>2, Lowest
<1>4. PICK m \in S : t = b - m
  BY <1>3
<1>5. ASSUME NEW n \in S PROVE n <= m
  <2>1. b - m <= b - n
    BY <1>3, <1>4
  <2> QED  BY <1>1, <2>1
<1> QED  BY <1>5

\* FirstOf takes from one of the tiers, and from some tier if it can.
LEMMA FirstOfFive ==
    ASSUME NEW a, NEW b, NEW c, NEW d, NEW e
    PROVE  /\ FirstOf(<<a, b, c, d, e>>) \in {{}, a, b, c, d, e}
           /\ (a # {} \/ b # {} \/ c # {} \/ d # {} \/ e # {})
                 => FirstOf(<<a, b, c, d, e>>) # {}
<1> DEFINE tiers == <<a, b, c, d, e>>
           usable == {i \in DOMAIN tiers : tiers[i] # {}}
           first == CHOOSE i \in usable : \A j \in usable : i <= j
<1>1. /\ DOMAIN tiers = 1..5
      /\ tiers[1] = a /\ tiers[2] = b /\ tiers[3] = c /\ tiers[4] = d /\ tiers[5] = e
  OBVIOUS
<1>2. FirstOf(tiers) = IF usable = {} THEN {} ELSE tiers[first]
  BY DEF FirstOf
<1> HIDE DEF tiers
<1>3. usable = {} <=> a = {} /\ b = {} /\ c = {} /\ d = {} /\ e = {}
  BY <1>1
<1>4. ASSUME usable # {} PROVE first \in usable
  <2>1. usable \subseteq 1..5
    BY <1>1
  <2>2. \E i \in usable : \A j \in usable : i <= j
    <3>1. usable \in SUBSET Nat
      BY <2>1
    <3> HIDE DEF usable
    <3> QED  BY <1>4, <3>1, Lowest
  <2> HIDE DEF usable
  <2> QED  BY <2>2
<1>5. ASSUME usable # {} PROVE tiers[first] \in {a, b, c, d, e} /\ tiers[first] # {}
  <2>1. first \in 1..5 /\ tiers[first] # {}
    BY <1>1, <1>4, <1>5
  <2> HIDE DEF first
  <2> QED  BY <1>1, <2>1
<1> QED  BY <1>2, <1>3, <1>5 DEF tiers

-----------------------------------------------------------------------------
(* The planner.                                                            *)

\* A plan made for progress p, and one that may still be launched.
Meant(plan, p) ==
    /\ plan.purpose # "review" => plan.lesson.level = p.level
    /\ plan.purpose \in Urgent => p.level < Completion

Stands(plan, p) == plan.purpose # "review" => /\ plan.lesson.level = p.level
                                              /\ p.level < Completion

Queued(plan, q) == \E e \in q : /\ e.level = plan.lesson.level
                                /\ e.unit = plan.lesson.unit
                                /\ e.step = plan.step
                                /\ e.wait = 0

LEMMA PlanForTyped ==
    ASSUME NEW lessons \in SUBSET Lesson, NEW purpose \in Purpose, NEW step \in Step,
           NEW plan \in PlanFor(lessons, purpose, step)
    PROVE  /\ plan \in Plan /\ plan.lesson \in lessons
           /\ plan.purpose = purpose /\ plan.step = step
BY DEF PlanFor, Plan

\* Whatever the planner offers can be launched, now and until the next result.
LEMMA PlansStand ==
    ASSUME NEW p \in Progress, NEW q \in SUBSET Entry,
           NEW last \in [Level -> Unit \union {NoUnit}],
           NEW quest \in Plan \union {NoPlan},
           p.learning \in ActiveStates => p.level < Completion,
           quest # NoPlan => Meant(quest, p),
           NEW plan \in Plans(p, q, last, quest)
    PROVE  /\ plan \in Plan /\ Stands(plan, p)
           /\ plan.purpose = "review" => Queued(plan, q)
<1> DEFINE kept(purposes) == {pl \in {quest} :
                                pl # NoPlan /\ pl.purpose \in purposes}
           due(e) == PlanFor(Offers(e.level, "review", e.unit), "review", e.step)
           reviews == UNION {due(e) : e \in {f \in q : f.wait = 0}}
           purpose == IF p.learning = "VERIFY_MASTERY" THEN "verification"
                      ELSE "remediation"
           urgent == IF p.learning \in ActiveStates
                     THEN PlanFor(Offers(p.level, purpose, last[p.level]), purpose, 0)
                     ELSE {}
           goingOn == IF Guided(p) THEN kept({"progression"}) ELSE {}
           onward == IF Guided(p)
                     THEN PlanFor(Offers(p.level, "progression", NoUnit),
                                  "progression", 0)
                     ELSE {}
<1>1. Plans(p, q, last, quest)
        = FirstOf(<<kept(Urgent), reviews, urgent, goingOn, onward>>)
  BY DEF Plans
<1>2. \A purps : kept(purps) = {} \/ (kept(purps) = {quest} /\ quest # NoPlan
                                      /\ quest.purpose \in purps)
  OBVIOUS
<1>3. CASE plan \in kept(Urgent)
  BY <1>3 DEF Meant, Stands, Urgent
<1>4. CASE plan \in reviews
  <2>1. PICK e \in q : plan \in due(e) /\ e.wait = 0
    BY <1>4
  <2>2. /\ e \in Entry /\ e.unit # NoUnit
        /\ Offers(e.level, "review", e.unit) \in SUBSET Lesson
    BY TrackAssumption DEF Entry, Offers
  <2>3. /\ plan \in Plan /\ plan.lesson \in Offers(e.level, "review", e.unit)
        /\ plan.purpose = "review" /\ plan.step = e.step
    <3>1. e.step \in Step /\ "review" \in Purpose
      BY <2>2 DEF Entry, Purpose
    <3> QED  BY <2>1, <2>2, <3>1, PlanForTyped
  <2> QED  BY <2>1, <2>2, <2>3 DEF Offers, Stands, Queued
<1>5. CASE plan \in urgent
  <2>1. /\ Offers(p.level, purpose, last[p.level]) \in SUBSET Lesson
        /\ purpose \in Purpose /\ purpose # "review" /\ 0 \in Step
    BY IntervalsFit DEF Offers, Purpose, Urgent
  <2> HIDE DEF purpose
  <2>2. plan \in PlanFor(Offers(p.level, purpose, last[p.level]), purpose, 0)
        /\ p.level < Completion
    BY <1>5
  <2>3. /\ plan \in Plan /\ plan.lesson \in Offers(p.level, purpose, last[p.level])
        /\ plan.purpose = purpose
    BY <2>1, <2>2, PlanForTyped
  <2> QED  BY <2>1, <2>2, <2>3 DEF Offers, Stands
<1>6. CASE plan \in goingOn
  BY <1>6 DEF Meant, Stands, Guided
<1>7. CASE plan \in onward
  <2>1. /\ Offers(p.level, "progression", NoUnit) \in SUBSET Lesson
        /\ "progression" \in Purpose /\ 0 \in Step
    BY IntervalsFit DEF Offers, Purpose
  <2>2. plan \in PlanFor(Offers(p.level, "progression", NoUnit), "progression", 0)
        /\ p.level < Completion
    BY <1>7 DEF Guided
  <2>3. /\ plan \in Plan /\ plan.lesson \in Offers(p.level, "progression", NoUnit)
        /\ plan.purpose = "progression"
    BY <2>1, <2>2, PlanForTyped
  <2> QED  BY <2>2, <2>3 DEF Offers, Stands
<1> HIDE DEF kept, reviews, urgent, goingOn, onward
<1>8. plan \in kept(Urgent) \/ plan \in reviews \/ plan \in urgent
      \/ plan \in goingOn \/ plan \in onward
  BY <1>1, FirstOfFive
<1> QED  BY <1>3, <1>4, <1>5, <1>6, <1>7, <1>8

-----------------------------------------------------------------------------
(* What a result does to the learner's progress.                           *)

LEMMA EasierTyped ==
    ASSUME NEW p \in Progress
    PROVE  /\ EasierLevels(p) \subseteq {n \in Level : n < p.level}
           /\ EasierLevels(p) # {} =>
                \E t \in EasierLevels(p) : \A m \in EasierLevels(p) : m <= t
<1>1. /\ EasierLevels(p) \subseteq {n \in Level : n < p.level}
      /\ p.level \in Nat
  BY Constant DEF EasierLevels, Progress, Level
<1>2. EasierLevels(p) \in SUBSET Nat /\ \A s \in EasierLevels(p) : s <= p.level
  BY <1>1, Constant DEF Level
<1> QED  BY <1>1, <1>2, Highest

\* The two lessons that make an advance: l and one passed before it.
Second(p, l, r) == r = "independent" /\ l \notin p.evidence /\ p.evidence # {}

Advances(p, new) ==
    /\ p.context = NoContext /\ new.context = NoContext
    /\ new.level = p.level + 1 /\ new.mastered = p.level
    /\ new.learning = "ADVANCE"
    /\ new.evidence = {} /\ new.next = Intervals[1]

Returns(p, new) ==
    /\ p.context # NoContext /\ new.context = NoContext
    /\ new.level = p.context.original /\ new.mastered = p.level
    /\ new.learning = "CHECKPOINT"
    /\ new.evidence = {} /\ new.next = Intervals[1]

Rebuilds(p, new) ==
    /\ new.level \in EasierLevels(p)
    /\ \A m \in EasierLevels(p) : m <= new.level
    /\ new.context = [original |-> p.level, target |-> new.level]
    /\ new.learning = "REMEDIATE_PREREQUISITE"
    /\ new.evidence = {} /\ new.next = p.next /\ new.mastered = p.mastered

Stays(p, l, r, new) ==
    /\ new.level = p.level /\ new.mastered = p.mastered
    /\ new.context = p.context /\ new.next = p.next
    /\ new.evidence \subseteq p.evidence \union
                                (IF r = "independent" THEN {l} ELSE {})

LEMMA DecisionTyped ==
    ASSUME NEW p, NEW l, NEW r \in Outcomes
    PROVE  /\ Decision(p, l, r) \in LearningStates
           /\ Decision(p, l, r) = "ADVANCE" <=> Second(p, l, r)
           /\ Decision(p, l, r) = "VERIFY_MASTERY" => r = "independent"
           /\ Decision(p, l, r) = "REMEDIATE_PREREQUISITE" => r = "low"
BY DEF Decision, Outcomes, Second, LearningStates, ActiveStates

\* The four things a result can do.
LEMMA AppliedCases ==
    ASSUME NEW p \in Progress, NEW l \in Lesson, NEW r \in Outcomes,
           l.level = p.level, p.level < Completion,
           p.context # NoContext => p.context.original \in Level,
           r = "low" => p.failures < MaxFailures
    PROVE  LET new == Applied(p, l, r) IN
           /\ new \in Progress
           /\ \/ Second(p, l, r) /\ Advances(p, new)
              \/ Second(p, l, r) /\ Returns(p, new)
              \/ /\ Decision(p, l, r) = "REMEDIATE_PREREQUISITE"
                 /\ Rebuilds(p, new)
              \/ /\ ~Second(p, l, r) /\ Stays(p, l, r, new)
                 /\ new.learning = Decision(p, l, r)
<1> DEFINE d == Decision(p, l, r)
           decided == Decided(p, l, r)
           new == Applied(p, l, r)
<1>1. /\ d \in LearningStates /\ (d = "ADVANCE" <=> Second(p, l, r))
      /\ d = "VERIFY_MASTERY" => r = "independent"
      /\ d = "REMEDIATE_PREREQUISITE" => r = "low"
  BY DecisionTyped
<1>2. /\ p.level \in Level /\ p.level + 1 \in Level /\ Intervals[1] \in Wait
      /\ p.failures \in 0..MaxFailures
      /\ (IF r = "low" THEN p.failures + 1 ELSE 0) \in 0..MaxFailures
      /\ 0 \in 0..MaxFailures
  BY Constant, IntervalsFit DEF Progress, Level
<1> HIDE DEF d
<1>3. CASE d = "ADVANCE"
  <2> DEFINE up == [p EXCEPT !.level = p.level + 1, !.mastered = p.level,
                      !.learning = d, !.evidence = {}, !.failures = 0,
                      !.next = Intervals[1]]
  <2>1. decided = up
    BY <1>3 DEF Decided, d
  <2>2. /\ up \in Progress /\ up.context = p.context /\ up.level = p.level + 1
        /\ up.mastered = p.level /\ up.learning = d /\ up.evidence = {}
        /\ up.next = Intervals[1]
    BY <1>1, <1>2 DEF Progress
  <2> HIDE DEF up
  <2>3. CASE p.context = NoContext
    <3>1. new = up
      BY <1>3, <2>1, <2>3 DEF Applied, d
    <3> QED  BY <1>1, <1>3, <2>2, <2>3, <3>1 DEF Advances
  <2>4. CASE p.context # NoContext
    <3>1. new = Returned(up, p.context)
      BY <1>3, <2>1, <2>4 DEF Applied, d
    <3>2. p.context.original \in Level
      BY <2>4
    <3>3. /\ new \in Progress /\ new.context = NoContext
          /\ new.level = p.context.original /\ new.mastered = p.level
          /\ new.learning = "CHECKPOINT" /\ new.evidence = {}
          /\ new.next = Intervals[1]
      <4> HIDE DEF new
      <4> QED  BY <1>2, <2>2, <3>1, <3>2 DEF Returned, Progress, LearningStates
    <3> QED  BY <1>1, <1>3, <2>4, <3>3 DEF Returns
  <2> QED  BY <2>3, <2>4
<1>4. CASE d # "ADVANCE"
  <2> DEFINE failures == IF r = "low" THEN p.failures + 1 ELSE 0
             evidence == IF d = "VERIFY_MASTERY" THEN p.evidence \union {l}
                         ELSE p.evidence
             on == [p EXCEPT !.learning = d, !.failures = failures,
                             !.evidence = evidence]
  <2>1. decided = on
    BY <1>4 DEF Decided, d
  <2>2. failures \in 0..MaxFailures /\ evidence \in SUBSET Lesson
    BY <1>2 DEF Progress
  <2>3. evidence \subseteq p.evidence \union (IF r = "independent" THEN {l} ELSE {})
    BY <1>1
  <2> HIDE DEF failures, evidence
  <2>4. /\ on \in Progress /\ on.learning = d /\ on.failures = failures
        /\ on.evidence = evidence /\ on.level = p.level
        /\ on.mastered = p.mastered /\ on.context = p.context
        /\ on.next = p.next
    BY <1>1, <2>2 DEF Progress
  <2> HIDE DEF on
  <2>5. CASE d = "REMEDIATE_PREREQUISITE" /\ EasierLevels(p) # {}
    <3> DEFINE t == CHOOSE n \in EasierLevels(on) :
                       \A m \in EasierLevels(on) : m <= n
    <3>1. EasierLevels(on) = EasierLevels(p)
      BY <2>4 DEF EasierLevels
    <3>2. /\ t \in EasierLevels(p) /\ t \in Level
          /\ \A m \in EasierLevels(p) : m <= t
      BY <2>5, <3>1, EasierTyped
    <3>3. new = Remediated(on, p.level)
      BY <1>4, <2>1, <2>5 DEF Applied, d
    <3>4. new = [on EXCEPT !.level = t, !.evidence = {},
                   !.context = [original |-> p.level, target |-> t]]
      BY <3>3 DEF Remediated
    <3> HIDE DEF t
    <3>5. [original |-> p.level, target |-> t] \in Context
      BY <1>2, <3>2 DEF Context
    <3>6. /\ new \in Progress /\ new.level = t /\ new.evidence = {}
          /\ new.context = [original |-> p.level, target |-> t]
          /\ new.learning = d /\ new.next = p.next /\ new.mastered = p.mastered
      <4> HIDE DEF new
      <4> QED  BY <2>4, <3>2, <3>4, <3>5 DEF Progress
    <3> QED  BY <2>5, <3>2, <3>6 DEF Rebuilds, d
  <2>6. CASE ~(d = "REMEDIATE_PREREQUISITE" /\ EasierLevels(p) # {})
    <3>1. new = on
      BY <1>4, <2>1, <2>6 DEF Applied, d
    <3> QED  BY <1>1, <1>4, <2>3, <2>4, <3>1 DEF Stays, d
  <2> QED  BY <2>5, <2>6
<1> QED  BY <1>3, <1>4

-----------------------------------------------------------------------------
(* What is planned after a result.                                         *)

\* The next quest of a result is meant for the progress it leads to.
LEMMA NextQuestsMeant ==
    ASSUME NEW p \in Progress, NEW l \in Lesson, NEW r \in Outcomes,
           l.level = p.level, p.level < Completion,
           p.context # NoContext => p.context.original \in Level,
           r = "low" => p.failures < MaxFailures,
           NEW quest \in NextQuests(p, l, r)
    PROVE  quest \in Plan /\ Meant(quest, Applied(p, l, r))
<1> DEFINE d == Decision(p, l, r)
           new == Applied(p, l, r)
           purpose == CASE d = "VERIFY_MASTERY" -> "verification"
                        [] d \in ActiveStates \ {"VERIFY_MASTERY"} -> "remediation"
                        [] OTHER -> "progression"
           unit == IF d = "ADVANCE" /\ p.context = NoContext THEN NoUnit
                   ELSE l.unit
           lessons == Offers(new.level, purpose, unit)
<1>1. quest \in PlanFor(lessons, purpose, 0)
  BY DEF NextQuests
<1>2. lessons \in SUBSET Lesson /\ \A k \in lessons : k.level = new.level
  BY DEF Offers
<1>3. /\ purpose \in {"verification", "remediation", "progression"}
      /\ purpose # "progression" => d \in ActiveStates
  BY DEF ActiveStates
<1>4. d \in ActiveStates => new.level < Completion
  <2>1. d \in ActiveStates => ~Second(p, l, r)
    BY DecisionTyped DEF ActiveStates
  <2>2. Rebuilds(p, new) => new.level < p.level
    BY EasierTyped DEF Rebuilds
  <2>3. p.level \in Nat /\ Completion \in Nat /\ new.level \in Nat
    BY AppliedCases, Constant DEF Progress, Level
  <2> HIDE DEF d, new
  <2> QED  BY <2>1, <2>2, <2>3, AppliedCases DEF Stays, d, new
<1> HIDE DEF lessons, purpose, d, new
<1>5. /\ quest \in Plan /\ quest.lesson \in lessons /\ quest.purpose = purpose
  <2>1. purpose \in Purpose /\ 0 \in Step
    BY <1>3, IntervalsFit DEF Purpose, Urgent
  <2> QED  BY <1>1, <1>2, <2>1, PlanForTyped
<1>6. Meant(quest, new)
  BY <1>2, <1>3, <1>4, <1>5 DEF Meant, Urgent
<1> QED  BY <1>5, <1>6 DEF new

LEMMA ReplanStands ==
    ASSUME progress' \in Progress, queue' \in SUBSET Entry,
           latest' \in [Level -> Unit \union {NoUnit}],
           progress'.learning \in ActiveStates => progress'.level < Completion,
           NEW quests,
           \A quest \in quests : quest \in Plan /\ Meant(quest, progress'),
           Replan(quests)
    PROVE  /\ planned' \in Plan \union {NoPlan}
           /\ planned' # NoPlan => Stands(planned', progress')
<1>1. PICK quest \in IF quests = {} THEN {NoPlan} ELSE quests :
         planned' \in IF Plans(progress', queue', latest', quest) = {} THEN {NoPlan}
                      ELSE Plans(progress', queue', latest', quest)
  BY DEF Replan
<1>2. /\ quest \in Plan \union {NoPlan}
      /\ quest # NoPlan => Meant(quest, progress')
  BY <1>1
<1>3. ASSUME NEW plan \in Plans(progress', queue', latest', quest)
      PROVE  plan \in Plan /\ Stands(plan, progress')
  BY <1>2, PlansStand
<1> QED  BY <1>1, <1>3

-----------------------------------------------------------------------------
(* The review queue.                                                       *)

\* One entry for a level and a unit.
OneEntry(q) == \A e, f \in q : e.level = f.level /\ e.unit = f.unit => e = f

\* Every level and unit in review stays in review.
Covers(q, new) == \A e \in q : \E f \in new : f.level = e.level /\ f.unit = e.unit

LEMMA ScheduledKeeps ==
    ASSUME NEW q \in SUBSET Entry, OneEntry(q), NEW p \in Progress, NEW unit \in Unit
    PROVE  /\ Scheduled(q, p, unit) \in SUBSET Entry
           /\ OneEntry(Scheduled(q, p, unit))
           /\ Covers(q, Scheduled(q, p, unit))
           /\ p.next # NoReview =>
                \E e \in Scheduled(q, p, unit) : e.level = p.mastered
<1>1. CASE p.next = NoReview
  BY <1>1 DEF Scheduled, Covers
<1>2. CASE p.next # NoReview
  <2> DEFINE e == [level |-> p.mastered, unit |-> unit, step |-> 0, wait |-> p.next]
             others == {f \in q : f.level # p.mastered \/ f.unit # unit}
  <2>1. e \in Entry
    BY <1>2, IntervalsFit DEF Progress, Entry
  <2>2. Scheduled(q, p, unit) = others \union {e}
    BY <1>2 DEF Scheduled
  <2>3. e.level = p.mastered /\ e.unit = unit
    OBVIOUS
  <2> HIDE DEF e
  <2>4. OneEntry(others \union {e})
    BY <2>3 DEF OneEntry
  <2>5. Covers(q, others \union {e})
    BY <2>3 DEF Covers
  <2> QED  BY <2>1, <2>2, <2>3, <2>4, <2>5
<1> QED  BY <1>1, <1>2

LEMMA RescheduledKeeps ==
    ASSUME NEW q \in SUBSET Entry, OneEntry(q), NEW e \in q, NEW passed \in BOOLEAN
    PROVE  /\ Rescheduled(q, e, passed) \in SUBSET Entry
           /\ OneEntry(Rescheduled(q, e, passed))
           /\ Covers(q, Rescheduled(q, e, passed))
<1> DEFINE step == NextStep(e.step, passed)
           new == [e EXCEPT !.step = step, !.wait = Intervals[step + 1]]
<1>1. e \in Entry /\ e.step \in Step
  BY DEF Entry
<1>2. step \in Step
  BY <1>1, IntervalsFit DEF NextStep, Step
<1>3. Intervals[step + 1] \in Wait
  BY <1>2, IntervalsFit
<1>4. Rescheduled(q, e, passed) = (q \ {e}) \union {new}
  BY DEF Rescheduled
<1> HIDE DEF step
<1>5. new \in Entry /\ new.level = e.level /\ new.unit = e.unit
  BY <1>1, <1>2, <1>3 DEF Entry
<1> HIDE DEF new
<1>6. OneEntry((q \ {e}) \union {new})
  BY <1>5 DEF OneEntry
<1>7. Covers(q, (q \ {e}) \union {new})
  BY <1>5 DEF Covers
<1> QED  BY <1>4, <1>5, <1>6, <1>7

LEMMA SoonerTyped ==
    /\ \A n \in Wait : Sooner(n) \in Wait
    /\ \A n \in Wait \union {NoReview} : Sooner(n) \in Wait \union {NoReview}
<1>1. Intervals[Len(Intervals)] \in Nat
  BY TrackAssumption
<1> QED  BY <1>1 DEF Sooner, Wait

\* A day leaves everything but the waiting as it is.
LEMMA DayKeeps ==
    ASSUME NEW q \in SUBSET Entry, OneEntry(q)
    PROVE  LET new == {[e EXCEPT !.wait = Sooner(@)] : e \in q} IN
           /\ new \in SUBSET Entry /\ OneEntry(new) /\ Covers(q, new)
           /\ \A e \in q : \E f \in new : /\ f.level = e.level /\ f.unit = e.unit
                                          /\ f.step = e.step
                                          /\ e.wait = 0 => f.wait = 0
           /\ \A f \in new : \E e \in q : /\ f.level = e.level /\ f.unit = e.unit
                                          /\ f.step = e.step
<1> DEFINE day(e) == [e EXCEPT !.wait = Sooner(e.wait)]
           new == {day(e) : e \in q}
<1>1. ASSUME NEW e \in q
      PROVE  /\ day(e) \in Entry /\ day(e).level = e.level
             /\ day(e).unit = e.unit /\ day(e).step = e.step
             /\ e.wait = 0 => day(e).wait = 0
  <2>1. Sooner(e.wait) \in Wait
    BY SoonerTyped DEF Entry
  <2>2. e.wait = 0 => Sooner(e.wait) = 0
    BY DEF Sooner
  <2> QED  BY <2>1, <2>2 DEF Entry
<1> HIDE DEF day
<1>2. OneEntry(new)
  <2> SUFFICES ASSUME NEW e \in q, NEW f \in q, day(e).level = day(f).level,
                      day(e).unit = day(f).unit
               PROVE  day(e) = day(f)
    BY DEF OneEntry
  <2> QED  BY <1>1 DEF OneEntry
<1>3. new \in SUBSET Entry /\ Covers(q, new)
  BY <1>1 DEF Covers
<1>4. \A e \in q : \E f \in new : /\ f.level = e.level /\ f.unit = e.unit
                                  /\ f.step = e.step
                                  /\ e.wait = 0 => f.wait = 0
  BY <1>1
<1>5. \A f \in new : \E e \in q : /\ f.level = e.level /\ f.unit = e.unit
                                  /\ f.step = e.step
  BY <1>1
<1> QED  BY <1>2, <1>3, <1>4, <1>5 DEF day

-----------------------------------------------------------------------------
(* Types, and plans that still stand.                                      *)

TrackInv ==
    /\ TrackTypeOK
    /\ progress.learning \in ActiveStates => progress.level < Completion
    /\ progress.context # NoContext =>
          /\ progress.level = progress.context.target
          /\ progress.context.target < progress.context.original
          /\ progress.context.original < Completion
    /\ planned # NoPlan => Stands(planned, progress)
    /\ active # NoPlan => Stands(active, progress)
    /\ active # NoPlan /\ active.purpose = "review" => Queued(active, queue)
    /\ OneEntry(queue)

LEMMA ContextTyped ==
    ASSUME NEW p \in Progress, p.context # NoContext
    PROVE  p.context.original \in Level /\ p.context.target \in Level
BY DEF Progress, Context

\* What the completion of an ordinary lesson does to the progress.
LEMMA CompleteProgress ==
    ASSUME TrackInv, NEW r \in Outcomes, CompleteLesson(r)
    PROVE  LET l == active.lesson IN
           /\ l \in Lesson /\ l \notin Fluency
           /\ l.level = progress.level /\ progress.level < Completion
           /\ progress \in Progress
           /\ progress' = Applied(progress, l, r) /\ progress' \in Progress
           /\ \/ Second(progress, l, r) /\ Advances(progress, progress')
              \/ Second(progress, l, r) /\ Returns(progress, progress')
              \/ /\ Decision(progress, l, r) = "REMEDIATE_PREREQUISITE"
                 /\ Rebuilds(progress, progress')
              \/ /\ ~Second(progress, l, r)
                 /\ Stays(progress, l, r, progress')
                 /\ progress'.learning = Decision(progress, l, r)
           /\ \A quest \in NextQuests(progress, l, r) :
                 quest \in Plan /\ Meant(quest, progress')
<1> DEFINE l == active.lesson
<1>1. /\ active \in Plan /\ active.purpose # "review" /\ progress \in Progress
  BY DEF TrackInv, TrackTypeOK, CompleteLesson
<1>2. /\ l \in Lesson /\ l \notin Fluency
      /\ l.level = progress.level /\ progress.level < Completion
  BY <1>1 DEF TrackInv, Stands, CompleteLesson, Plan
<1>3. /\ progress' = Applied(progress, l, r)
      /\ r = "low" => progress.failures < MaxFailures
  BY DEF CompleteLesson
<1>4. progress.context # NoContext => progress.context.original \in Level
  BY <1>1, ContextTyped
<1> HIDE DEF l
<1>5. \A quest \in NextQuests(progress, l, r) :
         quest \in Plan /\ Meant(quest, Applied(progress, l, r))
  BY <1>1, <1>2, <1>3, <1>4, NextQuestsMeant
<1>6. LET new == Applied(progress, l, r) IN
           /\ new \in Progress
           /\ \/ Second(progress, l, r) /\ Advances(progress, new)
              \/ Second(progress, l, r) /\ Returns(progress, new)
              \/ /\ Decision(progress, l, r) = "REMEDIATE_PREREQUISITE"
                 /\ Rebuilds(progress, new)
              \/ /\ ~Second(progress, l, r) /\ Stays(progress, l, r, new)
                 /\ new.learning = Decision(progress, l, r)
  BY <1>1, <1>2, <1>3, <1>4, AppliedCases
<1> QED  BY <1>1, <1>2, <1>3, <1>5, <1>6 DEF l

\* How a completion leaves the types, what is planned and the queue.
LEMMA CompleteLessonTrack ==
    ASSUME TrackInv, NEW r \in Outcomes, CompleteLesson(r)
    PROVE  /\ TrackInv'
           /\ queue' = Scheduled(queue, progress', active.lesson.unit)
           /\ Covers(queue, queue')
           /\ progress'.next # NoReview =>
                \E e \in queue' : e.level = progress'.mastered
<1> DEFINE l == active.lesson
<1>1. /\ l \in Lesson /\ l.level = progress.level /\ progress.level < Completion
      /\ progress \in Progress /\ progress' \in Progress
      /\ \/ Second(progress, l, r) /\ Advances(progress, progress')
         \/ Second(progress, l, r) /\ Returns(progress, progress')
         \/ /\ Decision(progress, l, r) = "REMEDIATE_PREREQUISITE"
            /\ Rebuilds(progress, progress')
         \/ /\ ~Second(progress, l, r)
            /\ Stays(progress, l, r, progress')
            /\ progress'.learning = Decision(progress, l, r)
      /\ \A quest \in NextQuests(progress, l, r) :
            quest \in Plan /\ Meant(quest, progress')
  BY CompleteProgress
<1> HIDE DEF l
<1>2. l.unit \in Unit /\ l.level \in Level
  BY <1>1, Constant
<1>3. /\ queue' = Scheduled(queue, progress', l.unit)
      /\ latest' = [latest EXCEPT ![l.level] = l.unit]
      /\ Replan(NextQuests(progress, l, r))
      /\ active' = NoPlan
      /\ proofs' = IF r = "independent" /\ Cardinality(proofs[l.level]) < 2
                   THEN [proofs EXCEPT ![l.level] = @ \union {l}]
                   ELSE proofs
      /\ UNCHANGED practised
  BY DEF CompleteLesson, Attempted, l
<1>4. /\ queue' \in SUBSET Entry /\ OneEntry(queue') /\ Covers(queue, queue')
      /\ progress'.next # NoReview =>
           \E e \in queue' : e.level = progress'.mastered
  BY <1>1, <1>2, <1>3, ScheduledKeeps DEF TrackInv, TrackTypeOK
<1>5. latest' \in [Level -> Unit \union {NoUnit}]
  BY <1>2, <1>3 DEF TrackInv, TrackTypeOK
<1>6. proofs' \in [Level -> SUBSET Lesson]
  BY <1>1, <1>2, <1>3 DEF TrackInv, TrackTypeOK
<1>7. /\ progress.level \in Nat /\ progress'.level \in Nat /\ Completion \in Nat
      /\ progress.context # NoContext =>
           /\ progress.context.original \in Nat /\ progress.context.target \in Nat
           /\ progress.context.original < Completion
           /\ progress.level = progress.context.target
           /\ progress.context.target < progress.context.original
  <2>1. progress.context # NoContext => /\ progress.context.original \in Level
                                        /\ progress.context.target \in Level
    BY <1>1, ContextTyped
  <2> QED  BY <1>1, <2>1, Constant DEF TrackInv, Progress, Level
<1>8. /\ progress'.learning \in ActiveStates => progress'.level < Completion
      /\ progress'.context # NoContext =>
            /\ progress'.level = progress'.context.target
            /\ progress'.context.target < progress'.context.original
            /\ progress'.context.original < Completion
  <2>1. CASE Advances(progress, progress')
    BY <2>1 DEF Advances, ActiveStates
  <2>2. CASE Returns(progress, progress')
    BY <1>7, <2>2 DEF Returns
  <2>3. CASE Rebuilds(progress, progress')
    <3>1. progress'.level < progress.level
      BY <1>1, <2>3, EasierTyped DEF Rebuilds
    <3>2. /\ progress'.context.original = progress.level
          /\ progress'.context.target = progress'.level
      BY <2>3 DEF Rebuilds
    <3> QED  BY <1>1, <1>7, <3>1, <3>2
  <2>4. CASE Stays(progress, l, r, progress')
    BY <1>1, <1>7, <2>4 DEF Stays
  <2> QED  BY <1>1, <2>1, <2>2, <2>3, <2>4
<1>9. /\ planned' \in Plan \union {NoPlan}
      /\ planned' # NoPlan => Stands(planned', progress')
  BY <1>1, <1>3, <1>4, <1>5, <1>8, ReplanStands
<1>a. TrackInv'
  BY <1>1, <1>3, <1>4, <1>5, <1>6, <1>8, <1>9 DEF TrackInv, TrackTypeOK
<1> QED  BY <1>3, <1>4, <1>a DEF l

\* How the completion of fluency practice leaves the track.
LEMMA CompleteFluencyTrack ==
    ASSUME TrackInv, CompleteFluency
    PROVE  LET l == active.lesson
               done == ChapterDone(l, practised) IN
           /\ TrackInv'
           /\ l \in Fluency /\ l.level = progress.level /\ progress.level < Completion
           /\ progress'.level = IF done THEN Completion ELSE progress.level
           /\ progress'.context = NoContext
           /\ progress'.mastered = progress.mastered
           /\ progress'.evidence = progress.evidence
           /\ practised' = practised \union {l}
           /\ UNCHANGED <<queue, proofs>>
<1> DEFINE l == active.lesson
           done == ChapterDone(l, practised)
           level == IF done THEN Completion ELSE progress.level
           onward == IF done THEN {}
                     ELSE PlanFor(Offers(l.level, "progression", l.unit),
                                  "progression", 0)
<1>1. /\ active \in Plan /\ active.lesson \in Lesson /\ progress \in Progress
      /\ queue \in SUBSET Entry /\ OneEntry(queue)
      /\ latest \in [Level -> Unit \union {NoUnit}] /\ practised \subseteq Fluency
      /\ proofs \in [Level -> SUBSET Lesson]
  BY DEF TrackInv, TrackTypeOK, CompleteFluency, Plan
<1>2. /\ l \in Fluency /\ l.level = progress.level /\ progress.level < Completion
      /\ progress.level \in Level /\ progress.level \in Nat
      /\ level \in Level
  BY <1>1, Constant DEF TrackInv, Stands, CompleteFluency, Progress, Level
<1>3. /\ progress' = [progress EXCEPT !.level = level,
                       !.learning = "FLUENCY_PRACTICE", !.context = NoContext]
      /\ practised' = practised \union {l}
      /\ latest' = [latest EXCEPT ![l.level] = l.unit]
      /\ UNCHANGED <<queue, proofs>>
      /\ Replan(onward)
      /\ active' = NoPlan
  <2>1. ~(l.level > progress.level)
    BY <1>2
  <2> QED  BY <2>1 DEF CompleteFluency, Attempted
<1> HIDE DEF level
<1>4. /\ progress' \in Progress /\ progress'.level = level
      /\ progress'.context = NoContext /\ progress'.mastered = progress.mastered
      /\ progress'.evidence = progress.evidence
      /\ progress'.learning \notin ActiveStates
  BY <1>1, <1>2, <1>3 DEF Progress, LearningStates, ActiveStates
<1>5. latest' \in [Level -> Unit \union {NoUnit}]
  BY <1>1, <1>3, Constant
<1>6. \A quest \in onward : quest \in Plan /\ Meant(quest, progress')
  <2>1. CASE done
    BY <2>1
  <2>2. CASE ~done
    <3>1. /\ Offers(l.level, "progression", l.unit) \in SUBSET Lesson
          /\ \A k \in Offers(l.level, "progression", l.unit) : k.level = l.level
          /\ "progression" \in Purpose /\ 0 \in Step
      BY IntervalsFit DEF Offers, Purpose
    <3>2. progress'.level = l.level
      BY <1>2, <1>4, <2>2 DEF level
    <3>3. ASSUME NEW quest \in onward PROVE quest \in Plan /\ Meant(quest, progress')
      <4>1. quest \in PlanFor(Offers(l.level, "progression", l.unit), "progression", 0)
        BY <2>2
      <4>2. /\ quest \in Plan /\ quest.lesson \in Offers(l.level, "progression", l.unit)
            /\ quest.purpose = "progression"
        BY <3>1, <4>1, PlanForTyped
      <4> QED  BY <3>1, <3>2, <4>2 DEF Meant, Urgent
    <3> QED  BY <3>3
  <2> QED  BY <2>1, <2>2
<1> HIDE DEF onward
<1>7. /\ planned' \in Plan \union {NoPlan}
      /\ planned' # NoPlan => Stands(planned', progress')
  <2>1. queue' \in SUBSET Entry
    BY <1>1, <1>3
  <2> QED  BY <1>3, <1>4, <1>5, <1>6, <2>1, ReplanStands
<1>8. practised' \subseteq Fluency
  BY <1>1, <1>2, <1>3
<1>9. TrackInv'
  BY <1>1, <1>3, <1>4, <1>5, <1>7, <1>8 DEF TrackInv, TrackTypeOK
<1> QED  BY <1>2, <1>3, <1>4, <1>9 DEF level

LEMMA CompleteReviewTrack ==
    ASSUME TrackInv, NEW passed \in BOOLEAN, CompleteReview(passed)
    PROVE  /\ TrackInv' /\ Covers(queue, queue')
           /\ UNCHANGED <<progress, proofs>>
           /\ practised \subseteq practised'
<1>1. /\ active \in Plan /\ active.lesson \in Lesson /\ progress \in Progress
      /\ queue \in SUBSET Entry /\ OneEntry(queue)
      /\ latest \in [Level -> Unit \union {NoUnit}]
  BY DEF TrackInv, TrackTypeOK, CompleteReview, Plan
<1>2. /\ UNCHANGED <<progress, proofs>> /\ active' = NoPlan /\ Replan({})
      /\ latest' = [latest EXCEPT ![active.lesson.level] = active.lesson.unit]
  BY DEF CompleteReview, Attempted
<1>3. PICK e \in Matching(queue, active) : queue' = Rescheduled(queue, e, passed)
  BY DEF CompleteReview
<1>4. queue' \in SUBSET Entry /\ OneEntry(queue') /\ Covers(queue, queue')
  BY <1>1, <1>3, RescheduledKeeps DEF Matching
<1>5. latest' \in [Level -> Unit \union {NoUnit}]
  BY <1>1, <1>2, Constant
<1>6. progress'.learning \in ActiveStates => progress'.level < Completion
  BY <1>2 DEF TrackInv
<1>7. /\ planned' \in Plan \union {NoPlan}
      /\ planned' # NoPlan => Stands(planned', progress')
  BY <1>1, <1>2, <1>4, <1>5, <1>6, ReplanStands
<1>8. practised' \subseteq Fluency /\ practised \subseteq practised'
  BY DEF CompleteReview, TrackInv, TrackTypeOK
<1>9. TrackInv'
  BY <1>1, <1>2, <1>4, <1>5, <1>7, <1>8 DEF TrackInv, TrackTypeOK
<1> QED  BY <1>2, <1>4, <1>8, <1>9

LEMMA LaunchTrack ==
    ASSUME TrackInv, Launch
    PROVE  TrackInv' /\ UNCHANGED <<progress, queue, practised, proofs>>
<1>1. /\ progress \in Progress /\ queue \in SUBSET Entry
      /\ latest \in [Level -> Unit \union {NoUnit}]
      /\ planned \in Plan \union {NoPlan}
      /\ progress.learning \in ActiveStates => progress.level < Completion
      /\ planned # NoPlan => Meant(planned, progress)
  BY DEF TrackInv, TrackTypeOK, Stands, Meant, Urgent
<1>2. /\ active' \in Plans(progress, queue, latest, planned)
      /\ UNCHANGED <<progress, queue, latest, planned, practised, proofs>>
  BY DEF Launch
<1>3. /\ active' \in Plan /\ Stands(active', progress)
      /\ active'.purpose = "review" => Queued(active', queue)
  BY <1>1, <1>2, PlansStand
<1> QED  BY <1>2, <1>3 DEF TrackInv, TrackTypeOK

LEMMA NextDayTrack ==
    ASSUME TrackInv, NextDay
    PROVE  /\ TrackInv' /\ Covers(queue, queue')
           /\ UNCHANGED <<practised, proofs>>
           /\ progress'.level = progress.level
           /\ progress'.mastered = progress.mastered
           /\ progress'.context = progress.context
           /\ progress'.evidence = progress.evidence
<1>1. /\ progress \in Progress /\ queue \in SUBSET Entry /\ OneEntry(queue)
      /\ active # NoPlan => active \in Plan
  BY DEF TrackInv, TrackTypeOK
<1>2. /\ progress' = [progress EXCEPT !.next = Sooner(@)]
      /\ queue' = {[e EXCEPT !.wait = Sooner(@)] : e \in queue}
      /\ UNCHANGED <<latest, planned, active, practised, proofs>>
  BY DEF NextDay
<1>3. /\ progress' \in Progress /\ progress'.level = progress.level
      /\ progress'.mastered = progress.mastered
      /\ progress'.context = progress.context
      /\ progress'.evidence = progress.evidence
      /\ progress'.learning = progress.learning
  <2>1. Sooner(progress.next) \in Wait \union {NoReview}
    BY <1>1, SoonerTyped DEF Progress
  <2> QED  BY <1>1, <1>2, <2>1 DEF Progress
<1>4. /\ queue' \in SUBSET Entry /\ OneEntry(queue') /\ Covers(queue, queue')
      /\ \A e \in queue : \E f \in queue' : /\ f.level = e.level /\ f.unit = e.unit
                                            /\ f.step = e.step
                                            /\ e.wait = 0 => f.wait = 0
  BY <1>1, <1>2, DayKeeps
<1>5. Queued(active, queue) => Queued(active, queue')
  BY <1>4 DEF Queued
<1>6. TrackInv'
  BY <1>2, <1>3, <1>4, <1>5 DEF TrackInv, TrackTypeOK, Stands
<1> QED  BY <1>2, <1>3, <1>4, <1>6

LEMMA InitTrack == Init => TrackInv
<1> SUFFICES ASSUME Init PROVE TrackInv
  OBVIOUS
<1>1. progress \in Progress
  BY Constant DEF Init, Progress, LearningStates, Level
<1>2. "CHECKPOINT" \notin ActiveStates
  BY DEF ActiveStates
<1> QED  BY <1>1, <1>2 DEF Init, TrackInv, TrackTypeOK, OneEntry

LEMMA NextTrack == TrackInv /\ [Next]_trackVars => TrackInv'
<1> SUFFICES ASSUME TrackInv, [Next]_trackVars PROVE TrackInv'
  OBVIOUS
<1>1. CASE Launch
  BY <1>1, LaunchTrack
<1>2. CASE \E r \in Outcomes : CompleteLesson(r)
  BY <1>2, CompleteLessonTrack
<1>3. CASE \E passed \in BOOLEAN : CompleteReview(passed)
  BY <1>3, CompleteReviewTrack
<1>4. CASE NextDay
  BY <1>4, NextDayTrack
<1>5. CASE UNCHANGED trackVars
  BY <1>5 DEF trackVars, TrackInv, TrackTypeOK, Stands, Queued, OneEntry
<1>6. CASE CompleteFluency
  BY <1>6, CompleteFluencyTrack
<1> QED  BY <1>1, <1>2, <1>3, <1>4, <1>5, <1>6 DEF Next

LEMMA TrackInvariant == TrackSpec => []TrackInv
BY InitTrack, NextTrack, PTL DEF TrackSpec

\* Every reachable state of a track is well typed.
THEOREM TrackTypeCorrect == TrackSpec => []TrackTypeOK
<1>1. TrackInv => TrackTypeOK
  BY DEF TrackInv
<1> QED  BY <1>1, TrackInvariant, PTL

\* A lesson the planner opened counts when it is finished: the engine accepts
\* its level, or the review queue holds exactly one entry it matches.
THEOREM LaunchedAlwaysCounts == TrackSpec => []LaunchedLessonCounts
<1>1. TrackInv => LaunchedLessonCounts
  <2> SUFFICES ASSUME TrackInv, active # NoPlan
               PROVE  Counts(active, progress, queue)
    BY DEF LaunchedLessonCounts
  <2>1. CASE active.purpose # "review"
    BY <2>1 DEF TrackInv, Stands, Counts
  <2>2. CASE active.purpose = "review"
    <3>1. PICK e \in queue : /\ e.level = active.lesson.level
                             /\ e.unit = active.lesson.unit
                             /\ e.step = active.step
      BY <2>2 DEF TrackInv, Queued
    <3>2. Matching(queue, active) = {e}
      BY <3>1 DEF TrackInv, OneEntry, Matching
    <3> QED  BY <2>2, <3>2, FS_Singleton DEF Counts
  <2> QED  BY <2>1, <2>2
<1> QED  BY <1>1, TrackInvariant, PTL

-----------------------------------------------------------------------------
(* Levels, remediation and what is in review.                              *)

\* Every level of the track that can be played is there to be played: it has
\* checkpoints and can be rebuilt one below, or it is the closing chapter.
LEMMA Catalog ==
    ASSUME NEW n \in Nat, 0 < n, n < Completion
    PROVE  \/ /\ Checked(n)
              /\ \A l \in Fluency : l.level # n
              /\ \E l \in Lesson : l.level = n - 1 /\ l.role = "guide"
           \/ /\ n = Completion - 1
              /\ \E l \in Fluency : l.level = n
              /\ \A k, l \in Lesson : k.level = n /\ l.level = n
                    => k \in Fluency /\ l.unit = k.unit
<1>1. n \in 1..(Completion - 1)
  BY Constant
<1> QED  BY <1>1, CatalogAssumption DEF Checked, Fluency

\* Where fluency is practised there is nothing else, and the track ends.
LEMMA ChapterLast ==
    ASSUME NEW l \in Fluency, l.level < Completion
    PROVE  /\ l.level \in Nat /\ 0 < l.level /\ l.level = Completion - 1
           /\ ~Checked(l.level)
           /\ \A k \in Lesson : k.level = l.level => k \in Fluency /\ k.unit = l.unit
<1>1. l \in Lesson /\ l.level \in Nat /\ 0 < l.level
  BY Constant, CatalogAssumption DEF Fluency, Level
<1>2. /\ l.level = Completion - 1
      /\ \A k \in Lesson : k.level = l.level => k \in Fluency /\ k.unit = l.unit
  BY <1>1, Catalog
<1> QED  BY <1>1, <1>2 DEF Checked, Fluency

\* The level rebuilt is the one just below.
LEMMA RebuildsBelow ==
    ASSUME NEW p \in Progress, p.level < Completion, NEW new \in Progress,
           NEW k \in Lesson, k \notin Fluency, k.level = p.level,
           Rebuilds(p, new)
    PROVE  new.level + 1 = p.level
<1>1. p.level \in Nat /\ new.level \in Nat /\ new.level < p.level
  BY EasierTyped, Constant DEF Rebuilds, Progress, Level
<1>2. PICK l \in Lesson : l.level = p.level - 1 /\ l.role = "guide"
  BY <1>1, Catalog
<1>3. p.level - 1 \in EasierLevels(p)
  <2>1. "remediation" \in Purposes(l) /\ l.level < p.level
    BY <1>1, <1>2 DEF Purposes
  <2> QED  BY <1>2, <2>1 DEF EasierLevels
<1> QED  BY <1>1, <1>3 DEF Rebuilds

\* LevelsAgree, with the detour one level deep.
LevelInv ==
    /\ LevelsAgree
    /\ progress.context # NoContext =>
          progress.context.original = progress.level + 1

LEMMA LevelInvKept ==
    ASSUME TrackInv, LevelInv, [Next]_trackVars
    PROVE  LevelInv'
<1>1. ASSUME progress'.level = progress.level, progress'.mastered = progress.mastered,
             progress'.context = progress.context
      PROVE  LevelInv'
  BY <1>1 DEF LevelInv, LevelsAgree
<1>2. ASSUME NEW r \in Outcomes, CompleteLesson(r) PROVE LevelInv'
  <2> DEFINE l == active.lesson
  <2>1. /\ progress \in Progress /\ progress' \in Progress
        /\ progress.level < Completion
        /\ l \in Lesson /\ l \notin Fluency /\ l.level = progress.level
        /\ \/ Advances(progress, progress')
           \/ Returns(progress, progress')
           \/ Rebuilds(progress, progress')
           \/ Stays(progress, l, r, progress')
    BY <1>2, CompleteProgress
  <2>2. /\ progress.level \in Nat /\ progress.mastered \in Nat
        /\ progress.context # NoContext => progress.context.original \in Nat
    BY <2>1, ContextTyped DEF Progress, Level
  <2>3. CASE Advances(progress, progress')
    BY <2>2, <2>3 DEF Advances, LevelInv, LevelsAgree
  <2>4. CASE Returns(progress, progress')
    BY <2>2, <2>4 DEF Returns, LevelInv, LevelsAgree
  <2>5. CASE Rebuilds(progress, progress')
    <3>1. progress'.level + 1 = progress.level /\ progress'.level \in Nat
      BY <2>1, <2>5, RebuildsBelow DEF Progress, Level
    <3>2. progress.level <= progress.mastered + 1
      BY <2>1, <2>2 DEF LevelInv, LevelsAgree
    <3>3. /\ progress'.context.original = progress.level
          /\ progress'.context.target = progress'.level
          /\ progress'.context # NoContext
          /\ progress'.mastered = progress.mastered
      <4>1. progress'.context = [original |-> progress.level, target |-> progress'.level]
        BY <2>5 DEF Rebuilds
      <4>2. progress'.context \in Context
        BY <2>1, <4>1 DEF Context, Progress
      <4> QED  BY <2>5, <4>1, <4>2, Constant DEF Rebuilds
    <3> QED  BY <2>2, <3>1, <3>2, <3>3 DEF LevelInv, LevelsAgree
  <2>6. CASE Stays(progress, l, r, progress')
    BY <1>1, <2>6 DEF Stays
  <2> QED  BY <2>1, <2>3, <2>4, <2>5, <2>6
<1>3. CASE Launch
  BY <1>1, <1>3, LaunchTrack
<1>4. CASE \E passed \in BOOLEAN : CompleteReview(passed)
  BY <1>1, <1>4, CompleteReviewTrack
<1>5. CASE NextDay
  BY <1>1, <1>5, NextDayTrack
<1>6. CASE UNCHANGED trackVars
  BY <1>1, <1>6 DEF trackVars
<1>7. CASE CompleteFluency
  <2> DEFINE l == active.lesson
  <2>1. /\ l \in Fluency /\ l.level = progress.level /\ progress.level < Completion
        /\ progress'.level \in {Completion, progress.level}
        /\ progress'.context = NoContext
        /\ progress'.mastered = progress.mastered
    BY <1>7, CompleteFluencyTrack
  <2> HIDE DEF l
  <2>2. progress.level = Completion - 1 /\ ~Checked(progress.level)
    BY <2>1, ChapterLast
  <2>3. /\ progress \in Progress /\ progress.mastered \in Nat /\ progress.level \in Nat
        /\ progress.context # NoContext => progress.context.original \in Nat
    BY ContextTyped DEF TrackInv, TrackTypeOK, Progress, Level
  <2>4. progress.context = NoContext
    BY <2>2, <2>3, Constant DEF TrackInv
  <2>5. progress.level = progress.mastered + 1
    BY <2>1, <2>3, <2>4 DEF LevelInv, LevelsAgree
  <2> QED  BY <2>1, <2>2, <2>3, <2>5, Constant DEF LevelInv, LevelsAgree
<1> QED  BY <1>2, <1>3, <1>4, <1>5, <1>6, <1>7 DEF Next

LEMMA LevelInvariant == TrackSpec => []LevelInv
<1>1. Init => LevelInv
  BY DEF Init, LevelInv, LevelsAgree
<1> QED  BY <1>1, LevelInvKept, TrackInvariant, PTL DEF TrackSpec

\* Level, mastered level and remediation context agree after any results.
THEOREM LevelsAlwaysAgree == TrackSpec => []LevelsAgree
<1>1. LevelInv => LevelsAgree
  BY DEF LevelInv
<1> QED  BY <1>1, LevelInvariant, PTL

\* Above the lowest level of the track ordinary progression never runs dry.
LEMMA OnwardAbove ==
    ASSUME NEW p \in Progress, 0 < p.level, p.level < Completion,
           NEW q, NEW last, NEW quest
    PROVE  Plans(p, q, last, quest) # {}
<1>1. p.level \in Nat
  BY DEF Progress, Level
<1>2. PICK l \in Lesson : l.level = p.level /\ l.role \in {"checkpoint", "fluency"}
  BY <1>1, Catalog DEF Checked, Fluency
<1>3. l \in Offers(p.level, "progression", NoUnit)
  BY <1>2 DEF Offers, Purposes
<1>4. PlanFor(Offers(p.level, "progression", NoUnit), "progression", 0) # {}
  BY <1>3 DEF PlanFor
<1> DEFINE onward == IF Guided(p)
                     THEN PlanFor(Offers(p.level, "progression", NoUnit),
                                  "progression", 0)
                     ELSE {}
<1>5. onward # {}
  BY <1>4 DEF Guided
<1> HIDE DEF onward
<1>6. \E a, b, c, d : Plans(p, q, last, quest) = FirstOf(<<a, b, c, d, onward>>)
  BY DEF Plans, onward
<1> QED  BY <1>5, <1>6, FirstOfFive

\* A learner who is not rebuilding has a lesson to do until the track is done.
THEOREM PathAlwaysContinues == TrackSpec => []PathContinues
<1>1. TrackInv /\ LevelInv => PathContinues
  <2> SUFFICES ASSUME TrackInv, LevelInv, progress.context = NoContext,
                      progress.level < Completion
               PROVE  Plans(progress, queue, latest, planned) # {}
    BY DEF PathContinues
  <2>1. progress \in Progress /\ 0 < progress.level
    BY DEF LevelInv, LevelsAgree, TrackInv, TrackTypeOK, Progress, Level
  <2> QED  BY <2>1, OnwardAbove
<1> QED  BY <1>1, TrackInvariant, LevelInvariant, PTL

-----------------------------------------------------------------------------
(* Where a learner who is rebuilding can be left without a lesson: there is *)
(* always one above the lowest level, and after a low result there too.    *)

BottomLessons == {l \in Lesson : l.level = 0}

\* The packs author guided lessons only at the lowest level.
BottomIsGuided == \A l \in BottomLessons : l.role = "guide"

LowResult == {"GUIDED_PRACTICE", "REMEDIATE_PREREQUISITE"}

StallsOnlyAtBottom ==
    progress.context # NoContext /\ Plans(progress, queue, latest, planned) = {}
    => progress.level = 0 /\ progress.learning \notin LowResult

\* The level being rebuilt has guided lessons, and the unit last practised at
\* the lowest level has one there.
GuideInv ==
    /\ progress.context # NoContext =>
          \E l \in Lesson : l.level = progress.level /\ l.role = "guide"
    /\ latest[0] # NoUnit => \E l \in BottomLessons : l.unit = latest[0]

LEMMA GuideInvKept ==
    ASSUME TrackInv, GuideInv, [Next]_trackVars
    PROVE  GuideInv'
<1>1. /\ latest \in [Level -> Unit \union {NoUnit}] /\ 0 \in Level
      /\ active # NoPlan => active.lesson \in Lesson
  BY Constant DEF TrackInv, TrackTypeOK, Plan, Level
<1>2. ASSUME NEW l \in Lesson, Attempted(l)
      PROVE  latest'[0] # NoUnit => \E k \in BottomLessons : k.unit = latest'[0]
  <2>1. CASE l.level = 0
    <3>1. latest'[0] = l.unit /\ l \in BottomLessons
      BY <1>1, <1>2, <2>1 DEF Attempted, BottomLessons
    <3> QED  BY <3>1
  <2>2. CASE l.level # 0
    <3>1. latest'[0] = latest[0]
      BY <1>1, <1>2, <2>2 DEF Attempted
    <3> QED  BY <3>1 DEF GuideInv
  <2> QED  BY <2>1, <2>2
<1>3. ASSUME UNCHANGED latest, progress'.context = progress.context,
             progress'.level = progress.level
      PROVE  GuideInv'
  BY <1>3 DEF GuideInv
<1>4. ASSUME NEW r \in Outcomes, CompleteLesson(r) PROVE GuideInv'
  <2> DEFINE l == active.lesson
  <2>1. /\ progress \in Progress /\ l \in Lesson
        /\ \/ Advances(progress, progress')
           \/ Returns(progress, progress')
           \/ Rebuilds(progress, progress')
           \/ Stays(progress, l, r, progress')
    BY <1>4, CompleteProgress
  <2>2. latest'[0] # NoUnit => \E k \in BottomLessons : k.unit = latest'[0]
    BY <1>2, <1>4, <2>1 DEF CompleteLesson
  <2>3. progress'.context # NoContext =>
          \E k \in Lesson : k.level = progress'.level /\ k.role = "guide"
    <3>1. CASE Rebuilds(progress, progress')
      <4>1. PICK k \in Lesson : "remediation" \in Purposes(k)
                                /\ k.level = progress'.level
        BY <3>1 DEF Rebuilds, EasierLevels
      <4>2. k.role \in {"guide", "checkpoint", "fluency"}
        BY Constant
      <4>3. k.role = "guide"
        BY <4>1, <4>2 DEF Purposes
      <4> QED  BY <4>1, <4>3
    <3>2. CASE Stays(progress, l, r, progress')
      BY <3>2 DEF Stays, GuideInv
    <3> QED  BY <2>1, <3>1, <3>2 DEF Advances, Returns
  <2> QED  BY <2>2, <2>3 DEF GuideInv
<1>5. CASE CompleteFluency
  <2>1. progress'.context = NoContext
    BY <1>5, CompleteFluencyTrack
  <2>2. latest'[0] # NoUnit => \E k \in BottomLessons : k.unit = latest'[0]
    BY <1>1, <1>2, <1>5 DEF CompleteFluency
  <2> QED  BY <2>1, <2>2 DEF GuideInv
<1>6. ASSUME NEW passed \in BOOLEAN, CompleteReview(passed) PROVE GuideInv'
  <2>1. latest'[0] # NoUnit => \E k \in BottomLessons : k.unit = latest'[0]
    BY <1>1, <1>2, <1>6 DEF CompleteReview
  <2>2. UNCHANGED progress
    BY <1>6 DEF CompleteReview
  <2> QED  BY <2>1, <2>2 DEF GuideInv
<1>7. CASE Launch
  BY <1>3, <1>7 DEF Launch
<1>8. CASE NextDay
  BY <1>3, <1>8, NextDayTrack DEF NextDay
<1>9. CASE UNCHANGED trackVars
  BY <1>3, <1>9 DEF trackVars
<1> QED  BY <1>4, <1>5, <1>6, <1>7, <1>8, <1>9 DEF Next

\* How far the finding about rebuilding reaches: a learner who rebuilds is left
\* without a lesson at the lowest level only, and never after a low result.
THEOREM RebuildingStallsAtBottom ==
    ASSUME BottomIsGuided PROVE TrackSpec => []StallsOnlyAtBottom
<1>1. Init => GuideInv
  BY Constant DEF Init, GuideInv, Level
<1>2. TrackInv /\ GuideInv => StallsOnlyAtBottom
  <2> SUFFICES ASSUME TrackInv, GuideInv, progress.context # NoContext,
                      Plans(progress, queue, latest, planned) = {}
               PROVE  progress.level = 0 /\ progress.learning \notin LowResult
    BY DEF StallsOnlyAtBottom
  <2>1. /\ progress \in Progress /\ progress.level \in Nat
        /\ progress.level < Completion
    <3>1. progress \in Progress
      BY DEF TrackInv, TrackTypeOK
    <3>2. /\ progress.level \in Nat /\ progress.context.original \in Nat
          /\ progress.level < progress.context.original
          /\ progress.context.original < Completion
      BY <3>1, ContextTyped DEF TrackInv, Progress, Level
    <3> QED  BY <3>1, <3>2, Constant
  <2>2. progress.level = 0
    BY <2>1, OnwardAbove
  <2>3. ASSUME progress.learning \in LowResult PROVE FALSE
    <3> DEFINE guides == PlanFor(Offers(0, "remediation", latest[0]),
                                 "remediation", 0)
    <3>1. PICK l \in BottomLessons : latest[0] \in {NoUnit, l.unit}
      BY <2>2 DEF GuideInv, BottomLessons
    <3>2. l \in Offers(0, "remediation", latest[0])
      BY <3>1 DEF BottomIsGuided, BottomLessons, Offers, Purposes
    <3>3. guides # {}
      BY <3>2 DEF PlanFor
    <3> HIDE DEF guides
    <3>4. \E a, b, d, e : Plans(progress, queue, latest, planned)
                            = FirstOf(<<a, b, guides, d, e>>)
      BY <2>2, <2>3 DEF Plans, LowResult, ActiveStates, guides
    <3> QED  BY <3>3, <3>4, FirstOfFive
  <2> QED  BY <2>2, <2>3
<1> QED  BY <1>1, <1>2, GuideInvKept, TrackInvariant, PTL DEF TrackSpec

LEMMA RangeGrows ==
    ASSUME NEW a \in Nat, NEW b \in Nat, a <= b, NEW n \in 1..(a - 1)
    PROVE  n \in 1..(b - 1)
OBVIOUS

\* Remediation is a detour: only an advance outside it reaches a new level.
LEMMA ReachedSteps ==
    ASSUME TrackInv, NEW r \in Outcomes, CompleteLesson(r)
    PROVE  /\ Reached \in Nat /\ Reached' \in Nat
           /\ \/ Reached' <= Reached
              \/ /\ Second(progress, active.lesson, r)
                 /\ Reached' = progress.level + 1
                 /\ Reached = progress.level
                 /\ progress'.mastered = progress.level
                 /\ progress'.next = Intervals[1]
<1> DEFINE l == active.lesson
<1>1. /\ progress \in Progress /\ progress' \in Progress
      /\ \/ Second(progress, l, r) /\ Advances(progress, progress')
         \/ Returns(progress, progress')
         \/ Rebuilds(progress, progress')
         \/ Stays(progress, l, r, progress')
  BY CompleteProgress
<1>2. /\ progress.level \in Nat /\ progress'.level \in Nat
      /\ progress.context # NoContext =>
           /\ progress.context.original \in Nat
           /\ progress.level < progress.context.original
      /\ progress'.context # NoContext => progress'.context.original \in Nat
  BY <1>1, ContextTyped DEF TrackInv, Progress, Level
<1> HIDE DEF l
<1>3. CASE Second(progress, l, r) /\ Advances(progress, progress')
  BY <1>2, <1>3 DEF Advances, Reached, l
<1>4. CASE Returns(progress, progress')
  BY <1>2, <1>4 DEF Returns, Reached
<1>5. CASE Rebuilds(progress, progress')
  <2>1. progress'.context = [original |-> progress.level, target |-> progress'.level]
    BY <1>5 DEF Rebuilds
  <2>2. progress'.context \in Context
    BY <1>1, <2>1 DEF Context, Progress
  <2>3. Reached' = progress.level
    BY <2>1, <2>2, Constant DEF Reached
  <2> QED  BY <1>2, <2>3 DEF Reached
<1>6. CASE Stays(progress, l, r, progress')
  BY <1>2, <1>6 DEF Stays, Reached
<1> QED  BY <1>1, <1>3, <1>4, <1>5, <1>6

LEMMA ReachedTyped ==
    ASSUME TrackInv
    PROVE  Reached \in Nat /\ Reached <= Completion
<1>1. progress \in Progress
  BY DEF TrackInv, TrackTypeOK
<1> QED  BY <1>1, ContextTyped, Constant DEF Reached, Progress, Level

\* Fluency practice reaches no level beyond one that has checkpoints.
LEMMA FluencyReaches ==
    ASSUME TrackInv, CompleteFluency, NEW n \in 1..(Reached' - 1), Checked(n)
    PROVE  n \in 1..(Reached - 1)
<1> DEFINE l == active.lesson
<1>1. /\ l \in Fluency /\ l.level = progress.level /\ progress.level < Completion
      /\ progress'.level \in {Completion, progress.level}
      /\ progress'.context = NoContext
  BY CompleteFluencyTrack
<1> HIDE DEF l
<1>2. /\ progress.level \in Nat /\ progress.level = Completion - 1
      /\ ~Checked(progress.level)
  BY <1>1, ChapterLast
<1>3. /\ progress \in Progress
      /\ progress.context # NoContext => progress.context.original \in Nat
  BY ContextTyped DEF TrackInv, TrackTypeOK, Level
<1>4. progress.context = NoContext
  BY <1>2, <1>3, Constant DEF TrackInv
<1>5. Reached = progress.level /\ Reached' = progress'.level
  BY <1>1, <1>4 DEF Reached
<1>6. n # progress.level
  BY <1>2
<1> QED  BY <1>1, <1>2, <1>5, <1>6, Constant

LEMMA ReviewKept ==
    ASSUME TrackInv, MasteredIsReviewed, [Next]_trackVars
    PROVE  MasteredIsReviewed'
<1>1. ASSUME Reached' <= Reached, Reached \in Nat, Reached' \in Nat,
             Covers(queue, queue')
      PROVE  MasteredIsReviewed'
  <2> SUFFICES ASSUME NEW n \in 1..(Reached' - 1), Checked(n)
               PROVE  \E e \in queue' : e.level = n
    BY DEF MasteredIsReviewed, Checked
  <2>1. n \in 1..(Reached - 1)
    BY <1>1, RangeGrows
  <2> QED  BY <1>1, <2>1 DEF MasteredIsReviewed, Covers
<1>2. ASSUME progress'.level = progress.level,
             progress'.context = progress.context, Covers(queue, queue')
      PROVE  MasteredIsReviewed'
  <2>1. Reached' = Reached
    BY <1>2 DEF Reached
  <2> QED  BY <1>1, <1>2, <2>1, ReachedTyped
<1>3. ASSUME NEW r \in Outcomes, CompleteLesson(r) PROVE MasteredIsReviewed'
  <2>1. /\ Covers(queue, queue')
        /\ progress'.next # NoReview =>
             \E e \in queue' : e.level = progress'.mastered
    BY <1>3, CompleteLessonTrack
  <2>2. Reached \in Nat /\ Reached' \in Nat
    BY <1>3, ReachedSteps
  <2>3. CASE Reached' <= Reached
    BY <1>1, <2>1, <2>2, <2>3
  <2>4. CASE /\ Reached' = progress.level + 1 /\ Reached = progress.level
             /\ progress'.mastered = progress.level
             /\ progress'.next = Intervals[1]
    <3>1. Intervals[1] # NoReview
      BY IntervalsFit, Constant DEF Wait
    <3>2. \E e \in queue' : e.level = progress.level
      BY <2>1, <2>4, <3>1
    <3>3. ASSUME NEW n \in 1..(Reached' - 1), Checked(n)
          PROVE  \E e \in queue' : e.level = n
      <4>1. n = progress.level \/ n \in 1..(Reached - 1)
        BY <2>2, <2>4
      <4> QED  BY <2>1, <3>2, <3>3, <4>1 DEF MasteredIsReviewed, Covers
    <3> QED  BY <3>3 DEF MasteredIsReviewed, Checked
  <2> QED  BY <1>3, <2>3, <2>4, ReachedSteps
<1>4. CASE Launch
  <2>1. Covers(queue, queue') /\ UNCHANGED progress
    BY <1>4, LaunchTrack DEF Covers
  <2> QED  BY <1>2, <2>1
<1>5. CASE \E passed \in BOOLEAN : CompleteReview(passed)
  BY <1>2, <1>5, CompleteReviewTrack
<1>6. CASE NextDay
  BY <1>2, <1>6, NextDayTrack
<1>7. CASE UNCHANGED trackVars
  BY <1>2, <1>7 DEF trackVars, Covers
<1>8. CASE CompleteFluency
  <2>1. UNCHANGED queue
    BY <1>8, CompleteFluencyTrack
  <2> SUFFICES ASSUME NEW n \in 1..(Reached' - 1), Checked(n)
               PROVE  \E e \in queue' : e.level = n
    BY DEF MasteredIsReviewed, Checked
  <2>2. n \in 1..(Reached - 1)
    BY <1>8, FluencyReaches
  <2> QED  BY <2>1, <2>2 DEF MasteredIsReviewed
<1> QED  BY <1>3, <1>4, <1>5, <1>6, <1>7, <1>8 DEF Next

\* Every level the learner has mastered keeps a place in the review queue.
THEOREM MasteredStaysInReview == TrackSpec => []MasteredIsReviewed
<1>1. Init => MasteredIsReviewed
  BY DEF Init, MasteredIsReviewed, Reached
<1> QED  BY <1>1, ReviewKept, TrackInvariant, PTL DEF TrackSpec

-----------------------------------------------------------------------------
(* Mastery is earned.                                                      *)

Twice(lessons) == Cardinality(lessons) >= 2

\* The evidence that counts toward an advance is of this level.
ProofInv ==
    /\ \A n \in Level : IsFiniteSet(proofs[n])
    /\ MasteryIsProved
    /\ \/ progress.level = Completion
       \/ Twice(proofs[progress.level])
       \/ progress.evidence \subseteq proofs[progress.level]

LEMMA TwoLessons ==
    ASSUME NEW S, IsFiniteSet(S), NEW a \in S, NEW b \in S, a # b
    PROVE  Twice(S)
<1>1. IsFiniteSet({a}) /\ Cardinality({a}) = 1
  BY FS_Singleton
<1>2. Cardinality({a} \union {b}) = 2
  BY <1>1, FS_AddElement
<1>3. {a} \union {b} \in SUBSET S
  OBVIOUS
<1>4. Cardinality({a} \union {b}) <= Cardinality(S) /\ Cardinality(S) \in Nat
  BY <1>3, FS_Subset, FS_CardinalityType
<1> QED  BY <1>2, <1>4 DEF Twice

LEMMA ProofKept ==
    ASSUME TrackInv, ProofInv, [Next]_trackVars
    PROVE  ProofInv'
<1>t. /\ progress \in Progress /\ progress.level \in Level
      /\ proofs \in [Level -> SUBSET Lesson]
  BY DEF TrackInv, TrackTypeOK, Progress
<1>1. ASSUME progress'.level = progress.level, progress'.context = progress.context,
             progress'.evidence = progress.evidence, UNCHANGED proofs
      PROVE  ProofInv'
  BY <1>1 DEF ProofInv, MasteryIsProved, Reached
<1>2. ASSUME NEW r \in Outcomes, CompleteLesson(r) PROVE ProofInv'
  <2> DEFINE l == active.lesson
             L == progress.level
  <2>1. /\ l \in Lesson /\ l.level = L
        /\ progress' \in Progress
        /\ \/ Second(progress, l, r) /\ Advances(progress, progress')
           \/ Second(progress, l, r) /\ Returns(progress, progress')
           \/ Rebuilds(progress, progress')
           \/ Stays(progress, l, r, progress')
    BY <1>2, CompleteProgress
  <2>2. proofs' = IF r = "independent" /\ Cardinality(proofs[l.level]) < 2
                  THEN [proofs EXCEPT ![l.level] = @ \union {l}]
                  ELSE proofs
    BY <1>2 DEF CompleteLesson
  <2> HIDE DEF l
  <2>3. \A n \in Level : /\ proofs[n] \subseteq proofs'[n] /\ IsFiniteSet(proofs'[n])
                         /\ Cardinality(proofs[n]) \in Nat
                         /\ Cardinality(proofs'[n]) \in Nat
    <3>1. ASSUME NEW n \in Level PROVE proofs[n] \subseteq proofs'[n] /\ IsFiniteSet(proofs'[n])
      <4>1. proofs'[n] = proofs[n] \/ proofs'[n] = proofs[n] \union {l}
        BY <1>t, <2>1, <2>2
      <4> QED  BY <4>1, FS_AddElement DEF ProofInv
    <3> QED  BY <3>1, FS_CardinalityType DEF ProofInv
  <2>4. ASSUME NEW n \in Level, Twice(proofs[n]) PROVE Twice(proofs'[n])
    <3>1. Cardinality(proofs[n]) <= Cardinality(proofs'[n])
      BY <2>3, FS_Subset
    <3> QED  BY <2>3, <2>4, <3>1 DEF Twice
  <2>5. r = "independent" => Twice(proofs'[L]) \/ l \in proofs'[L]
    <3>1. CASE Cardinality(proofs[L]) < 2
      BY <1>t, <2>1, <2>2, <3>1
    <3>2. CASE ~(Cardinality(proofs[L]) < 2)
      <4>1. Twice(proofs[L])
        BY <1>t, <2>3, <3>2 DEF Twice
      <4> QED  BY <1>t, <2>4, <4>1
    <3> QED  BY <3>1, <3>2
  <2>6. Twice(proofs'[L]) \/ progress.evidence \subseteq proofs'[L]
    <3>1. L # Completion
      <4>1. L < Completion /\ L \in Nat
        BY <1>2, <1>t, CompleteProgress, Constant DEF Level
      <4> QED  BY <4>1, Constant
    <3> QED  BY <1>t, <2>3, <2>4, <3>1 DEF ProofInv
  <2>7. Second(progress, l, r) => Twice(proofs'[L])
    <3> SUFFICES ASSUME Second(progress, l, r), ~Twice(proofs'[L])
                 PROVE  FALSE
      OBVIOUS
    <3>1. PICK e \in progress.evidence : e # l
      BY DEF Second
    <3>2. e \in proofs'[L] /\ l \in proofs'[L]
      BY <2>5, <2>6, <3>1 DEF Second
    <3> QED  BY <1>t, <2>3, <3>1, <3>2, TwoLessons
  <2>8. MasteryIsProved'
    <3> SUFFICES ASSUME NEW n \in 1..(Reached' - 1), Checked(n)
                 PROVE  Twice(proofs'[n])
      BY DEF MasteryIsProved, Twice, Checked
    <3>1. Reached \in Nat /\ Reached' \in Nat /\ Reached <= Completion
      BY <1>2, ReachedSteps, ReachedTyped
    <3>2. CASE n \in 1..(Reached - 1)
      <4>1. n \in Level /\ Twice(proofs[n])
        BY <3>1, <3>2, Constant DEF ProofInv, MasteryIsProved, Twice, Level
      <4> QED  BY <2>4, <4>1
    <3>3. CASE n \notin 1..(Reached - 1)
      <4>1. Second(progress, l, r) /\ n = L
        <5>1. \/ Reached' <= Reached
              \/ /\ Second(progress, l, r) /\ Reached' = L + 1 /\ Reached = L
          BY <1>2, ReachedSteps DEF l
        <5>2. ~(Reached' <= Reached)
          BY <3>1, <3>3, RangeGrows
        <5>3. Reached' = L + 1 /\ Reached = L
          BY <5>1, <5>2
        <5>4. Reached' - 1 = L
          BY <3>1, <5>3
        <5>5. n \in 1..L /\ n \notin 1..(L - 1) /\ L \in Nat
          BY <3>1, <3>3, <5>3, <5>4
        <5> QED  BY <5>1, <5>2, <5>5
      <4> QED  BY <2>7, <4>1
    <3> QED  BY <3>2, <3>3
  <2>9. Twice(proofs'[progress'.level])
          \/ progress'.evidence \subseteq proofs'[progress'.level]
    <3>1. CASE Stays(progress, l, r, progress')
      BY <2>5, <2>6, <3>1 DEF Stays
    <3>2. CASE ~Stays(progress, l, r, progress')
      BY <2>1, <3>2 DEF Advances, Returns, Rebuilds
    <3> QED  BY <3>1, <3>2
  <2> QED  BY <2>3, <2>8, <2>9 DEF ProofInv
<1>3. CASE Launch
  BY <1>1, <1>3, LaunchTrack
<1>4. CASE \E passed \in BOOLEAN : CompleteReview(passed)
  BY <1>1, <1>4, CompleteReviewTrack
<1>5. CASE NextDay
  BY <1>1, <1>5, NextDayTrack
<1>6. CASE UNCHANGED trackVars
  BY <1>1, <1>6 DEF trackVars
<1>7. CASE CompleteFluency
  <2>1. /\ progress'.level \in {Completion, progress.level}
        /\ progress'.evidence = progress.evidence /\ UNCHANGED proofs
    BY <1>7, CompleteFluencyTrack
  <2>2. ASSUME NEW n \in 1..(Reached' - 1), Checked(n) PROVE Twice(proofs'[n])
    <3>1. n \in 1..(Reached - 1)
      BY <1>7, <2>2, FluencyReaches
    <3> QED  BY <2>1, <2>2, <3>1 DEF ProofInv, MasteryIsProved, Twice
  <2>3. MasteryIsProved'
    BY <2>2 DEF MasteryIsProved, Twice, Checked
  <2> QED  BY <2>1, <2>3 DEF ProofInv
<1> QED  BY <1>2, <1>3, <1>4, <1>5, <1>6, <1>7 DEF Next

\* Every level below the one reached was passed on two different lessons.
THEOREM MasteryIsEarned == TrackSpec => []MasteryIsProved
<1>1. Init => ProofInv
  <2> SUFFICES ASSUME Init PROVE ProofInv
    OBVIOUS
  <2>1. progress.level = 1 /\ progress.context = NoContext /\ progress.evidence = {}
        /\ proofs = [n \in Level |-> {}]
    BY DEF Init
  <2> QED  BY <2>1, FS_EmptySet DEF ProofInv, MasteryIsProved, Reached
<1>2. ProofInv => MasteryIsProved
  BY DEF ProofInv
<1> QED  BY <1>1, <1>2, ProofKept, TrackInvariant, PTL DEF TrackSpec

-----------------------------------------------------------------------------
(* The fluency chapter and the steps of a review.                          *)

LEMMA ChapterKept ==
    ASSUME TrackInv, ChapterIsPractised, [Next]_trackVars
    PROVE  ChapterIsPractised'
<1>t. /\ progress.level \in Nat
      /\ progress.context # NoContext => /\ progress.context.original \in Nat
                                         /\ progress.context.original < Completion
  BY ContextTyped DEF TrackInv, TrackTypeOK, Progress, Level
<1>1. ASSUME progress'.level = progress.level, practised \subseteq practised'
      PROVE  ChapterIsPractised'
  BY <1>1 DEF ChapterIsPractised
<1>2. ASSUME NEW r \in Outcomes, CompleteLesson(r) PROVE ChapterIsPractised'
  <2> DEFINE k == active.lesson
  <2>1. /\ k \in Lesson /\ k \notin Fluency
        /\ k.level = progress.level /\ progress.level < Completion
        /\ progress \in Progress /\ progress'.level \in Nat
        /\ \/ Advances(progress, progress')
           \/ Returns(progress, progress')
           \/ Rebuilds(progress, progress')
           \/ Stays(progress, k, r, progress')
    BY <1>2, CompleteProgress DEF Progress, Level
  <2> HIDE DEF k
  <2>2. UNCHANGED practised
    BY <1>2 DEF CompleteLesson
  <2> SUFFICES ASSUME NEW l \in Fluency, l.level < progress'.level
               PROVE  l \in practised'
    BY DEF ChapterIsPractised
  <2>3. l \in Lesson /\ l.level \in Nat
    BY Constant DEF Fluency, Level
  <2>4. CASE l.level < progress.level
    BY <2>2, <2>4 DEF ChapterIsPractised
  <2>5. CASE ~(l.level < progress.level)
    <3>1. CASE Advances(progress, progress')
      <4>1. l.level = progress.level
        BY <1>t, <2>3, <2>5, <3>1 DEF Advances
      <4> QED  BY <2>1, <4>1, ChapterLast
    <3>2. CASE Returns(progress, progress')
      <4>1. l.level < Completion - 1
        BY <1>t, <2>3, <3>2, Constant DEF Returns
      <4> QED  BY <2>3, <4>1, ChapterLast, Constant
    <3>3. CASE Rebuilds(progress, progress')
      <4>1. progress'.level < progress.level
        BY <2>1, <3>3, EasierTyped DEF Rebuilds
      <4> QED  BY <1>t, <2>1, <2>3, <2>5, <4>1
    <3>4. CASE Stays(progress, k, r, progress')
      BY <2>5, <3>4 DEF Stays
    <3> QED  BY <2>1, <3>1, <3>2, <3>3, <3>4
  <2> QED  BY <2>4, <2>5
<1>3. CASE CompleteFluency
  <2> DEFINE k == active.lesson
             done == ChapterDone(k, practised)
  <2>1. /\ k \in Fluency /\ k.level = progress.level /\ progress.level < Completion
        /\ progress'.level = IF done THEN Completion ELSE progress.level
        /\ practised' = practised \union {k}
    BY <1>3, CompleteFluencyTrack
  <2> HIDE DEF k
  <2>2. CASE ~done
    BY <1>1, <2>1, <2>2
  <2>3. CASE done
    <3> SUFFICES ASSUME NEW l \in Fluency, l.level < Completion
                 PROVE  l \in practised'
      BY <2>1, <2>3 DEF ChapterIsPractised
    <3>1. l \in Lesson /\ l.role = "fluency" /\ l.level = k.level /\ l.unit = k.unit
      BY <2>1, ChapterLast DEF Fluency
    <3>2. "progression" \in Purposes(l)
      BY <3>1 DEF Purposes
    <3> QED  BY <2>1, <2>3, <3>1, <3>2 DEF ChapterDone
  <2> QED  BY <2>2, <2>3
<1>4. CASE Launch
  BY <1>1, <1>4, LaunchTrack
<1>5. CASE \E passed \in BOOLEAN : CompleteReview(passed)
  BY <1>1, <1>5, CompleteReviewTrack
<1>6. CASE NextDay
  BY <1>1, <1>6, NextDayTrack
<1>7. CASE UNCHANGED trackVars
  BY <1>1, <1>7 DEF trackVars
<1> QED  BY <1>2, <1>3, <1>4, <1>5, <1>6, <1>7 DEF Next

\* Nobody is past a fluency chapter before every activity of it is practised.
THEOREM ChapterAlwaysPractised == TrackSpec => []ChapterIsPractised
<1>1. Init => ChapterIsPractised
  <2> SUFFICES ASSUME Init, NEW l \in Fluency
               PROVE  ~(l.level < progress.level)
    BY DEF ChapterIsPractised
  <2>1. progress.level = 1 /\ l \in Lesson /\ l.role = "fluency"
    BY DEF Init, Fluency
  <2>2. l.level \in Nat /\ 0 < l.level
    BY <2>1, Constant, CatalogAssumption DEF Level
  <2> QED  BY <2>1, <2>2
<1> QED  BY <1>1, ChapterKept, TrackInvariant, PTL DEF TrackSpec

\* What ReviewStepIsEarned says of two entries.
Earned(e, f) == /\ f.step = e.step + 1 /\ e.wait = 0
                /\ active # NoPlan /\ active.purpose = "review"
                /\ active.lesson.level = e.level /\ active.lesson.unit = e.unit

LEMMA StepsEarned ==
    ASSUME TrackInv, [Next]_trackVars, NEW e \in queue, NEW f \in queue',
           e.level = f.level, e.unit = f.unit, f.step > e.step
    PROVE  Earned(e, f)
<1>1. /\ queue \in SUBSET Entry /\ OneEntry(queue)
      /\ e.step \in Nat /\ ~(e.step > e.step)
  <2>1. queue \in SUBSET Entry /\ OneEntry(queue)
    BY DEF TrackInv, TrackTypeOK
  <2>2. e.step \in Nat
    BY <2>1, IntervalsFit DEF Entry, Step
  <2> QED  BY <2>1, <2>2
<1>2. f \notin queue
  BY <1>1 DEF OneEntry
<1>3. CASE UNCHANGED queue
  BY <1>2, <1>3
<1>4. ASSUME NEW r \in Outcomes, CompleteLesson(r) PROVE FALSE
  <2>1. queue' = Scheduled(queue, progress', active.lesson.unit)
    BY <1>4, CompleteLessonTrack
  <2>2. f.step = 0
    BY <1>2, <2>1 DEF Scheduled
  <2> QED  BY <1>1, <2>2
<1>5. ASSUME NEW passed \in BOOLEAN, CompleteReview(passed) PROVE Earned(e, f)
  <2>1. PICK d \in Matching(queue, active) : queue' = Rescheduled(queue, d, passed)
    BY <1>5 DEF CompleteReview
  <2>2. active # NoPlan /\ active.purpose = "review"
    BY <1>5 DEF CompleteReview
  <2>3. /\ d \in queue /\ d.level = active.lesson.level
        /\ d.unit = active.lesson.unit /\ d.step = active.step /\ d \in Entry
    BY <1>1, <2>1 DEF Matching
  <2>4. f = [d EXCEPT !.step = NextStep(d.step, passed),
                      !.wait = Intervals[NextStep(d.step, passed) + 1]]
    BY <1>2, <2>1 DEF Rescheduled
  <2>5. f.level = d.level /\ f.unit = d.unit /\ f.step = NextStep(d.step, passed)
    BY <2>3, <2>4 DEF Entry
  <2>6. d = e
    BY <1>1, <2>3, <2>5 DEF OneEntry
  <2>7. f.step = e.step + 1
    BY <1>1, <2>5, <2>6 DEF NextStep
  <2>8. PICK g \in queue : /\ g.level = active.lesson.level
                           /\ g.unit = active.lesson.unit /\ g.wait = 0
    BY <2>2 DEF TrackInv, Queued
  <2>9. g = d
    BY <1>1, <2>3, <2>8 DEF OneEntry
  <2> QED  BY <2>2, <2>3, <2>6, <2>7, <2>8, <2>9 DEF Earned
<1>6. CASE NextDay
  <2>1. queue' = {[g EXCEPT !.wait = Sooner(@)] : g \in queue}
    BY <1>6 DEF NextDay
  <2>2. PICK g \in queue : f.level = g.level /\ f.unit = g.unit /\ f.step = g.step
    BY <1>1, <2>1, DayKeeps
  <2>3. g = e
    BY <1>1, <2>2 DEF OneEntry
  <2> QED  BY <1>1, <2>2, <2>3
<1>7. CASE Launch
  BY <1>3, <1>7, LaunchTrack
<1>8. CASE CompleteFluency
  BY <1>3, <1>8, CompleteFluencyTrack
<1> QED  BY <1>3, <1>4, <1>5, <1>6, <1>7, <1>8 DEF Next, trackVars

\* A review moves ahead only by its own review, a step at a time, when due.
THEOREM ReviewStepsAreEarned == TrackSpec => ReviewStepIsEarned
<1>1. TrackInv /\ [Next]_trackVars =>
        [\A e \in queue, f \in queue' :
           e.level = f.level /\ e.unit = f.unit /\ f.step > e.step
           => /\ f.step = e.step + 1 /\ e.wait = 0
              /\ active # NoPlan /\ active.purpose = "review"
              /\ active.lesson.level = e.level /\ active.lesson.unit = e.unit
        ]_trackVars
  BY StepsEarned DEF Earned
<1> QED  BY <1>1, TrackInvariant, PTL DEF TrackSpec, ReviewStepIsEarned

=============================================================================
