------------------------- MODULE AdaptiveProgression ------------------------
(***************************************************************************)
(* The adaptive engine on one curriculum track: how a completed lesson     *)
(* moves the learner's difficulty level, how remediation leads down and    *)
(* back, how a fluency chapter is practised to its end, how reviews are    *)
(* scheduled, and what the planner offers next.                            *)
(*                                                                         *)
(* Scores are abstracted to the classes the engine tells apart.  A lesson  *)
(* is named by its activity; a unit stands for its content version too.    *)
(* The ranking among compatible lessons (fresh ones first) is abstracted:  *)
(* any compatible lesson may be chosen.  Dates are days still to wait, so  *)
(* 0 is due, and among due reviews any may come first.  The saved record   *)
(* and the lock are in QuestProgress: here a launch and a completion are   *)
(* each one step, and no attempt is old enough to have left the history.   *)
(***************************************************************************)
EXTENDS Naturals, FiniteSets, Sequences

CONSTANTS
    Unit,          \* curriculum units of the track
    Lesson,        \* the authored lessons the catalog offers
    Completion,    \* the track's completionDifficulty
    Intervals,     \* REVIEW_INTERVAL_DAYS
    MaxFailures,   \* bound: low results counted in a row
    NoUnit, NoPlan, NoContext, NoReview

Level == 0..Completion

ASSUME TrackAssumption ==
    /\ Completion \in Nat \ {0}
    /\ MaxFailures \in Nat
    /\ NoUnit \notin Unit
    /\ NoReview \notin Nat
    /\ Intervals \in Seq(Nat) /\ Intervals # <<>>
    /\ \A i \in DOMAIN Intervals : Intervals[i] <= Intervals[Len(Intervals)]
    /\ Lesson \subseteq [name : STRING, unit : Unit, level : Level,
                         role : {"guide", "checkpoint", "fluency"}]
    /\ NoPlan \notin [lesson : Lesson,
                      purpose : {"verification", "remediation", "progression",
                                 "review"},
                      step : 0..(Len(Intervals) - 1)]
    /\ NoContext \notin [original : Level, target : Level]

\* The authored packs: every difficulty of the track has checkpoint lessons, and
\* guided ones one below, or it is the track's last and a fluency chapter.
ASSUME CatalogAssumption ==
    /\ \A l \in Lesson : l.role = "fluency" => l.level > 0
    /\ \A n \in 1..(Completion - 1) :
           LET there == {l \in Lesson : l.level = n} IN
           \/ /\ \E l \in there : l.role = "checkpoint"
              /\ \A l \in there : l.role # "fluency"
              /\ \E l \in Lesson : l.level = n - 1 /\ l.role = "guide"
           \/ /\ n = Completion - 1 /\ there # {}
              /\ \A k, l \in there : l.role = "fluency" /\ l.unit = k.unit

Outcomes == {"independent", "assisted", "partial", "low"}

ActiveStates == {"VERIFY_MASTERY", "GUIDED_PRACTICE", "REMEDIATE_PREREQUISITE"}

LearningStates == ActiveStates \union
                  {"CHECKPOINT", "RETRY_SAME_DIFFICULTY", "ADVANCE",
                   "FLUENCY_PRACTICE"}

Urgent == {"verification", "remediation"}

Purpose == Urgent \union {"progression", "review"}

Step == 0..(Len(Intervals) - 1)

Wait == 0..Intervals[Len(Intervals)]

Context == [original : Level, target : Level]

Progress == [level    : Level,
             mastered : Level,
             learning : LearningStates,
             evidence : SUBSET Lesson,
             failures : 0..MaxFailures,
             context  : Context \union {NoContext},
             next     : Wait \union {NoReview}]

Entry == [level : Level, unit : Unit, step : Step, wait : Wait]

Fluency == {l \in Lesson : l.role = "fluency"}

Plan == [lesson : Lesson, purpose : Purpose, step : Step]

VARIABLES
    progress,   \* skillProgress of the track
    queue,      \* reviewQueue
    latest,     \* per level, the unit of the latest attempt
    planned,    \* plannedNextQuest
    active,     \* the plan the open lesson session was launched for
    practised,  \* completedAttempts: the fluency lessons among them
    proofs      \* history: per level, two lessons of strong independent work

trackVars == <<progress, queue, latest, planned, active, practised, proofs>>

-----------------------------------------------------------------------------
Purposes(l) == CASE l.role = "guide"      -> {"remediation", "review"}
                 [] l.role = "checkpoint" -> {"progression", "verification",
                                              "review"}
                 [] l.role = "fluency"    -> {"progression", "review"}

Offers(level, purpose, unit) ==
    {l \in Lesson : /\ l.level = level
                    /\ purpose \in Purposes(l)
                    /\ unit \in {NoUnit, l.unit}}

PlanFor(lessons, purpose, step) ==
    {[lesson |-> l, purpose |-> purpose, step |-> step] : l \in lessons}

FirstOf(tiers) ==
    LET usable == {i \in DOMAIN tiers : tiers[i] # {}} IN
    IF usable = {} THEN {}
    ELSE tiers[CHOOSE i \in usable : \A j \in usable : i <= j]

\* Mutant: the last level counts as the end of the track.
GuidedShort(p) == p.level + 1 < Completion

\* getCurrentGuidedJourneyTrack: ordinary progression goes on.
Guided(p) == p.level < Completion

\* planGlobalQuest, in its order of priority.
Plans(p, q, last, quest) ==
    LET kept(purposes) == {pl \in {quest} :
                              pl # NoPlan /\ pl.purpose \in purposes}
        reviews == UNION {PlanFor(Offers(e.level, "review", e.unit),
                                  "review", e.step) :
                             e \in {f \in q : f.wait = 0}}
        purpose == IF p.learning = "VERIFY_MASTERY" THEN "verification"
                   ELSE "remediation" IN
    FirstOf(<<kept(Urgent),
              reviews,
              IF p.learning \in ActiveStates
              THEN PlanFor(Offers(p.level, purpose, last[p.level]), purpose, 0)
              ELSE {},
              IF Guided(p) THEN kept({"progression"}) ELSE {},
              IF Guided(p)
              THEN PlanFor(Offers(p.level, "progression", NoUnit),
                           "progression", 0)
              ELSE {}>>)

-----------------------------------------------------------------------------
\* Mutant: the same lesson again counts as the second success.
DecisionRepeats(p, l, r) ==
    CASE r = "independent" -> IF p.evidence # {} THEN "ADVANCE"
                              ELSE "VERIFY_MASTERY"
      [] r = "assisted"    -> "CHECKPOINT"
      [] r = "partial"     -> "RETRY_SAME_DIFFICULTY"
      [] r = "low"         -> IF p.failures >= 1
                              THEN "REMEDIATE_PREREQUISITE"
                              ELSE "GUIDED_PRACTICE"

\* evaluateCheckpoint.
Decision(p, l, r) ==
    CASE r = "independent" -> IF l \notin p.evidence /\ p.evidence # {}
                              THEN "ADVANCE" ELSE "VERIFY_MASTERY"
      [] r = "assisted"    -> "CHECKPOINT"
      [] r = "partial"     -> "RETRY_SAME_DIFFICULTY"
      [] r = "low"         -> IF p.failures >= 1
                              THEN "REMEDIATE_PREREQUISITE"
                              ELSE "GUIDED_PRACTICE"

\* applyProgressionDecision, and the evidence applyLessonResult adds.
Decided(p, l, r) ==
    LET d == Decision(p, l, r) IN
    IF d = "ADVANCE"
    THEN [p EXCEPT !.level = @ + 1, !.mastered = p.level, !.learning = d,
                   !.evidence = {}, !.failures = 0, !.next = Intervals[1]]
    ELSE [p EXCEPT !.learning = d,
                   !.failures = IF r = "low" THEN @ + 1 ELSE 0,
                   !.evidence = IF d = "VERIFY_MASTERY" THEN @ \union {l}
                                ELSE @]

\* Mutant: the remediation context is left in place.
ReturnedInside(p, context) ==
    [p EXCEPT !.level = context.original, !.learning = "CHECKPOINT",
              !.evidence = {}, !.failures = 0]

Returned(p, context) ==
    [p EXCEPT !.level = context.original, !.learning = "CHECKPOINT",
              !.evidence = {}, !.failures = 0, !.context = NoContext]

\* resolveRemediationTarget: the highest easier level with guided lessons.
EasierLevels(p) == {l.level : l \in {k \in Lesson :
                       "remediation" \in Purposes(k) /\ k.level < p.level}}

Remediated(p, original) ==
    LET target == CHOOSE n \in EasierLevels(p) :
                     \A m \in EasierLevels(p) : m <= n IN
    [p EXCEPT !.level = target, !.evidence = {},
              !.context = [original |-> original, target |-> target]]

Applied(p, l, r) ==
    LET d == Decision(p, l, r)
        new == Decided(p, l, r) IN
    IF d = "ADVANCE" /\ p.context # NoContext THEN Returned(new, p.context)
    ELSE IF d = "REMEDIATE_PREREQUISITE" /\ EasierLevels(p) # {}
    THEN Remediated(new, p.level)
    ELSE new

\* planNextQuest with the purpose and the unit affinity of the decision.
NextQuests(p, l, r) ==
    LET d == Decision(p, l, r)
        new == Applied(p, l, r)
        purpose == CASE d = "VERIFY_MASTERY" -> "verification"
                     [] d \in ActiveStates \ {"VERIFY_MASTERY"} -> "remediation"
                     [] OTHER -> "progression"
        unit == IF d = "ADVANCE" /\ p.context = NoContext THEN NoUnit
                ELSE l.unit IN
    IF d = "REMEDIATE_PREREQUISITE" /\ EasierLevels(p) = {} THEN {}
    ELSE PlanFor(Offers(new.level, purpose, unit), purpose, 0)

\* Mutant: the entry is added beside the one it should replace.
ScheduledBeside(q, p, unit) ==
    IF p.next = NoReview THEN q
    ELSE q \union {[level |-> p.mastered, unit |-> unit, step |-> 0,
                    wait |-> p.next]}

\* Mutant: a later step than the first is carried into the new entry.
ScheduledOnward(q, p, unit) ==
    IF p.next = NoReview THEN q
    ELSE {e \in q : e.level # p.mastered \/ e.unit # unit}
         \union {[level |-> p.mastered, unit |-> unit,
                  step |-> IF \E e \in q : e.step > 0 THEN 1 ELSE 0,
                  wait |-> p.next]}

\* upsertReviewQueueEntry: every ordinary completion writes the entry of the
\* last mastered level for the completed lesson's unit.
Scheduled(q, p, unit) ==
    IF p.next = NoReview THEN q
    ELSE {e \in q : e.level # p.mastered \/ e.unit # unit}
         \union {[level |-> p.mastered, unit |-> unit, step |-> 0,
                  wait |-> p.next]}

\* nextReviewInterval.
NextStep(step, passed) ==
    IF passed THEN IF step + 1 \in Step THEN step + 1 ELSE step
    ELSE IF step > 0 THEN step - 1 ELSE 0

Matching(q, plan) == {e \in q : /\ e.level = plan.lesson.level
                                /\ e.unit = plan.lesson.unit
                                /\ e.step = plan.step}

\* Mutants: the step after the next is recorded; a review passed at the last
\* interval leaves the queue.
RescheduledAhead(q, e, passed) ==
    LET step == NextStep(e.step, passed) IN
    (q \ {e}) \union {[e EXCEPT !.step = step + 1,
                                !.wait = Intervals[step + 1]]}

RescheduledOrDone(q, e, passed) ==
    LET step == NextStep(e.step, passed) IN
    IF passed /\ step = e.step THEN q \ {e}
    ELSE (q \ {e}) \union {[e EXCEPT !.step = step,
                                    !.wait = Intervals[step + 1]]}

Rescheduled(q, e, passed) ==
    LET step == NextStep(e.step, passed) IN
    (q \ {e}) \union {[e EXCEPT !.step = step, !.wait = Intervals[step + 1]]}

\* lessonResultToCheckpoint and applyReviewLessonResult: whether the result of
\* the open lesson would be counted.  Fluency practice is never declined.  The
\* learning state and due date a review was planned with are not compared: in
\* this module no other result comes between a plan and its lesson's result.
Counts(plan, p, q) ==
    IF plan.purpose = "review" THEN Cardinality(Matching(q, plan)) = 1
    ELSE plan.lesson \in Fluency \/ plan.lesson.level = p.level

\* Mutant: half a chapter is enough.
ChapterBegun(l, done) == l.level < Completion /\ done # {}

\* hasCompletedEveryAuthoredActivity, the one just done included.
ChapterDone(l, done) ==
    /\ l.level < Completion
    /\ {k \in Lesson : /\ k.level = l.level /\ k.unit = l.unit
                       /\ "progression" \in Purposes(k)}
          \subseteq done \union {l}

-----------------------------------------------------------------------------
Init ==
    /\ progress = [level |-> 1, mastered |-> 0, learning |-> "CHECKPOINT",
                   evidence |-> {}, failures |-> 0, context |-> NoContext,
                   next |-> NoReview]
    /\ queue = {}
    /\ latest = [n \in Level |-> NoUnit]
    /\ planned = NoPlan
    /\ active = NoPlan
    /\ practised = {}
    /\ proofs = [n \in Level |-> {}]

Launch ==
    /\ active = NoPlan
    /\ active' \in Plans(progress, queue, latest, planned)
    /\ UNCHANGED <<progress, queue, latest, planned, practised, proofs>>

\* The plan saved with a completion; with nothing to offer none is kept.
Replan(quests) ==
    LET plans(quest) == Plans(progress', queue', latest', quest) IN
    \E quest \in IF quests = {} THEN {NoPlan} ELSE quests :
        planned' \in IF plans(quest) = {} THEN {NoPlan} ELSE plans(quest)

Attempted(l) == latest' = [latest EXCEPT ![l.level] = l.unit]

CompleteLesson(r) ==
    LET l == active.lesson IN
    /\ active # NoPlan
    /\ active.purpose # "review" /\ l \notin Fluency
    /\ Counts(active, progress, queue)
    /\ r = "low" => progress.failures < MaxFailures
    /\ progress' = Applied(progress, l, r)
    /\ queue' = Scheduled(queue, progress', l.unit)
    /\ Attempted(l)
    /\ Replan(NextQuests(progress, l, r))
    /\ active' = NoPlan
    /\ proofs' = IF r = "independent" /\ Cardinality(proofs[l.level]) < 2
                 THEN [proofs EXCEPT ![l.level] = @ \union {l}]
                 ELSE proofs
    /\ UNCHANGED practised

\* completeFluencyPractice: the results do not matter, only that it was done.
CompleteFluency ==
    LET l == active.lesson
        done == ChapterDone(l, practised) IN
    /\ active # NoPlan
    /\ active.purpose # "review" /\ l \in Fluency
    /\ progress' = [progress EXCEPT
                      !.level = IF done THEN Completion
                                ELSE IF l.level > @ THEN l.level ELSE @,
                      !.learning = "FLUENCY_PRACTICE", !.context = NoContext]
    /\ practised' = practised \union {l}
    /\ Attempted(l)
    /\ UNCHANGED <<queue, proofs>>
    /\ Replan(IF done THEN {}
              ELSE PlanFor(Offers(l.level, "progression", l.unit),
                           "progression", 0))
    /\ active' = NoPlan

CompleteReview(passed) ==
    /\ active # NoPlan
    /\ active.purpose = "review"
    /\ Counts(active, progress, queue)
    /\ UNCHANGED <<progress, proofs>>
    /\ \E e \in Matching(queue, active) : queue' = Rescheduled(queue, e, passed)
    /\ Attempted(active.lesson)
    /\ practised' = practised \union (Fluency \intersect {active.lesson})
    /\ Replan({})
    /\ active' = NoPlan

Sooner(n) == IF n = NoReview \/ n = 0 THEN n ELSE n - 1

NextDay ==
    /\ progress' = [progress EXCEPT !.next = Sooner(@)]
    /\ queue' = {[e EXCEPT !.wait = Sooner(@)] : e \in queue}
    /\ UNCHANGED <<latest, planned, active, practised, proofs>>

Next ==
    \/ Launch
    \/ \E r \in Outcomes : CompleteLesson(r)
    \/ CompleteFluency
    \/ \E passed \in BOOLEAN : CompleteReview(passed)
    \/ NextDay

TrackSpec == Init /\ [][Next]_trackVars

-----------------------------------------------------------------------------
TrackTypeOK ==
    /\ progress \in Progress
    /\ queue \subseteq Entry
    /\ latest \in [Level -> Unit \union {NoUnit}]
    /\ planned \in Plan \union {NoPlan}
    /\ active \in Plan \union {NoPlan}
    /\ practised \subseteq Fluency
    /\ proofs \in [Level -> SUBSET Lesson]

\* The level the learner has worked up to: remediation is a detour.
Reached == IF progress.context = NoContext THEN progress.level
           ELSE progress.context.original

\* A lesson the planner opened always counts when it is finished: no path of
\* results, reviews and days lets the planner open a lesson whose result the
\* engine or the review queue then declines.
LaunchedLessonCounts == active # NoPlan => Counts(active, progress, queue)

\* The levels of the track that are mastered, not only practised.
Checked(n) == \E l \in Lesson : l.level = n /\ l.role = "checkpoint"

\* Every level below the one reached that has checkpoints was passed with
\* strong independent work on two different lessons of it, detours included.
MasteryIsProved ==
    \A n \in 1..(Reached - 1) : Checked(n) => Cardinality(proofs[n]) >= 2

\* Nobody is past a fluency chapter before every activity of it is practised.
ChapterIsPractised ==
    \A l \in Fluency : l.level < progress.level => l \in practised

\* Outside remediation the last mastered level is the one just below, or below
\* the fluency chapter that ended the track; in remediation the learner is at
\* the rebuilding level, below the level to return to, and that is no more than
\* one above what was mastered.  It may be less than where remediation began.
LevelsAgree ==
    LET p == progress IN
    IF p.context = NoContext
    THEN \/ p.level = p.mastered + 1
         \/ p.level = Completion /\ p.mastered + 2 = p.level
            /\ ~Checked(p.mastered + 1)
    ELSE /\ p.level = p.context.target
         /\ p.level < p.context.original
         /\ p.context.original <= p.mastered + 1

\* What the documents promise: the remediation context retains the difficulty
\* it was entered from until the learner returns there, whatever the results
\* of the rebuilding lessons.
ReturnTargetKept ==
    [][progress.context # NoContext /\ progress'.context # NoContext
       => progress'.context.original = progress.context.original]_trackVars

\* Every mastered level keeps a place in the review queue.
MasteredIsReviewed ==
    \A n \in 1..(Reached - 1) : Checked(n) => \E e \in queue : e.level = n

\* A review moves ahead only by its own review, one step at a time and when it
\* is due: no other completion, which may write the entry of the last mastered
\* level again, spares the learner a review.
ReviewStepIsEarned ==
    [][\A e \in queue, f \in queue' :
          e.level = f.level /\ e.unit = f.unit /\ f.step > e.step
          => /\ f.step = e.step + 1 /\ e.wait = 0
             /\ active # NoPlan /\ active.purpose = "review"
             /\ active.lesson.level = e.level /\ active.lesson.unit = e.unit
      ]_trackVars

\* Until the track is complete the planner has a lesson to offer a learner
\* who is not rebuilding.
PathContinues ==
    progress.context = NoContext /\ progress.level < Completion
    => Plans(progress, queue, latest, planned) # {}

\* ... and a learner who is rebuilding always has a lesson to do, so that the
\* original target can be reached again.
RebuildingGoesOn ==
    progress.context # NoContext /\ active = NoPlan
    => Plans(progress, queue, latest, planned) # {}

=============================================================================
