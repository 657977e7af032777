------------------------ MODULE LessonJourneyProofs -------------------------
(***************************************************************************)
(* Theorems about LessonJourney, for any number of pages, launches,        *)
(* sessions and questions: whatever the screens do, the record is handled  *)
(* as QuestProgress says, the pages keep their types, and no page waits    *)
(* for a launch that is not coming.                                        *)
(***************************************************************************)
EXTENDS LessonJourney, ProgressLedgerProofs

-----------------------------------------------------------------------------
(* The invariant: the types of the record and of the pages, no page        *)
(* stranded, and, for the latter, a launch that has the lock is counted.   *)

PagesOK ==
    /\ view \in [Tab -> View]
    /\ calls \in [Tab -> SUBSET Call]
    /\ launches \in [Tab -> 0..MaxLaunches]
    /\ NeverStranded

WritingsOK == writings \in [Tab -> SUBSET (0..MaxLaunches)]

EventsOK ==
    /\ seen \in [Tab -> Session \union {NoSession}]
    /\ WritingsOK
    /\ dirty \in [Tab -> BOOLEAN]
    /\ visits \in 0..MaxVisits
    /\ faults \in 0..MaxFaults

\* What NeverStranded asks of one page.
Idle(v) == /\ v.screen # "loading"
           /\ ~(v.screen \in {"rest", "parent_gate"} /\ v.launching)

HasLesson(v) == v.screen = "lesson_run" => v.shown # NoSession

LaunchStages == {"launch", "reconcile", "reconcile_again", "plan"}

LaunchCounted ==
    \A t \in Tab : Holds(t, LaunchStages) => launches[t] > 0

JInv == TypeInv /\ PagesOK /\ EventsOK /\ LaunchCounted

-----------------------------------------------------------------------------
(* What the screens show and send has its type.                            *)

LEMMA ClosedType == Closed \in View
BY LessonAssumption DEF Closed, View, Screens, Question

LEMMA MountedType ==
    ASSUME NEW v \in View, NEW s \in Session, NEW launching \in BOOLEAN
    PROVE  /\ Mounted(v, s) \in View
           /\ Idle(Mounted(v, s)) /\ HasLesson(Mounted(v, s))
           /\ LET w == [Mounted(v, s) EXCEPT !.launching = launching]
              IN  w \in View /\ Idle(w) /\ HasLesson(w)
<1> DEFINE chosen == IF s.draft # NoDraft /\ s.draft.question = s.index
                     THEN s.draft.answer ELSE NoAnswer
           m == Mounted(v, s)
           w == [m EXCEPT !.launching = launching]
<1>1. /\ s.index \in Question
      /\ s.submitted \in [Question -> Answer \union {NoAnswer}]
      /\ s.assist \in SUBSET Help
      /\ s.draft \in Draft \union {NoDraft}
      /\ s # NoSession
  BY NoSessionAssumption DEF Session
<1>2. chosen \in Answer \union {NoAnswer}
  BY <1>1 DEF Draft
<1>3. m = [v EXCEPT !.screen = "lesson_run", !.shown = s, !.ref = s,
                    !.index = s.index, !.evals = s.submitted,
                    !.selected = chosen, !.assist = s.assist, !.sent = FALSE]
  BY DEF Mounted
<1> HIDE DEF chosen, m
<1>4. m \in View /\ m.screen = "lesson_run" /\ m.shown = s
  BY <1>1, <1>2, <1>3 DEF View, Screens
<1>5. w \in View /\ w.screen = "lesson_run" /\ w.shown = s
  BY <1>4 DEF View
<1> HIDE DEF w
<1>6. Idle(m) /\ HasLesson(m) /\ Idle(w) /\ HasLesson(w)
  BY <1>1, <1>4, <1>5 DEF Idle, HasLesson
<1> QED  BY <1>4, <1>5, <1>6 DEF m, w

LEMMA AwayType ==
    ASSUME NEW v \in View, NEW screen \in Screens
    PROVE  /\ Away(v, screen) \in View
           /\ Away(v, screen).screen = screen
           /\ screen # v.screen => ~Away(v, screen).launching
<1> DEFINE guard == v.launching /\ v.screen = screen
<1>1. guard \in BOOLEAN /\ v.parent \in BOOLEAN
      /\ v.shown \in Session \union {NoSession}
  BY DEF View
<1>2. Away(v, screen) = [Closed EXCEPT !.screen = screen, !.parent = v.parent,
                                       !.shown = v.shown, !.launching = guard]
  BY DEF Away
<1>3. screen # v.screen => ~guard
  OBVIOUS
<1> HIDE DEF guard
<1> QED  BY <1>1, <1>2, <1>3, ClosedType DEF View

\* The screens a page is sent to when a launch is over or none is wanted.
LEMMA AwayStates ==
    ASSUME NEW v \in View, NEW retryable \in BOOLEAN
    PROVE  /\ LET w == [Away(v, "load_error") EXCEPT
                          !.shown = NoSession, !.launching = FALSE,
                          !.retryable = retryable]
              IN  w \in View /\ Idle(w) /\ HasLesson(w)
           /\ LET w == [Away(v, "load_error") EXCEPT !.retryable = retryable]
              IN  w \in View /\ Idle(w) /\ HasLesson(w)
           /\ LET w == [Away(v, "rest") EXCEPT !.launching = FALSE]
              IN  w \in View /\ Idle(w) /\ HasLesson(w)
           /\ LET w == [Away(v, "parent_gate") EXCEPT
                          !.parent = TRUE, !.launching = FALSE]
              IN  w \in View /\ Idle(w) /\ HasLesson(w)
           /\ LET w == Away(v, "writing_pilot")
              IN  w \in View /\ Idle(w) /\ HasLesson(w)
           /\ LET w == Away(v, "loading") IN w \in View /\ HasLesson(w)
<1>1. /\ "load_error" \in Screens /\ "rest" \in Screens
      /\ "parent_gate" \in Screens /\ "writing_pilot" \in Screens
      /\ "loading" \in Screens
  BY DEF Screens
<1>2. \A screen \in Screens : /\ Away(v, screen) \in View
                              /\ Away(v, screen).screen = screen
  BY AwayType
<1> QED  BY <1>1, <1>2 DEF View, Idle, HasLesson

LEMMA CheckpointTypes ==
    ASSUME NEW s \in Session, NEW q \in Question, NEW a \in Answer
    PROVE  /\ SubmitCheckpoint(s, q, a) \in Session
           /\ DraftCheckpoint(s, q, a) \in Session
<1>1. SubmitCheckpoint(s, q, a) \in Session
  BY DEF SubmitCheckpoint, Session
<1>2. DraftCheckpoint(s, q, a) \in Session
  BY DEF DraftCheckpoint, Session, Draft
<1> QED  BY <1>1, <1>2

LEMMA AdvanceType ==
    ASSUME NEW s \in Session, NEW q \in Question
    PROVE  AdvanceCheckpoint(s, q) \in Session
BY DEF AdvanceCheckpoint, Session

LEMMA AssistType ==
    ASSUME NEW s \in Session, NEW events \in SUBSET Help
    PROVE  [s EXCEPT !.assist = events] \in Session
BY DEF Session

LEMMA ResultType ==
    ASSUME NEW v \in View, v.ref # NoSession
    PROVE  ScreenResult(v) \in Result
<1>1. v.ref \in Session /\ v.assist \in SUBSET Help
  BY DEF View
<1>2. Cardinality(v.assist) \in 0..Cardinality(Help)
  BY <1>1, LessonAssumption, FS_Subset, FS_CardinalityType
<1> QED  BY <1>1, <1>2 DEF ScreenResult, Result, Session

LEMMA CallTypes ==
    /\ \A s \in Session : CheckpointCall(s) \in Call
    /\ \A r \in Result : CompleteCall(r) \in Call
    /\ \A cs \in SUBSET Call : Orphaned(cs) \in SUBSET Call
    /\ \A c \in Call : c.kind = "checkpoint" => c.session \in Session
    /\ \A c \in Call : c.kind = "complete" => c.result \in Result
<1>1. \A c \in Call : [c EXCEPT !.live = FALSE] \in Call
  BY DEF Call
<1>2. \A cs \in SUBSET Call : Orphaned(cs) \in SUBSET Call
  BY <1>1 DEF Orphaned
<1> QED  BY <1>2 DEF CheckpointCall, CompleteCall, Call

-----------------------------------------------------------------------------
(* What the shell's steps do to one page.                                  *)

\* The launches of other pages stay as they are.
Launches(t, n) ==
    n \in 0..MaxLaunches /\ launches' = [launches EXCEPT ![t] = n]

LEMMA PageStep ==
    ASSUME PagesOK, NEW t \in Tab, NEW v \in View, NEW cs \in SUBSET Call,
           NEW n, Launches(t, n),
           view' = [view EXCEPT ![t] = v],
           calls' = [calls EXCEPT ![t] = cs],
           n = 0 => Idle(v), HasLesson(v)
    PROVE  PagesOK'
<1>1. /\ view' \in [Tab -> View] /\ view'[t] = v
      /\ \A u \in Tab \ {t} : view'[u] = view[u]
  BY DEF PagesOK
<1>2. calls' \in [Tab -> SUBSET Call]
  BY DEF PagesOK
<1>3. /\ launches' \in [Tab -> 0..MaxLaunches] /\ launches'[t] = n
      /\ \A u \in Tab \ {t} : launches'[u] = launches[u]
  BY DEF PagesOK, Launches
<1>4. NeverStranded'
  <2> SUFFICES ASSUME NEW u \in Tab
               PROVE  /\ launches'[u] = 0 => Idle(view'[u])
                      /\ HasLesson(view'[u])
    BY DEF NeverStranded, Idle, HasLesson
  <2>1. CASE u = t
    BY <1>1, <1>3, <2>1
  <2>2. CASE u # t
    BY <1>1, <1>3, <2>2 DEF PagesOK, NeverStranded, Idle, HasLesson
  <2> QED  BY <2>1, <2>2
<1> QED  BY <1>1, <1>2, <1>3, <1>4 DEF PagesOK

\* A page keeps its launches, counts one more, or one less.
LEMMA LaunchSteps ==
    ASSUME PagesOK, NEW t \in Tab
    PROVE  /\ launches[t] \in 0..MaxLaunches
           /\ UNCHANGED launches => Launches(t, launches[t])
           /\ Queue(t) => \E n : n > 0 /\ n >= launches[t] /\ Launches(t, n)
           /\ launches[t] > 0 /\ Dequeue(t) => Launches(t, launches[t] - 1)
<1>1. launches[t] \in 0..MaxLaunches /\ launches = [launches EXCEPT ![t] = launches[t]]
  BY DEF PagesOK
<1>2. ASSUME Queue(t)
      PROVE  \E n : n > 0 /\ n >= launches[t] /\ Launches(t, n)
  <2> DEFINE n == IF launches[t] < MaxLaunches THEN launches[t] + 1
                  ELSE launches[t]
  <2>1. launches' = [launches EXCEPT ![t] = n]
    BY <1>1, <1>2 DEF Queue, PagesOK
  <2>2. n \in 0..MaxLaunches /\ n > 0 /\ n >= launches[t]
    BY <1>1, JourneyAssumption
  <2> QED  BY <2>1, <2>2 DEF Launches
<1>3. ASSUME launches[t] > 0, Dequeue(t) PROVE Launches(t, launches[t] - 1)
  BY <1>1, <1>3, JourneyAssumption DEF Dequeue, Launches, PagesOK
<1> QED  BY <1>1, <1>2, <1>3 DEF Launches

\* Of a page that takes no launch off its list, none is taken.
NoneTaken == \A u \in Tab : launches'[u] >= launches[u]

\* The same screen for the same lesson, with the same guard.
SamePlace(v, w) == /\ v.screen = w.screen /\ v.shown = w.shown
                   /\ v.launching = w.launching

LEMMA KeepPages ==
    ASSUME PagesOK, NEW t \in Tab, NEW v \in View, NEW cs \in SUBSET Call,
           Keep(t, v, cs), SamePlace(v, view[t])
    PROVE  PagesOK' /\ NoneTaken
<1>1. /\ Launches(t, launches[t]) /\ launches' = launches
      /\ launches \in [Tab -> 0..MaxLaunches]
  BY LaunchSteps DEF Keep, PagesOK
<1>2. (launches[t] = 0 => Idle(v)) /\ HasLesson(v)
  BY DEF PagesOK, NeverStranded, Idle, HasLesson, SamePlace
<1>3. PagesOK'
  BY <1>1, <1>2, PageStep DEF Keep
<1> QED  BY <1>1, <1>3 DEF NoneTaken

LEMMA QueueTaken ==
    ASSUME PagesOK, NEW t \in Tab, NEW n, n >= launches[t], Launches(t, n)
    PROVE  NoneTaken
BY DEF PagesOK, Launches, NoneTaken

LEMMA LaunchPages ==
    ASSUME PagesOK, NEW t \in Tab, NEW v \in View, NEW cs \in SUBSET Call,
           LaunchFrom(t, v, cs), SamePlace(v, view[t])
    PROVE  PagesOK' /\ NoneTaken
<1> DEFINE w == [v EXCEPT !.launching = TRUE]
<1>1. w \in View /\ HasLesson(w)
  BY DEF View, PagesOK, NeverStranded, HasLesson, SamePlace
<1>2. view' = [view EXCEPT ![t] = w] /\ calls' = [calls EXCEPT ![t] = cs]
  BY DEF LaunchFrom
<1>3. PICK n : n > 0 /\ n >= launches[t] /\ Launches(t, n)
  BY LaunchSteps DEF LaunchFrom
<1>4. ~(n = 0)
  BY <1>3
<1> HIDE DEF w
<1>5. PagesOK'
  BY <1>1, <1>2, <1>3, <1>4, PageStep
<1> QED  BY <1>3, <1>5, QueueTaken

LEMMA LeavePages ==
    ASSUME PagesOK, NEW t \in Tab, NEW v \in View, NEW cs \in SUBSET Call,
           Leave(t, v, cs), HasLesson(v),
           NEW n, Launches(t, n), n = 0 => Idle(v)
    PROVE  PagesOK'
BY CallTypes, PageStep DEF Leave

\* A page that leaves and keeps its launches.
LEMMA LeaveStays ==
    ASSUME PagesOK, NEW t \in Tab, NEW v \in View, NEW cs \in SUBSET Call,
           Leave(t, v, cs), HasLesson(v), Idle(v), UNCHANGED launches
    PROVE  PagesOK' /\ NoneTaken
<1>1. /\ Launches(t, launches[t]) /\ launches' = launches
      /\ launches \in [Tab -> 0..MaxLaunches]
  BY LaunchSteps DEF PagesOK
<1>2. PagesOK'
  BY <1>1, LeavePages
<1> QED  BY <1>1, <1>2 DEF NoneTaken

\* A page that leaves and asks for a launch.
LEMMA LeaveQueues ==
    ASSUME PagesOK, NEW t \in Tab, NEW v \in View, NEW cs \in SUBSET Call,
           Leave(t, v, cs), HasLesson(v), Queue(t)
    PROVE  PagesOK' /\ NoneTaken
<1>1. PICK n : n > 0 /\ n >= launches[t] /\ Launches(t, n)
  BY LaunchSteps
<1>2. ~(n = 0)
  BY <1>1
<1>3. PagesOK'
  BY <1>1, <1>2, LeavePages
<1> QED  BY <1>1, <1>3, QueueTaken

LEMMA ShowPages ==
    ASSUME PagesOK, NEW t \in Tab, NEW v \in View, NEW cs \in SUBSET Call,
           NEW s \in Session, Show(t, v, s, cs), UNCHANGED launches,
           SamePlace(v, view[t])
    PROVE  PagesOK' /\ NoneTaken
<1>1. /\ Launches(t, launches[t]) /\ launches' = launches
      /\ launches \in [Tab -> 0..MaxLaunches]
  BY LaunchSteps DEF PagesOK
<1>2. (launches[t] = 0 => Idle(v)) /\ HasLesson(v)
  BY DEF PagesOK, NeverStranded, Idle, HasLesson, SamePlace
<1>3. NoneTaken
  BY <1>1 DEF NoneTaken
<1>4. CASE v.screen = "lesson_run" /\ ~SameKey(v, s)
  <2>1. /\ view' = [view EXCEPT ![t] = Mounted(v, s)]
        /\ calls' = [calls EXCEPT ![t] = Orphaned(cs)]
    BY <1>4 DEF Show
  <2>2. Mounted(v, s) \in View /\ Idle(Mounted(v, s)) /\ HasLesson(Mounted(v, s))
    BY MountedType
  <2> QED  BY <1>1, <1>3, <2>1, <2>2, CallTypes, PageStep
<1>5. CASE ~(v.screen = "lesson_run" /\ ~SameKey(v, s))
  <2> DEFINE w == [v EXCEPT !.shown = IF v.shown = NoSession THEN v.shown
                                      ELSE s]
  <2>1. /\ w \in View /\ w.screen = v.screen /\ w.launching = v.launching
        /\ w.shown = NoSession => v.shown = NoSession
    BY NoSessionAssumption DEF View
  <2>2. view' = [view EXCEPT ![t] = w] /\ calls' = [calls EXCEPT ![t] = cs]
    BY <1>5 DEF Show
  <2>3. (launches[t] = 0 => Idle(w)) /\ HasLesson(w)
    BY <1>2, <2>1 DEF Idle, HasLesson
  <2> HIDE DEF w
  <2> QED  BY <1>1, <1>3, <2>1, <2>2, <2>3, PageStep
<1> QED  BY <1>4, <1>5

LEMMA EnterPages ==
    ASSUME PagesOK, NEW t \in Tab, NEW s \in Session, Enter(t, s),
           NEW n, Launches(t, n)
    PROVE  PagesOK'
<1> DEFINE v == view[t]
<1>1. v \in View /\ calls[t] \in SUBSET Call
  BY DEF PagesOK
<1>2. CASE SameKey(v, s) /\ view' = [view EXCEPT ![t].shown = s] /\ UNCHANGED calls
  <2> DEFINE w == [v EXCEPT !.shown = s]
  <2>1. w \in View /\ w.screen = "lesson_run" /\ w.shown = s /\ s # NoSession
    BY <1>1, <1>2, NoSessionAssumption DEF View, SameKey
  <2>2. view' = [view EXCEPT ![t] = w] /\ calls' = [calls EXCEPT ![t] = calls[t]]
    BY <1>2 DEF PagesOK
  <2>3. Idle(w) /\ HasLesson(w)
    BY <2>1 DEF Idle, HasLesson
  <2> HIDE DEF w
  <2> QED  BY <1>1, <2>1, <2>2, <2>3, PageStep
<1>3. CASE Leave(t, [Mounted(v, s) EXCEPT !.launching =
                       @ /\ v.screen = "lesson_run"], calls[t])
  <2> DEFINE w == [Mounted(v, s) EXCEPT !.launching =
                     Mounted(v, s).launching /\ v.screen = "lesson_run"]
  <2>1. w \in View /\ Idle(w) /\ HasLesson(w)
    BY <1>1, MountedType
  <2>2. Leave(t, w, calls[t])
    BY <1>3
  <2> HIDE DEF w
  <2> QED  BY <1>1, <2>1, <2>2, LeavePages
<1>4. CASE Leave(t, Away([v EXCEPT !.shown = s], "writing_pilot"), calls[t])
  <2>1. [v EXCEPT !.shown = s] \in View
    BY <1>1 DEF View
  <2> DEFINE w == Away([v EXCEPT !.shown = s], "writing_pilot")
  <2>2. w \in View /\ Idle(w) /\ HasLesson(w)
    BY <2>1, AwayStates
  <2>3. Leave(t, w, calls[t])
    BY <1>4
  <2> HIDE DEF w
  <2> QED  BY <1>1, <2>2, <2>3, LeavePages
<1> QED  BY <1>2, <1>3, <1>4 DEF Enter

-----------------------------------------------------------------------------
(* What an operation leaves the page with.                                 *)

LEMMA PersistProgress ==
    ASSUME TypeInv, job # NoJob, NEW p \in Progress, NEW o \in Persist(p)
    PROVE  o.progress \in Progress
<1>1. job.progress \in Progress /\ (Readable(durable) => durable \in Progress)
  BY DEF TypeInv, ValidProgress
<1> QED  BY <1>1 DEF Persist, Outcome

LEMMA CheckpointProgress ==
    ASSUME TypeInv, job # NoJob, NEW s \in Session, s.rev < MaxRev,
           NEW o \in CheckpointOutcomes(s)
    PROVE  o.progress \in Progress
<1>1. job.progress \in Progress
  BY DEF TypeInv, ValidProgress
<1>2. [job.progress EXCEPT !.active = Accepted(s)] \in Progress
  BY <1>1, AcceptedType, WithActive
<1>3. \/ o.progress = job.progress
      \/ o \in Persist([job.progress EXCEPT !.active = Accepted(s)])
  BY DEF CheckpointOutcomes, Unsaved, Outcome
<1> QED  BY <1>1, <1>2, <1>3, PersistProgress

LEMMA CompleteProgress ==
    ASSUME TypeInv, job # NoJob, NEW r \in Result,
           NEW o \in CompleteOutcomes(r)
    PROVE  o.progress \in Progress
<1> DEFINE p == job.progress
<1>1. p \in Progress
  BY DEF TypeInv, ValidProgress
<1>2. Reconcile(p) \in Progress /\ Reconcile(Credit(p, r)) \in Progress
  BY <1>1, ReconcileProgress, CreditProgress
<1>3. \/ o.progress = p
      \/ o \in Persist(Reconcile(p))
      \/ o \in Persist(Reconcile(Credit(p, r)))
  BY DEF CompleteOutcomes, Unsaved, Outcome
<1> HIDE DEF p
<1> QED  BY <1>1, <1>2, <1>3, PersistProgress DEF p

LEMMA SettleEvents ==
    ASSUME EventsOK, NEW t \in Tab, NEW o, o.progress \in Progress,
           Settle(t, o), WritingsOK'
    PROVE  EventsOK'
<1>1. o.progress.active \in Session \union {NoSession}
  BY DEF Progress
<1>2. faults' \in 0..MaxFaults
  BY JourneyAssumption DEF Settle, Charge, EventsOK
<1>3. dirty' \in [Tab -> BOOLEAN]
  BY DEF Settle, Notify
<1> QED  BY <1>1, <1>2, <1>3 DEF Settle, EventsOK

\* What waits for a launch is typed through its end, or a step that leaves
\* it alone.
LEMMA WritingSteps ==
    ASSUME WritingsOK, UNCHANGED writings \/ \E t \in Tab : Dequeue(t)
    PROVE  WritingsOK'
<1>1. CASE UNCHANGED writings
  BY <1>1 DEF WritingsOK
<1>2. ASSUME NEW t \in Tab, Dequeue(t) PROVE WritingsOK'
  <2> DEFINE left == {n - 1 : n \in writings[t] \ {0}}
                     \union (writings[t] \intersect {0})
  <2>1. \A n \in writings[t] : n \in 0..MaxLaunches
    BY DEF WritingsOK
  <2>2. left \in SUBSET (0..MaxLaunches)
    BY <2>1, JourneyAssumption
  <2>3. writings' = [writings EXCEPT ![t] = left]
    BY <1>2 DEF Dequeue
  <2> HIDE DEF left
  <2> QED  BY <2>2, <2>3 DEF WritingsOK
<1> QED  BY <1>1, <1>2

\* A launch whose lock is granted stays counted through any step that gives
\* the lock up or keeps it and takes no launch of its page off the list.
LEMMA StillCounted ==
    ASSUME PagesOK, LaunchCounted, PagesOK',
           \/ job' = NoJob
           \/ job' = job /\ NoneTaken
    PROVE  LaunchCounted'
<1>1. CASE job' = NoJob
  BY <1>1 DEF LaunchCounted, Holds
<1>2. CASE job' = job /\ NoneTaken
  <2>1. \A u \in Tab : Holds(u, LaunchStages)' <=> Holds(u, LaunchStages)
    BY <1>2 DEF Holds
  <2>2. \A u \in Tab : launches[u] \in Nat /\ launches'[u] \in Nat
    BY JourneyAssumption DEF PagesOK
  <2> QED  BY <1>2, <2>1, <2>2 DEF LaunchCounted, NoneTaken
<1> QED  BY <1>1, <1>2

-----------------------------------------------------------------------------
(* The steps of one page, in the order of the module.                      *)

PageInv == PagesOK /\ EventsOK /\ LaunchCounted

LEMMA Quiet ==
    ASSUME JInv, PagesOK', NoneTaken, WritingsOK', visits' \in 0..MaxVisits,
           UNCHANGED <<job, seen, dirty, faults>>
    PROVE  PageInv'
<1>1. EventsOK'
  BY DEF JInv, EventsOK
<1>2. LaunchCounted'
  BY StillCounted DEF JInv
<1> QED  BY <1>1, <1>2 DEF PageInv

\* Most steps of a page change nothing else.
Still == UNCHANGED <<job, seen, writings, dirty, visits, faults>>

LEMMA QuietStill ==
    ASSUME JInv, PagesOK', NoneTaken, Still
    PROVE  PageInv'
BY WritingSteps, Quiet DEF Still, JInv, EventsOK

LEMMA OpenOrCrash ==
    ASSUME JInv, NEW t \in Tab, OpenPage(t) \/ Crash(t)
    PROVE  PageInv'
<1>1. view[t] \in View /\ calls[t] \in SUBSET Call
  BY DEF JInv, PagesOK
<1>2. CASE OpenPage(t)
  <2>1. PagesOK' /\ NoneTaken /\ visits' \in 0..MaxVisits
    <3>1. CASE /\ Queue(t)
               /\ view' = [view EXCEPT ![t].screen = "loading",
                                       ![t].launching = TRUE]
               /\ UNCHANGED visits
      <4> DEFINE v == [view[t] EXCEPT !.screen = "loading", !.launching = TRUE]
      <4>1. v \in View /\ v.screen = "loading"
        BY <1>1 DEF View, Screens
      <4>2. view' = [view EXCEPT ![t] = v]
            /\ calls' = [calls EXCEPT ![t] = calls[t]]
        BY <1>2, <3>1 DEF OpenPage, JInv, PagesOK
      <4>3. PICK n : n > 0 /\ n >= launches[t] /\ Launches(t, n)
        BY <3>1, LaunchSteps DEF JInv
      <4>4. ~(n = 0)
        BY <4>3
      <4>5. HasLesson(v)
        BY <4>1 DEF HasLesson
      <4> HIDE DEF v
      <4>6. PagesOK' /\ NoneTaken
        BY <1>1, <4>1, <4>2, <4>3, <4>4, <4>5, PageStep, QueueTaken DEF JInv
      <4> QED  BY <3>1, <4>6 DEF JInv, EventsOK
    <3>2. CASE /\ Visit
               /\ view' = [view EXCEPT ![t].screen = "parent_gate",
                                       ![t].parent = TRUE,
                                       ![t].launching = FALSE]
               /\ UNCHANGED launches
      <4> DEFINE v == [view[t] EXCEPT !.screen = "parent_gate",
                                      !.parent = TRUE, !.launching = FALSE]
      <4>1. v \in View /\ v.screen = "parent_gate" /\ ~v.launching
        BY <1>1 DEF View, Screens
      <4>2. view' = [view EXCEPT ![t] = v]
            /\ calls' = [calls EXCEPT ![t] = calls[t]]
        BY <1>2, <3>2 DEF OpenPage, JInv, PagesOK
      <4>4. Idle(v) /\ HasLesson(v)
        BY <4>1 DEF Idle, HasLesson
      <4>5. Launches(t, launches[t]) /\ launches' = launches
        BY <3>2, LaunchSteps DEF JInv
      <4> HIDE DEF v
      <4>6. PagesOK'
        BY <1>1, <4>1, <4>2, <4>4, <4>5, PageStep DEF JInv
      <4>7. NoneTaken
        BY <4>5, JourneyAssumption DEF NoneTaken, JInv, PagesOK
      <4>8. visits' \in 0..MaxVisits
        BY <3>2, JourneyAssumption DEF Visit, JInv, EventsOK
      <4> QED  BY <4>6, <4>7, <4>8
    <3> QED  BY <1>2, <3>1, <3>2 DEF OpenPage
  <2>2. WritingsOK'
    BY <1>2, WritingSteps DEF OpenPage, JInv, EventsOK
  <2>3. EventsOK'
    <3>1. State(durable) \in Progress
      BY RawCases DEF JInv, TypeInv, TypeOK
    <3>2. Reconcile(State(durable)).active \in Session \union {NoSession}
      BY <3>1, ReconcileProgress DEF Progress
    <3>3. UNCHANGED <<dirty, faults>>
      BY <1>2 DEF OpenPage
    <3>4. seen' \in [Tab -> Session \union {NoSession}]
      BY <1>2, <3>2 DEF OpenPage, JInv, EventsOK
    <3> QED  BY <2>1, <2>2, <3>3, <3>4 DEF JInv, EventsOK
  <2>4. job' = job
    BY <1>2 DEF OpenPage, vars
  <2> QED  BY <2>1, <2>3, <2>4, StillCounted DEF JInv, PageInv
<1>3. CASE Crash(t)
  <2>1. PagesOK'
    <3>1. {} \in SUBSET Call /\ Idle(Closed) /\ HasLesson(Closed)
      BY DEF Closed, Idle, HasLesson
    <3>2. Launches(t, 0)
      BY <1>3, JourneyAssumption DEF Crash, Launches
    <3>3. /\ view' = [view EXCEPT ![t] = Closed]
          /\ calls' = [calls EXCEPT ![t] = {}]
      BY <1>3 DEF Crash
    <3> QED  BY <3>1, <3>2, <3>3, ClosedType, PageStep DEF JInv
  <2>2. EventsOK'
    <3>1. WritingsOK'
      BY <1>3 DEF Crash, JInv, EventsOK, WritingsOK
    <3>2. faults' \in 0..MaxFaults
      BY <1>3, JourneyAssumption DEF Crash, JInv, EventsOK
    <3> QED  BY <1>3, <3>1, <3>2 DEF Crash, JInv, EventsOK
  <2>3. \/ job' = NoJob
        \/ job' = job /\ ~Holds(t, Stages)
    <3>1. CASE Holds(t, Stages)
      <4>1. Close(t)
        BY <1>3, <3>1 DEF Crash
      <4> QED  BY <3>1, <4>1 DEF Close, Holds
    <3>2. CASE ~Holds(t, Stages)
      BY <1>3, <3>2 DEF Crash, Close, vars
    <3> QED  BY <3>1, <3>2
  <2>4. LaunchCounted'
    <3> SUFFICES ASSUME NEW u \in Tab, Holds(u, LaunchStages)'
                 PROVE  launches'[u] > 0
      BY DEF LaunchCounted
    <3>1. job' = job /\ ~Holds(t, Stages) /\ Holds(u, LaunchStages)
      BY <2>3 DEF Holds
    <3>2. u # t
      BY <3>1 DEF Holds, LaunchStages, Stages
    <3> QED  BY <1>3, <3>1, <3>2 DEF Crash, JInv, PagesOK, LaunchCounted
  <2> QED  BY <2>1, <2>2, <2>4 DEF PageInv
<1> QED  BY <1>2, <1>3

LEMMA Acts ==
    ASSUME JInv, NEW t \in Tab, NEW v \in View, NEW s,
           v.ref # NoSession => s \in Session,
           Act(t, v, s), SamePlace(v, view[t])
    PROVE  PageInv'
<1> DEFINE cs == IF v.ref = NoSession THEN calls[t]
                 ELSE calls[t] \union {CheckpointCall(s)}
<1>1. cs \in SUBSET Call
  BY CallTypes DEF JInv, PagesOK
<1>2. Keep(t, v, cs) /\ Still
  BY DEF Act, vars, Still
<1> HIDE DEF cs
<1>3. PagesOK' /\ NoneTaken
  BY <1>1, <1>2, KeepPages DEF JInv
<1> QED  BY <1>2, <1>3, QuietStill

LEMMA Answers ==
    ASSUME JInv, NEW t \in Tab
    PROVE  /\ \A a \in Answer : Select(t, a) => PageInv'
           /\ Submit(t) => PageInv'
           /\ NextQuestion(t) => PageInv'
           /\ \A h \in Help : RequestAssistance(t, h) => PageInv'
<1> DEFINE v == view[t]
<1>1. v \in View
  BY DEF JInv, PagesOK
<1>2. /\ v.index \in Question
      /\ v.ref # NoSession => v.ref \in Session
      /\ v.assist \in SUBSET Help
      /\ v.selected # NoAnswer => v.selected \in Answer
  BY <1>1 DEF View
<1>3. ASSUME NEW a \in Answer, Select(t, a) PROVE PageInv'
  <2> DEFINE w == [v EXCEPT !.selected = a]
  <2>1. /\ w \in View /\ SamePlace(w, v)
        /\ w.ref = v.ref
    BY <1>1 DEF View, SamePlace
  <2>2. w.ref # NoSession => DraftCheckpoint(v.ref, v.index, a) \in Session
    BY <1>2, <2>1, CheckpointTypes
  <2>3. Act(t, w, DraftCheckpoint(v.ref, v.index, a))
    BY <1>3 DEF Select
  <2> HIDE DEF w
  <2> QED  BY <2>1, <2>2, <2>3, Acts
<1>4. ASSUME Submit(t) PROVE PageInv'
  <2> DEFINE w == [v EXCEPT !.evals[v.index] = v.selected]
  <2>1. v.selected \in Answer
    BY <1>2, <1>4 DEF Submit
  <2>2. /\ w \in View /\ SamePlace(w, v)
        /\ w.ref = v.ref
    BY <1>1, <1>2, <2>1 DEF View, SamePlace
  <2>3. w.ref # NoSession =>
          SubmitCheckpoint(v.ref, v.index, v.selected) \in Session
    BY <1>2, <2>1, <2>2, CheckpointTypes
  <2>4. Act(t, w, SubmitCheckpoint(v.ref, v.index, v.selected))
    BY <1>4 DEF Submit
  <2> HIDE DEF w
  <2> QED  BY <2>2, <2>3, <2>4, Acts
<1>5. ASSUME NextQuestion(t) PROVE PageInv'
  <2> DEFINE w == [v EXCEPT !.index = @ + 1, !.selected = NoAnswer]
  <2>1. v.index + 1 \in Question
    BY <1>2, <1>5, LessonAssumption DEF NextQuestion, Question
  <2>2. /\ w \in View /\ SamePlace(w, v)
        /\ w.ref = v.ref
    BY <1>1, <2>1 DEF View, SamePlace
  <2>3. w.ref # NoSession => AdvanceCheckpoint(v.ref, v.index + 1) \in Session
    BY <1>2, <2>1, <2>2, AdvanceType
  <2>4. Act(t, w, AdvanceCheckpoint(v.ref, v.index + 1))
    BY <1>5 DEF NextQuestion
  <2> HIDE DEF w
  <2> QED  BY <2>2, <2>3, <2>4, Acts
<1>6. ASSUME NEW h \in Help, RequestAssistance(t, h) PROVE PageInv'
  <2> DEFINE events == v.assist \union {h}
             w == [v EXCEPT !.assist = events]
  <2>1. events \in SUBSET Help
    BY <1>2
  <2>2. /\ w \in View /\ SamePlace(w, v)
        /\ w.ref = v.ref
    BY <1>1, <2>1 DEF View, SamePlace
  <2>3. w.ref # NoSession => [v.ref EXCEPT !.assist = events] \in Session
    BY <1>2, <2>1, <2>2, AssistType
  <2>4. Act(t, w, [v.ref EXCEPT !.assist = events])
    BY <1>6 DEF RequestAssistance
  <2> HIDE DEF w
  <2> QED  BY <2>2, <2>3, <2>4, Acts
<1> QED  BY <1>3, <1>4, <1>5, <1>6

LEMMA Ends ==
    ASSUME JInv, NEW t \in Tab,
           CompleteLesson(t) \/ LeaveWithoutSession(t) \/ Retry(t)
    PROVE  PageInv'
<1> DEFINE v == view[t]
<1>1. v \in View /\ calls[t] \in SUBSET Call
  BY DEF JInv, PagesOK
<1>2. CASE CompleteLesson(t)
  <2> DEFINE w == [v EXCEPT !.sent = TRUE]
             cs == calls[t] \union {CompleteCall(ScreenResult(v))}
  <2>1. w \in View /\ SamePlace(w, v)
    BY <1>1 DEF View, SamePlace
  <2>2. cs \in SUBSET Call
    BY <1>1, <1>2, ResultType, CallTypes DEF CompleteLesson
  <2>3. Keep(t, w, cs) /\ Still
    BY <1>2 DEF CompleteLesson, vars, Still
  <2> HIDE DEF w, cs
  <2>4. PagesOK' /\ NoneTaken
    BY <2>1, <2>2, <2>3, KeepPages DEF JInv
  <2> QED  BY <2>3, <2>4, QuietStill
<1>3. CASE LeaveWithoutSession(t) \/ Retry(t)
  <2>1. Queue(t) /\ Leave(t, Away(v, "loading"), calls[t]) /\ Still
    BY <1>3 DEF LeaveWithoutSession, Retry, vars, Still
  <2>2. Away(v, "loading") \in View /\ HasLesson(Away(v, "loading"))
    BY <1>1, AwayStates
  <2>3. PagesOK' /\ NoneTaken
    BY <1>1, <2>1, <2>2, LeaveQueues DEF JInv
  <2> QED  BY <2>1, <2>3, QuietStill
<1> QED  BY <1>2, <1>3

LEMMA Writing ==
    ASSUME JInv, NEW t \in Tab, FinishWriting(t) \/ ScheduleWriting(t)
    PROVE  PageInv'
<1> DEFINE v == view[t]
<1>1. v \in View /\ calls[t] \in SUBSET Call
  BY DEF JInv, PagesOK
<1>2. CASE FinishWriting(t)
  <2>1. Still
    BY <1>2 DEF FinishWriting, vars, Still
  <2>2. CASE /\ v.shown # NoSession
             /\ Leave(t, [Mounted(v, v.shown) EXCEPT !.launching = FALSE],
                      calls[t])
             /\ UNCHANGED launches
    <3> DEFINE w == [Mounted(v, v.shown) EXCEPT !.launching = FALSE]
    <3>1. v.shown \in Session
      BY <1>1, <2>2 DEF View
    <3>2. w \in View /\ Idle(w) /\ HasLesson(w)
      BY <1>1, <3>1, MountedType
    <3>3. Leave(t, w, calls[t])
      BY <2>2
    <3> HIDE DEF w
    <3>4. PagesOK' /\ NoneTaken
      BY <1>1, <2>2, <3>2, <3>3, LeaveStays DEF JInv
    <3> QED  BY <2>1, <3>4, QuietStill
  <2>3. CASE Queue(t) /\ Leave(t, Away(v, "loading"), calls[t])
    <3>1. Away(v, "loading") \in View /\ HasLesson(Away(v, "loading"))
      BY <1>1, AwayStates
    <3>2. PagesOK' /\ NoneTaken
      BY <1>1, <2>3, <3>1, LeaveQueues DEF JInv
    <3> QED  BY <2>1, <3>2, QuietStill
  <2> QED  BY <1>2, <2>2, <2>3 DEF FinishWriting
<1>3. CASE ScheduleWriting(t)
  <2>1. /\ UNCHANGED <<job, seen, launches, dirty, visits, faults>>
        /\ writings' = [writings EXCEPT ![t] = @ \ {0}]
    BY <1>3 DEF ScheduleWriting, vars
  <2>2. WritingsOK' /\ visits' \in 0..MaxVisits
    BY <2>1 DEF JInv, EventsOK, WritingsOK
  <2>3. CASE Leave(t, Away(v, "writing_pilot"), calls[t])
    <3> DEFINE w == Away(v, "writing_pilot")
    <3>1. w \in View /\ Idle(w) /\ HasLesson(w)
      BY <1>1, AwayStates
    <3> HIDE DEF w
    <3>2. PagesOK' /\ NoneTaken
      BY <1>1, <2>1, <2>3, <3>1, LeaveStays DEF JInv, w
    <3> QED  BY <2>1, <2>2, <3>2, Quiet
  <2>4. CASE UNCHANGED <<view, calls>>
    <3>1. PagesOK' /\ NoneTaken
      BY <2>1, <2>4, JourneyAssumption DEF JInv, PagesOK, NeverStranded, NoneTaken
    <3> QED  BY <2>1, <2>2, <3>1, Quiet
  <2> QED  BY <1>3, <2>3, <2>4 DEF ScheduleWriting
<1> QED  BY <1>2, <1>3

LEMMA ParentRoute ==
    ASSUME JInv, NEW t \in Tab, OpenParent(t) \/ LeaveParent(t)
    PROVE  PageInv'
<1>1. view[t] \in View /\ calls[t] \in SUBSET Call
  BY DEF JInv, PagesOK
<1>2. CASE OpenParent(t)
  <2> DEFINE w == [Away(view[t], "parent_gate") EXCEPT
                     !.parent = TRUE, !.launching = FALSE]
  <2>1. w \in View /\ Idle(w) /\ HasLesson(w)
    BY <1>1, AwayStates
  <2>2. /\ Leave(t, w, calls[t])
        /\ UNCHANGED <<job, seen, launches, writings, dirty, faults>>
    BY <1>2 DEF OpenParent, vars
  <2> HIDE DEF w
  <2>3. PagesOK' /\ NoneTaken
    BY <1>1, <2>1, <2>2, LeaveStays DEF JInv
  <2>4. visits' \in 0..MaxVisits
    BY <1>2, JourneyAssumption DEF OpenParent, Visit, JInv, EventsOK
  <2>5. WritingsOK'
    BY <2>2, WritingSteps DEF JInv, EventsOK
  <2> QED  BY <2>2, <2>3, <2>4, <2>5, Quiet
<1>3. CASE LeaveParent(t)
  <2> DEFINE v == [view[t] EXCEPT !.parent = FALSE]
  <2>1. v \in View /\ SamePlace(v, view[t])
    BY <1>1 DEF View, SamePlace
  <2>2. /\ IF v.launching THEN UNCHANGED launches ELSE Queue(t)
        /\ IF v.screen = "parent_gate"
           THEN Leave(t, Away(v, "loading"), calls[t])
           ELSE /\ view' = [view EXCEPT ![t] = [v EXCEPT !.launching = TRUE]]
                /\ UNCHANGED calls
        /\ Still
    BY <1>3 DEF LeaveParent, vars, Still
  <2>3. (launches[t] = 0 => Idle(v)) /\ HasLesson(v)
    BY <2>1 DEF JInv, PagesOK, NeverStranded, Idle, HasLesson, SamePlace
  <2> HIDE DEF v
  <2>4. PICK n : /\ Launches(t, n) /\ n >= launches[t]
                 /\ n = 0 => launches[t] = 0 /\ v.launching
    <3>1. launches[t] \in 0..MaxLaunches
      BY LaunchSteps DEF JInv
    <3>2. CASE v.launching
      BY <2>2, <3>1, <3>2, LaunchSteps, JourneyAssumption DEF JInv
    <3>3. CASE ~v.launching
      <4>1. PICK n : n > 0 /\ n >= launches[t] /\ Launches(t, n)
        BY <2>2, <3>3, LaunchSteps DEF JInv
      <4>2. ~(n = 0)
        BY <4>1
      <4> QED  BY <4>1, <4>2
    <3> QED  BY <3>2, <3>3
  <2>5. NoneTaken
    BY <2>4, QueueTaken DEF JInv
  <2>6. CASE v.screen = "parent_gate"
    <3>1. Away(v, "loading") \in View /\ HasLesson(Away(v, "loading"))
      BY <2>1, AwayStates
    <3>2. ~(n = 0)
      BY <2>3, <2>4, <2>6 DEF Idle
    <3>3. PagesOK'
      BY <1>1, <2>2, <2>4, <2>6, <3>1, <3>2, LeavePages DEF JInv
    <3> QED  BY <2>2, <2>5, <3>3, QuietStill
  <2>7. CASE v.screen # "parent_gate"
    <3> DEFINE w == [v EXCEPT !.launching = TRUE]
    <3>1. w \in View /\ w.screen = v.screen /\ w.shown = v.shown
      BY <2>1 DEF View
    <3>2. /\ view' = [view EXCEPT ![t] = w]
          /\ calls' = [calls EXCEPT ![t] = calls[t]]
      BY <2>2, <2>7 DEF JInv, PagesOK
    <3>3. n = 0 => Idle(w)
      BY <2>3, <2>4, <2>7, <3>1 DEF Idle
    <3>4. HasLesson(w)
      BY <2>3, <3>1 DEF HasLesson
    <3> HIDE DEF w
    <3>5. PagesOK'
      BY <1>1, <2>4, <3>1, <3>2, <3>3, <3>4, PageStep DEF JInv
    <3> QED  BY <2>2, <2>5, <3>5, QuietStill
  <2> QED  BY <2>6, <2>7
<1> QED  BY <1>2, <1>3

LEMMA BrowserEvents ==
    ASSUME JInv, NEW t \in Tab, WakeUp(t) \/ StorageEvent(t)
    PROVE  PageInv'
<1> DEFINE v == view[t]
           active == IF Readable(durable) /\ ~v.parent THEN durable.active
                     ELSE seen[t]
<1>1. v \in View /\ calls[t] \in SUBSET Call /\ SamePlace(v, v)
  BY DEF JInv, PagesOK, SamePlace
<1>2. CASE WakeUp(t)
  <2>1. LaunchFrom(t, v, calls[t]) /\ Still
    BY <1>2 DEF WakeUp, vars, Still
  <2>2. PagesOK' /\ NoneTaken
    BY <1>1, <2>1, LaunchPages DEF JInv
  <2> QED  BY <2>1, <2>2, QuietStill
<1>3. CASE StorageEvent(t)
  <2>1. active \in Session \union {NoSession}
    BY DEF JInv, TypeInv, ValidProgress, Progress, EventsOK
  <2>2. \/ active \in Session /\ Show(t, v, active, calls[t]) /\ UNCHANGED launches
        \/ LaunchFrom(t, v, calls[t])
        \/ Keep(t, v, calls[t])
    BY <1>3, <2>1 DEF StorageEvent
  <2>3. PagesOK' /\ NoneTaken
    BY <1>1, <2>2, ShowPages, LaunchPages, KeepPages DEF JInv
  <2>4. job' = job
    BY <1>3 DEF StorageEvent, vars
  <2>5. EventsOK'
    <3>1. /\ seen' = [seen EXCEPT ![t] = active]
          /\ dirty' = [dirty EXCEPT ![t] = FALSE]
          /\ UNCHANGED <<writings, visits, faults>>
      BY <1>3 DEF StorageEvent
    <3> HIDE DEF active
    <3>2. WritingsOK'
      BY <3>1, WritingSteps DEF JInv, EventsOK
    <3> QED  BY <2>1, <3>1, <3>2 DEF JInv, EventsOK
  <2> QED  BY <2>3, <2>4, <2>5, StillCounted DEF JInv, PageInv
<1> QED  BY <1>2, <1>3

-----------------------------------------------------------------------------
(* The steps of a page that has asked for the lock.                        *)

LEMMA Replies ==
    ASSUME JInv, NEW t \in Tab, NEW c \in Call, c.kind = "checkpoint",
           NEW status, NEW active \in Session \union {NoSession},
           CheckpointReply(t, c, status, active)
    PROVE  PagesOK' /\ NoneTaken
<1> DEFINE cs == calls[t] \ {c}
           v == IF c.live THEN [view[t] EXCEPT !.ref = active] ELSE view[t]
<1>1. cs \in SUBSET Call /\ view[t] \in View
  BY DEF JInv, PagesOK
<1>2. v \in View /\ SamePlace(v, view[t])
  BY <1>1 DEF View, SamePlace
<1>3. \/ Keep(t, v, cs)
      \/ active \in Session /\ Show(t, v, active, cs) /\ UNCHANGED launches
      \/ LaunchFrom(t, v, cs)
  BY DEF CheckpointReply
<1> HIDE DEF v, cs
<1> QED  BY <1>1, <1>2, <1>3, KeepPages, ShowPages, LaunchPages DEF JInv

LEMMA Failed ==
    ASSUME JInv, NEW t \in Tab, NEW c, NEW retryable \in BOOLEAN,
           CompleteFailed(t, c, retryable)
    PROVE  PagesOK' /\ NoneTaken /\ WritingsOK'
<1> DEFINE w == [Away(view[t], "load_error") EXCEPT !.retryable = retryable]
<1>1. calls[t] \ {c} \in SUBSET Call /\ view[t] \in View
  BY DEF JInv, PagesOK
<1>2. w \in View /\ Idle(w) /\ HasLesson(w)
  BY <1>1, AwayStates
<1>3. Leave(t, w, calls[t] \ {c}) /\ UNCHANGED <<launches, writings>>
  BY DEF CompleteFailed
<1> HIDE DEF w
<1>4. PagesOK' /\ NoneTaken
  BY <1>1, <1>2, <1>3, LeaveStays DEF JInv
<1> QED  BY <1>3, <1>4, WritingSteps DEF JInv, EventsOK

LEMMA Completions ==
    ASSUME JInv, NEW t \in Tab, NEW c, NEW status, CompleteReply(t, c, status)
    PROVE  PagesOK' /\ NoneTaken /\ WritingsOK'
<1>1. /\ calls[t] \ {c} \in SUBSET Call /\ view[t] \in View
      /\ SamePlace(view[t], view[t])
  BY DEF JInv, PagesOK, SamePlace
<1> DEFINE due == IF WritingEnabled THEN {launches'[t]} ELSE {}
<1>2. CASE /\ LaunchFrom(t, view[t], calls[t] \ {c})
           /\ writings' = [writings EXCEPT ![t] = @ \union due]
  <2>1. PagesOK' /\ NoneTaken
    BY <1>1, <1>2, LaunchPages DEF JInv
  <2>2. due \in SUBSET (0..MaxLaunches)
    BY <2>1 DEF PagesOK
  <2> HIDE DEF due
  <2>3. WritingsOK'
    BY <1>2, <2>2 DEF JInv, EventsOK, WritingsOK
  <2> QED  BY <2>1, <2>3
<1>3. CASE CompleteFailed(t, c, TRUE)
  BY <1>3, Failed
<1> QED  BY <1>2, <1>3 DEF CompleteReply

LEMMA GrantedLock ==
    ASSUME JInv, NEW t \in Tab, NEW kind \in {"checkpoint", "complete", "launch"},
           Grant(t, kind)
    PROVE  PageInv'
<1>1. UNCHANGED pageVars /\ job'.tab = t /\ job'.stage = kind
  BY DEF Grant, Acquire
<1>2. PagesOK' /\ EventsOK'
  BY <1>1 DEF pageVars, JInv, PagesOK, EventsOK, WritingsOK, NeverStranded
<1>3. kind = "launch" => launches'[t] > 0
  BY <1>1 DEF Grant, pageVars
<1>4. LaunchCounted'
  BY <1>1, <1>3 DEF LaunchCounted, Holds, LaunchStages
<1> QED  BY <1>2, <1>4 DEF PageInv

LEMMA RunCalls ==
    ASSUME JInv, NEW t \in Tab, RunCheckpoint(t) \/ RunCompletion(t)
    PROVE  PageInv'
<1>1. CASE RunCheckpoint(t)
  <2>1. PICK c \in calls[t] :
          /\ c.kind = "checkpoint"
          /\ Holds(t, {"checkpoint"})
          /\ \E o \in CheckpointOutcomes(c.session) :
              /\ Checkpoint(t, c.session, o)
              /\ CheckpointReply(t, c, o.status, o.progress.active)
              /\ Settle(t, o)
              /\ UNCHANGED writings
    BY <1>1 DEF RunCheckpoint
  <2>2. PICK o \in CheckpointOutcomes(c.session) :
          /\ Checkpoint(t, c.session, o)
          /\ CheckpointReply(t, c, o.status, o.progress.active)
          /\ Settle(t, o)
          /\ UNCHANGED writings
    BY <2>1
  <2>3. c \in Call /\ c.session \in Session
    BY <2>1, CallTypes DEF JInv, PagesOK
  <2>4. job # NoJob /\ c.session.rev < MaxRev /\ job' = NoJob
    BY <2>1, <2>2 DEF Holds, Checkpoint, Finish
  <2>5. o.progress \in Progress
    BY <2>3, <2>4, CheckpointProgress DEF JInv
  <2>6. o.progress.active \in Session \union {NoSession}
    BY <2>5 DEF Progress
  <2>7. PagesOK'
    BY <2>1, <2>2, <2>3, <2>6, Replies
  <2>8. EventsOK'
    BY <2>2, <2>5, SettleEvents, WritingSteps DEF JInv, EventsOK
  <2> QED  BY <2>4, <2>7, <2>8, StillCounted DEF JInv, PageInv
<1>2. CASE RunCompletion(t)
  <2>1. PICK c \in calls[t] :
          /\ c.kind = "complete"
          /\ Holds(t, {"complete"})
          /\ \E o \in CompleteOutcomes(c.result) :
              /\ Complete(t, c.result, o)
              /\ CompleteReply(t, c, o.status)
              /\ Settle(t, o)
    BY <1>2 DEF RunCompletion
  <2>2. PICK o \in CompleteOutcomes(c.result) :
          /\ Complete(t, c.result, o)
          /\ CompleteReply(t, c, o.status)
          /\ Settle(t, o)
    BY <2>1
  <2>3. c \in Call /\ c.result \in Result
    BY <2>1, CallTypes DEF JInv, PagesOK
  <2>4. job # NoJob /\ job' = NoJob
    BY <2>1, <2>2 DEF Holds, Complete, Finish
  <2>5. o.progress \in Progress
    BY <2>3, <2>4, CompleteProgress DEF JInv
  <2>6. PagesOK' /\ WritingsOK'
    BY <2>2, Completions
  <2>7. EventsOK'
    BY <2>2, <2>5, <2>6, SettleEvents DEF JInv
  <2> QED  BY <2>4, <2>6, <2>7, StillCounted DEF JInv, PageInv
<1> QED  BY <1>1, <1>2

\* The page that has the lock for a launch has that launch on its list.
LEMMA CountedHere ==
    ASSUME JInv, NEW t \in Tab, NEW stages \in SUBSET LaunchStages,
           Holds(t, stages)
    PROVE  launches[t] > 0 /\ job # NoJob /\ job.progress \in Progress
<1>1. Holds(t, LaunchStages)
  BY DEF Holds
<1>2. job # NoJob
  BY DEF Holds
<1> QED  BY <1>1, <1>2 DEF JInv, LaunchCounted, TypeInv, ValidProgress

LEMMA LaunchLeaves ==
    ASSUME JInv, NEW t \in Tab, NEW stages \in SUBSET LaunchStages,
           Holds(t, stages), NEW v \in View, Idle(v), HasLesson(v),
           Leave(t, v, calls[t]), Dequeue(t)
    PROVE  PagesOK'
<1>1. Launches(t, launches[t] - 1) /\ calls[t] \in SUBSET Call
  BY CountedHere, LaunchSteps DEF JInv, PagesOK
<1> QED  BY <1>1, LeavePages DEF JInv

LEMMA LaunchUnavailable ==
    ASSUME JInv, NEW t \in Tab, NEW stages \in SUBSET LaunchStages,
           Holds(t, stages), Unavailable(t, TRUE), Dequeue(t)
    PROVE  PagesOK'
<1> DEFINE w == [Away(view[t], "load_error") EXCEPT
                   !.shown = NoSession, !.launching = FALSE,
                   !.retryable = TRUE]
<1>1. view[t] \in View /\ TRUE \in BOOLEAN
  BY DEF JInv, PagesOK
<1>2. w \in View /\ Idle(w) /\ HasLesson(w)
  BY <1>1, AwayStates
<1>3. Leave(t, w, calls[t])
  BY DEF Unavailable
<1> HIDE DEF w
<1> QED  BY <1>2, <1>3, LaunchLeaves

LEMMA LaunchEnters ==
    ASSUME JInv, NEW t \in Tab, NEW stages \in SUBSET LaunchStages,
           Holds(t, stages), NEW s \in Session, Enter(t, s), Dequeue(t)
    PROVE  PagesOK'
<1>1. Launches(t, launches[t] - 1)
  BY CountedHere, LaunchSteps DEF JInv
<1> QED  BY <1>1, EnterPages DEF JInv

LEMMA Prepares ==
    ASSUME JInv, NEW t \in Tab, PrepareLaunch(t)
    PROVE  PageInv'
<1>1. /\ UNCHANGED <<seen, view, calls, launches, writings, visits, faults>>
      /\ dirty' = dirty \/ Notify(t)
  BY DEF PrepareLaunch, pageVars
<1>2. PagesOK'
  BY <1>1 DEF JInv, PagesOK, NeverStranded
<1>3. EventsOK'
  BY <1>1 DEF JInv, EventsOK, WritingsOK, Notify
<1>4. job # NoJob /\ job \in Job /\ Holds(t, LaunchStages)
  BY DEF PrepareLaunch, Reload, ReconcileUnchanged, ReconcileSave, Holds,
         LaunchStages, JInv, TypeInv, TypeOK
<1>5. job'.tab = t
  BY <1>4 DEF PrepareLaunch, Reload, ReconcileUnchanged, ReconcileSave, Holds,
              Job
<1>6. LaunchCounted'
  BY <1>1, <1>4, <1>5 DEF LaunchCounted, Holds, JInv
<1> QED  BY <1>2, <1>3, <1>6 DEF PageInv

LEMMA Launched ==
    ASSUME JInv, NEW t \in Tab,
           \/ LaunchFailed(t) \/ LaunchResumed(t)
           \/ LaunchBegun(t) \/ LaunchRested(t)
    PROVE  PageInv'
<1> DEFINE p == job.progress
<1>1. /\ {"plan"} \in SUBSET LaunchStages
      /\ {"reconcile", "reconcile_again"} \in SUBSET LaunchStages
  BY DEF LaunchStages
<1>0. WritingsOK'
  BY WritingSteps DEF LaunchFailed, LaunchResumed, LaunchBegun, LaunchRested,
                      JInv, EventsOK
<1> SUFFICES ASSUME NEW o, o.progress \in Progress, Settle(t, o),
                    job' = NoJob, PagesOK'
             PROVE  PageInv'
  <2>1. CASE LaunchFailed(t)
    <3>1. Holds(t, {"reconcile", "reconcile_again"})
      BY <2>1 DEF LaunchFailed
    <3>2. p \in Progress /\ job # NoJob
      BY <1>1, <3>1, CountedHere
    <3>3. PICK o \in Persist(Reconcile(p)) : ReconcileFailed(t, o) /\ Settle(t, o)
      BY <2>1 DEF LaunchFailed
    <3>4. o.progress \in Progress
      BY <3>2, PersistProgress, ReconcileProgress DEF JInv
    <3>5. job' = NoJob
      BY <3>3 DEF ReconcileFailed, Finish
    <3>6. PagesOK'
      BY <1>1, <2>1, <3>1, LaunchUnavailable DEF LaunchFailed
    <3> QED  BY <3>3, <3>4, <3>5, <3>6
  <2>2. CASE LaunchResumed(t)
    <3>1. /\ Holds(t, {"plan"}) /\ p.active # NoSession
          /\ job' = NoJob
          /\ Settle(t, Unsaved("resume"))
      BY <2>2 DEF LaunchResumed, Resume, Finish
    <3>2. p \in Progress
      BY <1>1, <3>1, CountedHere
    <3>3. Unsaved("resume").progress \in Progress
      BY <3>2 DEF Unsaved, Outcome
    <3>4. p.active \in Session
      BY <3>1, <3>2 DEF Progress
    <3>5. PagesOK'
      BY <1>1, <2>2, <3>1, <3>4, LaunchEnters DEF LaunchResumed
    <3> QED  BY <3>1, <3>3, <3>5
  <2>3. CASE LaunchBegun(t)
    <3>1. Holds(t, {"plan"})
      BY <2>3 DEF LaunchBegun
    <3>2. p \in Progress /\ job # NoJob
      BY <1>1, <3>1, CountedHere
    <3>3. PICK id \in SessionId :
            \E o \in Persist([p EXCEPT !.active = NewSession(id)]) :
              /\ Begin(t, id, o)
              /\ IF o.status \in Failures
                 THEN Unavailable(t, TRUE)
                 ELSE Enter(t, IF o.progress.active = NoSession
                               THEN NewSession(id)
                               ELSE o.progress.active)
              /\ Settle(t, o)
      BY <2>3 DEF LaunchBegun
    <3>4. PICK o \in Persist([p EXCEPT !.active = NewSession(id)]) :
            /\ Begin(t, id, o)
            /\ IF o.status \in Failures
               THEN Unavailable(t, TRUE)
               ELSE Enter(t, IF o.progress.active = NoSession
                             THEN NewSession(id)
                             ELSE o.progress.active)
            /\ Settle(t, o)
      BY <3>3
    <3>5. [p EXCEPT !.active = NewSession(id)] \in Progress
      BY <3>2, NewSessionType, WithActive
    <3>6. o.progress \in Progress
      BY <3>2, <3>5, PersistProgress DEF JInv
    <3>7. job' = NoJob /\ Dequeue(t)
      BY <2>3, <3>4 DEF LaunchBegun, Begin, Finish
    <3>8. PagesOK'
      <4>1. CASE Unavailable(t, TRUE)
        BY <1>1, <3>1, <3>7, <4>1, LaunchUnavailable
      <4>2. ASSUME NEW s \in Session, Enter(t, s) PROVE PagesOK'
        BY <1>1, <3>1, <3>7, <4>2, LaunchEnters
      <4>3. o.progress.active \in Session \union {NoSession}
        BY <3>6 DEF Progress
      <4> QED  BY <3>4, <4>1, <4>2, <4>3, NewSessionType
    <3> QED  BY <3>4, <3>6, <3>7, <3>8
  <2>4. CASE LaunchRested(t)
    <3>1. Holds(t, {"plan"})
      BY <2>4 DEF LaunchRested
    <3>2. p \in Progress /\ job # NoJob
      BY <1>1, <3>1, CountedHere
    <3>3. PICK o \in Persist(p) : Rest(t, o) /\ Settle(t, o)
      BY <2>4 DEF LaunchRested
    <3>4. o.progress \in Progress
      BY <3>2, PersistProgress DEF JInv
    <3>5. job' = NoJob
      BY <3>3 DEF Rest, Finish
    <3> DEFINE w == [Away(view[t], "rest") EXCEPT !.launching = FALSE]
    <3>6. view[t] \in View
      BY DEF JInv, PagesOK
    <3>7. w \in View /\ Idle(w) /\ HasLesson(w)
      BY <3>6, AwayStates
    <3>8. Leave(t, w, calls[t]) /\ Dequeue(t)
      BY <2>4 DEF LaunchRested
    <3> HIDE DEF w
    <3>9. PagesOK'
      BY <1>1, <3>1, <3>7, <3>8, LaunchLeaves
    <3> QED  BY <3>3, <3>4, <3>5, <3>9
  <2> QED  BY <2>1, <2>2, <2>3, <2>4
<1>2. EventsOK'
  BY <1>0, SettleEvents DEF JInv
<1> QED  BY <1>2, StillCounted DEF JInv, PageInv

LEMMA Refusals ==
    ASSUME JInv, NEW t \in Tab, NEW retryable \in BOOLEAN,
           RefuseCall(t, retryable) \/ RefuseLaunch(t, retryable)
    PROVE  PageInv'
<1>1. Refused(t, retryable)
  BY DEF RefuseCall, RefuseLaunch
<1>2. job' = job /\ ~Holds(t, Stages) /\ UNCHANGED <<seen, dirty, visits>>
  BY <1>1 DEF Refused, vars
<1>3. ASSUME WritingsOK' PROVE EventsOK'
  <2>1. faults' \in 0..MaxFaults
    BY <1>1, JourneyAssumption DEF Refused, JInv, EventsOK
  <2> QED  BY <1>2, <1>3, <2>1 DEF JInv, EventsOK
<1>4. CASE RefuseCall(t, retryable)
  <2>1. PICK c \in calls[t] :
          \/ /\ c.kind = "checkpoint"
             /\ CheckpointReply(t, c, "storage_error", seen[t])
             /\ UNCHANGED writings
          \/ /\ c.kind = "complete"
             /\ CompleteFailed(t, c, retryable)
    BY <1>4 DEF RefuseCall
  <2>2. c \in Call /\ seen[t] \in Session \union {NoSession}
    BY DEF JInv, PagesOK, EventsOK
  <2>3. PagesOK' /\ NoneTaken /\ WritingsOK'
    <3>1. CASE /\ c.kind = "checkpoint"
               /\ CheckpointReply(t, c, "storage_error", seen[t])
               /\ UNCHANGED writings
      BY <2>2, <3>1, Replies, WritingSteps DEF JInv, EventsOK
    <3>2. CASE CompleteFailed(t, c, retryable)
      BY <3>2, Failed
    <3> QED  BY <2>1, <3>1, <3>2
  <2> QED  BY <1>2, <1>3, <2>3, StillCounted DEF JInv, PageInv
<1>5. CASE RefuseLaunch(t, retryable)
  <2> DEFINE w == [Away(view[t], "load_error") EXCEPT
                     !.shown = NoSession, !.launching = FALSE,
                     !.retryable = retryable]
  <2>1. Launches(t, launches[t] - 1) /\ Dequeue(t)
    BY <1>5, LaunchSteps DEF RefuseLaunch, JInv
  <2>2. view[t] \in View /\ calls[t] \in SUBSET Call
    BY DEF JInv, PagesOK
  <2>3. w \in View /\ Idle(w) /\ HasLesson(w)
    BY <2>2, AwayStates
  <2>4. Leave(t, w, calls[t])
    BY <1>5 DEF RefuseLaunch, Unavailable
  <2> HIDE DEF w
  <2>5. PagesOK'
    BY <2>1, <2>2, <2>3, <2>4, LeavePages DEF JInv
  <2>6. WritingsOK'
    BY <2>1, WritingSteps DEF JInv, EventsOK
  <2>7. LaunchCounted'
    <3> SUFFICES ASSUME NEW u \in Tab, Holds(u, LaunchStages)'
                 PROVE  launches'[u] > 0
      BY DEF LaunchCounted
    <3>1. Holds(u, LaunchStages) /\ u # t
      BY <1>2 DEF Holds, LaunchStages, Stages
    <3> QED  BY <2>1, <3>1 DEF Launches, JInv, PagesOK, LaunchCounted
  <2> QED  BY <1>3, <2>5, <2>6, <2>7 DEF PageInv
<1> QED  BY <1>4, <1>5

-----------------------------------------------------------------------------
(* Every step of the pages is a step of the record, or none.               *)

LEMMA JourneyInitInv == JourneyInit => JInv
<1> SUFFICES ASSUME JourneyInit PROVE JInv
  OBVIOUS
<1>1. TypeInv
  BY TypeInit DEF JourneyInit
<1>2. PagesOK /\ EventsOK
  BY ClosedType, JourneyAssumption
     DEF JourneyInit, PagesOK, EventsOK, WritingsOK, NeverStranded, Closed
<1>3. LaunchCounted
  BY DEF JourneyInit, Init, LaunchCounted, Holds
<1> QED  BY <1>1, <1>2, <1>3 DEF JInv

LEMMA OperationSteps ==
    ASSUME JInv, NEW t \in Tab, Operate(t)
    PROVE  Next
<1>1. CASE RunCheckpoint(t)
  <2>1. PICK c \in calls[t] :
          /\ c.kind = "checkpoint"
          /\ Holds(t, {"checkpoint"})
          /\ \E o \in CheckpointOutcomes(c.session) :
                Checkpoint(t, c.session, o)
    BY <1>1 DEF RunCheckpoint
  <2>2. c.session \in Session
    BY <2>1, CallTypes DEF JInv, PagesOK
  <2> QED  BY <2>1, <2>2 DEF Next
<1>2. CASE RunCompletion(t)
  <2>1. PICK c \in calls[t] :
          /\ c.kind = "complete"
          /\ Holds(t, {"complete"})
          /\ \E o \in CompleteOutcomes(c.result) : Complete(t, c.result, o)
    BY <1>2 DEF RunCompletion
  <2>2. c.result \in Result
    BY <2>1, CallTypes DEF JInv, PagesOK
  <2> QED  BY <2>1, <2>2 DEF Next
<1>3. CASE PrepareLaunch(t) \/ LaunchFailed(t)
  BY <1>3 DEF PrepareLaunch, LaunchFailed, Next
<1>4. CASE LaunchResumed(t)
  BY <1>4 DEF LaunchResumed, Next
<1>5. CASE LaunchBegun(t)
  BY <1>5 DEF LaunchBegun, Next
<1>6. CASE LaunchRested(t)
  BY <1>6 DEF LaunchRested, Next
<1> QED  BY <1>1, <1>2, <1>3, <1>4, <1>5, <1>6 DEF Operate

LEMMA StepsOfTheRecord ==
    ASSUME JInv, [JourneyNext]_journeyVars
    PROVE  [Next]_vars
<1>1. ASSUME NEW t \in Tab, Operate(t) PROVE Next
  BY <1>1, OperationSteps
<1>2. ASSUME NEW t \in Tab, OpenPage(t) PROVE UNCHANGED vars
  BY <1>2 DEF OpenPage, vars
<1>3. ASSUME NEW t \in Tab, Crash(t) PROVE [Next]_vars
  BY <1>3 DEF Crash, Next
<1>4. ASSUME NEW t \in Tab,
             \/ Learn(t) \/ FinishWriting(t)
             \/ \E a \in Answer : Select(t, a)
             \/ \E h \in Help : RequestAssistance(t, h)
      PROVE  UNCHANGED vars
  BY <1>4 DEF Learn, Select, Submit, NextQuestion, CompleteLesson,
              LeaveWithoutSession, Retry, FinishWriting, LeaveParent,
              RequestAssistance, Act, vars
<1>5. ASSUME NEW t \in Tab,
             \/ OpenParent(t) \/ WakeUp(t)
             \/ StorageEvent(t) \/ ScheduleWriting(t)
      PROVE  UNCHANGED vars
  BY <1>5 DEF OpenParent, WakeUp, StorageEvent, ScheduleWriting, vars
<1>6. ASSUME NEW t \in Tab, NEW kind \in {"checkpoint", "complete", "launch"},
             Grant(t, kind)
      PROVE  Next
  BY <1>6 DEF Grant, Next
<1>7. ASSUME NEW t \in Tab, NEW retryable \in BOOLEAN,
             RefuseCall(t, retryable) \/ RefuseLaunch(t, retryable)
      PROVE  UNCHANGED vars
  BY <1>7 DEF RefuseCall, RefuseLaunch, Refused, vars
<1>8. ASSUME Foreign PROVE Next
  BY <1>8 DEF Foreign, Next
<1>9. CASE UNCHANGED journeyVars
  BY <1>9 DEF journeyVars
<1> QED
  BY <1>1, <1>2, <1>3, <1>4, <1>5, <1>6, <1>7, <1>8, <1>9 DEF JourneyNext

LEMMA JourneyStep == JInv /\ [JourneyNext]_journeyVars => JInv'
<1> SUFFICES ASSUME JInv, [JourneyNext]_journeyVars PROVE JInv'
  OBVIOUS
<1>1. TypeInv'
  BY StepsOfTheRecord, TypeStep DEF JInv
<1>2. ASSUME NEW t \in Tab, Learn(t) \/ FinishWriting(t) PROVE PageInv'
  BY <1>2, Answers, Ends, Writing, ParentRoute DEF Learn
<1>3. ASSUME NEW t \in Tab, Operate(t) PROVE PageInv'
  BY <1>3, RunCalls, Prepares, Launched DEF Operate
<1>4. ASSUME Foreign PROVE PageInv'
  <2>1. /\ UNCHANGED <<job, seen, view, calls, launches, writings, visits>>
        /\ dirty' = [t \in Tab |-> dirty[t] \/ view[t].screen # "closed"]
        /\ faults < MaxFaults /\ faults' = faults + 1
    BY <1>4 DEF Foreign, ForeignWrite
  <2>2. dirty' \in [Tab -> BOOLEAN] /\ faults' \in 0..MaxFaults
    BY <2>1, JourneyAssumption DEF JInv, EventsOK, PagesOK
  <2>3. EventsOK'
    BY <2>1, <2>2 DEF JInv, EventsOK, WritingsOK
  <2>4. PagesOK' /\ LaunchCounted'
    BY <2>1 DEF JInv, PagesOK, LaunchCounted, NeverStranded, Holds
  <2> QED  BY <2>3, <2>4 DEF PageInv
<1>5. ASSUME UNCHANGED journeyVars PROVE PageInv'
  <2>1. Still /\ UNCHANGED <<view, calls, launches>>
    BY <1>5 DEF journeyVars, vars, pageVars, Still
  <2>2. PagesOK'
    BY <2>1 DEF JInv, PagesOK, NeverStranded
  <2>3. NoneTaken
    BY <2>1, JourneyAssumption DEF NoneTaken, JInv, PagesOK
  <2> QED  BY <2>1, <2>2, <2>3, QuietStill
<1>6. ASSUME JourneyNext PROVE PageInv'
  <2>1. ASSUME NEW t \in Tab, OpenPage(t) \/ Crash(t) PROVE PageInv'
    BY <2>1, OpenOrCrash
  <2>2. ASSUME NEW t \in Tab,
               \/ OpenParent(t) \/ WakeUp(t)
               \/ StorageEvent(t) \/ ScheduleWriting(t)
        PROVE  PageInv'
    BY <2>2, BrowserEvents, ParentRoute, Writing
  <2>3. ASSUME NEW t \in Tab,
               \/ \E a \in Answer : Select(t, a)
               \/ \E h \in Help : RequestAssistance(t, h)
        PROVE  PageInv'
    BY <2>3, Answers
  <2>4. ASSUME NEW t \in Tab,
               \E kind \in {"checkpoint", "complete", "launch"} : Grant(t, kind)
        PROVE  PageInv'
    BY <2>4, GrantedLock
  <2>5. ASSUME NEW t \in Tab,
               \E retryable \in BOOLEAN :
                  RefuseCall(t, retryable) \/ RefuseLaunch(t, retryable)
        PROVE  PageInv'
    BY <2>5, Refusals
  <2> QED
    BY <1>2, <1>3, <1>4, <1>6, <2>1, <2>2, <2>3, <2>4, <2>5 DEF JourneyNext
<1>7. PageInv'
  BY <1>5, <1>6
<1> QED  BY <1>1, <1>7 DEF JInv, PageInv

\* The app at work, with its screens, launches, retries, storage events and
\* crashes, does to the record only what QuestProgress allows: what is
\* promised of the record there holds of the whole app.
THEOREM JourneyKeepsRecordRules == JourneySpec => Spec
<1>1. JourneyInit => Init
  BY DEF JourneyInit
<1> QED
  BY <1>1, JourneyInitInv, JourneyStep, StepsOfTheRecord, PTL
  DEF JourneySpec, Spec

\* Every value the pages hold, show or send has its type.
THEOREM JourneyTypes == JourneySpec => []JourneyTypeOK
<1>1. JInv => JourneyTypeOK
  BY DEF JInv, TypeInv, PagesOK, EventsOK, WritingsOK, JourneyTypeOK
<1> QED  BY <1>1, JourneyInitInv, JourneyStep, PTL DEF JourneySpec

\* No order of replies, retries, refusals, crashes, storage events, changes
\* of route and turns of writing leaves a page on the loading screen, or on
\* the resting screen or the parent gate with its launch guard up, with no
\* launch under way, or on a lesson screen without a lesson.
THEOREM PagesNeverStranded == JourneySpec => []NeverStranded
<1>1. JInv => NeverStranded
  BY DEF JInv, PagesOK
<1> QED  BY <1>1, JourneyInitInv, JourneyStep, PTL DEF JourneySpec

\* So in the whole app no session is rewarded twice, no accepted answer is
\* taken away, no open session is dropped, every reward is for the answers on
\* record, a record that cannot be read is left alone and the ledger is kept.
\* The records of LessonJourney hold no old demo totals (JourneyAssumption).
THEOREM JourneyKeepsPromises ==
    JourneySpec =>
        /\ []CreditedOnce
        /\ AcceptedWorkKept
        /\ SessionNeverLost
        /\ RewardMatchesAnswers
        /\ UnreadableKept
        /\ KeepsLedger
<1>1. CleanUpUndisturbed
  BY JourneyAssumption DEF CleanUpUndisturbed
<1> QED
  BY <1>1, JourneyKeepsRecordRules, RewardedOnce, AcceptedWorkIsKept,
     SessionIsNeverLost, RewardsMatchAnswers, UnreadableNeverOverwritten,
     RecordImplementsLedger

=============================================================================
