---------------------------- MODULE LessonJourney ---------------------------
(***************************************************************************)
(* Pages of the app at work on one saved record: the app shell (which      *)
(* screen is up, the parent route, launches, retries, storage events, the  *)
(* turn of the writing pilot) and the lesson screen (answers, feedback,    *)
(* help, the checkpoints it sends), composed with the store, lock and hook *)
(* of QuestProgress.                                                       *)
(*                                                                         *)
(* A page is single-threaded: while it holds the lock its own handlers do  *)
(* not run.  An operation asked of the hook waits in calls or launches     *)
(* until the lock is granted, and its reply is handled in the step that    *)
(* finishes it: the continuation runs before any other task of the page,   *)
(* and other pages change nothing it reads.                                *)
(***************************************************************************)
EXTENDS QuestProgress

CONSTANTS
    WritingEnabled,  \* settings.enabled of the writing pilot
    MaxVisits,       \* bound: times #/parent is opened
    MaxFaults,       \* bound: storage errors, lock time-outs, page crashes
                     \* and writes by anything else
    MaxLaunches      \* bound: journey launches of one page waiting at once

\* The record of a journey holds no old demo totals: their clean-up is
\* checked, and proved, with the store alone in QuestProgress.
ASSUME JourneyAssumption ==
    /\ ~LegacySeed
    /\ WritingEnabled \in BOOLEAN
    /\ MaxVisits \in Nat /\ MaxFaults \in Nat /\ MaxLaunches \in Nat \ {0}

VARIABLES
    seen,       \* per page, the open session in the hook's progressRef
    view,       \* per page, what the app shell and the lesson screen hold
    calls,      \* per page, checkpoints and completions waiting for the lock
    launches,   \* per page, journey launches waiting for the lock
    writings,   \* per page, writing to schedule, by the launches it awaits
    dirty,      \* per page, a storage event is waiting
    visits,     \* visits of the parent route so far
    faults      \* faults so far

pageVars == <<seen, view, calls, launches, writings, dirty, visits, faults>>
journeyVars == <<vars, pageVars>>

Screens == {"closed", "loading", "lesson_run", "writing_pilot", "rest",
            "load_error", "parent_gate"}

\* parent: the address is #/parent; launching: journeyLaunchPendingRef;
\* shown: the session of lessonState, if it has a lesson; ref: the lesson
\* screen's sessionRef; sent: completionSentRef.  The step is "feedback"
\* exactly when evals holds an evaluation of the current question.
View == [screen : Screens, parent : BOOLEAN, launching : BOOLEAN,
         retryable : BOOLEAN,
         shown : Session \union {NoSession}, ref : Session \union {NoSession},
         index : Question, evals : [Question -> Answer \union {NoAnswer}],
         selected : Answer \union {NoAnswer}, assist : SUBSET Help,
         sent : BOOLEAN]

Closed == [screen |-> "closed", parent |-> FALSE, launching |-> FALSE,
           retryable |-> TRUE, shown |-> NoSession, ref |-> NoSession, index |-> 1,
           evals |-> [q \in Question |-> NoAnswer], selected |-> NoAnswer,
           assist |-> {}, sent |-> FALSE]

\* live: the screen that made the call is still up to hear its reply.
Call == [kind : {"checkpoint"}, session : Session, live : BOOLEAN]
        \union [kind : {"complete"}, result : Result, live : BOOLEAN]

CheckpointCall(s) == [kind |-> "checkpoint", session |-> s, live |-> TRUE]
CompleteCall(r) == [kind |-> "complete", result |-> r, live |-> TRUE]

Orphaned(cs) == {[c EXCEPT !.live = FALSE] : c \in cs}

\* checkpointPending: the controls are disabled.
Pending(t) == view[t].sent \/ \E c \in calls[t] : c.live

\* Mutant: the controls stay enabled while a checkpoint waits.
ReadyAtOnce(t) ==
    view[t].screen = "lesson_run" /\ ~view[t].sent /\ ~Holds(t, Stages)

Ready(t) == view[t].screen = "lesson_run" /\ ~Pending(t) /\ ~Holds(t, Stages)

Feedback(v) == v.evals[v.index] # NoAnswer

-----------------------------------------------------------------------------
\* The lesson screen mounts from the session it is given; it is keyed by
\* session id and revision, so the same key keeps what it already shows.
Mounted(v, s) ==
    [v EXCEPT !.screen = "lesson_run", !.shown = s, !.ref = s,
              !.index = s.index, !.evals = s.submitted,
              !.selected = IF /\ s.draft # NoDraft
                              /\ s.draft.question = s.index
                           THEN s.draft.answer ELSE NoAnswer,
              !.assist = s.assist, !.sent = FALSE]

\* Mutant: the screen is keyed by session id alone.
SameSession(v, s) == v.screen = "lesson_run" /\ v.shown.id = s.id

SameKey(v, s) == /\ v.screen = "lesson_run"
                 /\ v.shown.id = s.id /\ v.shown.rev = s.rev

\* setLessonState with another session, on what lesson there is.
Show(t, v, s, cs) ==
    IF v.screen = "lesson_run" /\ ~SameKey(v, s)
    THEN /\ view' = [view EXCEPT ![t] = Mounted(v, s)]
         /\ calls' = [calls EXCEPT ![t] = Orphaned(cs)]
    ELSE /\ view' = [view EXCEPT ![t] =
                       [v EXCEPT !.shown = IF @ = NoSession THEN @ ELSE s]]
         /\ calls' = [calls EXCEPT ![t] = cs]

\* A page under another screen: the lesson screen and what it held are gone,
\* the address and lessonState stay.  The effect on a changed screen clears
\* the launch guard.
Away(v, screen) ==
    [Closed EXCEPT !.screen = screen, !.parent = v.parent, !.shown = v.shown,
                   !.launching = v.launching /\ v.screen = screen]

\* Mutant: the launch guard is not cleared with the screen.
LeaveGuarded(t, v, cs) ==
    /\ view' = [view EXCEPT ![t] = [v EXCEPT !.launching = TRUE]]
    /\ calls' = [calls EXCEPT ![t] = Orphaned(cs)]

\* setScreen to anything but the lesson: the lesson screen unmounts.
Leave(t, v, cs) ==
    /\ view' = [view EXCEPT ![t] = v]
    /\ calls' = [calls EXCEPT ![t] = Orphaned(cs)]

\* setLessonState and setScreen to the session a launch has found, or first
\* to writing that is pending.  A lesson replaced by another keeps the guard.
Enter(t, s) ==
    LET v == view[t] IN
    \/ /\ SameKey(v, s)
       /\ view' = [view EXCEPT ![t].shown = s]
       /\ UNCHANGED calls
    \/ /\ ~SameKey(v, s)
       /\ Leave(t, [Mounted(v, s) EXCEPT !.launching =
                      @ /\ v.screen = "lesson_run"], calls[t])
    \/ /\ WritingEnabled
       /\ Leave(t, Away([v EXCEPT !.shown = s], "writing_pilot"), calls[t])

\* A launch that is "unavailable".
Unavailable(t, retryable) ==
    Leave(t, [Away(view[t], "load_error") EXCEPT
                !.shown = NoSession, !.launching = FALSE,
                !.retryable = retryable], calls[t])

\* Launches beyond the bound are merged with those waiting.
Queue(t) ==
    launches' = [launches EXCEPT ![t] = IF @ < MaxLaunches THEN @ + 1 ELSE @]

\* The oldest launch is over.
Dequeue(t) ==
    /\ launches' = [launches EXCEPT ![t] = @ - 1]
    /\ writings' = [writings EXCEPT ![t] =
                      {n - 1 : n \in @ \ {0}} \union (@ \intersect {0})]

\* launchCurrentJourney from a screen that stays up.
LaunchFrom(t, v, cs) ==
    /\ Queue(t)
    /\ view' = [view EXCEPT ![t] = [v EXCEPT !.launching = TRUE]]
    /\ calls' = [calls EXCEPT ![t] = cs]

Keep(t, v, cs) ==
    /\ view' = [view EXCEPT ![t] = v]
    /\ calls' = [calls EXCEPT ![t] = cs]
    /\ UNCHANGED launches

\* Every other open page gets a storage event when the record changes.
Notify(t) ==
    dirty' = [u \in Tab |-> \/ dirty[u]
                            \/ /\ durable' # durable /\ u # t
                               /\ view[u].screen # "closed"]

\* A storage error uses up one fault.
Charge(o) ==
    /\ o.status = "storage_error" => faults < MaxFaults
    /\ faults' = faults + IF o.status = "storage_error" THEN 1 ELSE 0

\* What every operation does to the pages besides its reply.
Settle(t, o) ==
    /\ seen' = [seen EXCEPT ![t] = o.progress.active]
    /\ Notify(t)
    /\ Charge(o)
    /\ UNCHANGED visits

-----------------------------------------------------------------------------
JourneyInit ==
    /\ Init
    /\ seen = [t \in Tab |-> NoSession]
    /\ view = [t \in Tab |-> Closed]
    /\ calls = [t \in Tab |-> {}]
    /\ launches = [t \in Tab |-> 0]
    /\ writings = [t \in Tab |-> {}]
    /\ dirty = [t \in Tab |-> FALSE]
    /\ visits = 0
    /\ faults = 0

Visit == visits < MaxVisits /\ visits' = visits + 1

OpenPage(t) ==
    /\ view[t].screen = "closed"
    /\ \/ /\ Queue(t)
          /\ view' = [view EXCEPT ![t].screen = "loading",
                                  ![t].launching = TRUE]
          /\ UNCHANGED visits
       \/ /\ Visit
          /\ view' = [view EXCEPT ![t].screen = "parent_gate",
                                  ![t].parent = TRUE, ![t].launching = FALSE]
          /\ UNCHANGED launches
    /\ seen' = [seen EXCEPT ![t] = Reconcile(State(durable)).active]
    /\ UNCHANGED <<vars, calls, writings, dirty, faults>>

Crash(t) ==
    /\ view[t].screen # "closed"
    /\ faults < MaxFaults
    /\ \/ Close(t)
       \/ ~Holds(t, Stages) /\ UNCHANGED vars
    /\ view' = [view EXCEPT ![t] = Closed]
    /\ seen' = [seen EXCEPT ![t] = NoSession]
    /\ calls' = [calls EXCEPT ![t] = {}]
    /\ launches' = [launches EXCEPT ![t] = 0]
    /\ writings' = [writings EXCEPT ![t] = {}]
    /\ dirty' = [dirty EXCEPT ![t] = FALSE]
    /\ faults' = faults + 1
    /\ UNCHANGED visits

-----------------------------------------------------------------------------
\* The learner's actions.  Each changes the screen at once and sends the
\* checkpoint built on sessionRef, if there is one.
Act(t, v, checkpoint) ==
    /\ v.ref # NoSession => v.ref.rev < MaxRev
    /\ Keep(t, v, IF v.ref = NoSession THEN calls[t]
                  ELSE calls[t] \union {CheckpointCall(checkpoint)})
    /\ UNCHANGED <<vars, seen, writings, dirty, visits, faults>>

Select(t, a) ==
    LET v == view[t] IN
    /\ Ready(t)
    /\ ~Feedback(v)
    /\ v.selected # a
    /\ Act(t, [v EXCEPT !.selected = a], DraftCheckpoint(v.ref, v.index, a))

Submit(t) ==
    LET v == view[t] IN
    /\ Ready(t)
    /\ ~Feedback(v)
    /\ v.selected # NoAnswer
    /\ v.ref # NoSession => v.index \notin Answered(v.ref)
    /\ Act(t, [v EXCEPT !.evals[v.index] = v.selected],
              SubmitCheckpoint(v.ref, v.index, v.selected))

\* Mutant: Next on the last question goes on like any other.
NextPastTheEnd(t) ==
    LET v == view[t] IN
    /\ Ready(t)
    /\ Feedback(v)
    /\ Act(t, [v EXCEPT !.index = @ + 1, !.selected = NoAnswer],
              AdvanceCheckpoint(v.ref, v.index + 1))

NextQuestion(t) ==
    LET v == view[t] IN
    /\ Ready(t)
    /\ Feedback(v)
    /\ v.index < NQ
    /\ Act(t, [v EXCEPT !.index = @ + 1, !.selected = NoAnswer],
              AdvanceCheckpoint(v.ref, v.index + 1))

RequestAssistance(t, h) ==
    LET v == view[t]
        events == v.assist \union {h} IN
    /\ Ready(t)
    /\ h \notin v.assist
    /\ Act(t, [v EXCEPT !.assist = events],
              [v.ref EXCEPT !.assist = events])

\* Next on the last question: the result is built from the screen's own
\* evaluations and sent with the revision of sessionRef.
ScreenResult(v) ==
    [id |-> v.ref.id, rev |-> v.ref.rev,
     graded |-> [q \in Question |-> v.evals[q] \in Correct],
     assisted |-> Cardinality(v.assist), practice |-> {}]

CompleteLesson(t) ==
    LET v == view[t] IN
    /\ Ready(t)
    /\ Feedback(v)
    /\ v.index = NQ
    /\ v.ref # NoSession
    /\ Keep(t, [v EXCEPT !.sent = TRUE],
               calls[t] \union {CompleteCall(ScreenResult(v))})
    /\ UNCHANGED <<vars, seen, writings, dirty, visits, faults>>

\* ... or, with no session to complete, back to a fresh launch.
LeaveWithoutSession(t) ==
    /\ Ready(t)
    /\ Feedback(view[t])
    /\ view[t].index = NQ
    /\ view[t].ref = NoSession
    /\ Queue(t)
    /\ Leave(t, Away(view[t], "loading"), calls[t])
    /\ UNCHANGED <<vars, seen, writings, dirty, visits, faults>>

\* Mutant: the loading screen comes up, but no launch is asked for.
RetryUnqueued(t) ==
    /\ view[t].screen = "load_error"
    /\ view[t].retryable
    /\ ~Holds(t, Stages)
    /\ Leave(t, Away(view[t], "loading"), calls[t])
    /\ UNCHANGED <<vars, seen, launches, writings, dirty, visits, faults>>

Retry(t) ==
    /\ view[t].screen = "load_error"
    /\ view[t].retryable
    /\ ~Holds(t, Stages)
    /\ Queue(t)
    /\ Leave(t, Away(view[t], "loading"), calls[t])
    /\ UNCHANGED <<vars, seen, writings, dirty, visits, faults>>

\* The writing screen is done: back to the lesson it was put before.
FinishWriting(t) ==
    LET v == view[t] IN
    /\ v.screen = "writing_pilot"
    /\ ~Holds(t, Stages)
    /\ \/ /\ v.shown # NoSession
          /\ Leave(t, [Mounted(v, v.shown) EXCEPT !.launching = FALSE],
                   calls[t])
          /\ UNCHANGED launches
       \/ /\ v.shown = NoSession
          /\ Queue(t)
          /\ Leave(t, Away(v, "loading"), calls[t])
    /\ UNCHANGED <<vars, seen, writings, dirty, visits, faults>>

-----------------------------------------------------------------------------
\* The parent route: the address changes to #/parent, whatever is up, ...
OpenParent(t) ==
    /\ view[t].screen # "closed"
    /\ ~view[t].parent
    /\ ~Holds(t, Stages)
    /\ Visit
    /\ Leave(t, [Away(view[t], "parent_gate") EXCEPT
                   !.parent = TRUE, !.launching = FALSE], calls[t])
    /\ UNCHANGED <<vars, seen, launches, writings, dirty, faults>>

\* ... and back.  The gate gives way to the loading screen; either way the
\* shell launches, unless its guard says that a launch is under way.
LeaveParent(t) ==
    LET v == [view[t] EXCEPT !.parent = FALSE] IN
    /\ view[t].parent
    /\ ~Holds(t, Stages)
    /\ IF v.launching THEN UNCHANGED launches ELSE Queue(t)
    /\ IF v.screen = "parent_gate"
       THEN Leave(t, Away(v, "loading"), calls[t])
       ELSE /\ view' = [view EXCEPT ![t] = [v EXCEPT !.launching = TRUE]]
            /\ UNCHANGED calls
    /\ UNCHANGED <<vars, seen, writings, dirty, visits, faults>>

-----------------------------------------------------------------------------
\* Events from the browser.
WakeUp(t) ==
    /\ view[t].screen = "rest"
    /\ ~view[t].launching
    /\ ~view[t].parent
    /\ ~Holds(t, Stages)
    /\ LaunchFrom(t, view[t], calls[t])
    /\ UNCHANGED <<vars, seen, writings, dirty, visits, faults>>

\* The shell refreshes from the record, shows a newer revision of its
\* session, or launches when the open session is no longer its own.  On the
\* parent route it lets the event go by.
StorageEvent(t) ==
    LET v == view[t]
        active == IF Readable(durable) /\ ~v.parent THEN durable.active
                  ELSE seen[t]
        playing == v.screen = "lesson_run"
        same == active # NoSession /\ active.id = v.shown.id IN
    /\ dirty[t]
    /\ ~Holds(t, Stages)
    /\ dirty' = [dirty EXCEPT ![t] = FALSE]
    /\ seen' = [seen EXCEPT ![t] = active]
    /\ \/ /\ ~v.parent /\ playing /\ same /\ active.rev # v.shown.rev
          /\ Show(t, v, active, calls[t])
          /\ UNCHANGED launches
       \/ /\ ~v.parent /\ playing /\ ~same
          /\ LaunchFrom(t, v, calls[t])
       \/ /\ ~v.parent /\ v.screen = "rest" /\ ~v.launching
          /\ LaunchFrom(t, v, calls[t])
       \/ /\ \/ v.parent
             \/ /\ playing => same /\ active.rev = v.shown.rev
                /\ v.screen = "rest" => v.launching
          /\ Keep(t, v, calls[t])
    /\ UNCHANGED <<vars, writings, visits, faults>>

-----------------------------------------------------------------------------
\* The shell's answer to a checkpoint: sessionRef takes whatever session the
\* hook reports.  On anything but success the shell adopts that session, or
\* launches if it is another one and nothing merely failed.
CheckpointReply(t, c, status, active) ==
    LET cs == calls[t] \ {c}
        v == IF c.live THEN [view[t] EXCEPT !.ref = active] ELSE view[t]
        same == active # NoSession /\ active.id = c.session.id IN
    \/ /\ status \in {"saved", "unchanged"}
       /\ Keep(t, v, cs)
    \/ /\ status \notin {"saved", "unchanged"}
       /\ same
       /\ Show(t, v, active, cs)
       /\ UNCHANGED launches
    \/ /\ status \in Failures
       /\ ~same
       /\ Keep(t, v, cs)
    \/ /\ status \notin {"saved", "unchanged"} \union Failures
       /\ ~same
       /\ LaunchFrom(t, v, cs)

\* Mutant: a completion that fails is only logged.
CompleteReplyIgnored(t, c, status) ==
    /\ \/ /\ status = "saved"
          /\ LaunchFrom(t, view[t], calls[t] \ {c})
       \/ /\ status # "saved"
          /\ Keep(t, view[t], calls[t] \ {c})
    /\ UNCHANGED writings

\* A completion that is not saved.
CompleteFailed(t, c, retryable) ==
    /\ Leave(t, [Away(view[t], "load_error") EXCEPT !.retryable = retryable],
             calls[t] \ {c})
    /\ UNCHANGED <<launches, writings>>

\* completeAndLaunchNext: once the launch is over, writing may be scheduled.
CompleteReply(t, c, status) ==
    \/ /\ status = "saved"
       /\ LaunchFrom(t, view[t], calls[t] \ {c})
       /\ writings' = [writings EXCEPT ![t] =
                         @ \union IF WritingEnabled THEN {launches'[t]} ELSE {}]
    \/ /\ status # "saved"
       /\ CompleteFailed(t, c, TRUE)

\* scheduleAfterReading has an answer: an activity for the lesson just read,
\* before anything else, or none.
ScheduleWriting(t) ==
    /\ 0 \in writings[t]
    /\ ~Holds(t, Stages)
    /\ writings' = [writings EXCEPT ![t] = @ \ {0}]
    /\ \/ Leave(t, Away(view[t], "writing_pilot"), calls[t])
       \/ UNCHANGED <<view, calls>>
    /\ UNCHANGED <<vars, seen, launches, dirty, visits, faults>>

\* The lock is granted to a waiting call.
Grant(t, kind) ==
    /\ IF kind = "launch" THEN launches[t] > 0
       ELSE \E c \in calls[t] : c.kind = kind
    /\ Acquire(t, kind)
    /\ UNCHANGED pageVars

RunCheckpoint(t) ==
    \E c \in calls[t] :
        /\ c.kind = "checkpoint"
        /\ Holds(t, {"checkpoint"})
        /\ \E o \in CheckpointOutcomes(c.session) :
            /\ Checkpoint(t, c.session, o)
            /\ CheckpointReply(t, c, o.status, o.progress.active)
            /\ Settle(t, o)
            /\ UNCHANGED writings

RunCompletion(t) ==
    \E c \in calls[t] :
        /\ c.kind = "complete"
        /\ Holds(t, {"complete"})
        /\ \E o \in CompleteOutcomes(c.result) :
            /\ Complete(t, c.result, o)
            /\ CompleteReply(t, c, o.status)
            /\ Settle(t, o)

PrepareLaunch(t) ==
    \/ /\ Reload(t) \/ ReconcileUnchanged(t)
       /\ UNCHANGED pageVars
    \/ /\ Holds(t, {"reconcile", "reconcile_again"})
       /\ \E o \in Persist(Reconcile(job.progress)) :
            /\ ReconcileSave(t, o)
            /\ Notify(t)
       /\ UNCHANGED <<seen, view, calls, launches, writings, visits, faults>>

LaunchFailed(t) ==
    /\ Holds(t, {"reconcile", "reconcile_again"})
    /\ \E o \in Persist(Reconcile(job.progress)) :
        /\ ReconcileFailed(t, o)
        /\ Settle(t, o)
    /\ Unavailable(t, TRUE)
    /\ Dequeue(t)

LaunchResumed(t) ==
    /\ Resume(t)
    /\ Enter(t, job.progress.active)
    /\ Dequeue(t)
    /\ Settle(t, Unsaved("resume"))

\* A launch that met another page's save shows the session found there, or
\* the one it could not save.
LaunchBegun(t) ==
    /\ Holds(t, {"plan"})
    /\ job.progress.active = NoSession
    /\ \E id \in SessionId :
       \E o \in Persist([job.progress EXCEPT !.active = NewSession(id)]) :
        /\ Begin(t, id, o)
        /\ IF o.status \in Failures
           THEN Unavailable(t, TRUE)
           ELSE Enter(t, IF o.progress.active = NoSession THEN NewSession(id)
                         ELSE o.progress.active)
        /\ Settle(t, o)
    /\ Dequeue(t)

LaunchRested(t) ==
    /\ Holds(t, {"plan"})
    /\ \E o \in Persist(job.progress) : Rest(t, o) /\ Settle(t, o)
    /\ Leave(t, [Away(view[t], "rest") EXCEPT !.launching = FALSE], calls[t])
    /\ Dequeue(t)

\* The lock request times out, or the load under the lock fails: nothing is
\* written and progressRef stays.  An unreadable record cannot be retried.
Refused(t, retryable) ==
    /\ ~Holds(t, Stages)
    /\ \/ /\ retryable
          /\ faults < MaxFaults
          /\ faults' = faults + 1
       \/ /\ ~retryable
          /\ durable = Unreadable /\ job = NoJob
          /\ UNCHANGED faults
    /\ UNCHANGED <<vars, seen, dirty, visits>>

RefuseCall(t, retryable) ==
    \E c \in calls[t] :
        /\ Refused(t, retryable)
        /\ \/ /\ c.kind = "checkpoint"
              /\ CheckpointReply(t, c, "storage_error", seen[t])
              /\ UNCHANGED writings
           \/ /\ c.kind = "complete"
              /\ CompleteFailed(t, c, retryable)

\* Mutant: a launch that is refused leaves the screen as it is.
RefuseLaunchQuietly(t, retryable) ==
    /\ launches[t] > 0
    /\ Refused(t, retryable)
    /\ UNCHANGED <<view, calls>>
    /\ Dequeue(t)

RefuseLaunch(t, retryable) ==
    /\ launches[t] > 0
    /\ Refused(t, retryable)
    /\ Unavailable(t, retryable)
    /\ Dequeue(t)

\* A write by anything else reaches every open page.
Foreign ==
    /\ ForeignWrite
    /\ faults < MaxFaults
    /\ faults' = faults + 1
    /\ dirty' = [t \in Tab |-> dirty[t] \/ view[t].screen # "closed"]
    /\ UNCHANGED <<seen, view, calls, launches, writings, visits>>

-----------------------------------------------------------------------------
\* What a page does with a granted lock.
Operate(t) ==
    \/ RunCheckpoint(t) \/ RunCompletion(t)
    \/ PrepareLaunch(t) \/ LaunchFailed(t) \/ LaunchResumed(t)
    \/ LaunchBegun(t) \/ LaunchRested(t)

\* What a learner who keeps going does on a lesson or a message.
Learn(t) ==
    \/ \E a \in Answer : view[t].selected = NoAnswer /\ Select(t, a)
    \/ Submit(t) \/ NextQuestion(t) \/ CompleteLesson(t)
    \/ LeaveWithoutSession(t) \/ Retry(t) \/ LeaveParent(t)

JourneyNext ==
    \/ \E t \in Tab :
        \/ OpenPage(t) \/ Crash(t)
        \/ Learn(t) \/ FinishWriting(t)
        \/ \E a \in Answer : Select(t, a)
        \/ \E h \in Help : RequestAssistance(t, h)
        \/ OpenParent(t) \/ WakeUp(t) \/ StorageEvent(t) \/ ScheduleWriting(t)
        \/ \E kind \in {"checkpoint", "complete", "launch"} : Grant(t, kind)
        \/ Operate(t)
        \/ \E retryable \in BOOLEAN :
              RefuseCall(t, retryable) \/ RefuseLaunch(t, retryable)
    \/ Foreign

JourneySpec == JourneyInit /\ [][JourneyNext]_journeyVars

\* A granted lock is used at once, storage events are delivered, the browser
\* serves lock requests in turn, pages are (re)opened and the learner goes on
\* with the lesson and leaves the parent route.  Nothing makes the writing
\* screen end: it may be waiting for an adult, or for a check that was cut.
JourneyFairness ==
    \A t \in Tab :
        /\ WF_journeyVars(Operate(t))
        /\ WF_journeyVars(StorageEvent(t))
        /\ WF_journeyVars(OpenPage(t))
        /\ WF_journeyVars(RefuseCall(t, FALSE) \/ RefuseLaunch(t, FALSE))
        /\ SF_journeyVars(Learn(t))
        /\ \A kind \in {"checkpoint", "complete", "launch"} :
              SF_journeyVars(Grant(t, kind))

FairJourney == JourneySpec /\ JourneyFairness

-----------------------------------------------------------------------------
JourneyTypeOK ==
    /\ TypeOK
    /\ seen \in [Tab -> Session \union {NoSession}]
    /\ view \in [Tab -> View]
    /\ calls \in [Tab -> SUBSET Call]
    /\ launches \in [Tab -> 0..MaxLaunches]
    /\ writings \in [Tab -> SUBSET (0..MaxLaunches)]
    /\ dirty \in [Tab -> BOOLEAN]
    /\ visits \in 0..MaxVisits
    /\ faults \in 0..MaxFaults

\* A page that shows the loading screen, or has its launch guard up on the
\* resting screen or under the parent gate (where the guard will keep it from
\* launching), has a launch under way that will move it on: no order of
\* replies, retries, storage events and changes of route leaves it waiting
\* for nothing.  A lesson screen has a lesson to show.
NeverStranded ==
    \A t \in Tab :
        /\ launches[t] = 0 =>
            /\ view[t].screen # "loading"
            /\ ~(view[t].screen \in {"rest", "parent_gate"} /\ view[t].launching)
        /\ view[t].screen = "lesson_run" => view[t].shown # NoSession

\* A lesson screen that waits for no reply, and whose lesson is the record's
\* open session or the one of its sessionRef, has that session in its
\* sessionRef and shows the question and the feedback of it: the next
\* checkpoint is built on what the learner sees.  The one screen left out
\* shows a lesson that another page has ended or set aside: the record is
\* open at another session or at none, sessionRef is not of the lesson
\* either, and nothing of that lesson can be saved from here.
ViewResynchronized ==
    \A t \in Tab :
        LET v == view[t]
            active == State(durable).active IN
        /\ Ready(t)
        /\ v.shown # NoSession
        /\ \/ v.ref # NoSession /\ v.ref.id = v.shown.id
           \/ active # NoSession /\ active.id = v.shown.id
        =>
            /\ v.ref # NoSession /\ v.ref.id = v.shown.id
            /\ v.evals = v.ref.submitted
            /\ v.index = v.ref.index

\* The learner is not shown feedback for an answer that is not saved: on a
\* lesson screen that waits for no reply, every answer with feedback is in
\* the session its checkpoints are built on.
FeedbackIsSaved ==
    \A t \in Tab :
        /\ Ready(t)
        /\ view[t].ref # NoSession /\ view[t].ref.id = view[t].shown.id
        => \A q \in Question : view[t].evals[q] # NoAnswer =>
                view[t].ref.submitted[q] = view[t].evals[q]

\* A lesson finished on its own screen is supported by the saved answers as
\* long as the record has the revision it was finished at: the hook will not
\* turn away, as inconsistent, a lesson that the learner was let finish.
\* (Fluency practice has a screen of its own.)
FinishedIsAccepted ==
    \A t \in Tab : \A c \in calls[t] :
        LET saved == State(durable).active IN
        /\ c.kind = "complete" /\ c.live
        /\ view[t].shown # NoSession /\ view[t].shown.id = c.result.id
        /\ saved # NoSession
        /\ saved.id = c.result.id /\ saved.rev = c.result.rev
        /\ KindOf[saved.id] # "fluency"
        => SupportsCompletion(saved, c.result)

\* A learner who keeps answering on the one page finishes each open session,
\* however the bounded faults fall, unless the page comes to stay on the
\* writing screen.
SessionsFinish ==
    \A id \in SessionId :
        (State(durable).active # NoSession /\ State(durable).active.id = id)
        ~> \/ ~(State(durable).active # NoSession /\ State(durable).active.id = id)
           \/ [](\E t \in Tab : view[t].screen = "writing_pilot")

\* A page never stays on the loading screen.
LoadingEnds ==
    \A t \in Tab : view[t].screen = "loading" ~> view[t].screen # "loading"

=============================================================================
