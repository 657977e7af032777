# A TLA+ model of Rory's Reading Quest

Rory's Reading Quest is a browser application: a learner answers short reading
lessons, the application decides what comes next, and everything it knows is
one record in `localStorage`. Several pages of the application may be open on
that record at once, a page may go away at any moment, and an older or newer
release may write the same record. A small optional service evaluates
handwriting. This directory specifies the parts of that program whose
correctness depends on order, failure and long histories, checks them with TLC
on small instances and proves the central properties of the saved record with
TLAPS.

Paths below are relative to the repository root (`src/...` is the application,
`service/...` the writing service).

## 1. Inventory

| Component | State it keeps | Operations | Interacts with | What makes it correct |
|---|---|---|---|---|
| Lesson session (`src/persistence/activeLessonSession.ts`, `recoverActiveLessonSession.ts`) | one open session: position, submitted answers, draft, help, practice, revision | build a checkpoint, validate a transition, recover | hook, screens | accepted work is never taken away; only one step forward at a time |
| Progress store (`src/persistence/localStorageQuestProgressStore.ts`) | the record; the text last read (`expectedRaw`) | load, save | hook, other pages | nothing newer or unreadable is overwritten |
| Write lock (`src/persistence/progressWriteLock.ts`) | a Web Lock | request with time-out, release | hook | one writer at a time |
| Quest-progress hook (`src/app/useQuestProgress.ts`) | `progressRef`, begun ids, status | checkpoint, complete, launch, refresh | all of the above, planner, shell | a reward exactly once, from the saved answers; no session lost |
| Lesson and fluency screens (`src/screens`) | question index, feedback, selection, help, `sessionRef`, `completionSentRef` | select, submit, next, help, complete | shell | what is shown is what is saved |
| App shell (`src/app/AppShell.tsx`) | screen, route, launch guard, session on screen | launch, retry, parent route, turn of the writing screen, events | hook, screens, writing pilot | never waits for nothing |
| Adaptive engine (`src/domain/progression`) | per skill: level, mastered level, evidence, failures, remediation context | apply a result | planner, review | levels are earned, remediation leads back |
| Spaced review (`reviewSchedule.ts`, `reviewQueueAffinity.ts`, `applyReviewLessonResult.ts`) | review queue | schedule, match, reschedule | engine, planner | every mastered level stays in review |
| Planner (`src/domain/curriculum/curriculumPlanning.ts`) | `plannedNextQuest`, set-aside session | plan, reconcile, defer | hook | there is always a next lesson until the end |
| Writing pilot (`src/app/useWritingPilot.ts`, `src/persistence/writingPilotStore.ts`, `src/services/writingPilot`) | drafts, requests, settings | save ink, recognise, confirm, evaluate, rewrite, finish | service | late answers never land on newer work; parent work is kept |
| Writing service (`service/read-write-cloudflare`, `service/read-write`, `src/server/writingPilot`) | installations, request ledger, quota, file lock | activate, reserve, complete, mark unknown | client | a request is charged and answered once; the quota holds |
| Parent access, records, assessments, dashboard | PIN digest, typed-in records | set, verify, add | browser storage | single page, no protocol |
| Content packs, answer evaluation, worlds, speech, printing, scripts | none, or static data | pure functions | screens | unit-testable; not modelled |

Hard behaviours, in the order of the damage they can do: two pages on one
session; a save whose confirmation is lost and which is retried; a page that
closes while it holds the lock; a record that changes or becomes unreadable
between the load and the save of one operation; replies that arrive when the
screen already belongs to another session; a launch guard nobody clears; long
sequences of results that lead the adaptive engine to a level with no lesson;
answers of the writing service that come late, twice, for other ink or never;
requests the service works on twice or beyond its quota.
`PROJECT.json` lists them one by one at their lines.

## 2. Modules

```
ActiveLesson ------> QuestProgress ------> LessonJourney ----> MCLessonJourney
     |                 |   |   |                 |
     v                 |   |   +--> QuestProgressProofs ---> ProgressLedgerProofs
ProgressLedger <-------+   |                     |             (TLAPS)    |
   (abstract)              v                     +---> LessonJourneyProofs ---> ViewProofs
                     MCQuestProgress                     (TLAPS)               (TLAPS)
AdaptiveProgression ---> AdaptiveProgressionProofs (TLAPS), MCAdaptiveProgression
WritingPilot ----> WritingPilotProofs (TLAPS), MCWritingPilot
WritingLedger ---> WritingLedgerProofs (TLAPS), MCWritingLedger
```

**ActiveLesson** (no variables) is the lesson session as data.
`ValidTransition` has one conjunct per rule of
`validateActiveLessonCheckpointTransition`; `SubmitCheckpoint`,
`DraftCheckpoint` and `AdvanceCheckpoint` are what the screens build;
`SupportsCompletion` is `activeSessionSupportsCompletion`. A model question
index is the code's index plus one. The identity fields of a session (lesson,
activity, content version, start time, launch context) are functions of its id,
which embeds activity and start time, so comparing ids stands for comparing
all of them.

**QuestProgress** is the record, the lock and the hook. `durable` is the
`localStorage` item: empty, unreadable (malformed or another schema version)
or progress. `job` is the page that holds the lock, the text it last read
(`expectedRaw`) and the progress it works on (`progressRef`). An operation is
`Acquire` (lock granted, record loaded), then `Checkpoint`, `Complete`, or a
launch: `Reload`, `ReconcileUnchanged` / `ReconcileSave` / `ReconcileFailed`,
then `Resume`, `Begin` or `Rest`. `Persist` gives every outcome of a save, with
the record it leaves behind: saved, conflict, write blocked, or a storage error
before or after the record was replaced. `Close` drops the lock with the page;
`ForeignWrite` is anything that ignores the lock: a page left open in another
release that saves a lawful checkpoint of the open session, a newer release that
saves another schema, "clear site data". The first is what makes a save meet a
conflict, and a launch reconcile a second time (`reconcile_again`). `Clean` takes
the old demo totals (120 XP) off a record that holds them; a load under the lock
works with the cleaned progress whether or not it could be written (`Loadable`,
`Loaded`), and `LoadSeeded` and `WriteCleaned` are the loads of a page outside the
lock, which read, and later write back or fail to. In this module the checkpoints
and results offered to the hook are arbitrary values, so its properties hold
whatever the screens send. `credits` (how often a session's reward became
durable) and `foreign` are history.

**ProgressLedger** is what the learner is promised, with no pages, locks or
revisions: answer sheets are opened, each question is answered once, a full
sheet is paid once for its own answers. `QuestProgress` implements it
(`KeepsLedger`), with the refinement mapping `OpenSheet`, the paid ids read
off `credits`, and the XP without demo totals as the total. The mapping looks at the progress the lock
holder has loaded (`Held`): a record cleared under a page that then writes its
copy back was, for every later reader, never cleared.

**LessonJourney** composes `QuestProgress` with the shell and the lesson screen
of each page. `view` is what a page shows: screen, whether the address is
`#/parent`, launch guard, the session of `lessonState` (which outlives the
lesson screen), `sessionRef`, the local evaluations, selection, help. `calls` and
`launches` are operations waiting for the lock, `dirty` an undelivered storage
event. `OpenParent` and `LeaveParent` are the two sides of the route handler;
a page may also be opened on the parent route. The writing pilot appears only
as its turns at the screen: a launch may enter its pending record first
(`Enter`), a saved completion schedules an activity once the launch it started is
over (`writings`, `ScheduleWriting`), and `FinishWriting` goes back to the lesson
of `lessonState`. What happens on the writing screen is `WritingPilot`, so
whether a record is pending is a choice here. A reply is handled in the step that ends its operation: the continuation
runs before any other task of the page, and nothing it reads can be changed by
another page. A call whose screen was unmounted stays but is no longer `live`:
its reply still reaches the shell, not the screen. The clean-up of old demo
totals outside the lock is in `QuestProgress` only: the pages here are those of a
record without them.

**AdaptiveProgression** is the adaptive engine, review queue and planner on one
track. Scores are the four classes the engine distinguishes. Among compatible
lessons the code ranks by freshness; the model allows any of them, so what holds
here holds for every ranking. Dates are days to wait. `CompleteLesson`,
`CompleteFluency` and `CompleteReview` are the three branches of `completeLesson`.
`practised` is the part of the attempt history the fluency chapter is counted
from; the history keeps 250 attempts and the chapter has seven activities, so the
model does not let it forget.

**WritingPilot** is the optional writing exercise in the browser. `durable` is
its own `localStorage` record: the settings, the list of writing records and
which of them is pending. A draft is ink and typed words together. `view` is what
each page shows of the record (`stateRef`), `pad` the draft on the page and `armed`
the autosave timer, `check` a Check Writing between its two commits, `calls` the
requests under way. A commit (lock, load, change, compare, save, read back) is one
step: network waits never hold the lock, so what matters is what happens between
commits. One that gets no lock changes nothing, one that is not saved shows the
record (`Keeps`), one whose load fails shows an empty record (`Loses`, and
`Misread` for a storage event). The child's actions are `Draw`, `Type` (the
keyboard stays enabled during a check, the ink does not), `AutoSave`, `PressCheck`
and `Continue`, `Confirm`, `Rewrite`, `Finish`; a finished lesson does `Schedule`;
the parent does `Review`, `Delete`, `Configure` and `Authorize`; `Answer` ends a
request with a result, a failure or the time-out, and may itself be blocked;
`Deliver` is a storage event, `Reload` a page that goes and opens again, `Expire`
and `PauseEnds` are the clock. Texts are "read" (what the draft reads as) and
"edited"; a page is not tied to its screen, so a page with a pending record may
always write, which allows every order the screens allow and a few more. A request
carries the draft it shows (`image`) besides the revision it names, and a stored
`Reading` or `Feedback` keeps what it was made from; with `replaced` (another draft
was saved between the two commits of the check) and `forsaken` (the records one of
whose requests nobody waits for) these are history. The validation before a save
(`writingPilotStore.ts:87`) is left out: by `StoreStaysReadable` there is nothing
for it to refuse.

**WritingLedger** is the Cloudflare worker and the durable object behind it. A
ledger operation is a transaction and so a step (`Activate`, `Revoke`, `Reserve` /
`Replay` / `Refuse`, `AskProvenance`, `Settle`); the models run outside of it: the
writing model (`Infer`) once, with a safety check of what it wrote (`CheckOutput`)
and, for an evaluation, one of the text before it (`CheckInput`). A safety check
that fails, however it does, withholds the result. The worker samples the clock
when it takes a request (`Since`), and it is that clock the reservation is dated
and old rows are purged with. Invocations interleave; an invocation may die between
any two steps (`Abandon`), and the ledger's answer, or the worker's report to the
ledger, may be lost. A payload stands for the request body, so "the same submission
at the same ink revision" is payload equality. `WritingPilot` does not use it: for
the browser the service may answer anything, and what the browser guarantees does
not rest on the service. `inferences`, `answers` and `legible` are history.

### Abstractions common to all

Timestamps, `updatedAt`, fingerprints, wording and layout are left out; two
records that differ only in `updatedAt` are one record. Comparing the record
and replacing it is one step of `Persist`. Stars follow XP and are left out. Three
comparisons of data the models do not hold are left out as well, each of which can
only turn more away: the launch context of a recovered session
(`recoverActiveLessonSession.ts:42`), the learning state a review returns to
(`useQuestProgress.ts:325`) and its due date (`reviewQueueAffinity.ts:147`).

## 3. What is checked

| Run | Instance | Shows |
|---|---|---|
| `work` | 2 pages, a reading and a word-study session, 2 questions, 2 answers, 3 revisions, history of 1 attempt, 1 foreign write (a checkpoint, another schema or a clearing) | `CreditedOnce`, `AcceptedWorkKept`, `SessionNeverLost`, `RewardMatchesAnswers`, `DeferredSlotFree`, `UnreadableKept`, refinement of the ledger |
| `onepage` | 1 page, fluency, retired and word-study sessions, practice, old demo totals of 120 XP | `SessionNeverLost`, `RewardMatchesAnswers` and the refinement through clean-ups that are written or fail, recovery and set-aside |
| `pages` | 2 pages with their screens, 2 answers and help, 1 session of 2 questions, no writing turn | `NeverStranded`, `ViewResynchronized`, `FinishedIsAccepted` |
| `faults` | 1 page, 1 session, the writing turn, 1 visit of the parent route, 1 fault or foreign write, 2 launches waiting, fairness | `SessionsFinish`, `LoadingEnds`, `NeverStranded` |
| `track` | 2 ordinary units and a closing fluency chapter, levels 0 to 4, every sequence of results, reviews and days | `LaunchedLessonCounts`, `MasteryIsProved`, `LevelsAgree`, `MasteredIsReviewed`, `ChapterIsPractised`, `PathContinues`, `ReviewStepIsEarned` |
| `ledger` | 2 invocations, 1 bearer, 2 request ids, 2 payloads, 3 requests, a limit of two reservations a day, clock of 3 readings over 2 days | `PaidWithinLimit`, `WorkIsExclusive`, `OneAnswer`, `SpellingNeedsItsInk`, `SettledStands`, `RevokedStaysOut` |
| `pilot` | 2 pages, 1 record of handwriting, 2 changes of ink, 2 requests, fairness | `NoLateReading`, `FeedbackFitsText`, `CheckIsAwaited`, `AwaitedCheckEnds` |
| `shelf` | 1 page, 3 records for 2 places, drawn or typed or both, 1 request | `StoreStaysReadable`, `AwaitingWorkKept` |
| `desync`, `rebuild`, `detour`, `stranded` | small instances | one finding each, section 5 |

Why the bounds are enough. Two pages are all a lost-update or stale-view race
needs, since the lock lets only one of them work at a time; the page that is
not working contributes what it sends, and `work` lets it send anything. A
history of one attempt is smaller than the number of sessions, so a completed
session does drop out of it and `CreditedOnce` cannot rest on the history
alone. Two questions make "answered in part", "on the last question" and "one
step forward" different states. `MaxRev` leaves room to finish: five accepted
checkpoints take a new two-question session to its end, and `faults` allows
seven, two more for a foreign checkpoint and what it makes the learner do again;
three take one that was saved with its first question answered, from which
`pages`, which starts from both, can finish; and in `work`, where a checkpoint may carry an
answer and a step forward at once, two do. Two ordinary units and a chapter of two lessons give a level
below the first, ordinary ones, remediation from and to each, a chapter practised
in part, and the end of the track. Named bounds:
`MaxRev`, `MaxForeign`, `MaxFaults` (storage errors, lock time-outs, crashes and,
in `LessonJourney`, foreign writes together), `MaxVisits` (openings of the parent
route), `MaxLaunches` (launches of one page waiting at once; more would be
merged), `MaxFailures`. One visit with one fault is enough for the orders of a
launch, its failure and the route; `pages` leaves the route and the writing turn
(`WritingEnabled`) out and keeps the second page, other answers and help, and the
proofs of `NeverStranded`, `ViewResynchronized` and `FinishedIsAccepted` have all
of them, without bound. Pages are interchangeable, so
`SYMMETRY` is used for them, and only in runs without liveness.

In the writing runs: `MaxRequests` 2 in `pilot` lets a request and one that has
been superseded, or a recognition and an evaluation, be under way at once; two
changes of a draft (`MaxRevision`) with two pages put other ink between the two
commits of a check, and make an answer late; one record is enough there, since
records share nothing but the store's limit, which `shelf` reaches with three
records made (`MaxRecords`) for `RecordLimit` 2. Typed words are in `shelf` only,
where one page types during a check; the proofs have both everywhere. In `ledger` the reservations
keep the proportions of the code (9 and 10 of 20, for 1800 and 2000 of 4000), so
that the limit is reached in the middle of an operation; the clock (`LastTime`)
runs past the expiry of a row (`DedupTtl` 2) and past a change of the UTC day;
three requests are a first, its repetition, and one that reuses its identity for
something else. `Tick` assumes that a live invocation ends within the
deduplication time, a day in the code, against a request of seconds; one
that dies may leave its row behind for all of it.

Deadlock checking is off where the system may really come to rest: all session
ids of the instance used up and every revision taken; all requests of `ledger`
served.

### Fairness

`FairJourney`: a page that has the lock goes on (`WF` of `Operate`: its code is synchronous
inside the lock), storage events are delivered and pages are opened again
(`WF`). `SF` of `Grant` is the browser's first-come-first-served lock queue. `SF`
of `Learn` is the assumption that the learner keeps going: chooses an answer
where none is chosen, submits, presses Next, retries from the error screen, and
the parent leaves again. Leaving the writing screen is not in it: that screen may
have no enabled control (`stranded`), so `SessionsFinish` excepts a page that comes
to stay there.
Faults and foreign writes are bounded and never required to happen. Without the
learner nothing can be promised; with it, no code path may swallow a session.

`PilotFairness`: every request ends, since the client gives up on it after 25
seconds (`WF` of `Answer`, per request). Nothing is assumed of the child, the
parent, timers or storage events.

## 4. What is proved

`QuestProgressProofs` proves, for any number of pages, sessions, questions,
answers and any history limit:

| Theorem | Property |
|---|---|
| `TypeCorrect` | `TypeOK` |
| `SlotAlwaysFree` | `DeferredSlotFree` |
| `RewardedOnce` | `CreditedOnce` |
| `UnreadableNeverOverwritten` | `UnreadableKept` |
| `AcceptedWorkIsKept` | `AcceptedWorkKept` |
| `SessionIsNeverLost` | `SessionNeverLost` |
| `RewardsMatchAnswers` | `RewardMatchesAnswers` |

`ProgressLedgerProofs` and `LessonJourneyProofs` build on it, as generally:

| Theorem | Property |
|---|---|
| `RecordImplementsLedger` | `KeepsLedger`, the refinement of `ProgressLedger` |
| `JourneyKeepsRecordRules` | `JourneySpec => Spec`: the whole app is an instance of `QuestProgress` |
| `JourneyTypes` | `JourneyTypeOK` |
| `PagesNeverStranded` | `NeverStranded` |
| `JourneyKeepsPromises` | `CreditedOnce`, `AcceptedWorkKept`, `SessionNeverLost`, `RewardMatchesAnswers`, `UnreadableKept`, `KeepsLedger` of `JourneySpec` |

`ViewProofs` adds what is true of the screens as long as no operation has failed
(`faults = 0`), for any number of pages and sessions and with all the turns of
the parent route and the writing screen:

| Theorem | Property |
|---|---|
| `ViewsInStep` | `faults = 0 => ViewResynchronized` |
| `FinishedLessonsAccepted` | `faults = 0 => FinishedIsAccepted` |

`WritingLedgerProofs` proves every property of the `ledger` run, for any number
of invocations, bearers, requests and payloads, any clock and any limits:

| Theorem | Property |
|---|---|
| `LedgerTypeCorrect` | `LedgerTypeOK` |
| `LimitHolds` | `PaidWithinLimit` |
| `WorkIsAlwaysExclusive` | `WorkIsExclusive` |
| `AnsweredOneWay` | `OneAnswer` |
| `SpellingIsSupported` | `SpellingNeedsItsInk` |
| `SettledRequestsStand` | `SettledStands` |
| `RevocationHolds` | `RevokedStaysOut` |

`WritingPilotProofs` proves every property of the `pilot` and `shelf` runs but the
liveness one, for any number of pages, records, revisions and requests and any
record limit:

| Theorem | Property |
|---|---|
| `PilotTypeCorrect` | `PilotTypeOK` |
| `StoreReadable` | `StoreStaysReadable` |
| `NoReadingIsLate` | `NoLateReading` |
| `FeedbackIsOfText` | `FeedbackFitsText` |
| `AwaitingWorkIsKept` | `AwaitingWorkKept` |
| `CheckAlwaysAwaited` | `CheckIsAwaited` |

`AdaptiveProgressionProofs` proves every property of the `track` run, for any
number of units and levels, any lessons and any review intervals that do not
shrink below the last:

| Theorem | Property |
|---|---|
| `TrackTypeCorrect` | `TrackTypeOK` |
| `LaunchedAlwaysCounts` | `LaunchedLessonCounts` |
| `MasteryIsEarned` | `MasteryIsProved` |
| `LevelsAlwaysAgree` | `LevelsAgree` |
| `MasteredStaysInReview` | `MasteredIsReviewed` |
| `PathAlwaysContinues` | `PathContinues` |
| `ChapterAlwaysPractised` | `ChapterIsPractised` |
| `ReviewStepsAreEarned` | `ReviewStepIsEarned` |

and the limit of the finding `rebuild` of section 5, which no run states:
`RebuildingStallsAtBottom`, that a learner who is rebuilding is left without a
lesson only at the lowest level of the track, and never after a low result.

Assumptions are the named ones of the modules (`LessonAssumption`,
`QuestAssumption`, `JourneyAssumption`, `LedgerAssumption`, `PilotAssumption`,
`TrackAssumption` and those that keep the sentinels apart from real values).
Besides, the old demo totals are a limit of several theorems, because the clean-up
outside the lock writes back what it read without looking again:

- the theorems about the record but `TypeCorrect` and `SlotAlwaysFree` assume
  `CleanUpUndisturbed`: no demo totals, or a single page and no foreign write. A
  single page cannot be in the middle of a clean-up and of an operation at once,
  so what it writes back is the record it read unless something else wrote
  meanwhile. With two pages, or a page of another release, the clean-up can put
  back a session that was just completed or take back a checkpoint; TLC then finds
  `CreditedOnce` and `AcceptedWorkKept` violated. One that finds the record
  cleared or unreadable puts its copy over it.
- `JourneyAssumption` has `~LegacySeed`, as `LessonJourney` has no clean-up outside
  the lock; so the theorems of `LessonJourneyProofs` and `ViewProofs` are about
  records without demo totals.

`RebuildingStallsAtBottom` assumes that the lessons of difficulty 0 are guided ones,
as in every pack.

The argument for the progress record. `TypeInv` carries the types together with `Slot`, the
set-aside slot, for the record and for the progress of the lock holder: both
are needed at once because the types of what `Reconcile` returns and the slot
it leaves are established by the same case split. `IInv` adds what makes the
reward unique:

- an id that has not been begun has no reward;
- `Sound(durable)` and, while a page works, `Sound(job.progress)`: no open or
  set-aside session has been rewarded. The second half is the point: a page
  may complete a session from its own copy, which need not be the record any
  more;
- `LockedCopy`: if the record is still the text the page read, then it is
  the progress the page holds. A save goes through only when the texts agree,
  so whatever it replaces is what it was computed from;
- `CleanUps`: while a clean-up is between its read and its write no page has the
  lock, and what it will write is sound and, if the record can be read, is that
  record cleaned.

`CreditedOnce` is not inductive alone: the history forgets, so only the fact
that a rewarded session is no longer open anywhere prevents a second reward.
The action properties follow from the same invariant through two lemmas:
`RecordWrites` (any step of this release leaves the record, writes the outcome
of an operation computed from it, or cleans it) and a description of each operation's
outcome (`Checkpointed`, `Completed`, `ReconcileProgress`). Every step of the
proof that `Next` preserves an invariant has one case per action.

The argument for the ledger. The ledger is read off `Held`, the copy of the page
that has the lock or else the record. `HeldSteps` says what a step can do to it:
nothing, lose it (a foreign write came between), reconcile it, accept a
checkpoint, start a session or reward one; each is a ledger step or none.
Reconciling may drop a session as unusable, which the ledger allows only for a
lesson that is gone. So `LInv` adds `Orderly`: completed sessions are paid ones, and
no session has an answer ahead of the question it is at, which makes every
session of a lesson still offered resumable (`BehindResumable`).

The argument for the pages. `JInv` joins the types of the record with those of the
pages, since a checkpoint that waits for the lock must still be a session when
it is handled. `NeverStranded` needs one more conjunct, `LaunchCounted`: a
page that has the lock for a launch has that launch on its list, or the step
that ends the launch could count below zero. Its other half, that a lesson screen
has a lesson, holds because every way to that screen brings a session and every
other screen goes through `Away` or `Unavailable` (`AwayStates`, `LeaveStays`);
the effect that clears the launch guard with a changed screen is what its first
half rests on. With `JInv`, every page step is a
step of `QuestProgress` or leaves its variables alone (`StepsOfTheRecord`), which
carries the theorems about the record over to the whole app.

The argument for what the screens show. A page holds copies of sessions: the one
it was mounted from (`shown`), the one its next checkpoint is built on
(`sessionRef`) and those its waiting calls carry. `ViewResynchronized` alone says
nothing of what those copies have to do with the record, and is lost when a reply
brings the record's session to a page. `VInv` therefore compares them (`CopyOf`):
a copy is never newer than the record's session, a copy of the same revision is
that session, and a session that has left the active slot does not come back to
it, neither from the set-aside slot nor as a new one, since a begun id is not
begun again. `ScreenOK` adds that a screen shows its `sessionRef` unless a
checkpoint is waiting, and `CallOK` what a waiting call was built on: at most one is
live, and its checkpoint is one legal step from `sessionRef`. `RecordOK` is the same for the record
and the lock without faults: what the lock holder works on is the record, and the
sessions in it are as the screens build them (`Sturdy`: answered up to the
question they are at). The proof goes in two halves. Whatever a step does to the
record, every page stays in `VInv` as it was (`PagesStay`, from `RecordSucceeds`:
a save replaces a session by its successor or moves it out of the way); so each
action has to answer only for the page that takes it (`PageGoes`). A reply is where
both meet: a refusal reports a session at least as new as the page's and is
adopted, a success reports the checkpoint that was asked for. The only screen the property leaves out is one whose lesson another page has ended or
set aside, where nothing is left to be in step with. The premise
`faults = 0` cannot go: after a save that fails the session reported has the
revision of `shown`, nothing is adopted, and the screen keeps an answer that is not
there (`desync`). `VInv` was checked by TLC on small instances before it was proved.

The argument for the writing service rests on `WorkInv`: the request an
invocation works on has a live, pending row that expires at the time of its
reservation plus the deduplication time, and no other invocation works on it.
The expiry is what makes it inductive, because a purge happens inside any other
request's `Reserve`: it is `Tick`'s assumption about the length of an invocation
that keeps a row under work from being purged. `ClockInv`, that no invocation's
sampled clock is ahead of the clock, makes that hold for the clock the purge uses.
`PaidInv` adds that the writing model has not run yet for a reservation that is
`Unspent` (reserved, its provenance asked or its text checked, and no further),
`OwnInv` that responses
are about their payloads and stored support for spelling is real, `AnswerInv`
that an answered request keeps its row, with the response that was sent, and has
nobody working on it, which is why a lost report to the ledger cannot lead to a
second, different answer. The two action properties follow from `RowSteps`, the
three things a step can do to a row.

The argument for the writing pilot. `Fit` is the set of records whose
transcription, feedback and confirmed text belong together; each change a commit
can make (`Inked`, `Rewritten`, `Recognized`, `Judged` and the others) has a lemma
saying that it stays inside `Fit`, those that apply an answer under the condition
that it fits. `TypeInv` is that the stored record is `Sound` (its records are
`Fit`, not too many, and hold the pending one), that screens show such a record
and that requests are well typed; three of the theorems are read off it. `NoReadingIsLate`
needs `InkInv` besides, which follows the draft on its way: a check that no other
draft has overtaken holds the stored draft at the stored revision, a request of the
stored revision shows the stored draft unless it was `replaced`, and a stored
reading was made from it. That `replaced` cannot be dropped is the race of section
5; everything else that comes late is shut out by the revision.
`CheckIsAwaited` is inductive given `TypeInv`: `AwaitedKept` says that a step
preserves it when every waiting record keeps what it waits for or gets a request
of its own. An answer that does not fit cannot be what a record waits for, one
that fits ends the waiting (`ResultsSettle`), and one that is dropped is counted in
`forsaken`.

The argument for the adaptive engine. `AppliedCases` says that a result does one
of four things to the learner's progress: it advances, returns from a detour,
starts to rebuild, or stays. `PlansStand` says that what the planner offers is
either for the present level or names a due review. `TrackInv` joins them: the
plan that is kept and the lesson that is open are for the present level, which is
not the last one, or the open review still has its entry in a queue with one entry
for a level and a unit, which is why exactly one matches. `ProofInv` adds that the
evidence for an advance is made of lessons that were really passed at this level;
`LevelInv` that a detour is one level deep. The review properties rest on the
same one entry for a level and a unit, and on the open review's entry staying due.
`CatalogAssumption` says how the packs are laid out (each pack file under
`src/domain/content/packs`): a level has checkpoint lessons, and guided ones one
below, or it is the track's last level and a fluency chapter and nothing else, as
in Grade 3 Word Forge (`grade3/wordForge/fluencyFlight/pack.ts`). A finished chapter
jumps to the completion difficulty (`fluencyPractice.ts:101`), so a chapter
anywhere else would skip levels; `ChapterLast` is the lemma that uses this. Only
`LaunchedLessonCounts`, `ReviewStepIsEarned` and the types hold on any layout.
`RebuildingStallsAtBottom` uses `OnwardAbove`, that above the lowest level ordinary
progression always has a lesson, and `GuideInv`, that the level being rebuilt has a
guided lesson and that the unit last practised at the lowest level has one there,
so that the planner's affinity to that unit cannot leave it without a candidate.

Not proved, only checked: liveness (`SessionsFinish`, `LoadingEnds`,
`AwaitedCheckEnds`), which needs fairness and `ENABLED`. Every invariant and action
property of the passing runs is proved, within the assumptions above.

## 5. Where code and documents differ

Each is a run that TLC ends with a counterexample; `PROJECT.json` has the quoted
lines.

- `desync`: after a submit whose save fails, while the record still has the
  revision the screen is mounted with, nothing remounts and the screen goes on
  showing feedback for an answer that is not saved.
- `rebuild`: in remediation at difficulty 0 every result but a low one asks for a
  purpose no lesson of that level has, so the way back is closed.
- `detour`: a low result on a rebuilding lesson enters remediation again, with the
  rebuilding level as the one to return to; the level remediation was first
  entered from is forgotten.
- `stranded`: a page that is reloaded while it waits for the writing service, or
  whose last commit is blocked, leaves the record "being checked" for good; the
  writing screen has no enabled button for it, opens before the lesson at every
  launch, and only a parent gets the learner past it.

What `desync` loses is implied by `ViewResynchronized`, which holds as long as
nothing fails (`pages`, and `ViewsInStep` for every number of pages): that pair is
the boundary of the promise. The one of `rebuild` is `RebuildingStallsAtBottom`:
nowhere above difficulty 0, and not there after a low result. The one of `detour` is `LevelsAgree`: the way
back still leads up, to no more than one above what was mastered. The one of
`stranded` is `AwaitedCheckEnds`, which holds as long as no request was forsaken.

Seen while modelling and kept in the models, without a run of their own:

- the clean-up of old demo totals (`localStorageQuestProgressStore.ts:261`) writes
  outside the lock, without comparing the record first: with two pages a
  rewarded session can come back and be rewarded again;
- with two pages and no fault, a reply that reports another session replaces
  `sessionRef` before the lesson on screen is replaced (`LessonScreen.tsx:387`),
  and the next action of the old lesson is sent as a checkpoint of the other
  session. No document speaks of it; it is the screen `ViewResynchronized`
  leaves out;
- between the two commits of Check Writing another page may save other ink, and
  the image of the old ink is then recognised as the newer revision
  (`useWritingPilot.ts:279`), against `docs/READ_WRITE_PILOT.md:50`: the case
  `replaced` of `NoLateReading`;
- the safety checks of the writing service are not part of what is reserved for a
  request (`cloudflareWritingProvider.ts:83`, `102`, `122`), so the daily limit
  bounds the runs of the writing model and not those;
- a record left to the parent shows the feedback it has
  (`WritingPilotScreen.tsx:60`), which a correction by the parent may have
  overtaken; `FeedbackFitsText` is about feedback that is ready;
- a record the parent marked as reviewed keeps that mark when its open request
  fails later, so it counts as replaceable although it waits for the parent again
  (`writingPilotStore.ts:264`), against `docs/READ_WRITE_PILOT.md:71`. That is why
  `AwaitingWorkKept` is about records that are not marked;
- a launch that waits for the lock when the parent route is opened still ends
  on a child screen, away from the parent gate (`AppShell.tsx:63`), where
  `docs/PRIVACY_AND_SAFETY.md:173` says opening the route never auto-launches child
  curriculum;
- back from the writing screen the shell shows the session it was given before,
  without the learner's checkpoints since (`AppShell.tsx:209`); the first
  action is then refused and the screen is brought up to date, or the session is
  found completed and a launch follows;
- an activation that is answered after the pilot was disabled turns external
  processing on again (`useWritingPilot.ts:162`).

## 6. Not modelled

The Node writing service, a historical test server whose reservation protocol is
that of `WritingLedger` over a file, and its file lock; several curriculum tracks
and their prerequisites; the fluency screen's own step machine; what
the parent does behind the gate; parent judgments and suggestions of the writing
pilot; repair
of a record that is malformed only in its transient part; browsers with no Web
Locks, where every write is refused. Answer grading, content validation, worlds,
dashboard, speech and printing are pure functions or output and are left to the
repository's tests.

Most lines of the repository are authored content packs, their audits and
browser-test scripts. They hold no state and no control, so the models cover a
small share of the lines and most of the code that changes saved state.

## 7. Plan

Done, in this order: the record, the screens on it, the adaptive engine on one
track with its closing fluency chapter, the writing pilot, the writing service,
and the proofs of section 4. Left:

1. the Node file lock with its stale rule, and the fluency screen's step machine;
2. `AdaptiveProgression`: several tracks, and a bound on how long urgent quests
   can delay due reviews;
3. `LessonJourney` with `WritingPilot` in one module, so that the turns of the
   writing screen follow its pending record.
