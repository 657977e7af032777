---------------------------- MODULE WritingPilot ----------------------------
(***************************************************************************)
(* The Read & Write pilot in the browser: the record in localStorage, the  *)
(* pages that work on it through a short Web Lock, what is on the child's  *)
(* pad, the requests on their way to the writing service, and the parent.  *)
(*                                                                         *)
(* A commit (lock, load, change, save, read back) is one step, and so is   *)
(* what the page does with its result.  Between two commits of one page    *)
(* anything may happen on the others.  A commit that gets no lock, or      *)
(* whose save fails, leaves the record alone; where the page then does no  *)
(* more than a storage event makes it do, it is left out.  The service is  *)
(* WritingLedger; here it may answer anything, and late.                   *)
(*                                                                         *)
(* A draft is the ink on the pad and the words typed below it.  A text is  *)
(* either what the draft reads as or an edited one.  Records are numbered  *)
(* in the order of their creation.  Which screen a page is on is left out: *)
(* a page with a pending record may write.  So are judgment forms,         *)
(* suggestions, the wording of reasons and feedback, and the validation of *)
(* a state before it is saved (StoreStaysReadable: it refuses nothing).    *)
(***************************************************************************)
EXTENDS Naturals, FiniteSets

CONSTANTS
    Pages,
    Inks, Words,    \* what can be drawn; what can be typed
    RecordLimit,    \* WRITING_PILOT_RECORD_LIMIT
    MaxRecords,     \* bound: records ever made
    MaxRevision,    \* bound: saved changes of a draft
    MaxRequests,    \* bound: requests ever made
    Blank, NoText, NoRecord, NoCheck

RecordIds == 1..MaxRecords

Revisions == 0..MaxRevision

RequestIds == 1..MaxRequests

\* strokes, typedDraft.
Drafts == [ink : Inks \union {Blank}, words : Words \union {Blank}]

EmptyDraft == [ink |-> Blank, words |-> Blank]

IsTyped(draft) == draft.words # Blank

Texts == {"read", "edited", NoText}

\* rawTranscription; history: the revision it was asked for, what it was read
\* from, and whether another draft was saved before the request (see Call).
Reading == [revision : Revisions, draft : Drafts, replaced : BOOLEAN]

\* The text the feedback is about; history: the revision it was asked for.
Feedback == [text : Texts, revision : Revisions]

ASSUME PilotAssumption ==
    /\ RecordLimit \in Nat \ {0}
    /\ MaxRecords \in Nat /\ MaxRevision \in Nat /\ MaxRequests \in Nat
    /\ Blank \notin Inks \union Words
    /\ NoText \notin {"read", "edited"} \union Reading \union Feedback
    /\ NoRecord \notin Nat

Waiting == {"recognition_pending", "evaluation_pending"}

Statuses == Waiting \union {"draft", "transcription_ready", "feedback_ready",
                            "parent_review_needed", "completed"}

Record == [status    : Statuses,
           revision  : Revisions,   \* inkRevision
           draft     : Drafts,
           raw       : Reading \union {NoText},
           uncertain : BOOLEAN,     \* an uncertainty affects the meaning
           confirmed : Texts,       \* confirmedTranscription
           feedback  : Feedback \union {NoText},
           reason    : BOOLEAN,     \* parentReviewReason is set
           reviewed  : BOOLEAN,     \* parentReviewedAt is set
           open      : SUBSET (RequestIds \X Revisions)]  \* pending requests

\* The stored record, for the records of S.
Store(S) == [enabled  : BOOLEAN,
             external : BOOLEAN,    \* externalProcessingEnabled, authorized
             paused   : BOOLEAN,    \* quotaPauseUntil lies ahead
             records  : [S -> Record],
             pending  : RecordIds \union {NoRecord}]

\* What a page reads in its stateRef of a store with the records of S.
Sight(S) == [pending : RecordIds \union {NoRecord},
             status  : Statuses \union {"none"},   \* of the pending record
             drafts  : [S -> Drafts],
             enabled : BOOLEAN, external : BOOLEAN, paused : BOOLEAN]

\* What Check Writing was pressed on, and the revision that was then stored.
Check == [record : RecordIds, draft : Drafts, revision : Revisions]

Call == [id : RequestIds, page : Pages, record : RecordIds,
         kind : {"recognition", "evaluation"}, revision : Revisions,
         body : Texts,
         image : Drafts,       \* what the image shows
         replaced : BOOLEAN]   \* history: another draft was saved after the
                               \* one in the image, before the request

VARIABLES
    durable,     \* the record in localStorage
    view,        \* per page: stateRef, what it shows
    pad, armed,  \* per page: what is on the pad; the autosave timer runs
    check,       \* per page: Check Writing between its two commits
    calls,       \* requests on their way
    sent,        \* how many requests were made
    created,     \* how many records were made
    forsaken     \* history: records one of whose requests nobody waits for

padVars == <<pad, armed, check>>
pilotVars == <<durable, view, padVars, calls, sent, created,
               forsaken>>

-----------------------------------------------------------------------------
(* The stored record and what is read of it.                               *)

EmptyStore == [enabled |-> FALSE, external |-> FALSE, paused |-> FALSE,
               records |-> <<>>, pending |-> NoRecord]

NewRecord == [status |-> "draft", revision |-> 0, draft |-> EmptyDraft,
              raw |-> NoText, uncertain |-> FALSE,
              confirmed |-> NoText, feedback |-> NoText,
              reason |-> FALSE, reviewed |-> FALSE, open |-> {}]

Holds(store, r) == r \in DOMAIN store.records

With(store, r, record) == [store EXCEPT !.records[r] = record]

Without(store, S) ==
    [store EXCEPT
       !.records = [r \in DOMAIN store.records \ S |-> store.records[r]],
       !.pending = IF @ \in S THEN NoRecord ELSE @]

\* externalIsUsable, of a store or of what a page shows of it.
Usable(store) == store.enabled /\ store.external /\ ~store.paused

StatusOf(store) == IF store.pending = NoRecord THEN "none"
                   ELSE store.records[store.pending].status

Seen(store) ==
    [pending |-> store.pending, status |-> StatusOf(store),
     drafts |-> [r \in DOMAIN store.records |-> store.records[r].draft],
     enabled |-> store.enabled, external |-> store.external,
     paused |-> store.paused]

\* isUnreviewedParentRecord.
Awaiting(record) == record.reason /\ ~record.reviewed

\* isWritingParentReviewQueueFull.
QueueFull(store) ==
    Cardinality({r \in DOMAIN store.records : Awaiting(store.records[r])})
        >= RecordLimit

\* Mutant: completed work gives way whether or not a parent must see it.
ReplaceableDone(record) == record.reviewed \/ record.status = "completed"

Replaceable(record) == \/ record.reviewed
                       \/ record.status = "completed" /\ ~record.reason

\* Mutant: room is made only once the limit is exceeded.
FullBeyond(store) == Cardinality(DOMAIN store.records) > RecordLimit

Full(store) == Cardinality(DOMAIN store.records) >= RecordLimit

\* makeRoomForWritingRecord: the oldest replaceable record gives way.
Victims(store) ==
    LET old == {r \in DOMAIN store.records : Replaceable(store.records[r])} IN
    IF Full(store) THEN {r \in old : \A s \in old : r <= s} ELSE {}

-----------------------------------------------------------------------------
(* What a change does to a record.                                         *)

\* Mutant: new ink keeps the transcription of the old.
InkedOver(record, draft) ==
    [record EXCEPT !.status = "draft", !.revision = @ + 1, !.draft = draft,
                   !.feedback = NoText, !.reason = FALSE, !.reviewed = FALSE,
                   !.open = {}]

\* saveDraft: new ink starts the record over and supersedes its requests.
Inked(record, draft) ==
    [record EXCEPT !.status = "draft", !.revision = @ + 1, !.draft = draft,
                   !.raw = NoText, !.uncertain = FALSE, !.confirmed = NoText,
                   !.feedback = NoText, !.reason = FALSE, !.reviewed = FALSE,
                   !.open = {}]

\* rewrite: as saveDraft, but the ink and the requests stay.
Rewritten(record) ==
    [record EXCEPT !.status = "draft", !.raw = NoText, !.uncertain = FALSE,
                   !.confirmed = NoText, !.feedback = NoText,
                   !.reason = FALSE, !.reviewed = FALSE]

\* The typed text, if there is any, needs no recognition.
TakenAsTyped(record) ==
    [record EXCEPT !.status = "transcription_ready", !.uncertain = FALSE,
                   !.raw = IF ~IsTyped(record.draft) THEN NoText
                           ELSE [revision |-> record.revision,
                                 draft |-> record.draft, replaced |-> FALSE]]

\* Mutant: a status the screen does not know.
LeftToAnyone(record) ==
    [record EXCEPT !.status = "review_needed", !.reason = TRUE]

LeftToParent(record) ==
    [record EXCEPT !.status = "parent_review_needed", !.reason = TRUE]

Asking(record, status, id) ==
    [record EXCEPT !.status = status,
                   !.open = @ \union {<<id, record.revision>>}]

Recognized(record, call, unclear) ==
    [record EXCEPT !.status = "transcription_ready", !.uncertain = unclear,
                   !.raw = [revision |-> call.revision, draft |-> call.image,
                            replaced |-> call.replaced],
                   !.reason = FALSE]

\* Feedback may ask for the parent.
Judged(record, call, parent) ==
    [record EXCEPT !.status = IF parent THEN "parent_review_needed"
                              ELSE "feedback_ready",
                   !.feedback = [text |-> call.body,
                                 revision |-> call.revision],
                   !.reason = parent]

\* correctTranscription.
Corrected(record) ==
    [record EXCEPT !.confirmed = "edited",
                   !.status = IF @ = "completed" THEN @
                              ELSE "parent_review_needed"]

-----------------------------------------------------------------------------
(* Pages and commits.                                                      *)

\* Page p shows store.  The writing screen is mounted anew when its record or
\* that record's status changes: the pad starts from the saved draft, and its
\* effect starts the autosave timer.  Otherwise the timer is as given.
Show(p, store, timer) ==
    LET new == Seen(store)
        anew == \/ new.pending # view[p].pending
                \/ new.status # view[p].status
        drawn == new.status = "draft" IN
    /\ view' = [view EXCEPT ![p] = new]
    /\ pad' = IF ~anew THEN pad
              ELSE [pad EXCEPT ![p] = IF drawn THEN new.drafts[new.pending]
                                      ELSE EmptyDraft]
    /\ armed' = [armed EXCEPT ![p] = IF anew THEN drawn ELSE timer]

\* A commit that saves, and one that leaves the record as it is: its producer
\* had nothing to change, or the save was not accepted.
Saves(p, store) == durable' = store /\ Show(p, store, armed[p])

Keeps(p) == durable' = durable /\ Show(p, durable, armed[p])

Unlocked(p) == UNCHANGED <<durable, view, pad, armed>>

\* A load that failed: the page shows an empty record.
Loses(p) == durable' = durable /\ Show(p, EmptyStore, armed[p])

Blocked(p) == Unlocked(p) \/ Keeps(p) \/ Loses(p)

\* A commit of a change to record r, or one that is blocked.
Commit(p, r, record) ==
    \/ Holds(durable, r) /\ Saves(p, With(durable, r, record))
    \/ Blocked(p)

\* The child may work on page p, on the record pending there.  A draft under
\* check takes no ink and no second check, but words can still be typed.
Child(p, status) == /\ view[p].status = status
                    /\ status = "draft" => check[p] = NoCheck

Mine(p) == view[p].pending

\* A new request of page p for record r, made for what r holds then.
Ask(p, r, kind, text, image, replaced) ==
    /\ sent < MaxRequests
    /\ sent' = sent + 1
    /\ calls' = calls \union {[id |-> sent + 1, page |-> p, record |-> r,
                               kind |-> kind, body |-> text,
                               revision |-> durable.records[r].revision,
                               image |-> image, replaced |-> replaced]}

NoAsk == UNCHANGED <<calls, sent>>

-----------------------------------------------------------------------------
(* The child.                                                              *)

Changes(p, draft) ==
    /\ draft # pad[p]
    /\ pad' = [pad EXCEPT ![p] = draft]
    /\ armed' = [armed EXCEPT ![p] = TRUE]
    /\ UNCHANGED <<durable, view, check, calls, sent, created,
                   forsaken>>

Draw(p, ink) ==
    Child(p, "draft") /\ Changes(p, [pad[p] EXCEPT !.ink = ink])

Type(p, words) ==
    view[p].status = "draft" /\ Changes(p, [pad[p] EXCEPT !.words = words])

\* saveDraft: the pad of page p becomes the draft of the record shown there.
Save(p, timer) ==
    LET r == Mine(p) IN
    IF Holds(durable, r) /\ durable.records[r].draft # pad[p]
    THEN LET store == With(durable, r, Inked(durable.records[r], pad[p])) IN
         /\ durable.records[r].revision < MaxRevision
         /\ durable' = store
         /\ Show(p, store, timer)
    ELSE durable' = durable /\ Show(p, durable, timer)

AutoSave(p) ==
    /\ armed[p]
    /\ \/ Save(p, FALSE)
       \/ durable' = durable /\ Show(p, durable, FALSE)
       \/ /\ armed' = [armed EXCEPT ![p] = FALSE]
          /\ UNCHANGED <<durable, view, pad>>
    /\ UNCHANGED <<check, calls, sent, created, forsaken>>

\* Check Writing: the pad is saved, and if it is, checkWriting follows, which
\* does nothing for a record that is gone.
PressCheck(p) ==
    /\ Child(p, "draft") /\ pad[p] # EmptyDraft
    /\ Save(p, armed[p])
    /\ check' = IF ~Holds(durable, Mine(p)) THEN check
                ELSE [check EXCEPT ![p] =
                        [record |-> Mine(p), draft |-> pad[p],
                         revision |-> durable'.records[Mine(p)].revision]]
    /\ UNCHANGED <<calls, sent, created, forsaken>>

\* checkWriting decides on what the page shows and changes what is stored.
Continue(p) ==
    LET r == check[p].record
        drafts == view[p].drafts
        record == durable.records[r]
        nothing == Unlocked(p) /\ NoAsk IN
    /\ check[p] # NoCheck
    /\ check' = [check EXCEPT ![p] = NoCheck]
    /\ IF r \notin DOMAIN drafts THEN nothing
       ELSE IF IsTyped(drafts[r])
       THEN Commit(p, r, TakenAsTyped(record)) /\ NoAsk
       ELSE IF IsTyped(check[p].draft) \/ drafts[r].ink = Blank THEN nothing
       ELSE IF ~Usable(view[p])
       THEN Commit(p, r, LeftToParent(record)) /\ NoAsk
       ELSE \/ /\ Holds(durable, r)
               /\ Saves(p, With(durable, r,
                                Asking(record, "recognition_pending", sent + 1)))
               /\ Ask(p, r, "recognition", "read", check[p].draft,
                      record.revision # check[p].revision)
            \/ Blocked(p) /\ NoAsk
    /\ UNCHANGED <<created, forsaken>>

\* That's What I Wrote, with the transcription as it is or edited.
Confirm(p, text) ==
    LET r == Mine(p)
        record == [durable.records[r] EXCEPT !.confirmed = text]
        able == Usable(durable) /\ ~record.uncertain IN
    /\ Child(p, "transcription_ready")
    /\ IF Holds(durable, r) /\ durable.records[r].raw # NoText
       THEN IF able
            THEN /\ Saves(p, With(durable, r,
                       Asking([record EXCEPT !.reason = FALSE],
                              "evaluation_pending", sent + 1)))
                 /\ Ask(p, r, "evaluation", text, EmptyDraft, FALSE)
            ELSE Saves(p, With(durable, r, LeftToParent(record))) /\ NoAsk
       ELSE Keeps(p) /\ NoAsk
    /\ UNCHANGED <<check, created, forsaken>>

Rewrite(p) ==
    /\ Child(p, "transcription_ready")
    /\ Commit(p, Mine(p), Rewritten(durable.records[Mine(p)]))
    /\ UNCHANGED <<check, calls, sent, created, forsaken>>

Finish(p) ==
    LET r == Mine(p)
        store == With(durable, r, [durable.records[r] EXCEPT
                                     !.status = "completed"]) IN
    /\ \/ Child(p, "feedback_ready") \/ Child(p, "parent_review_needed")
    /\ IF Holds(durable, r)
       THEN Saves(p, [store EXCEPT !.pending = IF @ = r THEN NoRecord ELSE @])
       ELSE Keeps(p)
    /\ UNCHANGED <<check, calls, sent, created, forsaken>>

\* scheduleAfterReading: a finished lesson brings a new record.
Schedule(p) ==
    LET stays == Without(durable, Victims(durable)).records
        r == created + 1 IN
    /\ created < MaxRecords
    /\ durable.enabled /\ durable.pending = NoRecord /\ ~QueueFull(durable)
    /\ Full(durable) => Victims(durable) # {}
    /\ Saves(p, [durable EXCEPT
                   !.records = [s \in DOMAIN stays \union {r} |->
                                  IF s = r THEN NewRecord ELSE stays[s]],
                   !.pending = r])
    /\ created' = r
    /\ UNCHANGED <<check, calls, sent, forsaken>>

-----------------------------------------------------------------------------
(* The service's answers.                                                  *)

\* Mutant: an answer is taken for whatever text is confirmed by now.
FitsAnyText(call) ==
    /\ Holds(durable, call.record)
    /\ <<call.id, call.revision>> \in durable.records[call.record].open
    /\ call.revision = durable.records[call.record].revision

\* An answer still fits the record it was asked for.
Fits(call) ==
    LET record == durable.records[call.record] IN
    /\ Holds(durable, call.record)
    /\ <<call.id, call.revision>> \in record.open
    /\ call.revision = record.revision
    /\ call.kind = "evaluation" => record.confirmed = call.body

Settled(call) == [durable.records[call.record] EXCEPT
                    !.open = @ \ {<<call.id, call.revision>>}]

\* Mutant: a failure leaves the record as it is.
ResultsOfWork(call) ==
    {With(durable, call.record, record) : record \in
        {durable.records[call.record]} \union
        {IF call.kind = "recognition" THEN Recognized(Settled(call), call, b)
         ELSE Judged(Settled(call), call, b) : b \in BOOLEAN}}

\* What an answer can make of the stored record: the service did its work, or
\* failed, or its quota is used up.
Results(call) ==
    {With(durable, call.record, record) : record \in
        {LeftToParent(Settled(call))} \union
        {IF call.kind = "recognition" THEN Recognized(Settled(call), call, b)
         ELSE Judged(Settled(call), call, b) : b \in BOOLEAN}}
    \union
    {[With(durable, call.record, LeftToParent(Settled(call))) EXCEPT
        !.paused = TRUE]}

\* Every call is answered in the end: by the service, or by the client's own
\* timeout.  The commit that applies the answer may be blocked.
Answer(call) ==
    /\ calls' = calls \ {call}
    /\ \/ /\ IF Fits(call)
             THEN \E store \in Results(call) : Saves(call.page, store)
             ELSE Keeps(call.page)
          /\ UNCHANGED forsaken
       \/ /\ Blocked(call.page)
          /\ forsaken' = forsaken \union {call.record}
    /\ UNCHANGED <<check, sent, created>>

-----------------------------------------------------------------------------
(* The parent, who may use any page.                                       *)

ParentChanges(r) ==
    {Corrected(durable.records[r]), [durable.records[r] EXCEPT !.reviewed = TRUE]}

Review(p, r) ==
    /\ Holds(durable, r)
    /\ \E record \in ParentChanges(r) : Saves(p, With(durable, r, record))
    /\ UNCHANGED <<check, calls, sent, created, forsaken>>

\* deleteRecord, deleteAllRecords.
Delete(p, S) ==
    /\ S # {} /\ S \subseteq DOMAIN durable.records
    /\ Cardinality(S) = 1 \/ S = DOMAIN durable.records
    /\ Saves(p, Without(durable, S))
    /\ UNCHANGED <<check, calls, sent, created, forsaken>>

\* enablePilot, disablePilot, disableExternal.
Configure(p) ==
    /\ \E store \in
          {[durable EXCEPT !.enabled = TRUE, !.paused = FALSE],
           [durable EXCEPT !.enabled = FALSE, !.external = FALSE,
                           !.paused = FALSE, !.pending = NoRecord],
           [durable EXCEPT !.external = FALSE, !.paused = FALSE]} :
          store # durable /\ Saves(p, store)
    /\ UNCHANGED <<check, calls, sent, created, forsaken>>

\* authorizeExternal: the page must show the pilot enabled, which may no longer
\* be so.  An activation that fails changes nothing.
Authorize(p) ==
    /\ view[p].enabled
    /\ \/ Saves(p, [durable EXCEPT !.external = TRUE, !.paused = FALSE])
       \/ Blocked(p)
    /\ UNCHANGED <<check, calls, sent, created, forsaken>>

-----------------------------------------------------------------------------
(* The browser and the clock.                                              *)

\* A storage event.
Deliver(p) ==
    /\ view[p] # Seen(durable)
    /\ Keeps(p)
    /\ UNCHANGED <<check, calls, sent, created, forsaken>>

\* A commit or a storage event on page p whose load fails.
Misread(p) ==
    /\ Loses(p)
    /\ UNCHANGED <<check, calls, sent, created, forsaken>>

\* The page goes, with what is on its pad and what it waits for, and opens
\* again.
Reload(p) ==
    LET drawn == StatusOf(durable) = "draft" IN
    /\ durable' = durable
    /\ view' = [view EXCEPT ![p] = Seen(durable)]
    /\ pad' = [pad EXCEPT ![p] = IF drawn
                                 THEN durable.records[durable.pending].draft
                                 ELSE EmptyDraft]
    /\ armed' = [armed EXCEPT ![p] = drawn]
    /\ check' = [check EXCEPT ![p] = NoCheck]
    /\ calls' = {c \in calls : c.page # p}
    /\ forsaken' = forsaken \union {c.record : c \in {d \in calls : d.page = p}}
    /\ UNCHANGED <<sent, created>>

\* pruneWritingPilotState: every load leaves out what has expired.
Expire(r) ==
    /\ Holds(durable, r) /\ r # durable.pending
    /\ durable' = Without(durable, {r})
    /\ UNCHANGED <<view, padVars, calls, sent, created, forsaken>>

\* 00:00 UTC, for the stored record and for what the pages show.
PauseEnds ==
    /\ durable.paused
    /\ durable' = [durable EXCEPT !.paused = FALSE]
    /\ view' = [p \in Pages |-> [view[p] EXCEPT !.paused = FALSE]]
    /\ UNCHANGED <<padVars, calls, sent, created, forsaken>>

-----------------------------------------------------------------------------
PilotInit ==
    /\ durable = EmptyStore
    /\ view = [p \in Pages |-> Seen(EmptyStore)]
    /\ pad = [p \in Pages |-> EmptyDraft]
    /\ armed = [p \in Pages |-> FALSE]
    /\ check = [p \in Pages |-> NoCheck]
    /\ calls = {}
    /\ sent = 0
    /\ created = 0
    /\ forsaken = {}

Work(p) ==
    \/ \E ink \in Inks \union {Blank} : Draw(p, ink)
    \/ \E words \in Words \union {Blank} : Type(p, words)
    \/ AutoSave(p)
    \/ PressCheck(p)
    \/ Continue(p)
    \/ \E text \in {"read", "edited"} : Confirm(p, text)
    \/ Rewrite(p)
    \/ Finish(p)
    \/ Schedule(p)

Parent(p) ==
    \/ \E r \in RecordIds : Review(p, r)
    \/ \E S \in SUBSET RecordIds : Delete(p, S)
    \/ Configure(p)
    \/ Authorize(p)

PilotNext ==
    \/ \E p \in Pages : Work(p) \/ Parent(p)
    \/ \E p \in Pages : Deliver(p) \/ Misread(p) \/ Reload(p)
    \/ \E c \in calls : Answer(c)
    \/ \E r \in RecordIds : Expire(r)
    \/ PauseEnds

PilotSpec == PilotInit /\ [][PilotNext]_pilotVars

\* A call ends: the client gives up on it after 25 seconds.
PilotFairness ==
    \A i \in RequestIds : WF_pilotVars(\E c \in calls : c.id = i /\ Answer(c))

FairPilotSpec == PilotSpec /\ PilotFairness

-----------------------------------------------------------------------------
(* What is claimed of the pilot.                                           *)

\* Every variable has its type.
PilotTypeOK ==
    /\ DOMAIN durable.records \subseteq RecordIds
    /\ durable \in Store(DOMAIN durable.records)
    /\ view = [p \in Pages |-> view[p]]
    /\ \A p \in Pages : /\ DOMAIN view[p].drafts \subseteq RecordIds
                       /\ view[p] \in Sight(DOMAIN view[p].drafts)
    /\ pad \in [Pages -> Drafts]
    /\ armed \in [Pages -> BOOLEAN]
    /\ check \in [Pages -> Check \union {NoCheck}]
    /\ calls \subseteq Call
    /\ sent \in 0..MaxRequests /\ created \in 0..MaxRecords
    /\ forsaken \subseteq RecordIds

\* What is stored can be loaded again: validateWritingPilotState refuses a
\* record list over the limit and a pending record that is not there, and
\* then the pilot is shut for good.
StoreStaysReadable ==
    /\ Cardinality(DOMAIN durable.records) <= RecordLimit
    /\ durable.pending # NoRecord => Holds(durable, durable.pending)

\* A stored transcription was read from the stored draft, however late an
\* answer is, unless another draft had been saved between the two
\* commits of Check Writing; its request, and feedback, name the stored
\* revision.
NoLateReading ==
    \A r \in DOMAIN durable.records :
        LET record == durable.records[r] IN
        /\ record.raw # NoText =>
              /\ record.raw.revision = record.revision
              /\ record.raw.draft = record.draft \/ record.raw.replaced
        /\ record.feedback # NoText =>
              record.feedback.revision = record.revision

\* Feedback that is ready judges the text that is confirmed.  A record left to
\* the parent shows the feedback it has too, which a correction by the parent
\* may have overtaken: this does not speak of it.
FeedbackFitsText ==
    \A r \in DOMAIN durable.records :
        LET record == durable.records[r] IN
        record.status = "feedback_ready" =>
            record.feedback # NoText /\ record.feedback.text = record.confirmed

\* A record that says it is being checked is being checked: a page waits for
\* an answer that will still fit, unless a request was forsaken.
CheckIsAwaited ==
    \A r \in DOMAIN durable.records \ forsaken :
        durable.records[r].status \in Waiting =>
            \E c \in calls : c.record = r /\ Fits(c)

\* A new record never takes the place of one that waits for the parent.
AwaitingWorkKept ==
    [][created' > created =>
         \A r \in DOMAIN durable.records :
            Awaiting(durable.records[r]) => r \in DOMAIN durable'.records
      ]_pilotVars

\* What the documents promise: whatever happens to the request, the record
\* does not stay "being checked"; it ends in a result or with the parent.
Stuck == /\ durable.pending # NoRecord
         /\ durable.records[durable.pending].status \in Waiting

CheckEnds == Stuck ~> ~Stuck

\* What the code does: the record does not stay "being checked" as long as no
\* request was forsaken by a page that went or could not save its answer.
AwaitedCheckEnds == Stuck ~> ~Stuck \/ forsaken # {}

=============================================================================
