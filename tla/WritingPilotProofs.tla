------------------------- MODULE WritingPilotProofs -------------------------
(***************************************************************************)
(* Theorems about WritingPilot, for any number of pages, records, requests *)
(* and revisions: what is stored can be loaded again, feedback belongs to  *)
(* the confirmed text and a reading to the draft its request was made for, *)
(* a record under check has a request under way, and work that waits for   *)
(* the parent is not displaced.                                            *)
(***************************************************************************)
EXTENDS WritingPilot, FiniteSetTheorems, TLAPS

-----------------------------------------------------------------------------
(* Records and what is done to them.                                       *)

\* A record whose transcription, feedback and confirmed text belong together.
Fit == {record \in Record :
          /\ record.raw # NoText => record.raw.revision = record.revision
          /\ record.feedback # NoText =>
                record.feedback.revision = record.revision
          /\ record.status = "feedback_ready" =>
                /\ record.feedback # NoText
                /\ record.feedback.text = record.confirmed}

LEMMA NewRecordFits == NewRecord \in Fit
BY PilotAssumption DEF NewRecord, Fit, Record, Statuses, Waiting, Revisions,
   Drafts, EmptyDraft, Texts

LEMMA InkedFits ==
    ASSUME NEW record \in Fit, NEW draft \in Drafts,
           record.revision < MaxRevision
    PROVE  Inked(record, draft) \in Fit
<1>1. record.revision + 1 \in Revisions
  BY PilotAssumption DEF Fit, Record, Revisions
<1> QED  BY <1>1 DEF Inked, Fit, Record, Statuses, Waiting, Texts

LEMMA RewrittenFits ==
    ASSUME NEW record \in Fit
    PROVE  Rewritten(record) \in Fit
BY DEF Rewritten, Fit, Record, Statuses, Waiting, Texts

LEMMA TakenAsTypedFits ==
    ASSUME NEW record \in Fit
    PROVE  TakenAsTyped(record) \in Fit
<1> DEFINE typed == [revision |-> record.revision, draft |-> record.draft,
                     replaced |-> FALSE]
           raw == IF ~IsTyped(record.draft) THEN NoText ELSE typed
<1>1. typed \in Reading /\ typed.revision = record.revision
  BY DEF Fit, Record, Reading
<1> HIDE DEF typed
<1>2. /\ raw \in Reading \union {NoText}
      /\ raw # NoText => raw.revision = record.revision
  BY <1>1
<1> HIDE DEF raw
<1>3. [record EXCEPT !.status = "transcription_ready", !.uncertain = FALSE,
                     !.raw = raw] \in Fit
  BY <1>2 DEF Fit, Record, Statuses, Waiting
<1> QED  BY <1>3 DEF TakenAsTyped, raw, typed

LEMMA LeftToParentFits ==
    ASSUME NEW record \in Fit
    PROVE  LeftToParent(record) \in Fit
BY DEF LeftToParent, Fit, Record, Statuses, Waiting

LEMMA AskingFits ==
    ASSUME NEW record \in Fit, NEW status \in Waiting, NEW id \in RequestIds
    PROVE  Asking(record, status, id) \in Fit
<1> DEFINE all == record.open \union {<<id, record.revision>>}
<1>1. all \in SUBSET (RequestIds \X Revisions)
  BY DEF Fit, Record
<1> HIDE DEF all
<1>2. [record EXCEPT !.status = status, !.open = all] \in Fit
  BY <1>1 DEF Fit, Record, Statuses, Waiting
<1> QED  BY <1>2 DEF Asking, all

LEMMA RecognizedFits ==
    ASSUME NEW record \in Fit, NEW call \in Call, NEW unclear \in BOOLEAN,
           call.revision = record.revision
    PROVE  Recognized(record, call, unclear) \in Fit
<1> DEFINE raw == [revision |-> call.revision, draft |-> call.image,
                   replaced |-> call.replaced]
<1>1. raw \in Reading /\ raw.revision = record.revision
  BY DEF Call, Reading
<1> HIDE DEF raw
<1>2. [record EXCEPT !.status = "transcription_ready", !.uncertain = unclear,
                     !.raw = raw, !.reason = FALSE] \in Fit
  BY <1>1 DEF Fit, Record, Statuses, Waiting
<1> QED  BY <1>2 DEF Recognized, raw

LEMMA JudgedFits ==
    ASSUME NEW record \in Fit, NEW call \in Call, NEW parent \in BOOLEAN,
           call.revision = record.revision, record.confirmed = call.body
    PROVE  Judged(record, call, parent) \in Fit
<1> DEFINE feedback == [text |-> call.body, revision |-> call.revision]
           status == IF parent THEN "parent_review_needed" ELSE "feedback_ready"
<1>1. /\ feedback \in Feedback /\ feedback.revision = record.revision
      /\ feedback.text = record.confirmed /\ feedback # NoText
  BY PilotAssumption DEF Call, Feedback
<1> HIDE DEF feedback
<1>2. [record EXCEPT !.status = status, !.feedback = feedback,
                     !.reason = parent] \in Fit
  BY <1>1 DEF Fit, Record, Statuses, Waiting
<1> QED  BY <1>2 DEF Judged, feedback

LEMMA CorrectedFits ==
    ASSUME NEW record \in Fit
    PROVE  Corrected(record) \in Fit
BY DEF Corrected, Fit, Record, Statuses, Waiting, Texts

-----------------------------------------------------------------------------
(* Stores and what a page shows of them.                                   *)

\* A store that can be loaded again and whose records belong together.
Sound(store) ==
    \E S \in SUBSET RecordIds :
        /\ store \in Store(S)
        /\ store.records \in [S -> Fit]
        /\ Cardinality(S) <= RecordLimit
        /\ store.pending # NoRecord => store.pending \in S

Shown(sight) ==
    \E S \in SUBSET RecordIds :
        /\ sight \in Sight(S)
        /\ sight.status # "none" => sight.pending \in S

LEMMA StoreFields ==
    ASSUME NEW store, Sound(store)
    PROVE  /\ DOMAIN store.records \subseteq RecordIds
           /\ store \in Store(DOMAIN store.records)
           /\ \A r \in DOMAIN store.records : store.records[r] \in Fit
           /\ store.records \in [DOMAIN store.records -> Fit]
           /\ Cardinality(DOMAIN store.records) <= RecordLimit
           /\ store.pending \in RecordIds \union {NoRecord}
           /\ store.pending # NoRecord => store.pending \in DOMAIN store.records
BY DEF Sound, Store

LEMMA FiniteIds ==
    ASSUME NEW S \in SUBSET RecordIds
    PROVE  IsFiniteSet(S) /\ Cardinality(S) \in Nat
<1>1. IsFiniteSet(RecordIds)
  BY FS_Interval, PilotAssumption DEF RecordIds
<1> QED  BY <1>1, FS_Subset, FS_CardinalityType

LEMMA WithSound ==
    ASSUME NEW store, Sound(store), NEW r \in DOMAIN store.records,
           NEW record \in Fit
    PROVE  /\ Sound(With(store, r, record))
           /\ With(store, r, record).records = [store.records EXCEPT ![r] = record]
           /\ With(store, r, record).pending = store.pending
<1> DEFINE S == DOMAIN store.records
           new == With(store, r, record)
<1>1. /\ S \subseteq RecordIds /\ store \in Store(S)
      /\ store.records \in [S -> Fit] /\ Cardinality(S) <= RecordLimit
      /\ store.pending # NoRecord => store.pending \in S
  BY StoreFields
<1>2. /\ new = [store EXCEPT !.records = [store.records EXCEPT ![r] = record]]
      /\ [store.records EXCEPT ![r] = record] \in [S -> Fit]
      /\ [store.records EXCEPT ![r] = record] \in [S -> Record]
  BY <1>1 DEF With, Fit
<1>3. /\ new \in Store(S) /\ new.pending = store.pending
      /\ new.records = [store.records EXCEPT ![r] = record]
  BY <1>1, <1>2 DEF Store
<1> HIDE DEF new
<1>4. new.records \in [S -> Fit]
  BY <1>2, <1>3
<1>5. Sound(new)
  BY <1>1, <1>3, <1>4 DEF Sound
<1> QED  BY <1>3, <1>5 DEF new

LEMMA WithoutSound ==
    ASSUME NEW store, Sound(store), NEW T
    PROVE  /\ Sound(Without(store, T))
           /\ DOMAIN Without(store, T).records = DOMAIN store.records \ T
           /\ \A r \in DOMAIN store.records \ T :
                 Without(store, T).records[r] = store.records[r]
<1> DEFINE S == DOMAIN store.records
           new == Without(store, T)
           left == [r \in S \ T |-> store.records[r]]
<1>1. /\ S \subseteq RecordIds /\ store \in Store(S)
      /\ store.records \in [S -> Fit] /\ Cardinality(S) <= RecordLimit
      /\ store.pending # NoRecord => store.pending \in S
  BY StoreFields
<1>2. left \in [S \ T -> Fit] /\ left \in [S \ T -> Record]
  BY <1>1 DEF Fit
<1> DEFINE pending == IF store.pending \in T THEN NoRecord ELSE store.pending
<1>3. /\ new = [store EXCEPT !.records = left, !.pending = pending]
      /\ pending \in RecordIds \union {NoRecord}
  BY <1>1 DEF Without, Store
<1> HIDE DEF left, pending, new
<1>4. /\ new \in Store(S \ T)
      /\ new.records = left /\ new.pending = pending
  BY <1>1, <1>2, <1>3 DEF Store
<1>5. Cardinality(S \ T) <= RecordLimit
  <2>1. IsFiniteSet(S)
    BY <1>1, FiniteIds
  <2>2. /\ Cardinality(S \ T) <= Cardinality(S)
        /\ Cardinality(S \ T) \in Nat /\ Cardinality(S) \in Nat
    BY <1>1, <2>1, FS_Subset, FiniteIds
  <2> QED  BY <1>1, <2>2, PilotAssumption
<1>6. new.pending # NoRecord => new.pending \in S \ T
  BY <1>1, <1>4 DEF pending
<1>7. Sound(new)
  BY <1>1, <1>2, <1>4, <1>5, <1>6 DEF Sound
<1> QED  BY <1>4, <1>7 DEF new, left

\* Settings and the pending record may change without touching the records.
LEMMA SettingsSound ==
    ASSUME NEW store, Sound(store), NEW new \in Store(DOMAIN store.records),
           new.records = store.records,
           new.pending \in DOMAIN store.records \union {NoRecord}
    PROVE  Sound(new)
<1> DEFINE S == DOMAIN store.records
<1>1. /\ S \subseteq RecordIds /\ store.records \in [S -> Fit]
      /\ Cardinality(S) <= RecordLimit
  BY StoreFields
<1> HIDE DEF S
<1>2. new \in Store(S) /\ new.pending \in S \union {NoRecord}
  BY DEF S
<1> QED  BY <1>1, <1>2 DEF Sound

LEMMA PendingSound ==
    ASSUME NEW store, Sound(store),
           NEW pending \in DOMAIN store.records \union {NoRecord}
    PROVE  Sound([store EXCEPT !.pending = pending])
<1> DEFINE new == [store EXCEPT !.pending = pending]
<1>1. /\ DOMAIN store.records \subseteq RecordIds
      /\ store \in Store(DOMAIN store.records)
  BY StoreFields
<1>2. /\ new \in Store(DOMAIN store.records)
      /\ new.records = store.records /\ new.pending = pending
  BY <1>1 DEF Store
<1> HIDE DEF new
<1>3. Sound(new)
  BY <1>2, SettingsSound
<1> QED  BY <1>3 DEF new

LEMMA EmptySound == Sound(EmptyStore)
<1>1. <<>> \in [{} -> Record] /\ <<>> \in [{} -> Fit]
  OBVIOUS
<1>2. EmptyStore \in Store({})
  BY <1>1 DEF EmptyStore, Store
<1>3. Cardinality({}) <= RecordLimit
  BY FS_EmptySet, PilotAssumption
<1> QED  BY <1>1, <1>2, <1>3 DEF EmptyStore, Sound

LEMMA SeenShown ==
    ASSUME NEW store, Sound(store)
    PROVE  /\ Shown(Seen(store))
           /\ Seen(store).status = "draft" =>
                Seen(store).drafts[Seen(store).pending] \in Drafts
<1> DEFINE S == DOMAIN store.records
           drafts == [r \in S |-> store.records[r].draft]
<1>1. /\ S \in SUBSET RecordIds /\ store \in Store(S)
      /\ store.records \in [S -> Record]
      /\ store.pending \in RecordIds \union {NoRecord}
      /\ store.pending # NoRecord => store.pending \in S
  BY StoreFields DEF Fit
<1>2. drafts \in [S -> Drafts]
  BY <1>1 DEF Record
<1>3. /\ StatusOf(store) \in Statuses \union {"none"}
      /\ StatusOf(store) # "none" => store.pending \in S
  BY <1>1 DEF StatusOf, Record
<1>4. Seen(store) = [pending |-> store.pending, status |-> StatusOf(store),
                     drafts |-> drafts, enabled |-> store.enabled,
                     external |-> store.external, paused |-> store.paused]
  BY DEF Seen
<1>5. Seen(store) \in Sight(S)
  BY <1>1, <1>2, <1>3, <1>4 DEF Sight, Store
<1>6. Seen(store).status # "none" => Seen(store).pending \in S
  BY <1>3, <1>4
<1>7. Shown(Seen(store))
  BY <1>1, <1>5, <1>6 DEF Shown
<1>8. Seen(store).status = "draft" => drafts[Seen(store).pending] \in Drafts
  BY <1>2, <1>6
<1> QED  BY <1>4, <1>7, <1>8

-----------------------------------------------------------------------------
(* Types, and what is stored.                                              *)

Screens ==
    /\ view = [p \in Pages |-> view[p]]
    /\ \A p \in Pages : Shown(view[p])
    /\ pad \in [Pages -> Drafts]
    /\ armed \in [Pages -> BOOLEAN]

Requests ==
    /\ check \in [Pages -> Check \union {NoCheck}]
    /\ calls \subseteq Call
    /\ sent \in 0..MaxRequests
    /\ created \in 0..MaxRecords
    /\ forsaken \subseteq RecordIds

TypeInv == Sound(durable) /\ Screens /\ Requests

LEMMA TypeInvTypes == TypeInv => PilotTypeOK
<1> SUFFICES ASSUME TypeInv PROVE PilotTypeOK
  OBVIOUS
<1>1. /\ DOMAIN durable.records \subseteq RecordIds
      /\ durable \in Store(DOMAIN durable.records)
  BY StoreFields DEF TypeInv
<1>2. ASSUME NEW p \in Pages
      PROVE  /\ DOMAIN view[p].drafts \subseteq RecordIds
             /\ view[p] \in Sight(DOMAIN view[p].drafts)
  BY DEF TypeInv, Screens, Shown, Sight
<1> QED  BY <1>1, <1>2 DEF TypeInv, Screens, Requests, PilotTypeOK

LEMMA ShowScreens ==
    ASSUME Screens, NEW p \in Pages, NEW store, Sound(store),
           NEW timer \in BOOLEAN, Show(p, store, timer)
    PROVE  Screens'
<1> DEFINE new == Seen(store)
           anew == \/ new.pending # view[p].pending
                   \/ new.status # view[p].status
           ink == IF new.status = "draft" THEN new.drafts[new.pending]
                  ELSE EmptyDraft
           running == IF anew THEN new.status = "draft" ELSE timer
<1>1. /\ view' = [view EXCEPT ![p] = new]
      /\ pad' = IF ~anew THEN pad ELSE [pad EXCEPT ![p] = ink]
      /\ armed' = [armed EXCEPT ![p] = running]
  BY DEF Show
<1>2. Shown(new) /\ ink \in Drafts /\ running \in BOOLEAN
  BY SeenShown DEF Drafts, EmptyDraft
<1> HIDE DEF new, anew, ink, running
<1> QED  BY <1>1, <1>2 DEF Screens

LEMMA SavesTyped ==
    ASSUME Screens, NEW p \in Pages, NEW store, Sound(store), Saves(p, store)
    PROVE  Sound(durable)' /\ Screens'
<1>1. durable' = store /\ Show(p, store, armed[p]) /\ armed[p] \in BOOLEAN
  BY DEF Saves, Screens
<1> QED  BY <1>1, ShowScreens

LEMMA KeepsTyped ==
    ASSUME Sound(durable), Screens, NEW p \in Pages, Keeps(p)
    PROVE  Sound(durable)' /\ Screens'
<1>1. durable' = durable /\ Show(p, durable, armed[p]) /\ armed[p] \in BOOLEAN
  BY DEF Keeps, Screens
<1> QED  BY <1>1, ShowScreens

LEMMA UnlockedTyped ==
    ASSUME Sound(durable), Screens, UNCHANGED <<durable, view, pad, armed>>
    PROVE  Sound(durable)' /\ Screens'
BY DEF Screens

LEMMA LosesTyped ==
    ASSUME Sound(durable), Screens, NEW p \in Pages, Loses(p)
    PROVE  Sound(durable)' /\ Screens'
<1>1. durable' = durable /\ Show(p, EmptyStore, armed[p]) /\ armed[p] \in BOOLEAN
  BY DEF Loses, Screens
<1> QED  BY <1>1, EmptySound, ShowScreens

LEMMA BlockedTyped ==
    ASSUME Sound(durable), Screens, NEW p \in Pages, Blocked(p)
    PROVE  Sound(durable)' /\ Screens'
BY KeepsTyped, LosesTyped, UnlockedTyped DEF Blocked, Unlocked

LEMMA ChangeTyped ==
    ASSUME Sound(durable), Screens, NEW p \in Pages,
           NEW r, Holds(durable, r), NEW record \in Fit,
           Saves(p, With(durable, r, record))
    PROVE  Sound(durable)' /\ Screens'
<1>1. Sound(With(durable, r, record))
  BY WithSound DEF Holds
<1> QED  BY <1>1, SavesTyped

LEMMA CommitTyped ==
    ASSUME Sound(durable), Screens, NEW p \in Pages,
           NEW r, NEW record, Holds(durable, r) => record \in Fit,
           Commit(p, r, record)
    PROVE  Sound(durable)' /\ Screens'
BY ChangeTyped, BlockedTyped DEF Commit

LEMMA HeldFits ==
    ASSUME Sound(durable), NEW r, Holds(durable, r)
    PROVE  r \in RecordIds /\ durable.records[r] \in Fit
BY StoreFields DEF Holds

LEMMA AskTyped ==
    ASSUME Requests, Sound(durable), NEW p \in Pages, NEW r, Holds(durable, r),
           NEW kind \in {"recognition", "evaluation"}, NEW text \in Texts,
           NEW image \in Drafts, NEW replaced \in BOOLEAN,
           Ask(p, r, kind, text, image, replaced)
    PROVE  /\ calls' \subseteq Call
           /\ sent' \in 0..MaxRequests
           /\ sent + 1 \in RequestIds
<1>1. r \in RecordIds /\ durable.records[r].revision \in Revisions
  BY HeldFits DEF Fit, Record
<1>2. sent + 1 \in RequestIds /\ sent' \in 0..MaxRequests
  BY PilotAssumption DEF Ask, Requests, RequestIds
<1>3. [id |-> sent + 1, page |-> p, record |-> r, kind |-> kind, body |-> text,
       revision |-> durable.records[r].revision, image |-> image,
       replaced |-> replaced] \in Call
  BY <1>1, <1>2 DEF Call
<1> QED  BY <1>2, <1>3 DEF Ask, Requests

LEMMA SaveTyped ==
    ASSUME Sound(durable), Screens, NEW p \in Pages, NEW timer \in BOOLEAN,
           Save(p, timer)
    PROVE  Sound(durable)' /\ Screens'
<1> DEFINE r == Mine(p)
           record == durable.records[r]
           store == With(durable, r, Inked(record, pad[p]))
<1>1. CASE Holds(durable, r) /\ record.draft # pad[p]
  <2>1. /\ record.revision < MaxRevision /\ durable' = store
        /\ Show(p, store, timer)
    BY <1>1 DEF Save
  <2>2. record \in Fit /\ pad[p] \in Drafts
    BY <1>1, HeldFits DEF Screens
  <2>3. Sound(store)
    BY <1>1, <2>1, <2>2, InkedFits, WithSound DEF Holds
  <2> HIDE DEF store
  <2> QED  BY <2>1, <2>3, ShowScreens
<1>2. CASE ~(Holds(durable, r) /\ record.draft # pad[p])
  <2>1. durable' = durable /\ Show(p, durable, timer)
    BY <1>2 DEF Save
  <2> QED  BY <2>1, ShowScreens
<1> QED  BY <1>1, <1>2

LEMMA SaveHolds ==
    ASSUME Sound(durable), NEW p, NEW timer, Save(p, timer),
           Holds(durable, Mine(p))
    PROVE  Holds(durable', Mine(p))
<1>1. durable \in Store(DOMAIN durable.records)
  BY StoreFields
<1>2. \A record : DOMAIN With(durable, Mine(p), record).records
                    = DOMAIN durable.records
  BY <1>1 DEF With, Store
<1> QED  BY <1>2 DEF Save, Holds

\* A page that shows a record of some status shows which one.
LEMMA MineShown ==
    ASSUME Screens, NEW p \in Pages, view[p].status # "none"
    PROVE  Mine(p) \in RecordIds
BY DEF Screens, Shown, Mine

LEMMA WorkTyped ==
    ASSUME TypeInv, NEW p \in Pages, Work(p)
    PROVE  TypeInv'
<1>t. Sound(durable) /\ Screens /\ Requests
  BY DEF TypeInv
<1>r. ASSUME UNCHANGED <<check, calls, sent, created, forsaken>> PROVE Requests'
  BY <1>t, <1>r DEF Requests
<1>d. ASSUME NEW draft \in Drafts, Changes(p, draft) PROVE TypeInv'
  BY <1>t, <1>d, <1>r DEF Changes, TypeInv, Screens
<1>1. ASSUME NEW ink \in Inks \union {Blank}, Draw(p, ink) PROVE TypeInv'
  <2>1. [pad[p] EXCEPT !.ink = ink] \in Drafts
    BY <1>t DEF Screens, Drafts
  <2> QED  BY <1>1, <1>d, <2>1 DEF Draw
<1>w. ASSUME NEW words \in Words \union {Blank}, Type(p, words) PROVE TypeInv'
  <2>1. [pad[p] EXCEPT !.words = words] \in Drafts
    BY <1>t DEF Screens, Drafts
  <2> QED  BY <1>w, <1>d, <2>1 DEF Type
<1>2. ASSUME AutoSave(p) PROVE TypeInv'
  <2>1. ASSUME Save(p, FALSE) PROVE Sound(durable)' /\ Screens'
    BY <1>t, <2>1, SaveTyped
  <2>2. ASSUME durable' = durable, Show(p, durable, FALSE)
        PROVE  Sound(durable)' /\ Screens'
    BY <1>t, <2>2, ShowScreens
  <2>3. ASSUME armed' = [armed EXCEPT ![p] = FALSE],
               UNCHANGED <<durable, view, pad>>
        PROVE  Sound(durable)' /\ Screens'
    BY <1>t, <2>3 DEF Screens
  <2> QED  BY <1>2, <1>r, <2>1, <2>2, <2>3 DEF AutoSave, TypeInv
<1>3. ASSUME PressCheck(p) PROVE TypeInv'
  <2>1. armed[p] \in BOOLEAN /\ Mine(p) \in RecordIds
    BY <1>t, <1>3, MineShown DEF PressCheck, Child, Screens
  <2>2. Sound(durable)' /\ Screens'
    BY <1>t, <1>3, <2>1, SaveTyped DEF PressCheck
  <2>3. Holds(durable, Mine(p)) =>
          durable'.records[Mine(p)].revision \in Revisions
    <3>1. Holds(durable, Mine(p)) => Holds(durable', Mine(p))
      BY <1>t, <1>3, SaveHolds DEF PressCheck
    <3> QED  BY <2>2, <3>1, StoreFields DEF Holds, Fit, Record
  <2>4. Holds(durable, Mine(p)) =>
          [record |-> Mine(p), draft |-> pad[p],
           revision |-> durable'.records[Mine(p)].revision] \in Check
    BY <1>t, <2>1, <2>3 DEF Check, Screens
  <2>5. check' \in [Pages -> Check \union {NoCheck}]
    BY <1>t, <1>3, <2>4 DEF PressCheck, Requests
  <2>6. Requests'
    BY <1>t, <1>3, <2>5 DEF PressCheck, Requests
  <2> QED  BY <2>2, <2>6 DEF TypeInv
<1>4. ASSUME Continue(p) PROVE TypeInv'
  <2> DEFINE r == check[p].record
             record == durable.records[r]
  <2>1. check' \in [Pages -> Check \union {NoCheck}] /\ UNCHANGED <<created, forsaken>>
    BY <1>t, <1>4 DEF Continue, Requests
  <2>2. ASSUME NoAsk PROVE Requests'
    BY <1>t, <2>1, <2>2 DEF NoAsk, Requests
  <2>3. Holds(durable, r) => /\ record \in Fit
                             /\ TakenAsTyped(record) \in Fit
                             /\ LeftToParent(record) \in Fit
    BY <1>t, HeldFits, TakenAsTypedFits, LeftToParentFits
  <2>4. CASE Unlocked(p) /\ NoAsk
    BY <1>t, <2>2, <2>4, UnlockedTyped DEF Unlocked, TypeInv
  <2>5. CASE Commit(p, r, TakenAsTyped(record)) /\ NoAsk
    BY <1>t, <2>2, <2>3, <2>5, CommitTyped DEF TypeInv
  <2>6. CASE Commit(p, r, LeftToParent(record)) /\ NoAsk
    BY <1>t, <2>2, <2>3, <2>6, CommitTyped DEF TypeInv
  <2>7. CASE /\ Holds(durable, r)
             /\ Saves(p, With(durable, r,
                              Asking(record, "recognition_pending", sent + 1)))
             /\ Ask(p, r, "recognition", "read", check[p].draft,
                    record.revision # check[p].revision)
    <3>1. /\ "read" \in Texts /\ "recognition_pending" \in Waiting
          /\ check[p].draft \in Drafts
      BY <1>t, <1>4 DEF Continue, Texts, Waiting, Requests, Check
    <3>2. calls' \subseteq Call /\ sent' \in 0..MaxRequests /\ sent + 1 \in RequestIds
      BY <1>t, <2>7, <3>1, AskTyped
    <3>3. Asking(record, "recognition_pending", sent + 1) \in Fit
      BY <2>3, <2>7, <3>1, <3>2, AskingFits
    <3>4. Sound(durable)' /\ Screens'
      BY <1>t, <2>7, <3>3, ChangeTyped
    <3> QED  BY <1>t, <2>1, <3>2, <3>4 DEF TypeInv, Requests
  <2>8. CASE Blocked(p) /\ NoAsk
    BY <1>t, <2>2, <2>8, BlockedTyped DEF TypeInv
  <2> QED  BY <1>4, <2>4, <2>5, <2>6, <2>7, <2>8 DEF Continue
<1>5. ASSUME NEW text \in {"read", "edited"}, Confirm(p, text) PROVE TypeInv'
  <2> DEFINE r == Mine(p)
             record == [durable.records[r] EXCEPT !.confirmed = text]
             asked == [record EXCEPT !.reason = FALSE]
  <2>1. UNCHANGED <<check, created, forsaken>>
    BY <1>5 DEF Confirm
  <2>2. ASSUME NoAsk PROVE Requests'
    BY <1>t, <2>1, <2>2 DEF NoAsk, Requests
  <2>3. CASE /\ Holds(durable, r)
             /\ Saves(p, With(durable, r, Asking(asked, "evaluation_pending", sent + 1)))
             /\ Ask(p, r, "evaluation", text, EmptyDraft, FALSE)
    <3>1. /\ text \in Texts /\ "evaluation_pending" \in Waiting
          /\ EmptyDraft \in Drafts
      BY DEF Texts, Waiting, EmptyDraft, Drafts
    <3>2. calls' \subseteq Call /\ sent' \in 0..MaxRequests /\ sent + 1 \in RequestIds
      BY <1>t, <2>3, <3>1, AskTyped
    <3>3. durable.records[r] \in Fit
      BY <1>t, <2>3, HeldFits
    <3>4. Asking(asked, "evaluation_pending", sent + 1) \in Fit
      \* The status changes with the text, so the feedback need not fit it.
      <4>1. [durable.records[r] EXCEPT !.status = "evaluation_pending"] \in Fit
        BY <3>3 DEF Fit, Record, Statuses, Waiting
      <4> DEFINE base == [durable.records[r] EXCEPT !.status = "evaluation_pending",
                            !.confirmed = text, !.reason = FALSE]
      <4>2. base \in Fit
        BY <3>1, <3>3 DEF Fit, Record, Statuses, Waiting
      <4>3. Asking(base, "evaluation_pending", sent + 1) \in Fit
        BY <3>1, <3>2, <4>2, AskingFits
      <4>4. Asking(asked, "evaluation_pending", sent + 1)
              = Asking(base, "evaluation_pending", sent + 1)
        BY <3>3 DEF Asking, Fit, Record
      <4> QED  BY <4>3, <4>4
    <3>5. Sound(durable)' /\ Screens'
      BY <1>t, <2>3, <3>4, ChangeTyped
    <3> QED  BY <1>t, <2>1, <3>2, <3>5 DEF TypeInv, Requests
  <2>4. CASE /\ Holds(durable, r)
             /\ Saves(p, With(durable, r, LeftToParent(record))) /\ NoAsk
    <3>1. durable.records[r] \in Fit
      BY <1>t, <2>4, HeldFits
    <3>2. LeftToParent(record) \in Fit
      BY <3>1 DEF LeftToParent, Fit, Record, Statuses, Waiting, Texts
    <3> QED  BY <1>t, <2>2, <2>4, <3>2, ChangeTyped DEF TypeInv
  <2>5. CASE Keeps(p) /\ NoAsk
    BY <1>t, <2>2, <2>5, KeepsTyped DEF TypeInv
  <2> QED  BY <1>5, <2>3, <2>4, <2>5 DEF Confirm
<1>6. ASSUME Rewrite(p) PROVE TypeInv'
  <2> DEFINE r == Mine(p)
  <2>1. Holds(durable, r) => Rewritten(durable.records[r]) \in Fit
    BY <1>t, HeldFits, RewrittenFits
  <2> QED  BY <1>t, <1>6, <1>r, <2>1, CommitTyped DEF Rewrite, TypeInv
<1>7. ASSUME Finish(p) PROVE TypeInv'
  <2> DEFINE r == Mine(p)
             done == [durable.records[r] EXCEPT !.status = "completed"]
             store == With(durable, r, done)
             new == [store EXCEPT !.pending = IF @ = r THEN NoRecord ELSE @]
  <2>1. CASE Holds(durable, r)
    <3>1. durable.records[r] \in Fit
      BY <1>t, <2>1, HeldFits
    <3>2. done \in Fit
      BY <3>1 DEF Fit, Record, Statuses
    <3> HIDE DEF done
    <3>3. Sound(store)
      BY <1>t, <2>1, <3>2, WithSound DEF Holds
    <3> HIDE DEF store
    <3>4. store.pending \in DOMAIN store.records \union {NoRecord}
      BY <3>3, StoreFields
    <3>5. Sound(new)
      BY <3>3, <3>4, PendingSound
    <3>8. Saves(p, new)
      BY <1>7, <2>1 DEF Finish, store, done
    <3> HIDE DEF new
    <3>9. Sound(durable)' /\ Screens'
      BY <1>t, <3>5, <3>8, SavesTyped
    <3> QED  BY <1>7, <1>r, <3>9 DEF Finish, TypeInv
  <2>2. CASE ~Holds(durable, r)
    BY <1>t, <1>7, <1>r, <2>2, KeepsTyped DEF Finish, TypeInv
  <2> QED  BY <2>1, <2>2
<1>8. ASSUME Schedule(p) PROVE TypeInv'
  <2> DEFINE victims == Victims(durable)
             kept == Without(durable, victims)
             stays == kept.records
             S == DOMAIN stays
             r == created + 1
             records == [s \in S \union {r} |-> IF s = r THEN NewRecord ELSE stays[s]]
             new == [durable EXCEPT !.records = records, !.pending = r]
  <2>1. r \in RecordIds /\ created' \in 0..MaxRecords
    BY <1>t, <1>8, PilotAssumption DEF Schedule, Requests, RecordIds
  <2>2. /\ S = DOMAIN durable.records \ victims
        /\ S \subseteq RecordIds /\ stays \in [S -> Fit]
    BY <1>t, StoreFields, WithoutSound
  <2>3. records \in [S \union {r} -> Fit] /\ records \in [S \union {r} -> Record]
    BY <2>2, NewRecordFits DEF Fit
  <2>4. new \in Store(S \union {r}) /\ new.records = records /\ new.pending = r
    <3>1. durable \in Store(DOMAIN durable.records)
      BY <1>t, StoreFields
    <3> HIDE DEF records, S, r
    <3> QED  BY <2>1, <2>3, <3>1 DEF Store
  <2>5. Cardinality(S \union {r}) <= RecordLimit
    <3> DEFINE D == DOMAIN durable.records
    <3>1. /\ D \subseteq RecordIds /\ Cardinality(D) <= RecordLimit
      BY <1>t, StoreFields
    <3>2. /\ IsFiniteSet(D) /\ Cardinality(D) \in Nat
          /\ IsFiniteSet(S) /\ Cardinality(S) \in Nat
      BY <2>2, <3>1, FiniteIds
    <3>3. Cardinality(S \union {r}) <= Cardinality(S) + 1
      <4> HIDE DEF S, r
      <4>1. Cardinality(S \union {r}) = IF r \in S THEN Cardinality(S)
                                        ELSE Cardinality(S) + 1
        BY <3>2, FS_AddElement
      <4> QED  BY <3>2, <4>1
    <3>4. Cardinality(S \union {r}) \in Nat
      BY <2>1, <2>2, FiniteIds
    <3>5. CASE Full(durable)
      <4>1. PICK v \in victims : TRUE
        BY <1>8, <3>5 DEF Schedule
      <4>2. v \in D /\ S \subseteq D \ {v}
        BY <2>2, <4>1 DEF Victims
      <4>3. Cardinality(D \ {v}) = Cardinality(D) - 1 /\ IsFiniteSet(D \ {v})
        BY <3>2, <4>2, FS_RemoveElement
      <4>4. Cardinality(S) <= Cardinality(D \ {v})
        BY <4>2, <4>3, FS_Subset
      <4> QED  BY <3>1, <3>2, <3>3, <3>4, <4>3, <4>4, PilotAssumption
    <3>6. CASE ~Full(durable)
      <4>1. Cardinality(D) < RecordLimit
        BY <3>2, <3>6, PilotAssumption DEF Full
      <4>2. Cardinality(S) <= Cardinality(D)
        BY <2>2, <3>2, FS_Subset
      <4> QED  BY <3>2, <3>3, <3>4, <4>1, <4>2, PilotAssumption
    <3> QED  BY <3>5, <3>6
  <2> HIDE DEF records
  <2>6. Sound(new)
    <3>1. S \union {r} \in SUBSET RecordIds /\ r \in S \union {r}
      BY <2>1, <2>2
    <3> HIDE DEF new, S, r
    <3> QED  BY <2>3, <2>4, <2>5, <3>1 DEF Sound
  <2>7. Saves(p, new)
    BY <1>8 DEF Schedule, records
  <2> HIDE DEF new
  <2>8. Sound(durable)' /\ Screens'
    BY <1>t, <2>6, <2>7, SavesTyped
  <2>9. Requests'
    BY <1>t, <1>8, <2>1 DEF Schedule, Requests
  <2> QED  BY <2>8, <2>9 DEF TypeInv
<1> QED  BY <1>1, <1>w, <1>2, <1>3, <1>4, <1>5, <1>6, <1>7, <1>8 DEF Work

LEMMA ParentTyped ==
    ASSUME TypeInv, NEW p \in Pages, Parent(p)
    PROVE  TypeInv'
<1>t. Sound(durable) /\ Screens /\ Requests
  BY DEF TypeInv
<1>d. /\ durable \in Store(DOMAIN durable.records)
      /\ durable.pending \in DOMAIN durable.records \union {NoRecord}
      /\ DOMAIN durable.records \subseteq RecordIds
  BY <1>t, StoreFields
<1>r. ASSUME UNCHANGED <<check, calls, sent, created, forsaken>> PROVE Requests'
  BY <1>t, <1>r DEF Requests
<1>1. ASSUME NEW r \in RecordIds, Review(p, r) PROVE TypeInv'
  <2>1. Holds(durable, r) /\ durable.records[r] \in Fit
    BY <1>t, <1>1, HeldFits DEF Review
  <2>2. [durable.records[r] EXCEPT !.reviewed = TRUE] \in Fit
    BY <2>1 DEF Fit, Record
  <2>3. ParentChanges(r) \subseteq Fit
    BY <2>1, <2>2, CorrectedFits DEF ParentChanges
  <2>4. PICK record \in Fit : Saves(p, With(durable, r, record))
    BY <1>1, <2>3 DEF Review
  <2>5. Sound(durable)' /\ Screens'
    BY <1>t, <2>1, <2>4, ChangeTyped
  <2> QED  BY <1>1, <1>r, <2>5 DEF Review, TypeInv
<1>2. ASSUME NEW S \in SUBSET RecordIds, Delete(p, S) PROVE TypeInv'
  <2>1. Sound(Without(durable, S))
    BY <1>t, WithoutSound
  <2>2. Sound(durable)' /\ Screens'
    BY <1>t, <1>2, <2>1, SavesTyped DEF Delete
  <2> QED  BY <1>2, <1>r, <2>2 DEF Delete, TypeInv
<1>3. ASSUME Configure(p) PROVE TypeInv'
  <2> DEFINE on == [durable EXCEPT !.enabled = TRUE, !.paused = FALSE]
             off == [durable EXCEPT !.enabled = FALSE, !.external = FALSE,
                                    !.paused = FALSE, !.pending = NoRecord]
             alone == [durable EXCEPT !.external = FALSE, !.paused = FALSE]
  <2>1. PICK store \in {on, off, alone} : Saves(p, store)
    BY <1>3 DEF Configure
  <2>2. /\ store \in Store(DOMAIN durable.records)
        /\ store.records = durable.records
        /\ store.pending \in DOMAIN durable.records \union {NoRecord}
    BY <1>d DEF Store
  <2>3. Sound(store)
    BY <1>t, <2>2, SettingsSound
  <2>4. Sound(durable)' /\ Screens'
    BY <1>t, <2>1, <2>3, SavesTyped
  <2> QED  BY <1>3, <1>r, <2>4 DEF Configure, TypeInv
<1>4. ASSUME Authorize(p) PROVE TypeInv'
  <2> DEFINE store == [durable EXCEPT !.external = TRUE, !.paused = FALSE]
  <2>1. /\ store \in Store(DOMAIN durable.records)
        /\ store.records = durable.records
        /\ store.pending \in DOMAIN durable.records \union {NoRecord}
    BY <1>d DEF Store
  <2>2. Saves(p, store) \/ Blocked(p)
    BY <1>4 DEF Authorize
  <2> HIDE DEF store
  <2>3. Sound(store)
    BY <1>t, <2>1, SettingsSound
  <2>4. Sound(durable)' /\ Screens'
    BY <1>t, <2>2, <2>3, SavesTyped, BlockedTyped
  <2> QED  BY <1>4, <1>r, <2>4 DEF Authorize, TypeInv
<1> QED  BY <1>1, <1>2, <1>3, <1>4 DEF Parent

\* What an answer makes of the store keeps texts and revisions together.
LEMMA ResultsSound ==
    ASSUME Sound(durable), NEW call \in Call, Fits(call),
           NEW store \in Results(call)
    PROVE  Sound(store)
<1> DEFINE r == call.record
           record == durable.records[r]
           settled == Settled(call)
<1>1. /\ r \in DOMAIN durable.records /\ record \in Fit
      /\ call.revision = record.revision
      /\ call.kind = "evaluation" => record.confirmed = call.body
  BY HeldFits DEF Fits, Holds
<1>2. /\ settled \in Fit
      /\ settled.revision = record.revision
      /\ settled.confirmed = record.confirmed
  BY <1>1 DEF Settled, Fit, Record
<1> HIDE DEF settled
<1>3. LeftToParent(settled) \in Fit
  BY <1>2, LeftToParentFits
<1>4. ASSUME NEW b \in BOOLEAN
      PROVE  (IF call.kind = "recognition" THEN Recognized(settled, call, b)
              ELSE Judged(settled, call, b)) \in Fit
  <2>1. CASE call.kind = "recognition"
    BY <1>1, <1>2, <2>1, RecognizedFits
  <2>2. CASE call.kind # "recognition"
    <3>1. call.kind = "evaluation"
      BY <2>2 DEF Call
    <3> QED  BY <1>1, <1>2, <2>2, <3>1, JudgedFits
  <2> QED  BY <2>1, <2>2
<1>5. ASSUME NEW new \in Fit PROVE Sound(With(durable, r, new))
  BY <1>1, WithSound
<1> DEFINE parents == With(durable, r, LeftToParent(settled))
<1>6. Sound([parents EXCEPT !.paused = TRUE])
  <2>1. Sound(parents)
    BY <1>3, <1>5
  <2> HIDE DEF parents
  <2>2. /\ parents \in Store(DOMAIN parents.records)
        /\ parents.pending \in DOMAIN parents.records \union {NoRecord}
    BY <2>1, StoreFields
  <2>3. /\ [parents EXCEPT !.paused = TRUE] \in Store(DOMAIN parents.records)
        /\ [parents EXCEPT !.paused = TRUE].records = parents.records
        /\ [parents EXCEPT !.paused = TRUE].pending = parents.pending
    BY <2>2 DEF Store
  <2> QED  BY <2>1, <2>2, <2>3, SettingsSound
<1>7. \/ \E new \in Fit : store = With(durable, r, new)
      \/ store = [parents EXCEPT !.paused = TRUE]
  BY <1>3, <1>4 DEF Results, settled
<1> QED  BY <1>5, <1>6, <1>7

LEMMA NextTypeInv == TypeInv /\ [PilotNext]_pilotVars => TypeInv'
<1> SUFFICES ASSUME TypeInv, [PilotNext]_pilotVars PROVE TypeInv'
  OBVIOUS
<1>t. Sound(durable) /\ Screens /\ Requests
  BY DEF TypeInv
<1>r. ASSUME UNCHANGED <<check, calls, sent, created, forsaken>> PROVE Requests'
  BY <1>t, <1>r DEF Requests
<1>1. ASSUME NEW p \in Pages, Deliver(p) PROVE TypeInv'
  BY <1>t, <1>1, <1>r, KeepsTyped DEF Deliver, TypeInv
<1>m. ASSUME NEW p \in Pages, Misread(p) PROVE TypeInv'
  BY <1>t, <1>m, <1>r, LosesTyped DEF Misread, TypeInv
<1>2. ASSUME NEW p \in Pages, Reload(p) PROVE TypeInv'
  <2> DEFINE drawn == StatusOf(durable) = "draft"
             ink == IF drawn THEN durable.records[durable.pending].draft
                    ELSE EmptyDraft
  <2>1. ink \in Drafts
    <3>1. drawn => durable.pending \in DOMAIN durable.records
      BY <1>t, StoreFields DEF StatusOf
    <3>2. drawn => durable.records[durable.pending] \in Fit
      BY <1>t, <3>1, StoreFields
    <3> QED  BY <3>2 DEF Fit, Record, Drafts, EmptyDraft
  <2>2. Shown(Seen(durable)) /\ drawn \in BOOLEAN
    BY <1>t, SeenShown
  <2>3. /\ view' = [view EXCEPT ![p] = Seen(durable)]
        /\ pad' = [pad EXCEPT ![p] = ink]
        /\ armed' = [armed EXCEPT ![p] = drawn]
    BY <1>2 DEF Reload
  <2>4. Screens'
    <3> HIDE DEF ink, drawn
    <3> QED  BY <1>t, <2>1, <2>2, <2>3 DEF Screens
  <2>5. Requests'
    <3>1. check' \in [Pages -> Check \union {NoCheck}]
      BY <1>t, <1>2 DEF Reload, Requests
    <3>2. \A c \in calls : c.record \in RecordIds
      BY <1>t DEF Requests, Call
    <3>3. forsaken' \subseteq RecordIds /\ calls' \subseteq Call
      BY <1>t, <1>2, <3>2 DEF Reload, Requests
    <3> QED  BY <1>t, <1>2, <3>1, <3>3 DEF Reload, Requests
  <2> QED  BY <1>t, <1>2, <2>4, <2>5 DEF Reload, TypeInv
<1>3. ASSUME NEW c \in calls, Answer(c) PROVE TypeInv'
  <2>1. c \in Call /\ c.page \in Pages /\ c.record \in RecordIds
    BY <1>t DEF Requests, Call
  <2>2. Requests'
    BY <1>t, <1>3, <2>1 DEF Answer, Requests
  <2>3. CASE Fits(c) /\ \E store \in Results(c) : Saves(c.page, store)
    BY <1>t, <2>1, <2>2, <2>3, ResultsSound, SavesTyped DEF TypeInv
  <2>4. CASE Keeps(c.page) \/ Blocked(c.page)
    BY <1>t, <2>1, <2>2, <2>4, KeepsTyped, BlockedTyped DEF TypeInv
  <2> QED  BY <1>3, <2>3, <2>4 DEF Answer
<1>4. ASSUME NEW r \in RecordIds, Expire(r) PROVE TypeInv'
  <2>1. Sound(durable)'
    BY <1>t, <1>4, WithoutSound DEF Expire
  <2> QED  BY <1>t, <1>4, <1>r, <2>1 DEF Expire, padVars, Screens, TypeInv
<1>5. ASSUME PauseEnds PROVE TypeInv'
  <2> DEFINE store == [durable EXCEPT !.paused = FALSE]
  <2>1. /\ store \in Store(DOMAIN durable.records)
        /\ store.records = durable.records
        /\ store.pending \in DOMAIN durable.records \union {NoRecord}
    <3>1. /\ durable \in Store(DOMAIN durable.records)
          /\ durable.pending \in DOMAIN durable.records \union {NoRecord}
      BY <1>t, StoreFields
    <3> QED  BY <3>1 DEF Store
  <2> HIDE DEF store
  <2>2. Sound(store)
    BY <1>t, <2>1, SettingsSound
  <2>3. ASSUME NEW p \in Pages PROVE Shown([view[p] EXCEPT !.paused = FALSE])
    BY <1>t DEF Screens, Shown, Sight
  <2>4. view' = [p \in Pages |-> [view[p] EXCEPT !.paused = FALSE]]
    BY <1>5 DEF PauseEnds
  <2>5. Screens'
    BY <1>t, <1>5, <2>3, <2>4 DEF PauseEnds, padVars, Screens
  <2> QED  BY <1>5, <1>r, <2>2, <2>5 DEF PauseEnds, padVars, TypeInv, store
<1>6. CASE UNCHANGED pilotVars
  BY <1>t, <1>6, <1>r DEF pilotVars, padVars, Screens, TypeInv
<1> QED  BY <1>1, <1>m, <1>2, <1>3, <1>4, <1>5, <1>6, WorkTyped, ParentTyped
         DEF PilotNext

LEMMA InitTypeInv == PilotInit => TypeInv
<1> SUFFICES ASSUME PilotInit PROVE TypeInv
  OBVIOUS
<1> USE PilotAssumption
<1>1. durable = EmptyStore /\ view = [p \in Pages |-> Seen(durable)]
  BY DEF PilotInit
<1>5. Sound(durable)
  BY <1>1, EmptySound
<1>6. Shown(Seen(durable))
  BY <1>5, SeenShown
<1>7. Screens
  BY <1>1, <1>6 DEF PilotInit, Screens, Drafts, EmptyDraft
<1>8. Requests
  BY DEF PilotInit, Requests
<1> QED  BY <1>5, <1>7, <1>8 DEF TypeInv

LEMMA TypeInvariant == PilotSpec => []TypeInv
BY InitTypeInv, NextTypeInv, PTL DEF PilotSpec

\* Every reachable state of the pilot is well typed.
THEOREM PilotTypeCorrect == PilotSpec => []PilotTypeOK
BY TypeInvariant, TypeInvTypes, PTL

\* What is stored can always be loaded again.
THEOREM StoreReadable == PilotSpec => []StoreStaysReadable
<1>1. TypeInv => StoreStaysReadable
  BY StoreFields DEF TypeInv, StoreStaysReadable, Holds
<1> QED  BY TypeInvariant, <1>1, PTL

\* Feedback shown as ready judges the text the learner confirmed.
THEOREM FeedbackIsOfText == PilotSpec => []FeedbackFitsText
<1>1. TypeInv => FeedbackFitsText
  BY StoreFields DEF TypeInv, FeedbackFitsText, Fit
<1> QED  BY TypeInvariant, <1>1, PTL

-----------------------------------------------------------------------------
(* Transcriptions and the drafts they were read from.                      *)

ReadingOK(record) ==
    record.raw # NoText => record.raw.draft = record.draft \/ record.raw.replaced

\* What a check was pressed on is stored as long as the revision is the same.
CheckOK(p) ==
    LET r == check[p].record IN
    check[p] # NoCheck =>
        /\ r \in 1..created
        /\ Holds(durable, r) =>
              /\ check[p].revision <= durable.records[r].revision
              /\ check[p].revision = durable.records[r].revision =>
                    check[p].draft = durable.records[r].draft

\* A request whose answer will be taken shows the stored draft, or a replaced
\* one.
CallOK(c) ==
    /\ c.id <= sent
    /\ /\ Holds(durable, c.record)
       /\ <<c.id, c.revision>> \in durable.records[c.record].open
       /\ c.kind = "recognition"
       => c.image = durable.records[c.record].draft \/ c.replaced

InkInv ==
    /\ DOMAIN durable.records \subseteq 1..created
    /\ \A p \in Pages : CheckOK(p)
    /\ \A c \in calls : CallOK(c)
    /\ \A r \in DOMAIN durable.records : ReadingOK(durable.records[r])

\* A change of a record that leaves its draft and answers no old request anew,
\* or makes a new revision that waits for no answer.
Follows(old, new) ==
    /\ ReadingOK(old) => ReadingOK(new)
    /\ \/ /\ new.revision = old.revision /\ new.draft = old.draft
          /\ \A c \in calls : <<c.id, c.revision>> \in new.open =>
                              <<c.id, c.revision>> \in old.open
       \/ new.revision > old.revision /\ new.open = {}

Fresh(r) ==
    /\ r \in 1..created' /\ r > created
    /\ durable'.records[r].open = {} /\ durable'.records[r].raw = NoText

Onward ==
    /\ created <= created' /\ sent <= sent'
    /\ \A p \in Pages : \/ check'[p] = check[p] \/ check'[p] = NoCheck
                        \/ CheckOK(p)'
    /\ \A c \in calls' : c \in calls \/ CallOK(c)'

LEMMA InkKept ==
    ASSUME TypeInv, TypeInv', InkInv, Onward,
           \A r \in DOMAIN durable'.records :
              \/ /\ r \in DOMAIN durable.records
                 /\ Follows(durable.records[r], durable'.records[r])
              \/ Fresh(r)
    PROVE  InkInv'
<1>1. /\ created \in Nat /\ created' \in Nat /\ created <= created'
      /\ sent \in Nat /\ sent' \in Nat /\ sent <= sent'
  BY PilotAssumption DEF TypeInv, Requests, Onward
<1>2. /\ \A r \in DOMAIN durable.records : durable.records[r].revision \in Nat
      /\ \A r \in DOMAIN durable'.records : durable'.records[r].revision \in Nat
  <2>1. \A r \in DOMAIN durable.records : durable.records[r] \in Fit
    BY StoreFields DEF TypeInv
  <2>2. \A r \in DOMAIN durable'.records : durable'.records[r] \in Fit
    BY StoreFields DEF TypeInv
  <2> QED  BY <2>1, <2>2, PilotAssumption DEF Fit, Record, Revisions
<1>3. DOMAIN durable'.records \subseteq 1..created'
  BY <1>1 DEF InkInv, Fresh
<1>4. ASSUME NEW p \in Pages PROVE CheckOK(p)'
  <2>1. CASE check'[p] = check[p] /\ check[p] # NoCheck
    <3> DEFINE r == check[p].record
    <3>1. CheckOK(p) /\ check[p].revision \in Nat /\ r \in 1..created
      BY <2>1, PilotAssumption DEF InkInv, CheckOK, TypeInv, Requests, Check,
         Revisions
    <3>2. ASSUME Holds(durable', r)
          PROVE  /\ Holds(durable, r)
                 /\ Follows(durable.records[r], durable'.records[r])
      BY <1>1, <3>1, <3>2 DEF Holds, Fresh
    <3>3. ASSUME Holds(durable', r)
          PROVE  /\ check[p].revision <= durable'.records[r].revision
                 /\ check[p].revision = durable'.records[r].revision =>
                       check[p].draft = durable'.records[r].draft
      BY <1>2, <2>1, <3>1, <3>2, <3>3 DEF CheckOK, Follows, Holds
    <3>4. r \in 1..created'
      BY <1>1, <3>1
    <3> QED  BY <2>1, <3>3, <3>4 DEF CheckOK, Holds
  <2>2. CASE check'[p] = NoCheck
    BY <2>2 DEF CheckOK
  <2> QED  BY <2>1, <2>2 DEF Onward
<1>5. ASSUME NEW c \in calls' PROVE CallOK(c)'
  <2>1. CASE c \in calls
    <3> DEFINE r == c.record
    <3>1. CallOK(c) /\ c.id \in Nat
      BY <2>1 DEF InkInv, TypeInv, Requests, Call, RequestIds
    <3>2. ASSUME Holds(durable', r),
                 <<c.id, c.revision>> \in durable'.records[r].open
          PROVE  /\ Holds(durable, r)
                 /\ <<c.id, c.revision>> \in durable.records[r].open
                 /\ durable'.records[r].draft = durable.records[r].draft
      BY <2>1, <3>2 DEF Holds, Fresh, Follows
    <3> QED  BY <1>1, <3>1, <3>2 DEF CallOK, Holds
  <2> QED  BY <2>1 DEF Onward
<1>6. ASSUME NEW r \in DOMAIN durable'.records
      PROVE  ReadingOK(durable'.records[r])
  BY DEF InkInv, Follows, Fresh, ReadingOK
<1> QED  BY <1>3, <1>4, <1>5, <1>6 DEF InkInv

\* Fewer records, with the ones that stay unchanged.
LEMMA InkFewer ==
    ASSUME TypeInv, TypeInv', InkInv, Onward,
           \A r \in DOMAIN durable'.records :
              /\ r \in DOMAIN durable.records
              /\ durable'.records[r] = durable.records[r]
    PROVE  InkInv'
<1>1. \A r \in DOMAIN durable'.records :
         Follows(durable.records[r], durable'.records[r])
  BY DEF Follows
<1> QED  BY <1>1, InkKept

\* One record changed.
LEMMA InkChange ==
    ASSUME TypeInv, TypeInv', InkInv, Onward, NEW r, Holds(durable, r),
           NEW record, Follows(durable.records[r], record),
           durable'.records = [durable.records EXCEPT ![r] = record]
    PROVE  InkInv'
<1>1. durable.records \in [DOMAIN durable.records -> Fit]
  BY StoreFields DEF TypeInv
<1>2. ASSUME NEW s \in DOMAIN durable'.records
      PROVE  /\ s \in DOMAIN durable.records
             /\ Follows(durable.records[s], durable'.records[s])
  <2>1. CASE s = r
    BY <1>1, <2>1 DEF Holds
  <2>2. CASE s # r
    BY <1>1, <2>2 DEF Follows
  <2> QED  BY <2>1, <2>2
<1> QED  BY <1>2, InkKept

LEMMA InkBlocked ==
    ASSUME TypeInv, TypeInv', InkInv, Onward, NEW p \in Pages, Blocked(p)
    PROVE  InkInv'
BY InkFewer DEF Blocked, Keeps, Loses, Unlocked

LEMMA InkSaved ==
    ASSUME TypeInv, TypeInv', InkInv, Onward, NEW r, Holds(durable, r),
           NEW record \in Fit, Follows(durable.records[r], record),
           durable' = With(durable, r, record)
    PROVE  InkInv'
<1>1. durable'.records = [durable.records EXCEPT ![r] = record]
  BY WithSound DEF TypeInv, Holds
<1> QED  BY <1>1, InkChange

LEMMA InkCommit ==
    ASSUME TypeInv, TypeInv', InkInv, Onward, NEW p \in Pages, NEW r, NEW record,
           Holds(durable, r) => /\ record \in Fit
                                /\ Follows(durable.records[r], record),
           Commit(p, r, record)
    PROVE  InkInv'
BY InkSaved, InkBlocked DEF Commit, Saves

LEMMA InkSave ==
    ASSUME TypeInv, TypeInv', InkInv, Onward, NEW p \in Pages, NEW timer,
           Save(p, timer)
    PROVE  InkInv'
<1> DEFINE r == Mine(p)
           old == durable.records[r]
           new == Inked(old, pad[p])
<1>1. CASE Holds(durable, r) /\ old.draft # pad[p]
  <2>1. old.revision < MaxRevision /\ durable' = With(durable, r, new)
    BY <1>1 DEF Save
  <2>2. old \in Fit /\ pad[p] \in Drafts
    BY <1>1, HeldFits DEF TypeInv, Screens
  <2>3. new \in Fit
    BY <2>1, <2>2, InkedFits
  <2>4. /\ new.revision = old.revision + 1 /\ new.open = {}
        /\ new.raw = NoText /\ old.revision \in Nat
    BY <2>2, PilotAssumption DEF Inked, Fit, Record, Revisions
  <2> HIDE DEF new
  <2>5. Follows(old, new)
    BY <2>4 DEF Follows, ReadingOK
  <2> QED  BY <1>1, <2>1, <2>3, <2>5, InkSaved
<1>2. CASE ~(Holds(durable, r) /\ old.draft # pad[p])
  <2>1. durable' = durable
    BY <1>2 DEF Save
  <2> QED  BY <2>1, InkFewer
<1> QED  BY <1>1, <1>2

\* After the pad of page p was saved the record there, if there is one, has the
\* draft that is on the pad.
LEMMA SaveStores ==
    ASSUME TypeInv, NEW p \in Pages, NEW timer, Save(p, timer),
           Holds(durable, Mine(p))
    PROVE  durable'.records[Mine(p)].draft = pad[p]
<1> DEFINE r == Mine(p)
           old == durable.records[r]
           new == Inked(old, pad[p])
<1>1. CASE old.draft # pad[p]
  <2>1. old.revision < MaxRevision /\ durable' = With(durable, r, new)
    BY <1>1 DEF Save
  <2>2. old \in Fit /\ pad[p] \in Drafts
    BY HeldFits DEF TypeInv, Screens
  <2>3. new \in Fit /\ new.draft = pad[p]
    BY <2>1, <2>2, InkedFits DEF Inked, Fit, Record
  <2> HIDE DEF new
  <2>4. /\ durable'.records = [durable.records EXCEPT ![r] = new]
        /\ durable.records \in [DOMAIN durable.records -> Fit]
    BY <2>1, <2>3, WithSound, StoreFields DEF TypeInv, Holds
  <2> QED  BY <2>3, <2>4 DEF Holds
<1>2. CASE old.draft = pad[p]
  BY <1>2 DEF Save
<1> QED  BY <1>1, <1>2

\* A page that asks for what its record holds.
LEMMA InkAsk ==
    ASSUME TypeInv, TypeInv', InkInv, NEW p \in Pages, NEW r, Holds(durable, r),
           created' = created,
           \A q \in Pages : check'[q] = check[q] \/ check'[q] = NoCheck,
           NEW record \in Fit, NEW status \in Waiting,
           NEW kind \in {"recognition", "evaluation"}, NEW text \in Texts,
           NEW image \in Drafts, NEW replaced \in BOOLEAN,
           Ask(p, r, kind, text, image, replaced),
           record.revision = durable.records[r].revision,
           record.draft = durable.records[r].draft,
           record.raw = durable.records[r].raw,
           record.open = durable.records[r].open,
           kind = "recognition" => image = record.draft \/ replaced,
           durable' = With(durable, r, Asking(record, status, sent + 1))
    PROVE  InkInv'
<1> DEFINE asked == Asking(record, status, sent + 1)
           old == durable.records[r]
           c == [id |-> sent + 1, page |-> p, record |-> r, kind |-> kind,
                 body |-> text, revision |-> durable.records[r].revision,
                 image |-> image, replaced |-> replaced]
<1>1. /\ sent + 1 \in RequestIds /\ sent \in Nat
      /\ sent' = sent + 1 /\ created \in Nat
  BY AskTyped, PilotAssumption DEF TypeInv, Ask, Requests
<1>2. /\ asked \in Fit /\ asked.revision = old.revision
      /\ asked.draft = old.draft /\ asked.raw = old.raw
      /\ asked.open = old.open \union {<<sent + 1, old.revision>>}
  BY <1>1, AskingFits DEF Asking, Fit, Record
<1> HIDE DEF asked
<1>3. /\ durable'.records = [durable.records EXCEPT ![r] = asked]
      /\ durable.records \in [DOMAIN durable.records -> Fit]
      /\ r \in DOMAIN durable.records
  BY <1>2, WithSound, StoreFields DEF TypeInv, Holds, asked
<1>4. Follows(old, asked)
  <2>1. \A d \in calls : d.id # sent + 1
    <3>1. \A d \in calls : d.id \in Nat /\ d.id <= sent
      <4>1. ASSUME NEW d \in calls PROVE d.id \in RequestIds /\ d.id <= sent
        <5>1. d \in Call /\ CallOK(d)
          BY DEF InkInv, TypeInv, Requests
        <5> QED  BY <5>1 DEF CallOK, Call
      <4> QED  BY <4>1, PilotAssumption DEF RequestIds
    <3> QED  BY <1>1, <3>1
  <2> QED  BY <1>2, <2>1 DEF Follows, ReadingOK
<1>5. calls' = calls \union {c}
  BY DEF Ask
<1>6. ASSUME NEW d, d = c PROVE CallOK(d)'
  <2>1. d.id = sent' /\ d.record = r /\ d.kind = kind /\ d.image = image
        /\ d.replaced = replaced
    BY <1>1, <1>6
  <2>2. durable'.records[r].draft = record.draft
    BY <1>2, <1>3
  <2> QED  BY <1>1, <2>1, <2>2 DEF CallOK
<1>7. Onward
  BY <1>1, <1>5, <1>6 DEF Onward
<1> QED  BY <1>2, <1>3, <1>4, <1>7, InkChange

LEMMA WorkInk ==
    ASSUME TypeInv, TypeInv', InkInv, NEW p \in Pages, Work(p)
    PROVE  InkInv'
<1>t. /\ Sound(durable) /\ created \in Nat /\ sent \in Nat
      /\ check \in [Pages -> Check \union {NoCheck}]
  BY PilotAssumption DEF TypeInv, Requests
<1>o. ASSUME UNCHANGED <<check, calls, sent, created>> PROVE Onward
  BY <1>t, <1>o DEF Onward
<1>1. ASSUME NEW draft, Changes(p, draft) PROVE InkInv'
  BY <1>1, <1>o, InkFewer DEF Changes
<1>2. ASSUME AutoSave(p) PROVE InkInv'
  <2>1. CASE Save(p, FALSE)
    BY <1>2, <1>o, <2>1, InkSave DEF AutoSave
  <2>2. CASE durable' = durable
    BY <1>2, <1>o, <2>2, InkFewer DEF AutoSave
  <2> QED  BY <1>2, <2>1, <2>2 DEF AutoSave
<1>3. ASSUME PressCheck(p) PROVE InkInv'
  <2> DEFINE r == Mine(p)
             revision == durable'.records[r].revision
  <2>1. Save(p, armed[p]) /\ UNCHANGED <<calls, sent, created>>
    BY <1>3 DEF PressCheck
  <2>2. CASE Holds(durable, r)
    <3>1. durable'.records[r].draft = pad[p]
      BY <2>1, <2>2, SaveStores
    <3>2. r \in 1..created /\ Holds(durable', r)
      BY <1>t, <2>1, <2>2, SaveHolds DEF InkInv, Holds
    <3>3. revision \in Nat
      <4>1. durable'.records[r] \in Fit
        BY <3>2, StoreFields DEF TypeInv, Holds
      <4> QED  BY <4>1, PilotAssumption DEF Fit, Record, Revisions
    <3>4. check' = [check EXCEPT ![p] = [record |-> r, draft |-> pad[p],
                                        revision |-> revision]]
      BY <1>3, <2>2 DEF PressCheck
    <3>5. ASSUME NEW q \in Pages PROVE check'[q] = check[q] \/ CheckOK(q)'
      <4>1. CASE q = p
        <5>1. /\ check'[q].record = r /\ check'[q].draft = pad[p]
              /\ check'[q].revision = revision
          BY <1>t, <3>4, <4>1
        <5> QED  BY <2>1, <3>1, <3>2, <3>3, <5>1 DEF CheckOK
      <4>2. CASE q # p
        BY <1>t, <3>4, <4>2
      <4> QED  BY <4>1, <4>2
    <3>6. Onward
      BY <1>t, <2>1, <3>5 DEF Onward
    <3> QED  BY <2>1, <3>6, InkSave
  <2>3. CASE ~Holds(durable, r)
    <3>1. check' = check
      BY <1>3, <2>3 DEF PressCheck
    <3> QED  BY <1>o, <2>1, <3>1, InkSave
  <2> QED  BY <2>2, <2>3
<1>4. ASSUME Continue(p) PROVE InkInv'
  <2> DEFINE r == check[p].record
             record == durable.records[r]
  <2>1. /\ check[p] # NoCheck /\ UNCHANGED created
        /\ \A q \in Pages : check'[q] = check[q] \/ check'[q] = NoCheck
    BY <1>t, <1>4 DEF Continue
  <2>2. NoAsk => Onward
    BY <1>t, <2>1 DEF Onward, NoAsk
  <2>3. Holds(durable, r) =>
          /\ record \in Fit
          /\ TakenAsTyped(record) \in Fit /\ LeftToParent(record) \in Fit
    BY <1>t, HeldFits, TakenAsTypedFits, LeftToParentFits
  <2>4. CASE Blocked(p) /\ NoAsk
    BY <2>2, <2>4, InkBlocked
  <2>5. CASE Commit(p, r, TakenAsTyped(record)) /\ NoAsk
    <3>1. Holds(durable, r) => Follows(record, TakenAsTyped(record))
      BY <2>3 DEF Follows, ReadingOK, TakenAsTyped, Fit, Record
    <3> QED  BY <2>2, <2>3, <2>5, <3>1, InkCommit
  <2>6. CASE Commit(p, r, LeftToParent(record)) /\ NoAsk
    <3>1. Holds(durable, r) => Follows(record, LeftToParent(record))
      BY <2>3 DEF Follows, ReadingOK, LeftToParent, Fit, Record
    <3> QED  BY <2>2, <2>3, <2>6, <3>1, InkCommit
  <2>7. CASE /\ Holds(durable, r)
             /\ Saves(p, With(durable, r,
                              Asking(record, "recognition_pending", sent + 1)))
             /\ Ask(p, r, "recognition", "read", check[p].draft,
                    record.revision # check[p].revision)
    <3>1. /\ "read" \in Texts /\ "recognition_pending" \in Waiting
          /\ check[p].draft \in Drafts
      BY <1>t, <2>1 DEF Texts, Waiting, Check
    <3>2. check[p].draft = record.draft \/ record.revision # check[p].revision
      BY <2>1, <2>7 DEF InkInv, CheckOK
    <3> QED  BY <2>1, <2>3, <2>7, <3>1, <3>2, InkAsk DEF Saves
  <2> QED  BY <1>4, <2>4, <2>5, <2>6, <2>7 DEF Continue, Blocked
<1>5. ASSUME NEW text \in {"read", "edited"}, Confirm(p, text) PROVE InkInv'
  <2> DEFINE r == Mine(p)
             record == [durable.records[r] EXCEPT !.confirmed = text]
             asked == [record EXCEPT !.reason = FALSE]
             base == [durable.records[r] EXCEPT !.status = "evaluation_pending",
                        !.confirmed = text, !.reason = FALSE]
  <2>1. UNCHANGED <<check, created>> /\ (NoAsk => Onward)
    BY <1>5, <1>o DEF Confirm, NoAsk
  <2>2. Holds(durable, r) => durable.records[r] \in Fit
    BY <1>t, HeldFits
  <2>3. CASE /\ Holds(durable, r)
             /\ Saves(p, With(durable, r, Asking(asked, "evaluation_pending", sent + 1)))
             /\ Ask(p, r, "evaluation", text, EmptyDraft, FALSE)
    <3>1. /\ text \in Texts /\ "evaluation_pending" \in Waiting
          /\ EmptyDraft \in Drafts
      BY DEF Texts, Waiting, EmptyDraft, Drafts
    <3>2. /\ base \in Fit
          /\ base.revision = durable.records[r].revision
          /\ base.draft = durable.records[r].draft
          /\ base.raw = durable.records[r].raw
          /\ base.open = durable.records[r].open
      BY <2>2, <2>3, <3>1 DEF Fit, Record, Statuses, Waiting
    <3>3. Asking(asked, "evaluation_pending", sent + 1)
            = Asking(base, "evaluation_pending", sent + 1)
      BY <2>2, <2>3 DEF Asking, Fit, Record
    <3>4. durable' = With(durable, r, Asking(base, "evaluation_pending", sent + 1))
      BY <2>3, <3>3 DEF Saves
    <3> HIDE DEF base
    <3> QED  BY <2>1, <2>3, <3>1, <3>2, <3>4, InkAsk
  <2>4. CASE /\ Holds(durable, r)
             /\ Saves(p, With(durable, r, LeftToParent(record))) /\ NoAsk
    <3>1. LeftToParent(record) \in Fit
      BY <2>2, <2>4 DEF LeftToParent, Fit, Record, Statuses, Waiting, Texts
    <3>2. Follows(durable.records[r], LeftToParent(record))
      BY <2>2, <2>4 DEF Follows, ReadingOK, LeftToParent, Fit, Record
    <3> HIDE DEF record
    <3> QED  BY <2>1, <2>4, <3>1, <3>2, InkSaved DEF Saves
  <2>5. CASE Keeps(p) /\ NoAsk
    BY <2>1, <2>5, InkBlocked DEF Blocked
  <2> QED  BY <1>5, <2>3, <2>4, <2>5 DEF Confirm
<1>6. ASSUME Rewrite(p) PROVE InkInv'
  <2> DEFINE r == Mine(p)
  <2>1. Holds(durable, r) =>
          /\ Rewritten(durable.records[r]) \in Fit
          /\ Follows(durable.records[r], Rewritten(durable.records[r]))
    <3>1. Holds(durable, r) => durable.records[r] \in Fit
      BY <1>t, HeldFits
    <3>2. Holds(durable, r) =>
            Follows(durable.records[r], Rewritten(durable.records[r]))
      BY <3>1 DEF Follows, ReadingOK, Rewritten, Fit, Record
    <3> QED  BY <3>1, <3>2, RewrittenFits
  <2> QED  BY <1>6, <1>o, <2>1, InkCommit DEF Rewrite
<1>7. ASSUME Finish(p) PROVE InkInv'
  <2> DEFINE r == Mine(p)
             done == [durable.records[r] EXCEPT !.status = "completed"]
             store == With(durable, r, done)
             new == [store EXCEPT !.pending = IF @ = r THEN NoRecord ELSE @]
  <2>1. CASE Holds(durable, r)
    <3>1. durable.records[r] \in Fit
      BY <1>t, <2>1, HeldFits
    <3>2. done \in Fit /\ Follows(durable.records[r], done)
      BY <3>1 DEF Fit, Record, Statuses, Follows, ReadingOK
    <3> HIDE DEF done
    <3>3. Sound(store) /\ store.records = [durable.records EXCEPT ![r] = done]
      BY <1>t, <2>1, <3>2, WithSound DEF Holds
    <3> HIDE DEF store
    <3>4. new.records = store.records
      BY <3>3, StoreFields DEF Store
    <3>5. durable' = new
      BY <1>7, <2>1 DEF Finish, Saves, store, done
    <3> HIDE DEF new
    <3>6. durable'.records = [durable.records EXCEPT ![r] = done]
      BY <3>3, <3>4, <3>5
    <3> QED  BY <1>7, <1>o, <2>1, <3>2, <3>6, InkChange DEF Finish
  <2>2. CASE ~Holds(durable, r)
    BY <1>7, <1>o, <2>2, InkBlocked DEF Finish, Blocked
  <2> QED  BY <2>1, <2>2
<1>8. ASSUME Schedule(p) PROVE InkInv'
  <2> DEFINE victims == Victims(durable)
             stays == Without(durable, victims).records
             records == [s \in DOMAIN stays \union {created + 1} |->
                           IF s = created + 1 THEN NewRecord ELSE stays[s]]
  <2>1. durable'.records = records
    <3>1. durable' = [durable EXCEPT !.records = records, !.pending = created + 1]
      BY <1>8 DEF Schedule, Saves
    <3>2. durable \in Store(DOMAIN durable.records)
      BY <1>t, StoreFields
    <3> HIDE DEF records
    <3> QED  BY <3>1, <3>2 DEF Store
  <2>2. /\ DOMAIN stays \subseteq DOMAIN durable.records
        /\ \A s \in DOMAIN stays : stays[s] = durable.records[s]
    BY <1>t, WithoutSound
  <2>3. NewRecord.open = {} /\ NewRecord.raw = NoText
    BY DEF NewRecord
  <2>4. created' = created + 1 /\ UNCHANGED <<check, calls, sent>>
    BY <1>8 DEF Schedule
  <2> HIDE DEF stays
  <2>5. Onward
    BY <1>t, <2>4 DEF Onward
  <2>6. ASSUME NEW s \in DOMAIN durable'.records
        PROVE  \/ /\ s \in DOMAIN durable.records
                  /\ Follows(durable.records[s], durable'.records[s])
               \/ Fresh(s)
    <3>1. CASE s = created + 1
      BY <1>t, <2>1, <2>3, <2>4, <3>1 DEF Fresh
    <3>2. CASE s # created + 1
      BY <2>1, <2>2, <3>2 DEF Follows
    <3> QED  BY <3>1, <3>2
  <2> QED  BY <2>5, <2>6, InkKept
<1> QED  BY <1>1, <1>2, <1>3, <1>4, <1>5, <1>6, <1>7, <1>8
         DEF Work, Draw, Type

LEMMA ParentInk ==
    ASSUME TypeInv, TypeInv', InkInv, NEW p \in Pages, Parent(p)
    PROVE  InkInv'
<1>t. /\ Sound(durable) /\ durable \in Store(DOMAIN durable.records)
      /\ created \in Nat /\ sent \in Nat
  BY StoreFields, PilotAssumption DEF TypeInv, Requests
<1>o. UNCHANGED <<check, calls, sent, created>> => Onward
  BY <1>t DEF Onward
<1>1. ASSUME NEW r \in RecordIds, Review(p, r) PROVE InkInv'
  <2> DEFINE old == durable.records[r]
  <2>1. Holds(durable, r) /\ old \in Fit /\ Onward
    BY <1>t, <1>o, <1>1, HeldFits DEF Review
  <2>2. /\ Corrected(old) \in Fit /\ Follows(old, Corrected(old))
    <3>1. Follows(old, Corrected(old))
      BY <2>1 DEF Follows, ReadingOK, Corrected, Fit, Record
    <3> QED  BY <2>1, <3>1, CorrectedFits
  <2>3. /\ [old EXCEPT !.reviewed = TRUE] \in Fit
        /\ Follows(old, [old EXCEPT !.reviewed = TRUE])
    BY <2>1 DEF Follows, ReadingOK, Fit, Record
  <2>4. PICK record \in ParentChanges(r) : durable' = With(durable, r, record)
    BY <1>1 DEF Review, Saves
  <2>5. record \in Fit /\ Follows(old, record)
    BY <2>2, <2>3 DEF ParentChanges
  <2> QED  BY <2>1, <2>4, <2>5, InkSaved
<1>2. ASSUME NEW S \in SUBSET RecordIds, Delete(p, S) PROVE InkInv'
  <2>1. /\ DOMAIN Without(durable, S).records \subseteq DOMAIN durable.records
        /\ \A r \in DOMAIN Without(durable, S).records :
              Without(durable, S).records[r] = durable.records[r]
    BY <1>t, WithoutSound
  <2>2. durable' = Without(durable, S) /\ Onward
    BY <1>o, <1>2 DEF Delete, Saves
  <2> QED  BY <2>1, <2>2, InkFewer
<1>3. ASSUME Configure(p) PROVE InkInv'
  <2>1. durable'.records = durable.records
    BY <1>t, <1>3 DEF Configure, Saves, Store
  <2> QED  BY <1>o, <1>3, <2>1, InkFewer DEF Configure
<1>4. ASSUME Authorize(p) PROVE InkInv'
  <2>1. durable'.records = durable.records
    BY <1>t, <1>4 DEF Authorize, Saves, Blocked, Keeps, Loses, Unlocked, Store
  <2> QED  BY <1>o, <1>4, <2>1, InkFewer DEF Authorize
<1> QED  BY <1>1, <1>2, <1>3, <1>4 DEF Parent

\* What an answer makes of its record.
LEMMA AnswerInk ==
    ASSUME TypeInv, TypeInv', InkInv, NEW c \in calls, Fits(c),
           calls' = calls \ {c}, UNCHANGED <<check, sent, created>>,
           NEW store \in Results(c), durable' = store
    PROVE  InkInv'
<1> DEFINE r == c.record
           record == durable.records[r]
           settled == Settled(c)
           applied(b) == IF c.kind = "recognition"
                         THEN Recognized(settled, c, b)
                         ELSE Judged(settled, c, b)
<1>1. /\ c \in Call /\ Holds(durable, r) /\ record \in Fit /\ Sound(durable)
      /\ c.revision = record.revision
      /\ c.kind = "evaluation" => record.confirmed = c.body
      /\ c.kind = "recognition" => c.image = record.draft \/ c.replaced
  BY HeldFits DEF TypeInv, Requests, Fits, Holds, InkInv, CallOK
<1>2. /\ settled \in Fit /\ settled.revision = record.revision
      /\ settled.confirmed = record.confirmed /\ settled.draft = record.draft
      /\ settled.raw = record.raw /\ settled.open \subseteq record.open
  BY <1>1 DEF Settled, Fit, Record
<1> HIDE DEF settled
<1>3. LeftToParent(settled) \in Fit /\ Follows(record, LeftToParent(settled))
  <2>1. Follows(record, LeftToParent(settled))
    BY <1>2 DEF Follows, ReadingOK, LeftToParent, Fit, Record
  <2> QED  BY <1>2, <2>1, LeftToParentFits
<1>4. ASSUME NEW b \in BOOLEAN PROVE applied(b) \in Fit /\ Follows(record, applied(b))
  <2>1. CASE c.kind = "recognition"
    <3>1. Recognized(settled, c, b) \in Fit
      BY <1>1, <1>2, RecognizedFits
    <3>2. Follows(record, Recognized(settled, c, b))
      BY <1>1, <1>2, <2>1 DEF Follows, ReadingOK, Recognized, Fit, Record
    <3> QED  BY <2>1, <3>1, <3>2
  <2>2. CASE c.kind # "recognition"
    <3>1. c.kind = "evaluation"
      BY <1>1, <2>2 DEF Call
    <3>2. Judged(settled, c, b) \in Fit
      BY <1>1, <1>2, <3>1, JudgedFits
    <3>3. Follows(record, Judged(settled, c, b))
      BY <1>2 DEF Follows, ReadingOK, Judged, Fit, Record
    <3> QED  BY <2>2, <3>2, <3>3
  <2> QED  BY <2>1, <2>2
<1>5. ASSUME NEW new \in Fit
      PROVE  /\ Sound(With(durable, r, new))
             /\ With(durable, r, new).records = [durable.records EXCEPT ![r] = new]
  BY <1>1, WithSound DEF Holds
<1> DEFINE parents == With(durable, r, LeftToParent(settled))
<1>6. [parents EXCEPT !.paused = TRUE].records = parents.records
  <2>1. parents \in Store(DOMAIN parents.records)
    BY <1>3, <1>5, StoreFields
  <2> HIDE DEF parents
  <2> QED  BY <2>1 DEF Store
<1>7. \E new \in Fit :
         /\ Follows(record, new)
         /\ store.records = [durable.records EXCEPT ![r] = new]
  <2>1. CASE store = [parents EXCEPT !.paused = TRUE]
    BY <1>3, <1>5, <1>6, <2>1
  <2>2. CASE store = parents
    BY <1>3, <1>5, <2>2
  <2>3. CASE \E b \in BOOLEAN : store = With(durable, r, applied(b))
    <3>1. PICK b \in BOOLEAN : store = With(durable, r, applied(b))
      BY <2>3
    <3> HIDE DEF applied
    <3> QED  BY <1>4, <1>5, <3>1
  <2> QED  BY <2>1, <2>2, <2>3 DEF Results, settled
<1>8. Onward
  <2>1. created \in Nat /\ sent \in Nat
    BY PilotAssumption DEF TypeInv, Requests
  <2> QED  BY <2>1 DEF Onward
<1> QED  BY <1>1, <1>7, <1>8, InkChange

LEMMA NextInk ==
    TypeInv /\ TypeInv' /\ InkInv /\ [PilotNext]_pilotVars => InkInv'
<1> SUFFICES ASSUME TypeInv, TypeInv', InkInv, [PilotNext]_pilotVars
             PROVE  InkInv'
  OBVIOUS
<1>t. /\ Sound(durable) /\ durable \in Store(DOMAIN durable.records)
      /\ created \in Nat /\ sent \in Nat
      /\ check \in [Pages -> Check \union {NoCheck}]
  BY StoreFields, PilotAssumption DEF TypeInv, Requests
<1>o. ASSUME UNCHANGED <<check, sent, created>>, calls' \subseteq calls PROVE Onward
  BY <1>t, <1>o DEF Onward
<1>1. ASSUME NEW p \in Pages, Deliver(p) PROVE InkInv'
  BY <1>o, <1>1, InkFewer DEF Deliver, Keeps
<1>2. ASSUME NEW p \in Pages, Misread(p) PROVE InkInv'
  BY <1>o, <1>2, InkFewer DEF Misread, Loses
<1>3. ASSUME NEW p \in Pages, Reload(p) PROVE InkInv'
  <2>1. /\ check' = [check EXCEPT ![p] = NoCheck] /\ calls' \subseteq calls
        /\ UNCHANGED <<durable, sent, created>>
    BY <1>3 DEF Reload
  <2>2. Onward
    BY <1>t, <2>1 DEF Onward
  <2> QED  BY <2>1, <2>2, InkFewer
<1>4. ASSUME NEW c \in calls, Answer(c) PROVE InkInv'
  <2>1. calls' = calls \ {c} /\ UNCHANGED <<check, sent, created>> /\ Onward
    BY <1>4, <1>o DEF Answer
  <2>2. CASE Fits(c) /\ \E store \in Results(c) : Saves(c.page, store)
    BY <2>1, <2>2, AnswerInk DEF Saves
  <2>3. CASE durable' = durable
    BY <2>1, <2>3, InkFewer
  <2> QED  BY <1>4, <2>2, <2>3 DEF Answer, Keeps, Blocked, Loses, Unlocked
<1>5. ASSUME NEW r \in RecordIds, Expire(r) PROVE InkInv'
  <2>1. /\ DOMAIN Without(durable, {r}).records \subseteq DOMAIN durable.records
        /\ \A s \in DOMAIN Without(durable, {r}).records :
              Without(durable, {r}).records[s] = durable.records[s]
    BY <1>t, WithoutSound
  <2> QED  BY <1>o, <1>5, <2>1, InkFewer DEF Expire, padVars
<1>6. ASSUME PauseEnds PROVE InkInv'
  <2>1. durable'.records = durable.records
    BY <1>t, <1>6 DEF PauseEnds, Store
  <2> QED  BY <1>o, <1>6, <2>1, InkFewer DEF PauseEnds, padVars
<1>7. CASE UNCHANGED pilotVars
  BY <1>o, <1>7, InkFewer DEF pilotVars, padVars
<1> QED  BY <1>1, <1>2, <1>3, <1>4, <1>5, <1>6, <1>7, WorkInk, ParentInk
         DEF PilotNext

\* A stored transcription was read from the stored draft unless that had been
\* replaced between the two commits of its Check Writing; it and the feedback
\* were asked for with the stored revision.
THEOREM NoReadingIsLate == PilotSpec => []NoLateReading
<1>1. PilotInit => InkInv
  BY DEF PilotInit, EmptyStore, InkInv, CheckOK
<1>2. TypeInv /\ InkInv => NoLateReading
  BY StoreFields DEF TypeInv, InkInv, ReadingOK, NoLateReading, Fit
<1> QED  BY <1>1, <1>2, TypeInvariant, NextInk, PTL DEF PilotSpec

-----------------------------------------------------------------------------
(* Work that waits for the parent.                                         *)

\* A new record never takes the place of one that waits for the parent.
THEOREM AwaitingWorkIsKept == PilotSpec => AwaitingWorkKept
<1> DEFINE A == created' > created =>
                  \A r \in DOMAIN durable.records :
                     Awaiting(durable.records[r]) => r \in DOMAIN durable'.records
<1>1. TypeInv /\ [PilotNext]_pilotVars => [A]_pilotVars
  <2> SUFFICES ASSUME TypeInv, PilotNext, created' > created PROVE A
    OBVIOUS
  <2>t. Sound(durable) /\ created \in Nat
    BY PilotAssumption DEF TypeInv, Requests
  <2>1. PICK p \in Pages : Schedule(p)
    <3>1. created' # created
      BY <2>t
    <3> QED  BY <3>1 DEF PilotNext, Work, Parent, Draw, Type, Changes,
               AutoSave, PressCheck, Continue, Confirm, Rewrite, Finish, Review,
               Delete, Configure, Authorize, Deliver, Misread, Reload, Answer, Expire, PauseEnds
  <2> DEFINE victims == Victims(durable)
             stays == Without(durable, victims).records
             records == [s \in DOMAIN stays \union {created + 1} |->
                           IF s = created + 1 THEN NewRecord ELSE stays[s]]
  <2>2. durable'.records = records
    <3>1. durable' = [durable EXCEPT !.records = records, !.pending = created + 1]
      BY <2>1 DEF Schedule, Saves
    <3>2. durable \in Store(DOMAIN durable.records)
      BY <2>t, StoreFields
    <3> HIDE DEF records
    <3> QED  BY <3>1, <3>2 DEF Store
  <2>3. DOMAIN stays = DOMAIN durable.records \ victims
    BY <2>t, WithoutSound
  <2>4. ASSUME NEW r \in DOMAIN durable.records, Awaiting(durable.records[r])
        PROVE  r \notin victims
    BY <2>4 DEF Victims, Awaiting, Replaceable
  <2> QED  BY <2>2, <2>3, <2>4
<1> QED  BY TypeInvariant, <1>1, PTL DEF PilotSpec, AwaitingWorkKept

-----------------------------------------------------------------------------
(* A record under check has a request under way.                           *)

\* A step that leaves every waiting record with what it waits for, or gives it
\* a request of its own.
LEMMA AwaitedKept ==
    ASSUME CheckIsAwaited, forsaken \subseteq forsaken',
           \A r \in DOMAIN durable'.records \ forsaken' :
              durable'.records[r].status \in Waiting =>
                 \/ \E c \in calls' : c.record = r /\ Fits(c)'
                 \/ /\ r \in DOMAIN durable.records
                    /\ durable'.records[r].status = durable.records[r].status
                    /\ durable'.records[r].open = durable.records[r].open
                    /\ durable'.records[r].revision = durable.records[r].revision
                    /\ durable'.records[r].confirmed = durable.records[r].confirmed
                    /\ \A c \in calls : c.record = r /\ Fits(c) => c \in calls'
    PROVE  CheckIsAwaited'
<1> SUFFICES ASSUME NEW r \in DOMAIN durable'.records \ forsaken',
                    durable'.records[r].status \in Waiting
             PROVE  \E c \in calls' : c.record = r /\ Fits(c)'
  BY DEF CheckIsAwaited
<1>1. CASE /\ r \in DOMAIN durable.records
           /\ durable'.records[r].status = durable.records[r].status
           /\ durable'.records[r].open = durable.records[r].open
           /\ durable'.records[r].revision = durable.records[r].revision
           /\ durable'.records[r].confirmed = durable.records[r].confirmed
           /\ \A c \in calls : c.record = r /\ Fits(c) => c \in calls'
  <2>1. PICK c \in calls : c.record = r /\ Fits(c)
    BY <1>1 DEF CheckIsAwaited
  <2>2. c \in calls'
    BY <1>1, <2>1
  <2>3. Fits(c)'
    BY <1>1, <2>1 DEF Fits, Holds
  <2> QED  BY <2>1, <2>2, <2>3
<1> QED  BY <1>1

\* Fewer records, with the ones that stay unchanged.
LEMMA FewerAwaited ==
    ASSUME CheckIsAwaited, forsaken \subseteq forsaken', calls \subseteq calls',
           \A r \in DOMAIN durable'.records :
              \/ durable'.records[r].status \notin Waiting
              \/ /\ r \in DOMAIN durable.records
                 /\ durable'.records[r] = durable.records[r]
    PROVE  CheckIsAwaited'
BY AwaitedKept

LEMMA ChangeAwaited ==
    ASSUME CheckIsAwaited, Sound(durable), forsaken \subseteq forsaken',
           calls \subseteq calls', NEW r, Holds(durable, r), NEW record \in Fit,
           record.status \notin Waiting,
           durable' = With(durable, r, record)
    PROVE  CheckIsAwaited'
<1>1. durable'.records = [durable.records EXCEPT ![r] = record]
  BY WithSound DEF Holds
<1>2. /\ DOMAIN durable'.records = DOMAIN durable.records
      /\ durable.records \in [DOMAIN durable.records -> Fit]
  BY <1>1, StoreFields
<1> QED  BY <1>1, <1>2, FewerAwaited

LEMMA BlockedAwaited ==
    ASSUME CheckIsAwaited, forsaken \subseteq forsaken', calls \subseteq calls',
           NEW p \in Pages, Blocked(p)
    PROVE  CheckIsAwaited'
<1>1. durable' = durable
  BY DEF Blocked, Keeps, Loses, Unlocked
<1> QED  BY <1>1, FewerAwaited

LEMMA CommitAwaited ==
    ASSUME CheckIsAwaited, Sound(durable), UNCHANGED <<calls, forsaken>>,
           NEW p \in Pages, NEW r, NEW record,
           Holds(durable, r) => record \in Fit /\ record.status \notin Waiting,
           Commit(p, r, record)
    PROVE  CheckIsAwaited'
BY ChangeAwaited, BlockedAwaited DEF Commit, Saves

LEMMA SaveAwaited ==
    ASSUME CheckIsAwaited, TypeInv, UNCHANGED <<calls, forsaken>>,
           NEW p \in Pages, NEW timer, Save(p, timer)
    PROVE  CheckIsAwaited'
<1> DEFINE r == Mine(p)
           new == Inked(durable.records[r], pad[p])
<1>1. CASE Holds(durable, r) /\ durable.records[r].draft # pad[p]
  <2>1. /\ durable.records[r].revision < MaxRevision
        /\ durable' = With(durable, r, new)
    BY <1>1 DEF Save
  <2>2. durable.records[r] \in Fit /\ pad[p] \in Drafts
    BY <1>1, HeldFits DEF TypeInv, Screens
  <2>3. new \in Fit /\ new.status = "draft"
    BY <2>1, <2>2, InkedFits DEF Inked, Fit, Record
  <2> HIDE DEF new
  <2> QED  BY <1>1, <2>1, <2>3, ChangeAwaited DEF TypeInv, Waiting
<1>2. CASE ~(Holds(durable, r) /\ durable.records[r].draft # pad[p])
  <2>1. durable' = durable
    BY <1>2 DEF Save
  <2> QED  BY <2>1, FewerAwaited
<1> QED  BY <1>1, <1>2

\* A page that asks makes the record wait for that request.
LEMMA AskAwaited ==
    ASSUME CheckIsAwaited, TypeInv, UNCHANGED forsaken, NEW p \in Pages,
           NEW r, Holds(durable, r), NEW record \in Fit,
           NEW status \in Waiting, NEW kind \in {"recognition", "evaluation"},
           NEW text \in Texts, NEW image \in Drafts, NEW replaced \in BOOLEAN,
           Ask(p, r, kind, text, image, replaced),
           record.revision = durable.records[r].revision,
           kind = "evaluation" => record.confirmed = text,
           durable' = With(durable, r, Asking(record, status, sent + 1))
    PROVE  CheckIsAwaited'
<1> DEFINE asked == Asking(record, status, sent + 1)
           c == [id |-> sent + 1, page |-> p, record |-> r, kind |-> kind,
                 body |-> text, revision |-> durable.records[r].revision,
                 image |-> image, replaced |-> replaced]
<1>1. sent + 1 \in RequestIds
  BY AskTyped DEF TypeInv
<1>2. /\ asked \in Fit
      /\ <<sent + 1, record.revision>> \in asked.open
      /\ asked.revision = record.revision /\ asked.confirmed = record.confirmed
  BY <1>1, AskingFits DEF Asking, Fit, Record
<1> HIDE DEF asked
<1>3. /\ durable'.records = [durable.records EXCEPT ![r] = asked]
      /\ durable.records \in [DOMAIN durable.records -> Fit]
      /\ r \in DOMAIN durable.records
  BY <1>2, WithSound, StoreFields DEF TypeInv, Holds, asked
<1>4. calls \subseteq calls' /\ \E d \in calls' : d = c
  BY DEF Ask
<1>5. PICK d \in calls' : d = c
  BY <1>4
<1>a. d.record = r /\ Fits(d)'
  <2>1. durable'.records[r] = asked /\ r \in DOMAIN durable'.records
    BY <1>3
  <2>2. /\ <<d.id, d.revision>> \in asked.open
        /\ d.revision = asked.revision /\ d.record = r
        /\ d.kind = "evaluation" => asked.confirmed = d.body
    BY <1>2, <1>5
  <2> QED  BY <2>1, <2>2 DEF Fits, Holds
<1>6. ASSUME NEW s \in DOMAIN durable'.records, s # r
      PROVE  s \in DOMAIN durable.records /\ durable'.records[s] = durable.records[s]
  BY <1>3, <1>6
<1>7. ASSUME NEW s \in DOMAIN durable'.records
      PROVE  \/ \E e \in calls' : e.record = s /\ Fits(e)'
             \/ /\ s \in DOMAIN durable.records
                /\ durable'.records[s] = durable.records[s]
                /\ \A e \in calls : e \in calls'
  <2>1. CASE s = r
    BY <1>a, <2>1
  <2>2. CASE s # r
    BY <1>4, <1>6, <2>2
  <2> QED  BY <2>1, <2>2
<1> QED  BY <1>7, AwaitedKept

\* The child's work.
LEMMA WorkAwaited ==
    ASSUME TypeInv, CheckIsAwaited, NEW p \in Pages, Work(p)
    PROVE  CheckIsAwaited'
<1>t. Sound(durable)
  BY DEF TypeInv
<1>1. ASSUME NEW draft, Changes(p, draft) PROVE CheckIsAwaited'
  BY <1>1, FewerAwaited DEF Changes
<1>2. ASSUME AutoSave(p) PROVE CheckIsAwaited'
  <2>1. CASE Save(p, FALSE)
    BY <1>2, <2>1, SaveAwaited DEF AutoSave
  <2>2. CASE durable' = durable
    BY <1>2, <2>2, FewerAwaited DEF AutoSave
  <2> QED  BY <1>2, <2>1, <2>2 DEF AutoSave
<1>3. ASSUME PressCheck(p) PROVE CheckIsAwaited'
  BY <1>3, SaveAwaited DEF PressCheck
<1>4. ASSUME Continue(p) PROVE CheckIsAwaited'
  <2> DEFINE r == check[p].record
             record == durable.records[r]
  <2>1. UNCHANGED forsaken /\ (NoAsk => UNCHANGED calls)
    BY <1>4 DEF Continue, NoAsk
  <2>2. Holds(durable, r) => record \in Fit
    BY <1>t, HeldFits
  <2>3. Holds(durable, r) => /\ TakenAsTyped(record) \in Fit
                             /\ TakenAsTyped(record).status = "transcription_ready"
                             /\ LeftToParent(record) \in Fit
                             /\ LeftToParent(record).status = "parent_review_needed"
    <3>1. Holds(durable, r) => TakenAsTyped(record).status = "transcription_ready"
      BY <2>2 DEF TakenAsTyped, Fit, Record
    <3>2. Holds(durable, r) => LeftToParent(record).status = "parent_review_needed"
      BY <2>2 DEF LeftToParent, Fit, Record
    <3> QED  BY <2>2, <3>1, <3>2, TakenAsTypedFits, LeftToParentFits
  <2>4. CASE Blocked(p) /\ NoAsk
    BY <2>1, <2>4, BlockedAwaited
  <2>5. CASE Commit(p, r, TakenAsTyped(record)) /\ NoAsk
    BY <1>t, <2>1, <2>3, <2>5, CommitAwaited DEF Waiting
  <2>6. CASE Commit(p, r, LeftToParent(record)) /\ NoAsk
    BY <1>t, <2>1, <2>3, <2>6, CommitAwaited DEF Waiting
  <2>7. CASE /\ Holds(durable, r)
             /\ Saves(p, With(durable, r,
                              Asking(record, "recognition_pending", sent + 1)))
             /\ Ask(p, r, "recognition", "read", check[p].draft,
                    record.revision # check[p].revision)
    <3>1. /\ "read" \in Texts /\ "recognition_pending" \in Waiting
          /\ check[p].draft \in Drafts
      BY <1>4 DEF TypeInv, Continue, Texts, Waiting, Requests, Check
    <3> QED  BY <2>1, <2>2, <2>7, <3>1, AskAwaited DEF Saves
  <2> QED  BY <1>4, <2>4, <2>5, <2>6, <2>7 DEF Continue, Blocked
<1>5. ASSUME NEW text \in {"read", "edited"}, Confirm(p, text) PROVE CheckIsAwaited'
  <2> DEFINE r == Mine(p)
             record == [durable.records[r] EXCEPT !.confirmed = text]
             asked == [record EXCEPT !.reason = FALSE]
             base == [durable.records[r] EXCEPT !.status = "evaluation_pending",
                        !.confirmed = text, !.reason = FALSE]
  <2>1. UNCHANGED forsaken /\ (NoAsk => UNCHANGED calls)
    BY <1>5 DEF Confirm, NoAsk
  <2>2. Holds(durable, r) => durable.records[r] \in Fit
    BY <1>t, HeldFits
  <2>3. CASE /\ Holds(durable, r)
             /\ Saves(p, With(durable, r, Asking(asked, "evaluation_pending", sent + 1)))
             /\ Ask(p, r, "evaluation", text, EmptyDraft, FALSE)
    <3>1. /\ text \in Texts /\ "evaluation_pending" \in Waiting
          /\ EmptyDraft \in Drafts
      BY DEF Texts, Waiting, EmptyDraft, Drafts
    <3>2. /\ base \in Fit /\ base.confirmed = text
          /\ base.revision = durable.records[r].revision
      BY <2>2, <2>3, <3>1 DEF Fit, Record, Statuses, Waiting
    <3>3. Asking(asked, "evaluation_pending", sent + 1)
            = Asking(base, "evaluation_pending", sent + 1)
      BY <2>2, <2>3 DEF Asking, Fit, Record
    <3>4. durable' = With(durable, r, Asking(base, "evaluation_pending", sent + 1))
      BY <2>3, <3>3 DEF Saves
    <3> HIDE DEF base
    <3> QED  BY <2>1, <2>3, <3>1, <3>2, <3>4, AskAwaited
  <2>4. CASE /\ Holds(durable, r)
             /\ Saves(p, With(durable, r, LeftToParent(record))) /\ NoAsk
    <3>1. /\ LeftToParent(record) \in Fit
          /\ LeftToParent(record).status = "parent_review_needed"
      BY <2>2, <2>4 DEF LeftToParent, Fit, Record, Statuses, Waiting, Texts
    <3> HIDE DEF record
    <3> QED  BY <1>t, <2>1, <2>4, <3>1, ChangeAwaited DEF Saves, Waiting
  <2>5. CASE Keeps(p) /\ NoAsk
    BY <2>1, <2>5, FewerAwaited DEF Keeps
  <2> QED  BY <1>5, <2>3, <2>4, <2>5 DEF Confirm
<1>6. ASSUME Rewrite(p) PROVE CheckIsAwaited'
  <2> DEFINE r == Mine(p)
  <2>1. Holds(durable, r) => /\ Rewritten(durable.records[r]) \in Fit
                             /\ Rewritten(durable.records[r]).status = "draft"
    <3>1. Holds(durable, r) => durable.records[r] \in Fit
      BY <1>t, HeldFits
    <3>2. Holds(durable, r) => Rewritten(durable.records[r]).status = "draft"
      BY <3>1 DEF Rewritten, Fit, Record
    <3> QED  BY <3>1, <3>2, RewrittenFits
  <2> QED  BY <1>t, <1>6, <2>1, CommitAwaited DEF Rewrite, Waiting
<1>7. ASSUME Finish(p) PROVE CheckIsAwaited'
  <2> DEFINE r == Mine(p)
             done == [durable.records[r] EXCEPT !.status = "completed"]
             store == With(durable, r, done)
             new == [store EXCEPT !.pending = IF @ = r THEN NoRecord ELSE @]
  <2>1. CASE Holds(durable, r)
    <3>1. durable.records[r] \in Fit
      BY <1>t, <2>1, HeldFits
    <3>2. done \in Fit /\ done.status = "completed"
      BY <3>1 DEF Fit, Record, Statuses
    <3> HIDE DEF done
    <3>3. Sound(store) /\ store.records = [durable.records EXCEPT ![r] = done]
      BY <1>t, <2>1, <3>2, WithSound DEF Holds
    <3> HIDE DEF store
    <3>4. new.records = store.records
      BY <3>3, StoreFields DEF Store
    <3>5. durable' = new
      BY <1>7, <2>1 DEF Finish, Saves, store, done
    <3> HIDE DEF new
    <3>6. durable'.records = [durable.records EXCEPT ![r] = done]
      BY <3>3, <3>4, <3>5
    <3>7. durable.records \in [DOMAIN durable.records -> Fit]
      BY <1>t, StoreFields
    <3> QED  BY <1>7, <3>2, <3>6, <3>7, FewerAwaited DEF Finish, Waiting
  <2>2. CASE ~Holds(durable, r)
    BY <1>7, <2>2, FewerAwaited DEF Finish, Keeps
  <2> QED  BY <2>1, <2>2
<1>8. ASSUME Schedule(p) PROVE CheckIsAwaited'
  <2> DEFINE victims == Victims(durable)
             stays == Without(durable, victims).records
             records == [s \in DOMAIN stays \union {created + 1} |->
                           IF s = created + 1 THEN NewRecord ELSE stays[s]]
  <2>1. durable'.records = records
    <3>1. durable' = [durable EXCEPT !.records = records, !.pending = created + 1]
      BY <1>8 DEF Schedule, Saves
    <3>2. durable \in Store(DOMAIN durable.records)
      BY <1>t, StoreFields
    <3> HIDE DEF records
    <3> QED  BY <3>1, <3>2 DEF Store
  <2>2. /\ DOMAIN stays \subseteq DOMAIN durable.records
        /\ \A s \in DOMAIN stays : stays[s] = durable.records[s]
    BY <1>t, WithoutSound
  <2>3. NewRecord.status \notin Waiting
    BY DEF NewRecord, Waiting
  <2> HIDE DEF stays
  <2> QED  BY <1>8, <2>1, <2>2, <2>3, FewerAwaited DEF Schedule
<1> QED  BY <1>1, <1>2, <1>3, <1>4, <1>5, <1>6, <1>7, <1>8
         DEF Work, Draw, Type

\* The parent's.
LEMMA ParentAwaited ==
    ASSUME TypeInv, CheckIsAwaited, NEW p \in Pages, Parent(p)
    PROVE  CheckIsAwaited'
<1>t. Sound(durable) /\ durable \in Store(DOMAIN durable.records)
  BY StoreFields DEF TypeInv
<1>1. ASSUME NEW r \in RecordIds, Review(p, r) PROVE CheckIsAwaited'
  <2> DEFINE old == durable.records[r]
  <2>1. Holds(durable, r) /\ old \in Fit /\ UNCHANGED <<calls, forsaken>>
    BY <1>t, <1>1, HeldFits DEF Review
  <2>2. CASE durable' = With(durable, r, Corrected(old))
    <3>1. Corrected(old) \in Fit /\ Corrected(old).status \notin Waiting
      <4>1. Corrected(old).status \in {"completed", "parent_review_needed"}
        BY <2>1 DEF Corrected, Fit, Record
      <4> QED  BY <2>1, <4>1, CorrectedFits DEF Waiting
    <3> QED  BY <1>t, <2>1, <2>2, <3>1, ChangeAwaited
  <2>3. CASE durable' = With(durable, r, [old EXCEPT !.reviewed = TRUE])
    <3> DEFINE new == [old EXCEPT !.reviewed = TRUE]
    <3>1. /\ new \in Fit /\ new.status = old.status /\ new.open = old.open
          /\ new.revision = old.revision /\ new.confirmed = old.confirmed
      BY <2>1 DEF Fit, Record
    <3> HIDE DEF new
    <3>2. durable'.records = [durable.records EXCEPT ![r] = new]
      BY <1>t, <2>1, <2>3, <3>1, WithSound DEF Holds, new
    <3>3. durable.records \in [DOMAIN durable.records -> Fit]
      BY <1>t, StoreFields
    <3>4. ASSUME NEW s \in DOMAIN durable'.records
          PROVE  /\ s \in DOMAIN durable.records
                 /\ durable'.records[s].status = durable.records[s].status
                 /\ durable'.records[s].open = durable.records[s].open
                 /\ durable'.records[s].revision = durable.records[s].revision
                 /\ durable'.records[s].confirmed = durable.records[s].confirmed
      BY <3>1, <3>2, <3>3
    <3> QED  BY <2>1, <3>4, AwaitedKept
  <2> QED  BY <1>1, <2>2, <2>3 DEF Review, ParentChanges, Saves
<1>2. ASSUME NEW S \in SUBSET RecordIds, Delete(p, S) PROVE CheckIsAwaited'
  <2>1. /\ DOMAIN Without(durable, S).records \subseteq DOMAIN durable.records
        /\ \A r \in DOMAIN Without(durable, S).records :
              Without(durable, S).records[r] = durable.records[r]
    BY <1>t, WithoutSound
  <2>2. durable' = Without(durable, S) /\ UNCHANGED <<calls, forsaken>>
    BY <1>2 DEF Delete, Saves
  <2> QED  BY <2>1, <2>2, FewerAwaited
<1>3. ASSUME durable'.records = durable.records, UNCHANGED <<calls, forsaken>>
      PROVE  CheckIsAwaited'
  BY <1>3, FewerAwaited
<1>4. ASSUME Configure(p) PROVE CheckIsAwaited'
  <2>1. durable'.records = durable.records
    BY <1>t, <1>4 DEF Configure, Saves, Store
  <2> QED  BY <1>3, <1>4, <2>1 DEF Configure
<1>5. ASSUME Authorize(p) PROVE CheckIsAwaited'
  <2>1. durable'.records = durable.records
    BY <1>t, <1>5 DEF Authorize, Saves, Blocked, Keeps, Loses, Unlocked, Store
  <2> QED  BY <1>3, <1>5, <2>1 DEF Authorize
<1> QED  BY <1>1, <1>2, <1>4, <1>5 DEF Parent

\* A record its answer is applied to is no longer under check.
LEMMA ResultsSettle ==
    ASSUME TypeInv, NEW call \in Call, Fits(call), NEW store \in Results(call)
    PROVE  \E new \in Fit :
              /\ new.status \notin Waiting
              /\ store.records = [durable.records EXCEPT ![call.record] = new]
<1> DEFINE r == call.record
           record == durable.records[r]
           settled == Settled(call)
           applied(b) == IF call.kind = "recognition"
                         THEN Recognized(settled, call, b)
                         ELSE Judged(settled, call, b)
<1>1. /\ r \in DOMAIN durable.records /\ record \in Fit /\ Sound(durable)
      /\ call.revision = record.revision
      /\ call.kind = "evaluation" => record.confirmed = call.body
  BY HeldFits DEF TypeInv, Fits, Holds
<1>2. /\ settled \in Fit
      /\ settled.revision = record.revision
      /\ settled.confirmed = record.confirmed
  BY <1>1 DEF Settled, Fit, Record
<1> HIDE DEF settled
<1>3. LeftToParent(settled) \in Fit /\ LeftToParent(settled).status \notin Waiting
  <2>1. LeftToParent(settled).status = "parent_review_needed"
    BY <1>2 DEF LeftToParent, Fit, Record
  <2> QED  BY <1>2, <2>1, LeftToParentFits DEF Waiting
<1>4. ASSUME NEW b \in BOOLEAN
      PROVE  applied(b) \in Fit /\ applied(b).status \notin Waiting
  <2>1. CASE call.kind = "recognition"
    <3>1. Recognized(settled, call, b).status = "transcription_ready"
      BY <1>2 DEF Recognized, Fit, Record
    <3> QED  BY <1>1, <1>2, <2>1, <3>1, RecognizedFits DEF Waiting
  <2>2. CASE call.kind # "recognition"
    <3>1. call.kind = "evaluation"
      BY <2>2 DEF Call
    <3>2. Judged(settled, call, b).status
            \in {"parent_review_needed", "feedback_ready"}
      BY <1>2 DEF Judged, Fit, Record
    <3> QED  BY <1>1, <1>2, <2>2, <3>1, <3>2, JudgedFits DEF Waiting
  <2> QED  BY <2>1, <2>2
<1>5. ASSUME NEW new \in Fit
      PROVE  /\ Sound(With(durable, r, new))
             /\ With(durable, r, new).records = [durable.records EXCEPT ![r] = new]
  BY <1>1, WithSound
<1> DEFINE parents == With(durable, r, LeftToParent(settled))
<1>6. [parents EXCEPT !.paused = TRUE].records = parents.records
  <2>1. parents \in Store(DOMAIN parents.records)
    BY <1>3, <1>5, StoreFields
  <2> HIDE DEF parents
  <2> QED  BY <2>1 DEF Store
<1>7. CASE store = [parents EXCEPT !.paused = TRUE]
  BY <1>3, <1>5, <1>6, <1>7
<1>8. CASE store = parents
  BY <1>3, <1>5, <1>8
<1>9. CASE \E b \in BOOLEAN : store = With(durable, r, applied(b))
  <2>1. PICK b \in BOOLEAN : store = With(durable, r, applied(b))
    BY <1>9
  <2> HIDE DEF applied
  <2> QED  BY <1>4, <1>5, <2>1
<1> QED  BY <1>7, <1>8, <1>9 DEF Results, settled

LEMMA NextAwaited ==
    TypeInv /\ CheckIsAwaited /\ [PilotNext]_pilotVars => CheckIsAwaited'
<1> SUFFICES ASSUME TypeInv, CheckIsAwaited, [PilotNext]_pilotVars
             PROVE  CheckIsAwaited'
  OBVIOUS
<1>t. Sound(durable) /\ durable \in Store(DOMAIN durable.records)
  BY StoreFields DEF TypeInv
<1>1. ASSUME NEW p \in Pages, Deliver(p) PROVE CheckIsAwaited'
  BY <1>1, FewerAwaited DEF Deliver, Keeps
<1>m. ASSUME NEW p \in Pages, Misread(p) PROVE CheckIsAwaited'
  BY <1>m, FewerAwaited DEF Misread, Loses
<1>2. ASSUME NEW p \in Pages, Reload(p) PROVE CheckIsAwaited'
  <2>1. /\ durable' = durable /\ forsaken \subseteq forsaken'
        /\ \A c \in calls : c \notin calls' => c.record \in forsaken'
    BY <1>2 DEF Reload
  <2> QED  BY <2>1, AwaitedKept
<1>3. ASSUME NEW call \in calls, Answer(call) PROVE CheckIsAwaited'
  <2>1. /\ call \in Call /\ calls' = calls \ {call}
        /\ forsaken \subseteq forsaken'
    BY <1>3 DEF Answer, TypeInv, Requests
  <2>2. CASE Fits(call) /\ \E store \in Results(call) : Saves(call.page, store)
    <3>1. PICK new \in Fit :
             /\ new.status \notin Waiting
             /\ durable'.records = [durable.records EXCEPT ![call.record] = new]
      BY <2>1, <2>2, ResultsSettle DEF Saves
    <3>2. durable.records \in [DOMAIN durable.records -> Fit]
      BY <1>t, StoreFields
    <3>3. ASSUME NEW r \in DOMAIN durable'.records
          PROVE  \/ durable'.records[r].status \notin Waiting
                 \/ /\ r \in DOMAIN durable.records
                    /\ durable'.records[r] = durable.records[r]
                    /\ \A c \in calls : c.record = r => c \in calls'
      <4>1. CASE r = call.record
        BY <3>1, <3>2, <4>1
      <4>2. CASE r # call.record
        BY <2>1, <3>1, <3>2, <4>2
      <4> QED  BY <4>1, <4>2
    <3> QED  BY <2>1, <3>3, AwaitedKept
  <2>3. CASE ~Fits(call) /\ durable' = durable
    BY <2>1, <2>3, AwaitedKept
  <2>4. CASE durable' = durable /\ call.record \in forsaken'
    BY <2>1, <2>4, AwaitedKept
  <2> QED  BY <1>3, <2>2, <2>3, <2>4 DEF Answer, Keeps, Blocked, Loses, Unlocked
<1>4. ASSUME NEW r \in RecordIds, Expire(r) PROVE CheckIsAwaited'
  <2>1. /\ DOMAIN Without(durable, {r}).records \subseteq DOMAIN durable.records
        /\ \A s \in DOMAIN Without(durable, {r}).records :
              Without(durable, {r}).records[s] = durable.records[s]
    BY <1>t, WithoutSound
  <2> QED  BY <1>4, <2>1, FewerAwaited DEF Expire
<1>5. ASSUME PauseEnds PROVE CheckIsAwaited'
  <2>1. durable'.records = durable.records
    BY <1>t, <1>5 DEF PauseEnds, Store
  <2> QED  BY <1>5, <2>1, FewerAwaited DEF PauseEnds
<1>6. CASE UNCHANGED pilotVars
  BY <1>6, FewerAwaited DEF pilotVars
<1> QED  BY <1>1, <1>m, <1>2, <1>3, <1>4, <1>5, <1>6, WorkAwaited, ParentAwaited
         DEF PilotNext

\* A record that says it is being checked has a request under way whose answer
\* will fit it, unless a request for it was forsaken.
THEOREM CheckAlwaysAwaited == PilotSpec => []CheckIsAwaited
<1>1. PilotInit => CheckIsAwaited
  BY DEF PilotInit, EmptyStore, CheckIsAwaited
<1> QED  BY <1>1, TypeInvariant, NextAwaited, PTL DEF PilotSpec

=============================================================================
