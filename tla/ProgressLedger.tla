--------------------------- MODULE ProgressLedger ---------------------------
(***************************************************************************)
(* What saved reading progress promises, with no pages, locks, revisions   *)
(* or saved text: a learner's sessions are answer sheets.  A sheet is      *)
(* opened, each question on it is answered once, a full sheet is paid for  *)
(* what it says, and never again.  The browser may erase the whole ledger; *)
(* the sheets paid so far stay paid.                                       *)
(***************************************************************************)
EXTENDS ActiveLesson

CONSTANT NoSheet

VARIABLES
    sheet,   \* the answer sheet of each open session
    paid,    \* sessions rewarded so far
    total    \* the learner's XP

ledgerVars == <<sheet, paid, total>>

Sheet == [Question -> Answer \union {NoAnswer}]

Open(id) == sheet[id] # NoSheet

Init ==
    /\ sheet \in [SessionId -> Sheet \union {NoSheet}]
    /\ paid \subseteq {id \in SessionId : ~Open(id)}
    /\ total \in Nat

Start(id) ==
    /\ ~Open(id)
    /\ id \notin paid
    /\ sheet' = [sheet EXCEPT ![id] = [q \in Question |-> NoAnswer]]
    /\ UNCHANGED <<paid, total>>

\* A checkpoint may bring several answers; an answer given stays.
Fill(id, answers) ==
    /\ Open(id)
    /\ \A q \in Question : sheet[id][q] \in {NoAnswer, answers[q]}
    /\ sheet' = [sheet EXCEPT ![id] = answers]
    /\ UNCHANGED <<paid, total>>

Pay(id) ==
    /\ Open(id)
    /\ \A q \in Question : sheet[id][q] # NoAnswer
    /\ sheet' = [sheet EXCEPT ![id] = NoSheet]
    /\ paid' = paid \union {id}
    /\ total' = total + Award([q \in Question |-> sheet[id][q] \in Correct])

\* The lesson is no longer in the catalog.
Withdraw(id) ==
    /\ KindOf[id] = "retired"
    /\ sheet' = [sheet EXCEPT ![id] = NoSheet]
    /\ UNCHANGED <<paid, total>>

Erase ==
    /\ sheet' = [id \in SessionId |-> NoSheet]
    /\ total' = 0
    /\ UNCHANGED paid

Next ==
    \/ \E id \in SessionId :
        \/ Start(id)
        \/ \E answers \in Sheet : Fill(id, answers)
        \/ Pay(id)
        \/ Withdraw(id)
    \/ Erase

Spec == Init /\ [][Next]_ledgerVars

=============================================================================
