------------------------ MODULE WritingLedgerProofs -------------------------
(***************************************************************************)
(* Theorems about WritingLedger, for any number of invocations, bearers,   *)
(* requests and payloads, any clock and any limits: a request is worked on *)
(* by one invocation at a time, paid once, answered in one way, and the    *)
(* daily limit, revocation and provenance stand.                           *)
(***************************************************************************)
EXTENDS WritingLedger, TLAPS

-----------------------------------------------------------------------------
(* Types.                                                                  *)

\* What is answered, and what is stored as completed, is a response.
Whole ==
    /\ \A w \in Workers : workers[w].pc = "answered" =>
                             workers[w].response \in Responses
    /\ \A k \in Keys : rows[k].status = "completed" =>
                             rows[k].response \in Responses

TypeInv == LedgerTypeOK /\ Whole

LEMMA StoredRow ==
    ASSUME NEW row \in Row \union {NoRow}
    PROVE  /\ row # NoRow <=> row \in Row
           /\ row # NoRow <=> row.status # "absent"
           /\ row \in Row => row.status \in {"pending", "completed", "unknown"}
BY DEF Row, NoRow

LEMMA InvocationType ==
    ASSUME LedgerTypeOK, NEW w \in Workers
    PROVE  /\ workers[w].pc # "idle" <=> workers[w] \in Invocation
           /\ workers[w] = Idle <=> workers[w].pc = "idle"
           /\ workers[w].pc # "idle" =>
                /\ CallOf(w) \in Calls
                /\ CallOf(w).key \in Keys
                /\ CallOf(w).payload \in Payloads
<1>1. workers[w] \in Invocation \union {Idle}
  BY DEF LedgerTypeOK
<1>2. /\ workers[w].pc # "idle" <=> workers[w] \in Invocation
      /\ workers[w] = Idle <=> workers[w].pc = "idle"
  BY <1>1 DEF Invocation, Idle
<1>3. ASSUME workers[w] \in Invocation PROVE CallOf(w) \in Calls
  BY <1>3 DEF Invocation, CallOf
<1>4. ASSUME NEW call \in Calls PROVE call.key \in Keys /\ call.payload \in Payloads
  BY DEF Calls
<1> QED  BY <1>2, <1>3, <1>4

\* A run of a model leaves an invocation with its call and its clock, at a later
\* place, and the others alone.
LEMMA RunKeeps ==
    ASSUME LedgerTypeOK, NEW w \in Workers,
           \/ \E permitted \in BOOLEAN : CheckInput(w, permitted)
                                        \/ CheckOutput(w, permitted)
           \/ \E outcome \in Outcomes, readable \in BOOLEAN : Infer(w, outcome, readable)
    PROVE  /\ w \in Working /\ workers[w] \in Invocation
           /\ \A v \in Workers \ {w} : workers'[v] = workers[v]
           /\ workers'[w] # Idle
           /\ workers'[w].call = workers[w].call
           /\ workers'[w].since = workers[w].since
           /\ \/ workers'[w].pc \in {"written", "answered"}
              \/ workers[w].pc = "prepared" /\ workers'[w].pc = "admitted"
<1>1. w \in Working /\ workers[w] \in Invocation
  BY InvocationType DEF CheckInput, CheckOutput, Infer, Working
<1>2. ASSUME NEW next, Goto(w, next)
      PROVE  workers'[w] = next /\ \A v \in Workers \ {w} : workers'[v] = workers[v]
  BY <1>2 DEF Goto, LedgerTypeOK
<1>3. ASSUME NEW pc, NEW readable, NEW response,
             \/ Goto(w, [workers[w] EXCEPT !.pc = pc])
             \/ Goto(w, [workers[w] EXCEPT !.pc = pc, !.readable = readable])
             \/ Goto(w, [workers[w] EXCEPT !.pc = pc, !.response = response,
                                           !.readable = readable])
      PROVE  /\ \A v \in Workers \ {w} : workers'[v] = workers[v]
             /\ workers'[w].pc = pc
             /\ workers'[w].call = workers[w].call
             /\ workers'[w].since = workers[w].since
  <2>1. CASE Goto(w, [workers[w] EXCEPT !.pc = pc])
    BY <1>1, <1>2, <2>1 DEF Invocation
  <2>2. CASE Goto(w, [workers[w] EXCEPT !.pc = pc, !.readable = readable])
    <3> DEFINE next == [workers[w] EXCEPT !.pc = pc, !.readable = readable]
    <3>1. next.pc = pc /\ next.call = workers[w].call /\ next.since = workers[w].since
      BY <1>1 DEF Invocation
    <3>2. Goto(w, next)
      BY <2>2
    <3> HIDE DEF next
    <3> QED  BY <1>2, <3>1, <3>2
  <2>3. CASE Goto(w, [workers[w] EXCEPT !.pc = pc, !.response = response,
                                        !.readable = readable])
    <3> DEFINE next == [workers[w] EXCEPT !.pc = pc, !.response = response,
                                         !.readable = readable]
    <3>1. next.pc = pc /\ next.call = workers[w].call /\ next.since = workers[w].since
      BY <1>1 DEF Invocation
    <3>2. Goto(w, next)
      BY <2>3
    <3> HIDE DEF next
    <3> QED  BY <1>2, <3>1, <3>2
  <2> QED  BY <1>3, <2>1, <2>2, <2>3
<1>4. ASSUME NEW outcome, NEW readable, Conclude(w, outcome, readable)
      PROVE  /\ \A v \in Workers \ {w} : workers'[v] = workers[v]
             /\ workers'[w].pc = "answered"
             /\ workers'[w].call = workers[w].call
             /\ workers'[w].since = workers[w].since
  BY <1>3, <1>4 DEF Conclude
<1>5. ASSUME NEW permitted \in BOOLEAN, CheckInput(w, permitted)
      PROVE  /\ \A v \in Workers \ {w} : workers'[v] = workers[v]
             /\ \/ workers'[w].pc = "answered"
                \/ workers[w].pc = "prepared" /\ workers'[w].pc = "admitted"
             /\ workers'[w].call = workers[w].call
             /\ workers'[w].since = workers[w].since
  <2>1. CASE permitted
    BY <1>3, <1>5, <2>1 DEF CheckInput
  <2>2. CASE ~permitted
    BY <1>4, <1>5, <2>2 DEF CheckInput
  <2> QED  BY <2>1, <2>2
<1>6. ASSUME NEW permitted \in BOOLEAN, CheckOutput(w, permitted)
      PROVE  /\ \A v \in Workers \ {w} : workers'[v] = workers[v]
             /\ workers'[w].pc = "answered"
             /\ workers'[w].call = workers[w].call
             /\ workers'[w].since = workers[w].since
  BY <1>4, <1>6 DEF CheckOutput
<1>7. ASSUME NEW outcome \in Outcomes, NEW readable \in BOOLEAN,
             Infer(w, outcome, readable)
      PROVE  /\ \A v \in Workers \ {w} : workers'[v] = workers[v]
             /\ workers'[w].pc \in {"written", "answered"}
             /\ workers'[w].call = workers[w].call
             /\ workers'[w].since = workers[w].since
  <2>1. CASE outcome = "completed"
    BY <1>3, <1>7, <2>1 DEF Infer
  <2>2. CASE outcome # "completed"
    BY <1>4, <1>7, <2>2 DEF Infer
  <2> QED  BY <2>1, <2>2
<1> QED  BY <1>1, <1>5, <1>6, <1>7 DEF Idle

LEMMA PurgedRows ==
    ASSUME LedgerTypeOK, NEW at
    PROVE  /\ Purged(at) \in [Keys -> Row \union {NoRow}]
           /\ \A k \in Keys : Purged(at)[k] \in {rows[k], NoRow}
           /\ \A k \in Keys : Purged(at)[k] = NoRow <=>
                               rows[k] = NoRow \/ Expired(rows[k], at)
           /\ \A k \in Keys : Purged(at)[k] # NoRow => Purged(at)[k] = rows[k]
           /\ KeptAnswers(at) \subseteq answers
BY DEF Purged, LedgerTypeOK, KeptAnswers, Expired

\* What settling makes of a row.
Outcome(w) ==
    IF workers[w].response.outcome = "unknown"
    THEN MarkUnknown(rows[CallOf(w).key], CallOf(w))
    ELSE CompleteRow(rows[CallOf(w).key], CallOf(w), workers[w].response,
                     workers[w].readable)

LEMMA SettledRow ==
    ASSUME TypeInv, NEW w \in Workers, workers[w].pc = "answered"
    PROVE  /\ Outcome(w) \in Row \union {NoRow}
           /\ RowOf(w) = NoRow => Outcome(w) = NoRow
           /\ RowOf(w) \in Row =>
                /\ Outcome(w) \in Row
                /\ Outcome(w).payload = RowOf(w).payload
                /\ Outcome(w).expiresAt = RowOf(w).expiresAt
                /\ \/ Outcome(w) = RowOf(w)
                   \/ Outcome(w).status = "unknown"
                   \/ /\ Outcome(w).status = "completed"
                      /\ Outcome(w).response = workers[w].response
                      /\ Outcome(w).supportable = workers[w].readable
                      /\ RowOf(w).payload = CallOf(w).payload
                      /\ workers[w].response.outcome # "unknown"
<1>1. /\ workers[w] \in Invocation
      /\ CallOf(w).key \in Keys
      /\ workers[w].response \in Responses
      /\ workers[w].readable \in BOOLEAN
  BY InvocationType DEF TypeInv, Whole, Invocation
<1>2. RowOf(w) = rows[CallOf(w).key] /\ RowOf(w) \in Row \union {NoRow}
  BY <1>1 DEF RowOf, TypeInv, LedgerTypeOK
<1> DEFINE row == RowOf(w)
<1>3. CASE row = NoRow
  BY <1>2, <1>3 DEF Outcome, MarkUnknown, CompleteRow, SameRequest, NoRow, Row
<1>4. CASE row \in Row
  <2>1. row # NoRow
    BY <1>4, StoredRow
  <2>2. CASE workers[w].response.outcome = "unknown"
    BY <1>2, <1>4, <2>1, <2>2 DEF Outcome, MarkUnknown, SameRequest, Row
  <2>3. CASE workers[w].response.outcome # "unknown"
    BY <1>1, <1>2, <1>4, <2>1, <2>3 DEF Outcome, CompleteRow, SameRequest, Row
  <2> QED  BY <2>2, <2>3
<1> QED  BY <1>2, <1>3, <1>4

LEMMA InitTypeInv == LedgerInit => TypeInv
<1> SUFFICES ASSUME LedgerInit PROVE TypeInv
  OBVIOUS
<1>1. installations \in [Tokens -> Installation]
  BY DEF LedgerInit, Installation
<1>2. /\ now \in Times /\ consumed \in BOOLEAN
      /\ rows \in [Keys -> Row \union {NoRow}]
      /\ usage \in [Days -> Nat]
      /\ workers \in [Workers -> Invocation \union {Idle}]
      /\ inferences \in [Keys -> Nat]
      /\ answers \subseteq Answer /\ legible \subseteq Payloads
  BY LedgerAssumption DEF LedgerInit
<1>3. received \in 0..MaxRequests
  BY LedgerAssumption DEF LedgerInit
<1>4. Whole
  BY DEF LedgerInit, Whole, NoRow, Idle
<1> QED  BY <1>1, <1>2, <1>3, <1>4 DEF TypeInv, LedgerTypeOK

LEMMA NextTypeInv == TypeInv /\ [LedgerNext]_ledgerVars => TypeInv'
<1> SUFFICES ASSUME TypeInv, [LedgerNext]_ledgerVars PROVE TypeInv'
  OBVIOUS
<1> USE LedgerAssumption
<1>t. LedgerTypeOK
  BY DEF TypeInv
<1>1. CASE Tick
  BY <1>1 DEF Tick, TypeInv, Whole, LedgerTypeOK, ledger
<1>2. ASSUME NEW t \in Tokens, Activate(t) PROVE TypeInv'
  <2>1. now + AuthorizationTtl \in Nat
    BY DEF TypeInv, LedgerTypeOK
  <2>2. installations' \in [Tokens -> Installation]
    BY <1>2, <2>1 DEF Activate, TypeInv, LedgerTypeOK, Installation
  <2> QED  BY <1>2, <2>2 DEF Activate, TypeInv, Whole, LedgerTypeOK
<1>3. ASSUME NEW t \in Tokens, Revoke(t) PROVE TypeInv'
  <2>1. installations' \in [Tokens -> Installation]
    BY <1>3 DEF Revoke, TypeInv, LedgerTypeOK, Installation
  <2> QED  BY <1>3, <2>1 DEF Revoke, TypeInv, Whole, LedgerTypeOK
<1>4. ASSUME NEW w \in Workers, Handle(w) PROVE TypeInv'
  <2>1. ASSUME NEW call \in Calls, Accept(w, call) PROVE TypeInv'
    <3> DEFINE new == [pc |-> "accepted", call |-> call, since |-> now,
                       spelling |-> FALSE, response |-> NoResponse,
                       readable |-> FALSE]
    <3>1. new \in Invocation /\ new.pc = "accepted"
      BY DEF Invocation, TypeInv, LedgerTypeOK
    <3> HIDE DEF new
    <3>2. workers' = [workers EXCEPT ![w] = new]
      BY <2>1 DEF Accept, Goto, new
    <3>3. received' \in 0..MaxRequests
      BY <2>1 DEF Accept, TypeInv, LedgerTypeOK
    <3> QED  BY <2>1, <3>1, <3>2, <3>3 DEF Accept, ledger, TypeInv, Whole, LedgerTypeOK
  <2>2. ASSUME NEW heard \in BOOLEAN, Reserve(w, heard) PROVE TypeInv'
    <3> DEFINE call == CallOf(w)
               row == [status |-> "pending", payload |-> call.payload,
                       response |-> NoResponse, supportable |-> FALSE,
                       expiresAt |-> Since(w) + DedupTtl]
               next == IF heard THEN [workers[w] EXCEPT !.pc = "reserved"]
                       ELSE Idle
    <3>1. /\ workers[w] \in Invocation
          /\ call.key \in Keys /\ call.payload \in Payloads
          /\ call.key.op \in Operations
      BY <1>t, <2>2, InvocationType DEF Reserve, Keys
    <3>2. Since(w) \in Nat /\ UtcDay[Since(w)] \in Days
      BY <3>1 DEF Since, Invocation
    <3>3. row \in Row /\ row.status = "pending"
      BY <3>1, <3>2 DEF Row
    <3>4. next \in Invocation \union {Idle} /\ next.pc # "answered"
      BY <3>1, <3>2 DEF Invocation, Idle
    <3>5. rows' = [Purged(Since(w)) EXCEPT ![call.key] = row]
      BY <2>2 DEF Reserve
    <3>6. workers' = [workers EXCEPT ![w] = next]
      BY <2>2 DEF Reserve, Goto
    <3>7. usage' \in [Days -> Nat]
      BY <2>2, <3>1, <3>2 DEF Reserve, TypeInv, LedgerTypeOK
    <3> HIDE DEF row, next
    <3>8. rows' \in [Keys -> Row \union {NoRow}]
      BY <1>t, <3>3, <3>5, PurgedRows
    <3>9. workers' \in [Workers -> Invocation \union {Idle}]
      BY <3>4, <3>6 DEF TypeInv, LedgerTypeOK
    <3>10. inferences' \in [Keys -> Nat]
      BY <2>2 DEF Reserve, TypeInv, LedgerTypeOK
    <3>11. answers' \subseteq Answer
      BY <1>t, <2>2, PurgedRows DEF Reserve, TypeInv, LedgerTypeOK
    <3>12. LedgerTypeOK'
      BY <2>2, <3>7, <3>8, <3>9, <3>10, <3>11 DEF Reserve, TypeInv, LedgerTypeOK
    <3>13. Whole'
      <4>1. ASSUME NEW v \in Workers, workers'[v].pc = "answered"
            PROVE workers'[v].response \in Responses
        BY <3>4, <3>6, <4>1 DEF TypeInv, Whole, LedgerTypeOK
      <4>2. ASSUME NEW k \in Keys, rows'[k].status = "completed"
            PROVE rows'[k].response \in Responses
        <5>1. k # call.key /\ rows'[k] = Purged(Since(w))[k] /\ Purged(Since(w))[k] \in Row \union {NoRow}
          BY <1>t, <3>3, <3>5, <4>2, PurgedRows
        <5>2. Purged(Since(w))[k] # NoRow /\ Purged(Since(w))[k] = rows[k]
          BY <1>t, <4>2, <5>1, PurgedRows, StoredRow
        <5> QED  BY <4>2, <5>1, <5>2 DEF TypeInv, Whole
      <4> QED  BY <4>1, <4>2 DEF Whole
    <3> QED  BY <3>12, <3>13 DEF TypeInv
  <2>p. ASSUME rows' \in {rows, Purged(Since(w))}, workers' = [workers EXCEPT ![w] = Idle],
               answers' \subseteq Answer,
               UNCHANGED <<now, consumed, installations, usage, received,
                           inferences, legible>>
        PROVE  TypeInv'
    <3>1. /\ rows' \in [Keys -> Row \union {NoRow}]
          /\ \A k \in Keys : rows'[k] \in {rows[k], NoRow}
      BY <1>t, <2>p, PurgedRows DEF LedgerTypeOK
    <3>2. LedgerTypeOK'
      BY <1>t, <2>p, <3>1 DEF LedgerTypeOK
    <3>3. Whole'
      BY <2>p, <3>1 DEF Whole, TypeInv, LedgerTypeOK, NoRow, Idle
    <3> QED  BY <3>2, <3>3 DEF TypeInv
  <2>3. ASSUME Replay(w) PROVE TypeInv'
    <3>1. /\ CallOf(w).key \in Keys /\ CallOf(w).payload \in Payloads
      BY <1>t, <2>3, InvocationType DEF Replay
    <3>2. Purged(Since(w))[CallOf(w).key].response \in Responses
      <4>1. /\ Purged(Since(w))[CallOf(w).key].status = "completed"
            /\ Purged(Since(w))[CallOf(w).key] # NoRow
        BY <2>3 DEF Replay, SameRequest
      <4>2. Purged(Since(w))[CallOf(w).key] = rows[CallOf(w).key]
        BY <1>t, <3>1, <4>1, PurgedRows
      <4> QED  BY <3>1, <4>1, <4>2 DEF TypeInv, Whole
    <3>3. answers' \subseteq Answer
      BY <1>t, <2>3, <3>1, <3>2, PurgedRows DEF Replay, Answer, LedgerTypeOK
    <3> QED  BY <2>3, <2>p, <3>3 DEF Replay, Goto
  <2>4. ASSUME Refuse(w) PROVE TypeInv'
    <3>1. rows' \in {rows, Purged(Since(w))} /\ answers' \in {answers, KeptAnswers(Since(w))}
      BY <2>4 DEF Refuse
    <3>2. answers' \subseteq Answer
      BY <1>t, <3>1, PurgedRows DEF LedgerTypeOK
    <3> QED  BY <2>4, <2>p, <3>1, <3>2 DEF Refuse, Goto
  <2>5. ASSUME NEW heard \in BOOLEAN, AskProvenance(w, heard) PROVE TypeInv'
    <3> DEFINE next == [workers[w] EXCEPT !.pc = "prepared",
                          !.spelling = heard /\ Supportable(CallOf(w))]
    <3>1. workers[w] \in Invocation
      BY <1>t, <2>5, InvocationType DEF AskProvenance
    <3>2. Supportable(CallOf(w)) \in BOOLEAN
      BY DEF Supportable
    <3>3. next \in Invocation /\ next.pc = "prepared"
      BY <3>1, <3>2 DEF Invocation
    <3>4. workers' = [workers EXCEPT ![w] = next]
      BY <2>5 DEF AskProvenance, Goto
    <3> HIDE DEF next
    <3> QED  BY <2>5, <3>3, <3>4 DEF AskProvenance, ledger, TypeInv, Whole, LedgerTypeOK
  \* A run of a model, after which the invocation goes on or concludes.
  <2>m. ASSUME workers[w] \in Invocation, inferences' \in [Keys -> Nat],
               legible' \subseteq Payloads, UNCHANGED <<now, ledger, received, answers>>,
               NEW next \in Invocation, Goto(w, next),
               next.pc = "answered" => next.response \in Responses
        PROVE  TypeInv'
    <3>1. workers' = [workers EXCEPT ![w] = next]
      BY <2>m DEF Goto
    <3> QED  BY <2>m, <3>1 DEF ledger, TypeInv, Whole, LedgerTypeOK
  <2>c. ASSUME workers[w] \in Invocation, NEW outcome \in Outcomes,
               NEW readable \in BOOLEAN, Conclude(w, outcome, readable)
        PROVE  \E next \in Invocation : Goto(w, next) /\ next.response \in Responses
    <3> DEFINE answer == [outcome |-> outcome, payload |-> CallOf(w).payload]
               next == [workers[w] EXCEPT !.pc = "answered", !.response = answer,
                                          !.readable = readable]
    <3>1. CallOf(w).payload \in Payloads
      BY <1>t, <2>c, InvocationType
    <3>2. answer \in Responses
      BY <3>1 DEF Responses
    <3>3. Goto(w, next)
      BY <2>c DEF Conclude
    <3> HIDE DEF answer
    <3>4. next \in Invocation /\ next.response \in Responses
      BY <2>c, <3>2 DEF Invocation
    <3> HIDE DEF next
    <3> QED  BY <3>3, <3>4
  <2>6. ASSUME NEW outcome \in Outcomes, NEW readable \in BOOLEAN,
               Infer(w, outcome, readable)
        PROVE  TypeInv'
    <3>1. workers[w] \in Invocation
      BY <1>t, <2>6, InvocationType DEF Infer
    <3>2. inferences' \in [Keys -> Nat]
      <4> DEFINE key == CallOf(w).key
      <4>1. inferences' = [inferences EXCEPT ![key] = inferences[key] + 1]
        BY <2>6 DEF Infer
      <4>2. inferences \in [Keys -> Nat] /\ key \in Keys
        BY <1>t, <2>6, InvocationType DEF Infer, LedgerTypeOK
      <4> QED  BY <4>1, <4>2
    <3>3. legible' \subseteq Payloads
      BY <1>t, <2>6 DEF Infer, LedgerTypeOK
    <3>4. CASE outcome = "completed"
      <4> DEFINE next == [workers[w] EXCEPT !.pc = "written", !.readable = readable]
      <4>1. next \in Invocation /\ next.pc = "written" /\ Goto(w, next)
        BY <2>6, <3>1, <3>4 DEF Infer, Invocation
      <4> HIDE DEF next
      <4> QED  BY <2>6, <2>m, <3>1, <3>2, <3>3, <4>1 DEF Infer
    <3>5. CASE outcome # "completed"
      <4>1. PICK next \in Invocation : Goto(w, next) /\ next.response \in Responses
        BY <2>6, <2>c, <3>1, <3>5 DEF Infer
      <4> QED  BY <2>6, <2>m, <3>1, <3>2, <3>3, <4>1 DEF Infer
    <3> QED  BY <3>4, <3>5
  <2>9. ASSUME NEW permitted \in BOOLEAN, CheckInput(w, permitted) PROVE TypeInv'
    <3>1. /\ workers[w] \in Invocation
          /\ inferences' \in [Keys -> Nat] /\ legible' \subseteq Payloads
      BY <1>t, <2>9, InvocationType DEF CheckInput, LedgerTypeOK
    <3>2. CASE permitted
      <4> DEFINE next == [workers[w] EXCEPT !.pc = "admitted"]
      <4>1. next \in Invocation /\ next.pc = "admitted" /\ Goto(w, next)
        BY <2>9, <3>1, <3>2 DEF CheckInput, Invocation
      <4> HIDE DEF next
      <4> QED  BY <2>9, <2>m, <3>1, <4>1 DEF CheckInput
    <3>3. CASE ~permitted
      <4>1. PICK next \in Invocation : Goto(w, next) /\ next.response \in Responses
        BY <2>9, <2>c, <3>1, <3>3 DEF CheckInput, Outcomes
      <4> QED  BY <2>9, <2>m, <3>1, <4>1 DEF CheckInput
    <3> QED  BY <3>2, <3>3
  <2>10. ASSUME NEW permitted \in BOOLEAN, CheckOutput(w, permitted) PROVE TypeInv'
    <3>1. /\ workers[w] \in Invocation /\ workers[w].readable \in BOOLEAN
          /\ CallOf(w).payload \in Payloads
      BY <1>t, <2>10, InvocationType DEF CheckOutput, Invocation
    <3>2. inferences' \in [Keys -> Nat] /\ legible' \subseteq Payloads
      BY <1>t, <2>10, <3>1 DEF CheckOutput, LedgerTypeOK
    <3>3. PICK next \in Invocation : Goto(w, next) /\ next.response \in Responses
      <4>1. Conclude(w, IF permitted THEN "completed" ELSE "withheld",
                     permitted /\ workers[w].readable)
        BY <2>10 DEF CheckOutput
      <4>2. (permitted /\ workers[w].readable) \in BOOLEAN
        OBVIOUS
      <4>3. (IF permitted THEN "completed" ELSE "withheld") \in Outcomes
        BY DEF Outcomes
      <4> QED  BY <2>c, <3>1, <4>1, <4>2, <4>3
    <3> QED  BY <2>10, <2>m, <3>1, <3>2, <3>3 DEF CheckOutput
  <2>7. ASSUME NEW delivered \in BOOLEAN, Settle(w, delivered) PROVE TypeInv'
    <3>1. /\ CallOf(w).key \in Keys /\ CallOf(w).payload \in Payloads
          /\ workers[w].response \in Responses
      BY <1>t, <2>7, InvocationType DEF Settle, TypeInv, Whole
    <3>2. /\ Outcome(w) \in Row \union {NoRow}
          /\ Outcome(w).status = "completed" => Outcome(w).response \in Responses
      <4>1. /\ RowOf(w) \in Row \union {NoRow}
            /\ RowOf(w).status = "completed" => RowOf(w).response \in Responses
        BY <1>t, <3>1 DEF RowOf, TypeInv, Whole, LedgerTypeOK
      <4>2. workers[w].pc = "answered"
        BY <2>7 DEF Settle
      <4> QED  BY <3>1, <4>1, <4>2, SettledRow DEF NoRow
    <3>3. rows' = IF delivered THEN [rows EXCEPT ![CallOf(w).key] = Outcome(w)] ELSE rows
      BY <2>7 DEF Settle, Outcome
    <3>4. /\ rows' \in [Keys -> Row \union {NoRow}]
          /\ \A k \in Keys : rows'[k].status = "completed" => rows'[k].response \in Responses
      BY <1>t, <3>1, <3>2, <3>3 DEF TypeInv, Whole, LedgerTypeOK
    <3>5. answers' \subseteq Answer
      BY <1>t, <2>7, <3>1 DEF Settle, Answer, LedgerTypeOK
    <3>6. workers' = [workers EXCEPT ![w] = Idle]
      BY <2>7 DEF Settle, Goto
    <3>7. LedgerTypeOK'
      BY <1>t, <2>7, <3>4, <3>5, <3>6 DEF Settle, LedgerTypeOK
    <3>8. Whole'
      BY <1>t, <3>4, <3>6 DEF TypeInv, Whole, LedgerTypeOK, Idle
    <3> QED  BY <3>7, <3>8 DEF TypeInv
  <2>8. ASSUME Abandon(w) PROVE TypeInv'
    BY <2>8, <2>p DEF Abandon, Goto, ledger, TypeInv, LedgerTypeOK
  <2> QED  BY <1>4, <2>1, <2>2, <2>3, <2>4, <2>5, <2>6, <2>7, <2>8, <2>9, <2>10
           DEF Handle
<1>5. CASE UNCHANGED ledgerVars
  BY <1>5 DEF ledgerVars, ledger, TypeInv, Whole, LedgerTypeOK
<1> QED  BY <1>1, <1>2, <1>3, <1>4, <1>5 DEF LedgerNext

\* Every reachable state of the service is well typed, whatever is lost.
THEOREM LedgerTypeCorrect == LedgerSpec => []LedgerTypeOK
<1>1. LedgerSpec => []TypeInv
  BY InitTypeInv, NextTypeInv, PTL DEF LedgerSpec
<1>2. TypeInv => LedgerTypeOK
  BY DEF TypeInv
<1> QED  BY <1>1, <1>2, PTL

-----------------------------------------------------------------------------
(* One invocation per request.                                             *)

\* The request an invocation works on has a live, pending row until the
\* deduplication time counted from its reservation is over, and no other
\* invocation works on it.
WorkInv ==
    \A w \in Working :
        /\ RowOf(w).status = "pending"
        /\ RowOf(w).payload = CallOf(w).payload
        /\ RowOf(w).expiresAt = Since(w) + DedupTtl
        /\ \A v \in Working : CallOf(v).key = CallOf(w).key => v = w

\* No invocation has sampled a clock yet to come, or outlasts its record.
ClockInv ==
    \A w \in Workers : workers[w] # Idle =>
        Since(w) <= now /\ now < Since(w) + DedupTtl

LEMMA NextClock == TypeInv /\ ClockInv /\ [LedgerNext]_ledgerVars => ClockInv'
<1> SUFFICES ASSUME TypeInv, ClockInv, [LedgerNext]_ledgerVars PROVE ClockInv'
  OBVIOUS
<1> USE LedgerAssumption
<1>t. LedgerTypeOK
  BY DEF TypeInv
<1>n. now \in Nat
  BY <1>t DEF LedgerTypeOK
<1>1. CASE Tick
  <2> SUFFICES ASSUME NEW w \in Workers, workers'[w] # Idle
               PROVE  Since(w)' <= now' /\ now' < Since(w)' + DedupTtl
    BY DEF ClockInv
  <2>1. workers' = workers /\ now' = now + 1 /\ now + 1 < Since(w) + DedupTtl
    BY <1>1 DEF Tick
  <2>2. Since(w) \in Nat /\ Since(w) <= now
    BY <1>t, <2>1, InvocationType DEF ClockInv, Since, Invocation
  <2> QED  BY <1>n, <2>1, <2>2 DEF Since
<1>2. ASSUME UNCHANGED <<now, workers>> PROVE ClockInv'
  BY <1>2 DEF ClockInv, Since
<1>3. ASSUME NEW w \in Workers, Handle(w) PROVE ClockInv'
  <2>1. /\ now' = now
        /\ \A v \in Workers \ {w} : workers'[v] = workers[v]
    BY <1>t, <1>3 DEF Handle, Accept, Reserve, Replay, Refuse, AskProvenance,
         CheckInput, Infer, CheckOutput, Conclude, Settle, Abandon, Goto, LedgerTypeOK
  <2>2. ASSUME NEW call \in Calls, Accept(w, call)
        PROVE  Since(w)' = now
    BY <1>t, <2>2 DEF Accept, Goto, Since, LedgerTypeOK
  <2>3. \/ \E call \in Calls : Accept(w, call)
        \/ workers'[w] = Idle
        \/ workers[w] # Idle /\ Since(w)' = Since(w)
    <3>1. CASE workers[w] = Idle
      BY <1>3, <3>1 DEF Handle, Reserve, Replay, Refuse, AskProvenance, CheckInput,
           Infer, CheckOutput, Settle, Abandon, Working, Idle
    <3>2. CASE workers[w] \in Invocation
      <4>1. workers[w] # Idle
        BY <1>t, <3>2, InvocationType
      <4>2. CASE \E heard \in BOOLEAN : Reserve(w, heard)
        BY <1>t, <3>2, <4>1, <4>2 DEF Reserve, Goto, Since, Invocation, LedgerTypeOK
      <4>5. CASE \E heard \in BOOLEAN : AskProvenance(w, heard)
        BY <1>t, <3>2, <4>1, <4>5 DEF AskProvenance, Goto, Since, Invocation, LedgerTypeOK
      <4>3. CASE \/ \E permitted \in BOOLEAN : CheckInput(w, permitted)
                                            \/ CheckOutput(w, permitted)
                 \/ \E outcome \in Outcomes, readable \in BOOLEAN :
                       Infer(w, outcome, readable)
        BY <1>t, <4>1, <4>3, RunKeeps DEF Since
      <4>4. CASE \/ Replay(w) \/ Refuse(w) \/ Abandon(w)
                 \/ \E delivered \in BOOLEAN : Settle(w, delivered)
        BY <1>t, <4>4 DEF Replay, Refuse, Abandon, Settle, Goto, LedgerTypeOK
      <4> QED  BY <1>3, <4>2, <4>3, <4>4, <4>5 DEF Handle
    <3> QED  BY <1>t, <3>1, <3>2, InvocationType DEF LedgerTypeOK
  <2> QED  BY <1>n, <2>1, <2>2, <2>3 DEF ClockInv, Since
<1> QED  BY <1>1, <1>2, <1>3 DEF LedgerNext, Activate, Revoke, ledgerVars, ledger

LEMMA WorkingTypes ==
    ASSUME TypeInv, NEW w \in Working
    PROVE  /\ w \in Workers
           /\ workers[w] \in Invocation
           /\ CallOf(w).key \in Keys
           /\ CallOf(w).payload \in Payloads
BY InvocationType DEF Working, TypeInv

LEMMA WorkingRow ==
    ASSUME TypeInv, WorkInv, ClockInv, NEW w \in Working
    PROVE  /\ RowOf(w) \in Row
           /\ ~Expired(RowOf(w), now)
           /\ \A v \in Workers : workers[v] # Idle =>
                Purged(Since(v))[CallOf(w).key] = RowOf(w)
<1>1. CallOf(w).key \in Keys
  BY WorkingTypes
<1>2. RowOf(w) \in Row \union {NoRow} /\ RowOf(w).status = "pending"
  BY <1>1 DEF WorkInv, RowOf, TypeInv, LedgerTypeOK
<1>3. RowOf(w) \in Row
  BY <1>2, StoredRow
<1>n. now \in Nat
  BY LedgerAssumption DEF TypeInv, LedgerTypeOK
<1>4. ~(RowOf(w).expiresAt <= now) /\ RowOf(w).expiresAt \in Nat
  <2>1. RowOf(w).expiresAt = Since(w) + DedupTtl
    BY DEF WorkInv
  <2>2. w \in Workers /\ workers[w] \in Invocation
    BY WorkingTypes
  <2>3. workers[w] # Idle /\ Since(w) \in Nat
    BY <2>2, InvocationType, LedgerAssumption DEF Invocation, Since, TypeInv
  <2> QED  BY <1>n, <2>1, <2>2, <2>3, LedgerAssumption DEF ClockInv
<1>5. ASSUME NEW v \in Workers, workers[v] # Idle
      PROVE  Purged(Since(v))[CallOf(w).key] = RowOf(w)
  <2>1. Since(v) \in Nat /\ Since(v) <= now
    BY <1>5, InvocationType, LedgerAssumption DEF ClockInv, Since, Invocation, TypeInv
  <2>2. ~Expired(RowOf(w), Since(v))
    BY <1>n, <1>4, <2>1 DEF Expired
  <2> QED  BY <1>1, <2>2 DEF Purged, RowOf
<1>6. ~Expired(RowOf(w), now)
  BY <1>4 DEF Expired
<1> QED  BY <1>3, <1>5, <1>6

\* A step of one invocation that neither starts work nor touches the rows
\* the others work on.
LEMMA WorkKept ==
    ASSUME TypeInv, WorkInv, NEW w \in Workers,
           \A v \in Workers \ {w} : workers'[v] = workers[v],
           \A v \in Working \ {w} : rows'[CallOf(v).key] = RowOf(v),
           \/ w \notin Working'
           \/ /\ w \in Working
              /\ workers'[w].call = workers[w].call
              /\ Since(w)' = Since(w)
              /\ rows'[CallOf(w).key] = RowOf(w)
    PROVE  WorkInv'
<1>1. ASSUME NEW v \in Working'
      PROVE  /\ v \in Working
             /\ CallOf(v)' = CallOf(v)
             /\ Since(v)' = Since(v)
             /\ RowOf(v)' = RowOf(v)
  <2>1. v \in Workers
    BY <1>1 DEF Working
  <2>2. CASE v = w
    BY <1>1, <2>2 DEF CallOf, RowOf
  <2>3. CASE v # w
    <3>1. workers'[v] = workers[v]
      BY <2>1, <2>3
    <3>2. v \in Working
      BY <1>1, <3>1 DEF Working
    <3> QED  BY <2>3, <3>1, <3>2 DEF CallOf, RowOf, Since
  <2> QED  BY <2>2, <2>3
<1> QED  BY <1>1 DEF WorkInv

LEMMA NextWork ==
    TypeInv /\ ClockInv /\ WorkInv /\ [LedgerNext]_ledgerVars => WorkInv'
<1> SUFFICES ASSUME TypeInv, ClockInv, WorkInv, [LedgerNext]_ledgerVars
             PROVE  WorkInv'
  OBVIOUS
<1> USE LedgerAssumption
<1>t. LedgerTypeOK
  BY DEF TypeInv
<1>2. ASSUME UNCHANGED <<rows, workers>> PROVE WorkInv'
  BY <1>2 DEF WorkInv, RowOf, CallOf, Since, Working
<1>3. ASSUME NEW w \in Workers, Handle(w) PROVE WorkInv'
  <2>1. ASSUME NEW call \in Calls, Accept(w, call) PROVE WorkInv'
    <3>1. w \notin Working'
      BY <1>t, <2>1 DEF Accept, Goto, Working, LedgerTypeOK
    <3> QED  BY <1>t, <2>1, <3>1, WorkKept DEF Accept, Goto, ledger, RowOf, LedgerTypeOK
  <2>p. ASSUME workers[w].pc = "accepted"
        PROVE  \A v \in Working : Purged(Since(w))[CallOf(v).key] = RowOf(v)
    BY <2>p, WorkingRow DEF Idle
  <2>2. ASSUME NEW heard \in BOOLEAN, Reserve(w, heard) PROVE WorkInv'
    <3> DEFINE call == CallOf(w)
               key == call.key
    <3>1. key \in Keys /\ w \notin Working /\ workers[w] \in Invocation
      BY <1>t, <2>2, InvocationType DEF Reserve, Working
    <3>2. ASSUME NEW v \in Working
          PROVE  CallOf(v).key # key /\ rows'[CallOf(v).key] = RowOf(v)
      <4>p. Purged(Since(w))[CallOf(v).key] = RowOf(v)
        BY <2>2, <2>p DEF Reserve
      <4>1. CallOf(v).key \in Keys /\ RowOf(v) \in Row
        BY WorkingTypes, WorkingRow
      <4>2. CallOf(v).key # key
        BY <2>2, <4>p, <4>1, StoredRow DEF Reserve, Fresh
      <4> QED  BY <1>t, <2>2, <4>p, <3>1, <4>1, <4>2, PurgedRows DEF Reserve
    <3>3. \A v \in Workers \ {w} : workers'[v] = workers[v]
      BY <2>2 DEF Reserve, Goto, TypeInv, LedgerTypeOK
    <3>4. CASE ~heard
      <4>1. w \notin Working'
        BY <1>t, <2>2, <3>4 DEF Reserve, Goto, Working, Idle, LedgerTypeOK
      <4> QED  BY <2>2, <3>2, <3>3, <4>1, WorkKept DEF Reserve
    <3>5. CASE heard
      <4>1. /\ workers'[w].pc = "reserved" /\ Since(w)' = Since(w)
            /\ CallOf(w)' = call
        BY <1>t, <2>2, <3>1, <3>5 DEF Reserve, Goto, CallOf, Since, LedgerTypeOK, Invocation
      <4>2. rows'[key] = [status |-> "pending", payload |-> call.payload,
                          response |-> NoResponse, supportable |-> FALSE,
                          expiresAt |-> Since(w) + DedupTtl]
        BY <1>t, <2>2, <3>1, PurgedRows DEF Reserve
      <4>4. \A v \in Working' : v # w => v \in Working
        BY <3>3 DEF Working
      <4>5. \A v \in Working : /\ v \in Workers /\ v # w
                               /\ CallOf(v)' = CallOf(v) /\ CallOf(v).key # key
                               /\ Since(v)' = Since(v)
                               /\ RowOf(v)' = RowOf(v)
        <5>1. \A v \in Working : v \in Workers \ {w}
          BY <3>1 DEF Working
        <5> QED  BY <3>2, <3>3, <5>1 DEF CallOf, RowOf, Since
      <4>6. RowOf(w)' = rows'[key]
        BY <4>1 DEF RowOf
      <4>7. ASSUME NEW v \in Working', v # w
            PROVE /\ RowOf(v)'.status = "pending"
                  /\ RowOf(v)'.payload = CallOf(v)'.payload
                  /\ RowOf(v)'.expiresAt = Since(v)' + DedupTtl
                  /\ \A u \in Working' : CallOf(u)'.key = CallOf(v)'.key => u = v
        <5>1. v \in Working
          BY <4>4, <4>7
        <5>2. ASSUME NEW u \in Working', CallOf(u)'.key = CallOf(v)'.key PROVE u = v
          BY <4>1, <4>4, <4>5, <5>1, <5>2 DEF WorkInv
        <5> QED  BY <4>5, <5>1, <5>2 DEF WorkInv
      <4>8. /\ RowOf(w)'.status = "pending"
            /\ RowOf(w)'.payload = CallOf(w)'.payload
            /\ RowOf(w)'.expiresAt = Since(w)' + DedupTtl
            /\ \A u \in Working' : CallOf(u)'.key = CallOf(w)'.key => u = w
        BY <4>1, <4>2, <4>4, <4>5, <4>6
      <4> QED  BY <4>7, <4>8 DEF WorkInv
    <3> QED  BY <3>4, <3>5
  <2>e. ASSUME workers' = [workers EXCEPT ![w] = Idle],
               \A v \in Working \ {w} : rows'[CallOf(v).key] = RowOf(v)
        PROVE  WorkInv'
    <3>1. w \notin Working' /\ \A v \in Workers \ {w} : workers'[v] = workers[v]
      BY <1>t, <2>e DEF Working, Idle, LedgerTypeOK
    <3> QED  BY <2>e, <3>1, WorkKept
  <2>3. ASSUME Replay(w) PROVE WorkInv'
    BY <2>3, <2>p, <2>e DEF Replay, Goto
  <2>4. ASSUME Refuse(w) PROVE WorkInv'
    BY <2>4, <2>p, <2>e DEF Refuse, Goto, RowOf
  \* An invocation that goes on with its call.
  <2>s. ASSUME w \in Working, \A v \in Workers \ {w} : workers'[v] = workers[v],
               workers'[w].call = workers[w].call, Since(w)' = Since(w), rows' = rows
        PROVE  WorkInv'
    BY <2>s, WorkKept DEF RowOf
  <2>5. ASSUME NEW heard \in BOOLEAN, AskProvenance(w, heard) PROVE WorkInv'
    <3>1. w \in Working /\ workers[w] \in Invocation
      BY <1>t, <2>5, InvocationType DEF AskProvenance, Working
    <3>2. /\ \A v \in Workers \ {w} : workers'[v] = workers[v]
          /\ workers'[w].call = workers[w].call
          /\ Since(w)' = Since(w)
      BY <1>t, <2>5, <3>1 DEF AskProvenance, Goto, Since, Invocation, LedgerTypeOK
    <3> QED  BY <2>5, <2>s, <3>1, <3>2 DEF AskProvenance, ledger
  <2>6. ASSUME \/ \E permitted \in BOOLEAN : CheckInput(w, permitted)
                                            \/ CheckOutput(w, permitted)
               \/ \E outcome \in Outcomes, readable \in BOOLEAN :
                     Infer(w, outcome, readable)
        PROVE  WorkInv'
    <3>1. rows' = rows
      BY <2>6 DEF CheckInput, CheckOutput, Infer, ledger
    <3> QED  BY <1>t, <2>6, <2>s, <3>1, RunKeeps DEF Since
  <2>7. ASSUME NEW delivered \in BOOLEAN, Settle(w, delivered) PROVE WorkInv'
    <3>1. w \in Working
      BY <2>7 DEF Settle, Working
    <3>2. \A v \in Working \ {w} : /\ CallOf(v).key \in Keys
                                   /\ CallOf(v).key # CallOf(w).key
      BY <3>1, WorkingTypes DEF WorkInv
    <3>3. \A v \in Working \ {w} : rows'[CallOf(v).key] = RowOf(v)
      BY <1>t, <2>7, <3>2 DEF Settle, RowOf, LedgerTypeOK
    <3> QED  BY <2>7, <2>e, <3>3 DEF Settle, Goto
  <2>8. ASSUME Abandon(w) PROVE WorkInv'
    BY <2>8, <2>e DEF Abandon, Goto, ledger, RowOf
  <2> QED  BY <1>3, <2>1, <2>2, <2>3, <2>4, <2>5, <2>6, <2>7, <2>8 DEF Handle
<1> QED  BY <1>2, <1>3 DEF LedgerNext, Tick, Activate, Revoke, ledgerVars, ledger

\* No two invocations ever work on one request, and its row stays pending and
\* of its payload while one does, however calls are lost or repeated.
THEOREM WorkIsAlwaysExclusive == LedgerSpec => []WorkIsExclusive
<1>1. LedgerInit => ClockInv /\ WorkInv
  <2>1. LedgerInit => Working = {}
    BY DEF LedgerInit, Working, Idle
  <2> QED  BY <2>1 DEF LedgerInit, ClockInv, WorkInv
<1>2. TypeInv /\ ClockInv /\ WorkInv /\ [LedgerNext]_ledgerVars
        => TypeInv' /\ ClockInv' /\ WorkInv'
  BY NextTypeInv, NextClock, NextWork
<1>3. WorkInv => WorkIsExclusive
  BY DEF WorkInv, WorkIsExclusive
<1> QED  BY InitTypeInv, <1>1, <1>2, <1>3, PTL DEF LedgerSpec

-----------------------------------------------------------------------------
(* The limit, and one run of the writing model for a reservation.          *)

Unspent == {"reserved", "prepared", "admitted"}

PaidInv ==
    /\ PaidWithinLimit
    /\ \A w \in Working : workers[w].pc \in Unspent =>
                             inferences[CallOf(w).key] = 0

LEMMA NextPaid ==
    TypeInv /\ WorkInv /\ PaidInv /\ [LedgerNext]_ledgerVars => PaidInv'
<1> SUFFICES ASSUME TypeInv, WorkInv, PaidInv, [LedgerNext]_ledgerVars
             PROVE  PaidInv'
  OBVIOUS
<1> USE LedgerAssumption
<1>t. LedgerTypeOK
  BY DEF TypeInv
<1>1. ASSUME UNCHANGED <<usage, inferences, workers>> PROVE PaidInv'
  BY <1>1 DEF PaidInv, PaidWithinLimit, Working, CallOf
<1>2. ASSUME NEW w \in Workers, Handle(w) PROVE PaidInv'
  \* The other invocations do not change, and one that w is not any more, or
  \* that goes on with nothing inferred, keeps its count.
  <2>k. ASSUME UNCHANGED <<usage, inferences>>,
               \A v \in Workers \ {w} : workers'[v] = workers[v],
               \/ workers'[w].pc \notin Unspent
               \/ /\ workers[w].pc \in Unspent
                  /\ workers'[w].call = workers[w].call
        PROVE  PaidInv'
    <3>1. ASSUME NEW v \in Working', workers'[v].pc \in Unspent
          PROVE  inferences'[CallOf(v)'.key] = 0
      <4>1. /\ v \in Working
            /\ workers[v].pc \in Unspent
            /\ CallOf(v)' = CallOf(v)
        <5>1. v \in Workers
          BY <3>1 DEF Working
        <5>2. CASE v = w
          BY <2>k, <3>1, <5>1, <5>2 DEF Working, CallOf, Unspent
        <5>3. CASE v # w
          BY <2>k, <3>1, <5>1, <5>3 DEF Working, CallOf
        <5> QED  BY <5>2, <5>3
      <4> QED  BY <2>k, <4>1 DEF PaidInv
    <3>2. PaidWithinLimit'
      BY <2>k DEF PaidInv, PaidWithinLimit
    <3> QED  BY <3>1, <3>2 DEF PaidInv
  <2>g. ASSUME NEW invocation, Goto(w, invocation)
        PROVE  /\ \A v \in Workers \ {w} : workers'[v] = workers[v]
               /\ workers'[w] = invocation
    BY <1>t, <2>g DEF Goto, LedgerTypeOK
  <2>1. ASSUME NEW call \in Calls, Accept(w, call) PROVE PaidInv'
    <3>1. /\ \A v \in Workers \ {w} : workers'[v] = workers[v]
          /\ workers'[w].pc = "accepted"
      BY <1>t, <2>1 DEF Accept, Goto, LedgerTypeOK
    <3> QED  BY <2>1, <2>k, <3>1 DEF Accept, ledger, Unspent
  <2>2. ASSUME NEW heard \in BOOLEAN, Reserve(w, heard) PROVE PaidInv'
    <3> DEFINE key == CallOf(w).key
    <3>1. key \in Keys /\ key.op \in Operations /\ workers[w] \in Invocation
      BY <1>t, <2>2, InvocationType DEF Reserve, Keys
    <3>2. \A d \in Days : usage'[d] <= DailyLimit
      <4>1. UtcDay[now] \in Days /\ usage \in [Days -> Nat]
        BY DEF TypeInv, LedgerTypeOK
      <4> QED  BY <2>2, <3>1, <4>1 DEF Reserve, Allows, PaidInv, PaidWithinLimit
    <3>3. /\ inferences'[key] = 0
          /\ \A k \in Keys : inferences'[k] \in {inferences[k], 0}
      BY <1>t, <2>2, <3>1 DEF Reserve, LedgerTypeOK
    <3>4. \A k \in Keys : inferences'[k] <= 1
      BY <3>3 DEF PaidInv, PaidWithinLimit, TypeInv, LedgerTypeOK
    <3>5. ASSUME NEW v \in Working', workers'[v].pc \in Unspent
          PROVE  inferences'[CallOf(v)'.key] = 0
      <4>1. v \in Workers
        BY <3>5 DEF Working
      <4>2. CASE v = w
        BY <1>t, <2>2, <3>1, <3>3, <3>5, <4>2
           DEF Reserve, Goto, CallOf, Invocation, Idle, LedgerTypeOK, Unspent
      <4>3. CASE v # w
        <5>1. workers'[v] = workers[v]
          BY <1>t, <2>2, <4>1, <4>3 DEF Reserve, Goto, LedgerTypeOK
        <5>2. v \in Working /\ CallOf(v)' = CallOf(v) /\ CallOf(v).key \in Keys
          BY <3>5, <4>1, <5>1, WorkingTypes DEF Working, CallOf
        <5> QED  BY <3>3, <3>5, <5>1, <5>2 DEF PaidInv
      <4> QED  BY <4>2, <4>3
    <3> QED  BY <3>2, <3>4, <3>5 DEF PaidInv, PaidWithinLimit
  <2>3. ASSUME Replay(w) PROVE PaidInv'
    BY <2>3, <2>k, <2>g DEF Replay, Idle, Unspent
  <2>4. ASSUME Refuse(w) PROVE PaidInv'
    BY <2>4, <2>k, <2>g DEF Refuse, Idle, Unspent
  <2>5. ASSUME NEW heard \in BOOLEAN, AskProvenance(w, heard) PROVE PaidInv'
    <3>1. /\ workers[w].pc \in Unspent
          /\ workers[w] \in Invocation
      BY <1>t, <2>5, InvocationType DEF AskProvenance, Unspent
    <3>2. workers'[w].call = workers[w].call
      BY <1>t, <2>5, <3>1 DEF AskProvenance, Goto, Invocation, LedgerTypeOK
    <3> QED  BY <2>5, <2>k, <2>g, <3>1, <3>2 DEF AskProvenance, ledger
  <2>6. ASSUME NEW outcome \in Outcomes, NEW readable \in BOOLEAN,
               Infer(w, outcome, readable)
        PROVE  PaidInv'
    <3> DEFINE key == CallOf(w).key
    <3>1. /\ w \in Working /\ key \in Keys
          /\ workers[w].pc \in Unspent
      <4>1. /\ w \in Working
            /\ workers[w].pc \in Unspent
        BY <2>6 DEF Infer, Working, Unspent
      <4> QED  BY <4>1, WorkingTypes
    <3>2. inferences' = [inferences EXCEPT ![key] = 1]
      <4>1. inferences[key] = 0
        BY <3>1 DEF PaidInv
      <4>2. inferences' = [inferences EXCEPT ![key] = inferences[key] + 1]
        BY <2>6 DEF Infer
      <4> QED  BY <4>1, <4>2
    <3>3. \A k \in Keys : inferences'[k] <= 1
      BY <3>1, <3>2 DEF PaidInv, PaidWithinLimit, TypeInv, LedgerTypeOK
    <3>4. ASSUME NEW v \in Working', workers'[v].pc \in Unspent
          PROVE  inferences'[CallOf(v)'.key] = 0
      <4>0. /\ workers'[w].pc \notin Unspent
            /\ \A u \in Workers \ {w} : workers'[u] = workers[u]
        <5>1. workers[w].pc # "prepared"
          BY <2>6 DEF Infer
        <5> QED  BY <1>t, <2>6, <5>1, RunKeeps DEF Unspent
      <4>1. v \in Workers /\ v # w
        BY <3>4, <4>0 DEF Working
      <4>2. workers'[v] = workers[v]
        BY <4>0, <4>1
      <4>3. v \in Working /\ CallOf(v)' = CallOf(v)
        BY <3>4, <4>1, <4>2 DEF Working, CallOf
      <4>4. CallOf(v).key \in Keys /\ CallOf(v).key # key
        BY <3>1, <4>1, <4>3, WorkingTypes DEF WorkInv
      <4> QED  BY <1>t, <3>2, <3>4, <4>2, <4>3, <4>4 DEF PaidInv, LedgerTypeOK
    <3> QED  BY <2>6, <3>3, <3>4 DEF PaidInv, PaidWithinLimit, Infer, ledger
  <2>9. ASSUME NEW permitted \in BOOLEAN,
               CheckInput(w, permitted) \/ CheckOutput(w, permitted)
        PROVE  PaidInv'
    <3>1. /\ \A v \in Workers \ {w} : workers'[v] = workers[v]
          /\ \/ workers'[w].pc \notin Unspent
             \/ /\ workers[w].pc \in Unspent
                /\ workers'[w].call = workers[w].call
      BY <1>t, <2>9, RunKeeps DEF Unspent
    <3> QED  BY <2>9, <2>k, <3>1 DEF CheckInput, CheckOutput, ledger
  <2>7. ASSUME NEW delivered \in BOOLEAN, Settle(w, delivered) PROVE PaidInv'
    BY <2>7, <2>k, <2>g DEF Settle, Idle, Unspent
  <2>8. ASSUME Abandon(w) PROVE PaidInv'
    BY <2>8, <2>k, <2>g DEF Abandon, Idle, Unspent, ledger
  <2> QED  BY <1>2, <2>1, <2>2, <2>3, <2>4, <2>5, <2>6, <2>7, <2>8, <2>9
           DEF Handle
<1> QED  BY <1>1, <1>2 DEF LedgerNext, Tick, Activate, Revoke, ledgerVars, ledger

\* The daily application limit is never exceeded, and a reservation is used for
\* at most one run of the writing model, whatever is lost or repeated.
THEOREM LimitHolds == LedgerSpec => []PaidWithinLimit
<1>1. LedgerInit => ClockInv /\ WorkInv /\ PaidInv
  <2>1. LedgerInit => Working = {}
    BY DEF LedgerInit, Working, Idle
  <2>2. LedgerInit => PaidWithinLimit
    BY LedgerAssumption DEF LedgerInit, PaidWithinLimit
  <2> QED  BY <2>1, <2>2 DEF LedgerInit, ClockInv, WorkInv, PaidInv
<1>2. TypeInv /\ ClockInv /\ WorkInv /\ PaidInv /\ [LedgerNext]_ledgerVars
        => TypeInv' /\ ClockInv' /\ WorkInv' /\ PaidInv'
  BY NextTypeInv, NextClock, NextWork, NextPaid
<1>3. PaidInv => PaidWithinLimit
  BY DEF PaidInv
<1> QED  BY InitTypeInv, <1>1, <1>2, <1>3, PTL DEF LedgerSpec

-----------------------------------------------------------------------------
(* What is answered was made for what was asked.                           *)

\* A response is about the payload of its request, and a transcription that
\* counts as supporting spelling did support it.
OwnInv ==
    /\ \A w \in Workers : workers[w].pc = "answered" =>
          /\ workers[w].response.payload = CallOf(w).payload
          /\ workers[w].readable => CallOf(w).payload \in legible
    /\ \A k \in Keys : rows[k].status = "completed" =>
          /\ rows[k].response.payload = rows[k].payload
          /\ rows[k].supportable => rows[k].payload \in legible
    /\ SpellingNeedsItsInk

LEMMA NextOwn == TypeInv /\ OwnInv /\ [LedgerNext]_ledgerVars => OwnInv'
<1> SUFFICES ASSUME TypeInv, OwnInv, [LedgerNext]_ledgerVars PROVE OwnInv'
  OBVIOUS
<1>t. LedgerTypeOK
  BY DEF TypeInv
<1>1. ASSUME UNCHANGED <<rows, workers, legible>> PROVE OwnInv'
  BY <1>1 DEF OwnInv, SpellingNeedsItsInk, CallOf
<1>2. ASSUME NEW w \in Workers, Handle(w) PROVE OwnInv'
  \* It is enough to look at the invocation of the step and at changed rows.
  <2>k. ASSUME legible \subseteq legible',
               \A v \in Workers \ {w} : workers'[v] = workers[v],
               workers'[w].pc = "answered" =>
                  /\ workers'[w].response.payload = workers'[w].call.payload
                  /\ workers'[w].readable => workers'[w].call.payload \in legible',
               workers'[w] # Idle /\ workers'[w].spelling =>
                  workers'[w].call.payload \in legible',
               \A k \in Keys :
                  \/ rows'[k] = rows[k]
                  \/ rows'[k].status # "completed"
                  \/ /\ rows'[k].response.payload = rows'[k].payload
                     /\ rows'[k].supportable => rows'[k].payload \in legible'
        PROVE  OwnInv'
    <3>1. ASSUME NEW v \in Workers
          PROVE  /\ workers'[v].pc = "answered" =>
                      /\ workers'[v].response.payload = CallOf(v)'.payload
                      /\ workers'[v].readable => CallOf(v)'.payload \in legible'
                 /\ workers'[v] # Idle /\ workers'[v].spelling =>
                      CallOf(v)'.payload \in legible'
      <4>1. CASE v = w
        BY <2>k, <4>1 DEF CallOf
      <4>2. CASE v # w
        BY <2>k, <4>2 DEF CallOf, OwnInv, SpellingNeedsItsInk
      <4> QED  BY <4>1, <4>2
    <3>2. ASSUME NEW k \in Keys, rows'[k].status = "completed"
          PROVE  /\ rows'[k].response.payload = rows'[k].payload
                 /\ rows'[k].supportable => rows'[k].payload \in legible'
      BY <2>k, <3>2 DEF OwnInv
    <3> QED  BY <3>1, <3>2 DEF OwnInv, SpellingNeedsItsInk
  <2>g. ASSUME NEW invocation, Goto(w, invocation)
        PROVE  /\ \A v \in Workers \ {w} : workers'[v] = workers[v]
               /\ workers'[w] = invocation
    BY <1>t, <2>g DEF Goto, LedgerTypeOK
  <2>1. ASSUME NEW call \in Calls, Accept(w, call) PROVE OwnInv'
    BY <2>1, <2>k, <2>g DEF Accept, ledger
  <2>e. ASSUME Goto(w, Idle), legible' = legible,
               \A k \in Keys : rows'[k] \in {rows[k], NoRow}
        PROVE  OwnInv'
    <3>1. \A k \in Keys : rows'[k] = rows[k] \/ rows'[k].status # "completed"
      BY <2>e DEF NoRow
    <3> QED  BY <2>e, <2>k, <2>g, <3>1 DEF Idle
  <2>2. ASSUME NEW heard \in BOOLEAN, Reserve(w, heard) PROVE OwnInv'
    <3> DEFINE next == IF heard THEN [workers[w] EXCEPT !.pc = "reserved"] ELSE Idle
    <3>1. CallOf(w).key \in Keys /\ workers[w] \in Invocation
      BY <1>t, <2>2, InvocationType DEF Reserve
    <3>2. ASSUME NEW k \in Keys
          PROVE  rows'[k] = rows[k] \/ rows'[k].status # "completed"
      BY <1>t, <2>2, <3>1, PurgedRows DEF Reserve, NoRow
    <3>3. Goto(w, next)
      BY <2>2 DEF Reserve
    <3>4. /\ next.pc # "answered"
          /\ next # Idle => /\ next.spelling = workers[w].spelling
                            /\ next.call = workers[w].call
                            /\ workers[w] # Idle
      BY <3>1 DEF Invocation, Idle
    <3> HIDE DEF next
    <3> QED  BY <2>2, <2>k, <2>g, <3>2, <3>3, <3>4
             DEF Reserve, OwnInv, SpellingNeedsItsInk, CallOf
  <2>3. ASSUME Replay(w) PROVE OwnInv'
    BY <1>t, <2>3, <2>e, PurgedRows DEF Replay
  <2>4. ASSUME Refuse(w) PROVE OwnInv'
    BY <1>t, <2>4, <2>e, PurgedRows DEF Refuse
  <2>5. ASSUME NEW heard \in BOOLEAN, AskProvenance(w, heard) PROVE OwnInv'
    <3> DEFINE next == [workers[w] EXCEPT !.pc = "prepared",
                          !.spelling = heard /\ Supportable(CallOf(w))]
    <3>1. workers[w] \in Invocation /\ CallOf(w) \in Calls
      BY <1>t, <2>5, InvocationType DEF AskProvenance
    <3>2. Supportable(CallOf(w)) => CallOf(w).payload \in legible
      <4> SUFFICES ASSUME Supportable(CallOf(w)) PROVE CallOf(w).payload \in legible
        OBVIOUS
      <4> DEFINE key == [CallOf(w).key EXCEPT !.op = "transcribe",
                                              !.id = CallOf(w).recognition]
      <4>1. key \in Keys
        BY <3>1 DEF Supportable, Calls, Keys, Operations
      <4>2. /\ rows[key].status = "completed" /\ rows[key].supportable
            /\ rows[key].payload = CallOf(w).payload
        BY DEF Supportable
      <4> HIDE DEF key
      <4> QED  BY <4>1, <4>2 DEF OwnInv
    <3>3. /\ next.pc = "prepared" /\ next.call = workers[w].call
          /\ next.spelling => Supportable(CallOf(w))
      BY <3>1 DEF Invocation
    <3>4. Goto(w, next)
      BY <2>5 DEF AskProvenance
    <3> HIDE DEF next
    <3> QED  BY <2>5, <2>k, <2>g, <3>2, <3>3, <3>4 DEF AskProvenance, ledger, CallOf
  \* A run of a model, after which the invocation goes on or concludes.
  <2>m. ASSUME workers[w] \in Invocation, NEW next, Goto(w, next), rows' = rows,
               legible \subseteq legible',
               next.call = workers[w].call, next.spelling = workers[w].spelling,
               next.pc = "answered" =>
                  /\ next.response.payload = CallOf(w).payload
                  /\ next.readable => CallOf(w).payload \in legible'
        PROVE  OwnInv'
    <3>1. workers[w] # Idle
      BY <1>t, <2>m, InvocationType DEF Invocation
    <3> QED  BY <2>k, <2>g, <2>m, <3>1 DEF OwnInv, SpellingNeedsItsInk, CallOf
  <2>c. ASSUME workers[w] \in Invocation, NEW outcome, NEW readable,
               Conclude(w, outcome, readable), rows' = rows,
               legible \subseteq legible',
               readable => CallOf(w).payload \in legible'
        PROVE  OwnInv'
    <3> DEFINE answer == [outcome |-> outcome, payload |-> CallOf(w).payload]
               next == [workers[w] EXCEPT !.pc = "answered", !.response = answer,
                                          !.readable = readable]
    <3>1. Goto(w, next)
      BY <2>c DEF Conclude
    <3>2. /\ next.response.payload = CallOf(w).payload
          /\ next.readable = readable
          /\ next.call = workers[w].call
          /\ next.spelling = workers[w].spelling
      BY <2>c DEF Invocation
    <3> HIDE DEF next
    <3> QED  BY <2>c, <2>m, <3>1, <3>2
  <2>6. ASSUME NEW outcome \in Outcomes, NEW readable \in BOOLEAN,
               Infer(w, outcome, readable)
        PROVE  OwnInv'
    <3>1. workers[w] \in Invocation /\ rows' = rows /\ legible' = legible
      BY <1>t, <2>6, InvocationType DEF Infer, ledger
    <3>2. CASE outcome = "completed"
      <4> DEFINE next == [workers[w] EXCEPT !.pc = "written", !.readable = readable]
      <4>1. /\ Goto(w, next) /\ next.pc # "answered"
            /\ next.call = workers[w].call /\ next.spelling = workers[w].spelling
        BY <2>6, <3>1, <3>2 DEF Infer, Invocation
      <4> HIDE DEF next
      <4> QED  BY <2>m, <3>1, <4>1
    <3>3. CASE outcome # "completed"
      BY <2>6, <2>c, <3>1, <3>3 DEF Infer
    <3> QED  BY <3>2, <3>3
  <2>9. ASSUME NEW permitted \in BOOLEAN, CheckInput(w, permitted) PROVE OwnInv'
    <3>1. workers[w] \in Invocation /\ rows' = rows /\ legible' = legible
      BY <1>t, <2>9, InvocationType DEF CheckInput, ledger
    <3>2. CASE permitted
      <4> DEFINE next == [workers[w] EXCEPT !.pc = "admitted"]
      <4>1. /\ Goto(w, next) /\ next.pc # "answered"
            /\ next.call = workers[w].call /\ next.spelling = workers[w].spelling
        BY <2>9, <3>1, <3>2 DEF CheckInput, Invocation
      <4> HIDE DEF next
      <4> QED  BY <2>m, <3>1, <4>1
    <3>3. CASE ~permitted
      BY <2>9, <2>c, <3>1, <3>3 DEF CheckInput
    <3> QED  BY <3>2, <3>3
  <2>10. ASSUME NEW permitted \in BOOLEAN, CheckOutput(w, permitted) PROVE OwnInv'
    <3> DEFINE readable == permitted /\ workers[w].readable
    <3>1. /\ workers[w] \in Invocation /\ rows' = rows
          /\ legible \subseteq legible'
          /\ readable => CallOf(w).payload \in legible'
          /\ Conclude(w, IF permitted THEN "completed" ELSE "withheld", readable)
      BY <1>t, <2>10, InvocationType DEF CheckOutput, ledger
    <3> HIDE DEF readable
    <3> QED  BY <2>c, <3>1
  <2>7. ASSUME NEW delivered \in BOOLEAN, Settle(w, delivered) PROVE OwnInv'
    <3>1. CallOf(w).key \in Keys /\ workers[w].pc = "answered"
      BY <1>t, <2>7, InvocationType DEF Settle
    <3>2. rows' = IF delivered THEN [rows EXCEPT ![CallOf(w).key] = Outcome(w)] ELSE rows
      BY <2>7 DEF Settle, Outcome
    <3>3. \/ Outcome(w) = RowOf(w)
          \/ Outcome(w).status # "completed"
          \/ /\ Outcome(w).response.payload = Outcome(w).payload
             /\ Outcome(w).supportable => Outcome(w).payload \in legible
      <4>1. RowOf(w) \in Row \union {NoRow}
        BY <1>t, <3>1 DEF RowOf, LedgerTypeOK
      <4>2. CASE RowOf(w) = NoRow
        BY <3>1, <4>2, SettledRow
      <4>3. CASE RowOf(w) \in Row
        BY <3>1, <4>3, SettledRow DEF OwnInv
      <4> QED  BY <4>1, <4>2, <4>3
    <3>4. ASSUME NEW k \in Keys
          PROVE  \/ rows'[k] = rows[k]
                 \/ rows'[k].status # "completed"
                 \/ /\ rows'[k].response.payload = rows'[k].payload
                    /\ rows'[k].supportable => rows'[k].payload \in legible
      BY <1>t, <3>1, <3>2, <3>3 DEF RowOf, LedgerTypeOK
    <3> QED  BY <2>7, <2>k, <2>g, <3>4 DEF Settle, Idle
  <2>8. ASSUME Abandon(w) PROVE OwnInv'
    BY <2>8, <2>e DEF Abandon, ledger
  <2> QED  BY <1>2, <2>1, <2>2, <2>3, <2>4, <2>5, <2>6, <2>7, <2>8, <2>9, <2>10
           DEF Handle
<1> QED  BY <1>1, <1>2 DEF LedgerNext, Tick, Activate, Revoke, ledgerVars, ledger

LEMMA InitOwn == LedgerInit => OwnInv
BY DEF LedgerInit, OwnInv, SpellingNeedsItsInk, Idle, NoRow

\* An evaluation judges spelling only if a transcription of exactly that ink
\* supported it, whatever expired, was repeated or was lost in between.
THEOREM SpellingIsSupported == LedgerSpec => []SpellingNeedsItsInk
<1>1. TypeInv /\ OwnInv /\ [LedgerNext]_ledgerVars => TypeInv' /\ OwnInv'
  BY NextTypeInv, NextOwn
<1>2. OwnInv => SpellingNeedsItsInk
  BY DEF OwnInv
<1> QED  BY InitTypeInv, InitOwn, <1>1, <1>2, PTL DEF LedgerSpec

-----------------------------------------------------------------------------
(* One answer.                                                             *)

\* A request that was answered has its row, nobody works on it any more, and
\* a stored response is the one that was sent.
AnswerInv ==
    /\ OneAnswer
    /\ \A a \in answers :
          /\ rows[a.key] # NoRow
          /\ rows[a.key].status = "completed" => a.response = rows[a.key].response
          /\ \A w \in Working : CallOf(w).key # a.key

LEMMA AnswerType ==
    ASSUME LedgerTypeOK, NEW a \in answers
    PROVE  a.key \in Keys
BY DEF LedgerTypeOK, Answer

\* A step that only drops expired rows, with the answers they were for.
LEMMA AnswersKept ==
    ASSUME TypeInv, AnswerInv, NEW at, NEW a \in KeptAnswers(at)
    PROVE  /\ a \in answers
           /\ Purged(at)[a.key] = rows[a.key]
           /\ Purged(at)[a.key] # NoRow
<1>1. a \in answers /\ ~Expired(rows[a.key], at)
  BY DEF KeptAnswers
<1>2. a.key \in Keys /\ rows[a.key] # NoRow
  BY <1>1, AnswerType DEF AnswerInv, TypeInv
<1> QED  BY <1>1, <1>2 DEF Purged

LEMMA NextAnswer ==
    TypeInv /\ ClockInv /\ WorkInv /\ OwnInv /\ AnswerInv /\ [LedgerNext]_ledgerVars
      => AnswerInv'
<1> SUFFICES ASSUME TypeInv, ClockInv, WorkInv, OwnInv, AnswerInv, [LedgerNext]_ledgerVars
             PROVE  AnswerInv'
  OBVIOUS
<1>t. LedgerTypeOK
  BY DEF TypeInv
<1>1. ASSUME UNCHANGED <<rows, workers, answers>> PROVE AnswerInv'
  BY <1>1 DEF AnswerInv, OneAnswer, Working, CallOf
<1>2. ASSUME NEW w \in Workers, Handle(w) PROVE AnswerInv'
  <2>g. ASSUME NEW invocation, Goto(w, invocation)
        PROVE  /\ \A v \in Workers \ {w} : workers'[v] = workers[v]
               /\ workers'[w] = invocation
    BY <1>t, <2>g DEF Goto, LedgerTypeOK
  \* No answer is added, and those that stay keep their rows.
  <2>k. ASSUME answers' \subseteq answers,
               \A v \in Workers \ {w} : workers'[v] = workers[v],
               \A a \in answers' :
                  /\ rows'[a.key] = rows[a.key]
                  /\ w \in Working' => CallOf(w)'.key # a.key
        PROVE  AnswerInv'
    <3>1. ASSUME NEW a \in answers'
          PROVE  \A v \in Working' : CallOf(v)'.key # a.key
      <4>1. ASSUME NEW v \in Working', v # w
            PROVE  v \in Working /\ CallOf(v)' = CallOf(v)
        BY <2>k, <4>1 DEF Working, CallOf
      <4> QED  BY <2>k, <3>1, <4>1 DEF AnswerInv
    <3>2. ASSUME NEW a \in answers'
          PROVE  /\ rows'[a.key] # NoRow
                 /\ rows'[a.key].status = "completed" => a.response = rows'[a.key].response
      BY <2>k, <3>2 DEF AnswerInv
    <3>3. OneAnswer'
      BY <2>k DEF AnswerInv, OneAnswer
    <3> QED  BY <3>1, <3>2, <3>3 DEF AnswerInv
  <2>1. ASSUME NEW call \in Calls, Accept(w, call) PROVE AnswerInv'
    <3>1. w \notin Working'
      BY <1>t, <2>1 DEF Accept, Goto, Working, LedgerTypeOK
    <3> QED  BY <2>1, <2>k, <2>g, <3>1 DEF Accept, ledger
  <2>2. ASSUME NEW heard \in BOOLEAN, Reserve(w, heard) PROVE AnswerInv'
    <3> DEFINE key == CallOf(w).key
    <3>1. key \in Keys /\ workers[w] \in Invocation
      BY <1>t, <2>2, InvocationType DEF Reserve
    <3>2. Purged(Since(w))[key] = NoRow /\ answers' = KeptAnswers(Since(w))
      BY <2>2 DEF Reserve, Fresh
    <3>3. ASSUME NEW a \in answers'
          PROVE  /\ a \in answers /\ a.key \in Keys /\ a.key # key
                 /\ rows'[a.key] = rows[a.key]
      <4>1. /\ a \in answers
            /\ Purged(Since(w))[a.key] = rows[a.key] /\ Purged(Since(w))[a.key] # NoRow
        BY <3>2, <3>3, AnswersKept
      <4>2. a.key \in Keys /\ a.key # key
        BY <1>t, <3>2, <4>1, AnswerType
      <4>3. rows'[a.key] = Purged(Since(w))[a.key]
        BY <1>t, <2>2, <3>1, <4>2, PurgedRows DEF Reserve
      <4> QED  BY <4>1, <4>2, <4>3
    <3>4. w \in Working' => CallOf(w)'.key = key
      BY <1>t, <2>2, <3>1 DEF Reserve, Goto, Working, CallOf, Idle, Invocation,
                              LedgerTypeOK
    <3>5. \A v \in Workers \ {w} : workers'[v] = workers[v]
      BY <2>2, <2>g DEF Reserve
    <3> QED  BY <2>k, <3>3, <3>4, <3>5
  <2>e. ASSUME Goto(w, Idle)
        PROVE  w \notin Working' /\ \A v \in Workers \ {w} : workers'[v] = workers[v]
    BY <2>e, <2>g DEF Working, Idle
  \* A new answer for a request that nobody else works on.
  <2>a. ASSUME Goto(w, Idle), NEW b \in Answer, answers' \subseteq answers \union {b},
               b.response.payload = b.payload,
               rows'[b.key] # NoRow,
               rows'[b.key].status = "completed" => b.response = rows'[b.key].response,
               \A v \in Working \ {w} : CallOf(v).key # b.key,
               \A a \in answers : a.key = b.key => a.response = b.response,
               \A a \in answers' \ {b} : rows'[a.key] = rows[a.key]
        PROVE  AnswerInv'
    <3>1. ASSUME NEW v \in Working' PROVE v \in Working \ {w} /\ CallOf(v)' = CallOf(v)
      BY <2>a, <2>e, <3>1 DEF Working, CallOf
    <3>2. ASSUME NEW a \in answers'
          PROVE  /\ rows'[a.key] # NoRow
                 /\ rows'[a.key].status = "completed" => a.response = rows'[a.key].response
                 /\ \A v \in Working' : CallOf(v)'.key # a.key
      <4>1. CASE a = b
        BY <2>a, <3>1, <4>1
      <4>2. CASE a # b
        BY <2>a, <3>1, <3>2, <4>2 DEF AnswerInv
      <4> QED  BY <4>1, <4>2
    <3>3. OneAnswer'
      BY <2>a DEF AnswerInv, OneAnswer
    <3> QED  BY <3>2, <3>3 DEF AnswerInv
  <2>3. ASSUME Replay(w) PROVE AnswerInv'
    <3> DEFINE call == CallOf(w)
               row == Purged(Since(w))[call.key]
               b == [key |-> call.key, payload |-> call.payload, response |-> row.response]
    <3>1. call.key \in Keys /\ call.payload \in Payloads
      BY <1>t, <2>3, InvocationType DEF Replay
    <3>2. /\ row # NoRow /\ row = rows[call.key] /\ row.status = "completed"
          /\ row.payload = call.payload
      BY <1>t, <2>3, <3>1, PurgedRows DEF Replay, SameRequest
    <3>3. b \in Answer /\ b.response.payload = b.payload
      BY <3>1, <3>2 DEF Answer, TypeInv, Whole, OwnInv
    <3>4. /\ b.key = call.key /\ b.response = rows[call.key].response
          /\ answers' = KeptAnswers(Since(w)) \union {b} /\ rows' = Purged(Since(w))
      BY <2>3, <3>2 DEF Replay
    <3> HIDE DEF b
    <3>5. \A v \in Working \ {w} : CallOf(v).key # b.key
      BY <3>2, <3>4 DEF WorkInv, RowOf
    <3>6. \A a \in answers : a.key = b.key => a.response = b.response
      BY <3>2, <3>4 DEF AnswerInv
    <3>7. \A a \in answers' \ {b} : a \in answers /\ rows'[a.key] = rows[a.key]
      BY <3>4, AnswersKept
    <3> QED  BY <2>3, <2>a, <3>2, <3>3, <3>4, <3>5, <3>6, <3>7 DEF Replay
  <2>4. ASSUME Refuse(w) PROVE AnswerInv'
    <3>1. /\ answers' \subseteq answers
          /\ \A a \in answers' : rows'[a.key] = rows[a.key]
      BY <2>4, AnswersKept DEF Refuse
    <3> QED  BY <2>4, <2>e, <2>k, <3>1 DEF Refuse
  <2>5. ASSUME NEW heard \in BOOLEAN, AskProvenance(w, heard) PROVE AnswerInv'
    <3>1. w \in Working /\ workers[w] \in Invocation
      BY <1>t, <2>5, InvocationType DEF AskProvenance, Working
    <3>2. CallOf(w)' = CallOf(w)
      BY <1>t, <2>5, <3>1 DEF AskProvenance, Goto, CallOf, Invocation, LedgerTypeOK
    <3> QED  BY <2>5, <2>k, <2>g, <3>1, <3>2 DEF AskProvenance, ledger, AnswerInv
  <2>6. ASSUME \/ \E permitted \in BOOLEAN : CheckInput(w, permitted)
                                            \/ CheckOutput(w, permitted)
               \/ \E outcome \in Outcomes, readable \in BOOLEAN :
                     Infer(w, outcome, readable)
        PROVE  AnswerInv'
    <3>1. UNCHANGED <<rows, answers>>
      BY <2>6 DEF CheckInput, CheckOutput, Infer, ledger
    <3>2. /\ w \in Working
          /\ \A v \in Workers \ {w} : workers'[v] = workers[v]
          /\ CallOf(w)' = CallOf(w)
      BY <1>t, <2>6, RunKeeps DEF CallOf
    <3> QED  BY <2>k, <3>1, <3>2 DEF AnswerInv
  <2>7. ASSUME NEW delivered \in BOOLEAN, Settle(w, delivered) PROVE AnswerInv'
    <3> DEFINE call == CallOf(w)
               b == [key |-> call.key, payload |-> call.payload,
                     response |-> workers[w].response]
    <3>1. /\ w \in Working /\ workers[w].pc = "answered"
          /\ call.key \in Keys /\ call.payload \in Payloads
      BY <2>7, WorkingTypes DEF Settle, Working
    <3>2. b \in Answer /\ b.response.payload = b.payload
      BY <3>1 DEF Answer, TypeInv, Whole, OwnInv
    <3>3. /\ b.key = call.key /\ b.response = workers[w].response
          /\ answers' \subseteq answers \union {b}
      BY <2>7 DEF Settle
    <3> HIDE DEF b
    <3>4. rows' = IF delivered THEN [rows EXCEPT ![call.key] = Outcome(w)] ELSE rows
      BY <2>7 DEF Settle, Outcome
    <3>5. /\ rows'[call.key] \in {RowOf(w), Outcome(w)}
          /\ \A k \in Keys : k # call.key => rows'[k] = rows[k]
      BY <1>t, <3>1, <3>4 DEF RowOf, LedgerTypeOK
    <3>6. /\ rows'[call.key] # NoRow
          /\ rows'[call.key].status = "completed" =>
                b.response = rows'[call.key].response
      <4>1. RowOf(w) \in Row /\ RowOf(w).status = "pending"
        BY <3>1, WorkingRow DEF WorkInv
      <4>2. /\ Outcome(w) \in Row
            /\ Outcome(w).status = "completed" => Outcome(w).response = workers[w].response
        BY <3>1, <4>1, SettledRow
      <4> QED  BY <3>3, <3>5, <4>1, <4>2, StoredRow
    <3>7. \A v \in Working \ {w} : CallOf(v).key # b.key
      BY <3>1, <3>3 DEF WorkInv
    <3>8. \A a \in answers : a.key \in Keys /\ a.key # b.key
      BY <1>t, <3>1, <3>3, AnswerType DEF AnswerInv
    <3>9. \A a \in answers' \ {b} : rows'[a.key] = rows[a.key]
      BY <3>3, <3>5, <3>8
    <3> QED  BY <2>7, <2>a, <3>2, <3>3, <3>6, <3>7, <3>8, <3>9 DEF Settle
  <2>8. ASSUME Abandon(w) PROVE AnswerInv'
    BY <2>8, <2>e, <2>k DEF Abandon, ledger
  <2> QED  BY <1>2, <2>1, <2>2, <2>3, <2>4, <2>5, <2>6, <2>7, <2>8 DEF Handle
<1> QED  BY <1>1, <1>2 DEF LedgerNext, Tick, Activate, Revoke, ledgerVars, ledger

IInv == TypeInv /\ ClockInv /\ WorkInv /\ PaidInv /\ OwnInv /\ AnswerInv

LEMMA LedgerInvariant == LedgerSpec => []IInv
<1>1. LedgerInit => IInv
  <2>1. LedgerInit => Working = {}
    BY DEF LedgerInit, Working, Idle
  <2>2. LedgerInit => PaidWithinLimit
    BY LedgerAssumption DEF LedgerInit, PaidWithinLimit
  <2>3. LedgerInit => AnswerInv
    BY DEF LedgerInit, AnswerInv, OneAnswer
  <2> QED  BY InitTypeInv, InitOwn, <2>1, <2>2, <2>3 DEF IInv, LedgerInit, ClockInv, WorkInv, PaidInv
<1>2. IInv /\ [LedgerNext]_ledgerVars => IInv'
  BY NextTypeInv, NextClock, NextWork, NextPaid, NextOwn, NextAnswer DEF IInv
<1> QED  BY <1>1, <1>2, PTL DEF LedgerSpec

\* A request is answered one way only, with work on its own content, however
\* often it is sent and whichever of its answers is lost.
THEOREM AnsweredOneWay == LedgerSpec => []OneAnswer
<1>1. IInv => OneAnswer
  BY DEF IInv, AnswerInv
<1> QED  BY LedgerInvariant, <1>1, PTL

-----------------------------------------------------------------------------
(* What a step may not do.                                                 *)

\* What a step of an invocation does to a row.
LEMMA RowSteps ==
    ASSUME IInv, LedgerNext, NEW k \in Keys, rows'[k] # rows[k]
    PROVE  \/ rows'[k] = NoRow /\ Expired(rows[k], now)
           \/ /\ ~installations[k.token].revoked
              /\ rows[k] = NoRow \/ Expired(rows[k], now)
           \/ /\ rows[k].status = "pending"
              /\ rows'[k] # NoRow
              /\ rows'[k].expiresAt = rows[k].expiresAt
<1>t. LedgerTypeOK
  BY DEF IInv, TypeInv
<1>1. PICK w \in Workers : Handle(w)
  BY DEF LedgerNext, Tick, Activate, Revoke, ledger
<1>2. CASE \E call \in Calls : Accept(w, call)
  BY <1>2 DEF Accept, ledger
\* What had expired by the clock sampled has expired.
<1>e. ASSUME workers[w].pc = "accepted", Expired(rows[k], Since(w))
      PROVE  Expired(rows[k], now)
  <2>1. now \in Nat /\ workers[w] \in Invocation /\ workers[w] # Idle
    BY <1>t, <1>e, InvocationType, LedgerAssumption DEF LedgerTypeOK
  <2>2. Since(w) \in Nat /\ Since(w) <= now
    BY <2>1, LedgerAssumption DEF IInv, ClockInv, Since, Invocation
  <2>3. rows[k] \in Row
    BY <1>t, <1>e, StoredRow DEF Expired, LedgerTypeOK
  <2>4. rows[k].expiresAt \in Nat
    BY <2>3 DEF Row
  <2> QED  BY <1>e, <2>1, <2>2, <2>4 DEF Expired
<1>3. ASSUME NEW heard \in BOOLEAN, Reserve(w, heard)
      PROVE  \/ rows'[k] = NoRow /\ Expired(rows[k], now)
             \/ ~installations[k.token].revoked /\ (rows[k] = NoRow \/ Expired(rows[k], now))
  <2>1. CallOf(w).key \in Keys
    BY <1>t, <1>3, InvocationType DEF Reserve
  <2>2. CASE k = CallOf(w).key
    BY <1>t, <1>3, <1>e, <2>2, PurgedRows DEF Reserve, Fresh, Authorized
  <2>3. CASE k # CallOf(w).key
    <3>1. rows'[k] = Purged(Since(w))[k]
      BY <1>t, <1>3, <2>1, <2>3, PurgedRows DEF Reserve
    <3> QED  BY <1>t, <1>3, <1>e, <3>1, PurgedRows DEF Reserve
  <2> QED  BY <2>2, <2>3
<1>4. ASSUME workers[w].pc = "accepted", rows' \in {rows, Purged(Since(w))}
      PROVE  rows'[k] = NoRow /\ Expired(rows[k], now)
  BY <1>t, <1>4, <1>e, PurgedRows
<1>5. ASSUME NEW delivered \in BOOLEAN, Settle(w, delivered)
      PROVE  /\ rows[k].status = "pending"
             /\ rows'[k] # NoRow
             /\ rows'[k].expiresAt = rows[k].expiresAt
  <2>1. /\ w \in Working /\ workers[w].pc = "answered"
        /\ CallOf(w).key \in Keys
    BY <1>5, WorkingTypes DEF Settle, Working, IInv
  <2>2. rows' = IF delivered THEN [rows EXCEPT ![CallOf(w).key] = Outcome(w)] ELSE rows
    BY <1>5 DEF Settle, Outcome
  <2>3. k = CallOf(w).key /\ rows'[k] = Outcome(w) /\ rows[k] = RowOf(w)
    BY <1>t, <2>1, <2>2 DEF RowOf, LedgerTypeOK
  <2>4. RowOf(w) \in Row /\ RowOf(w).status = "pending"
    BY <2>1, WorkingRow DEF WorkInv, IInv
  <2> QED  BY <2>1, <2>3, <2>4, SettledRow, StoredRow DEF IInv
<1>6. CASE \/ \E heard \in BOOLEAN : AskProvenance(w, heard)
           \/ \E permitted \in BOOLEAN : CheckInput(w, permitted)
                                        \/ CheckOutput(w, permitted)
           \/ \E outcome \in Outcomes, readable \in BOOLEAN : Infer(w, outcome, readable)
           \/ Abandon(w)
  BY <1>6 DEF AskProvenance, CheckInput, CheckOutput, Infer, Abandon, ledger
<1> QED  BY <1>1, <1>2, <1>3, <1>4, <1>5, <1>6 DEF Handle, Replay, Refuse

\* A completed request, or one of unknown outcome, is never worked on again
\* while its record lives.
THEOREM SettledRequestsStand == LedgerSpec => SettledStands
<1> DEFINE A == \A k \in Keys : rows[k].status \in {"completed", "unknown"} =>
                   rows'[k] = rows[k] \/ Expired(rows[k], now)
<1>1. IInv /\ [LedgerNext]_ledgerVars => [A]_ledgerVars
  <2> SUFFICES ASSUME IInv, LedgerNext PROVE A
    OBVIOUS
  <2> SUFFICES ASSUME NEW k \in Keys, rows[k].status \in {"completed", "unknown"},
                      rows'[k] # rows[k]
               PROVE  Expired(rows[k], now)
    OBVIOUS
  <2>1. rows[k] # NoRow
    BY DEF NoRow
  <2> QED  BY <2>1, RowSteps
<1> QED  BY LedgerInvariant, <1>1, PTL DEF LedgerSpec, SettledStands

\* Nothing is reserved for a bearer once it is revoked.
THEOREM RevocationHolds == LedgerSpec => RevokedStaysOut
<1> DEFINE A == \A t \in Tokens : installations[t].revoked =>
                   \A k \in Keys : k.token = t /\ rows'[k] # NoRow =>
                      rows[k] # NoRow /\ rows'[k].expiresAt = rows[k].expiresAt
<1>1. IInv /\ [LedgerNext]_ledgerVars => [A]_ledgerVars
  <2> SUFFICES ASSUME IInv, LedgerNext, NEW k \in Keys,
                      installations[k.token].revoked, rows'[k] # NoRow
               PROVE  rows[k] # NoRow /\ rows'[k].expiresAt = rows[k].expiresAt
    OBVIOUS
  <2>2. rows[k].status = "pending" => rows[k] # NoRow
    BY DEF NoRow
  <2> QED  BY <2>2, RowSteps
<1> QED  BY LedgerInvariant, <1>1, PTL DEF LedgerSpec, RevokedStaysOut

=============================================================================
