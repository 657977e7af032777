---------------------------- MODULE WritingLedger ---------------------------
(***************************************************************************)
(* The protected writing service: worker invocations that answer           *)
(* transcribe and evaluate requests, and the durable ledger they share.    *)
(* A ledger operation is one transaction and so one step.  The runs of the *)
(* models, up to three for a request, are steps outside of it, so that     *)
(* invocations interleave, and an invocation, its call of the ledger or    *)
(* the answer of that call may be lost between any two steps.  The worker  *)
(* samples the clock before it calls the ledger to reserve.                *)
(*                                                                         *)
(* A payload stands for a request body: a submission at an ink revision    *)
(* and what is asked about it.  Requests refused before they reach the     *)
(* ledger (origin, size, shape, unknown activity) change nothing and are   *)
(* left out.  The notice version never changes while a release runs.       *)
(***************************************************************************)
EXTENDS Naturals

CONSTANTS
    Workers,          \* worker invocations that may overlap
    Tokens,           \* installation bearers, issued or made up
    RequestIds, Payloads,
    Times,            \* bound: the clock readings considered
    Days, UtcDay,     \* the UTC day of a clock reading
    Reservation,      \* neurons reserved for an operation
    DailyLimit,       \* RRQ_DAILY_APPLICATION_NEURON_LIMIT
    DedupTtl,         \* DEDUPLICATION_TTL_MS
    AuthorizationTtl, \* RRQ_AUTHORIZATION_TTL_DAYS
    MaxRequests,      \* bound: requests that reach the service
    NoRequest

Operations == {"transcribe", "evaluate"}

ASSUME LedgerAssumption ==
    /\ Times \subseteq Nat /\ 0 \in Times
    /\ UtcDay \in [Times -> Days]
    /\ Reservation \in [Operations -> Nat \ {0}]
    /\ DailyLimit \in Nat
    /\ DedupTtl \in Nat \ {0}
    /\ AuthorizationTtl \in Nat
    /\ MaxRequests \in Nat
    /\ NoRequest \notin RequestIds

Keys == [token : Tokens, op : Operations, id : RequestIds]

\* Only an evaluation names the transcription it rests on.
Calls == {call \in [key : Keys, payload : Payloads,
                    recognition : RequestIds \union {NoRequest}] :
            call.key.op = "transcribe" => call.recognition = NoRequest}

\* What the provider, or a run of the writing model, can come back with.
\* "withheld" is a review_required or a definite failure: like a result it is
\* stored and replayed.
Outcomes == {"completed", "withheld", "unknown"}

Responses == [outcome : Outcomes, payload : Payloads]

NoResponse == [outcome |-> "none"]

NoRow == [status |-> "absent"]

Row == [status      : {"pending", "completed", "unknown"},
        payload     : Payloads,
        response    : Responses \union {NoResponse},
        supportable : BOOLEAN,    \* metadata of a completed recognition
        expiresAt   : Nat]

Installation == [revoked : BOOLEAN, expiresAt : Nat]

Idle == [pc |-> "idle"]

Invocation == [pc       : {"accepted", "reserved", "prepared", "admitted",
                           "written", "answered"},
               call     : Calls,
               since    : Times,        \* the clock it sampled
               spelling : BOOLEAN,      \* spellingAssessmentSupportable
               response : Responses \union {NoResponse},
               readable : BOOLEAN]      \* of the transcription it made

Answer == [key : Keys, payload : Payloads, response : Responses]

VARIABLES
    now,            \* the clock
    consumed,       \* meta.activation_consumed
    installations, rows, usage,          \* the ledger's tables
    workers,        \* the invocations
    received,       \* how many requests have come in
    inferences,     \* history: writing-model runs on a request's reservation
    answers,        \* history: responses sent out, until their row is purged
    legible         \* history: payloads whose transcription supports spelling

ledger == <<consumed, installations, rows, usage>>
ledgerVars == <<now, ledger, workers, received, inferences, answers, legible>>

-----------------------------------------------------------------------------
\* Mutant: revocation is not looked at.
AuthorizedByDate(t, at) == installations[t].expiresAt > at

\* byToken and authorized; a bearer never issued is one that never was valid.
Authorized(t, at) == /\ ~installations[t].revoked
                     /\ installations[t].expiresAt > at

\* DELETE FROM requests WHERE expires_at <= now, with the clock the worker
\* sampled.
Expired(row, at) == row # NoRow /\ row.expiresAt <= at

Purged(at) == [k \in Keys |-> IF Expired(rows[k], at) THEN NoRow ELSE rows[k]]

KeptAnswers(at) == {a \in answers : ~Expired(rows[a.key], at)}

\* Mutant: a request of unknown outcome is tried again.
FreshOrUnknown(call, at) == Purged(at)[call.key].status \in {"absent", "unknown"}

\* Mutant: a pending request is taken for an abandoned one.
FreshOrPending(call, at) == Purged(at)[call.key].status \in {"absent", "pending"}

\* No live record of this request.
Fresh(call, at) == Purged(at)[call.key] = NoRow

\* Mutant: a request identity is not compared with its payload.
SameIdentity(row, call) == row # NoRow

\* The stored request is about the same content.
SameRequest(row, call) == row # NoRow /\ row.payload = call.payload

\* Mutant: the allowance is compared before the reservation is added.
AllowsSpent(op, day) == usage[day] < DailyLimit

Allows(op, day) == usage[day] + Reservation[op] <= DailyLimit

CallOf(w) == workers[w].call

RowOf(w) == rows[CallOf(w).key]

Since(w) == workers[w].since

Working == {w \in Workers : workers[w].pc \notin {"idle", "accepted"}}

Goto(w, invocation) == workers' = [workers EXCEPT ![w] = invocation]

-----------------------------------------------------------------------------
LedgerInit ==
    /\ now = 0
    /\ consumed = FALSE
    /\ installations = [t \in Tokens |-> [revoked |-> TRUE, expiresAt |-> 0]]
    /\ rows = [k \in Keys |-> NoRow]
    /\ usage = [d \in Days |-> 0]
    /\ workers = [w \in Workers |-> Idle]
    /\ received = 0
    /\ inferences = [k \in Keys |-> 0]
    /\ answers = {}
    /\ legible = {}

\* A live invocation never outlasts the record that keeps its request unique.
Tick ==
    /\ now + 1 \in Times
    /\ \A w \in Workers : workers[w] # Idle => now + 1 < Since(w) + DedupTtl
    /\ now' = now + 1
    /\ UNCHANGED <<ledger, workers, received, inferences, answers, legible>>

\* The one-time code is redeemed; whether the bearer reaches the browser does
\* not matter to the ledger.
Activate(t) ==
    /\ ~consumed
    /\ consumed' = TRUE
    /\ installations' = [installations EXCEPT ![t] =
                           [revoked |-> FALSE,
                            expiresAt |-> now + AuthorizationTtl]]
    /\ UNCHANGED <<now, rows, usage, workers, received, inferences, answers,
                   legible>>

Revoke(t) ==
    /\ Authorized(t, now)
    /\ installations' = [installations EXCEPT ![t].revoked = TRUE]
    /\ UNCHANGED <<now, consumed, rows, usage, workers, received, inferences,
                   answers, legible>>

Accept(w, call) ==
    /\ workers[w] = Idle
    /\ received < MaxRequests
    /\ received' = received + 1
    /\ Goto(w, [pc |-> "accepted", call |-> call, since |-> now,
                spelling |-> FALSE, response |-> NoResponse,
                readable |-> FALSE])
    /\ UNCHANGED <<now, ledger, inferences, answers, legible>>

\* The invocation dies.  One that dies, or cannot reach the ledger, before it
\* has reserved anything is one whose request never came.
Abandon(w) ==
    /\ w \in Working
    /\ Goto(w, Idle)
    /\ UNCHANGED <<now, ledger, received, inferences, answers, legible>>

\* reserve, for a request the ledger has no live row of.  heard is whether the
\* ledger's answer reaches the worker: without it the worker says 503 and the
\* row stays pending until it expires.
Reserve(w, heard) ==
    LET call == CallOf(w)
        day == UtcDay[Since(w)] IN
    /\ workers[w].pc = "accepted"
    /\ Authorized(call.key.token, Since(w))
    /\ Fresh(call, Since(w))
    /\ Allows(call.key.op, day)
    /\ rows' = [Purged(Since(w)) EXCEPT ![call.key] =
                  [status |-> "pending", payload |-> call.payload,
                   response |-> NoResponse, supportable |-> FALSE,
                   expiresAt |-> Since(w) + DedupTtl]]
    /\ usage' = [usage EXCEPT ![day] = @ + Reservation[call.key.op]]
    /\ inferences' = [inferences EXCEPT ![call.key] = 0]
    /\ answers' = KeptAnswers(Since(w))
    /\ Goto(w, IF heard THEN [workers[w] EXCEPT !.pc = "reserved"] ELSE Idle)
    /\ UNCHANGED <<now, consumed, installations, received, legible>>

\* reserve, for a request that is already completed: the stored response.
Replay(w) ==
    LET call == CallOf(w)
        row == Purged(Since(w))[call.key] IN
    /\ workers[w].pc = "accepted"
    /\ Authorized(call.key.token, Since(w))
    /\ SameRequest(row, call)
    /\ row.status = "completed"
    /\ rows' = Purged(Since(w))
    /\ answers' = KeptAnswers(Since(w)) \union
                    {[key |-> call.key, payload |-> call.payload,
                      response |-> row.response]}
    /\ Goto(w, Idle)
    /\ UNCHANGED <<now, consumed, installations, usage, received, inferences,
                   legible>>

\* reserve, in every other case: conflict, pending, quota or unauthorized.
Refuse(w) ==
    LET call == CallOf(w)
        row == Purged(Since(w))[call.key] IN
    /\ workers[w].pc = "accepted"
    /\ IF ~Authorized(call.key.token, Since(w)) THEN rows' = rows /\ answers' = answers
       ELSE /\ \/ row # NoRow /\ ~(SameRequest(row, call) /\ row.status = "completed")
               \/ Fresh(call, Since(w)) /\ ~Allows(call.key.op, UtcDay[Since(w)])
            /\ rows' = Purged(Since(w))
            /\ answers' = KeptAnswers(Since(w))
    /\ Goto(w, Idle)
    /\ UNCHANGED <<now, consumed, installations, usage, received, inferences,
                   legible>>

\* Mutant: any completed transcription supports a spelling judgment.
SupportableAnyInk(call) ==
    /\ Authorized(call.key.token, now)
    /\ call.recognition # NoRequest
    /\ rows[[call.key EXCEPT !.op = "transcribe",
                             !.id = call.recognition]].status = "completed"

\* provenance: the named transcription is of the same submission and ink.
Supportable(call) ==
    LET key == [call.key EXCEPT !.op = "transcribe", !.id = call.recognition] IN
    /\ Authorized(call.key.token, now)
    /\ call.recognition # NoRequest
    /\ rows[key].status = "completed"
    /\ rows[key].payload = call.payload
    /\ rows[key].supportable

\* performOperation asks for the provenance of a transcription before it
\* evaluates; an unanswered question counts as not supportable.
AskProvenance(w, heard) ==
    /\ workers[w].pc = "reserved"
    /\ CallOf(w).key.op = "evaluate"
    /\ Goto(w, [workers[w] EXCEPT !.pc = "prepared",
                                  !.spelling = heard /\ Supportable(CallOf(w))])
    /\ UNCHANGED <<now, ledger, received, inferences, answers, legible>>

\* The provider's last word on a request.
Conclude(w, outcome, readable) ==
    Goto(w, [workers[w] EXCEPT
               !.pc = "answered",
               !.response = [outcome |-> outcome, payload |-> CallOf(w).payload],
               !.readable = readable])

\* evaluate: the safety check of the confirmed text.  One that fails, however
\* it does, withholds the evaluation.
CheckInput(w, permitted) ==
    /\ workers[w].pc = "prepared"
    /\ IF permitted THEN Goto(w, [workers[w] EXCEPT !.pc = "admitted"])
       ELSE Conclude(w, "withheld", FALSE)
    /\ UNCHANGED <<now, ledger, received, inferences, answers, legible>>

\* The writing model runs; what it makes of ink may support spelling judgments.
\* What it wrote still has to be checked.
Infer(w, outcome, readable) ==
    /\ \/ workers[w].pc = "admitted"
       \/ workers[w].pc = "reserved" /\ CallOf(w).key.op = "transcribe"
    /\ readable => CallOf(w).key.op = "transcribe" /\ outcome = "completed"
    /\ inferences' = [inferences EXCEPT ![CallOf(w).key] = @ + 1]
    /\ IF outcome = "completed"
       THEN Goto(w, [workers[w] EXCEPT !.pc = "written", !.readable = readable])
       ELSE Conclude(w, outcome, FALSE)
    /\ UNCHANGED <<now, ledger, received, answers, legible>>

\* The safety check of what the model wrote.
CheckOutput(w, permitted) ==
    LET readable == permitted /\ workers[w].readable IN
    /\ workers[w].pc = "written"
    /\ legible' = IF readable THEN legible \union {CallOf(w).payload} ELSE legible
    /\ Conclude(w, IF permitted THEN "completed" ELSE "withheld", readable)
    /\ UNCHANGED <<now, ledger, received, inferences, answers>>

\* Mutant: a status the ledger does not have.
MarkFailed(row, call) ==
    IF SameRequest(row, call) THEN [row EXCEPT !.status = "failed"] ELSE row

\* unknown: only a pending request is marked.
MarkUnknown(row, call) ==
    IF SameRequest(row, call) /\ row.status = "pending"
    THEN [row EXCEPT !.status = "unknown"] ELSE row

\* complete: the first completion stands.
CompleteRow(row, call, response, readable) ==
    IF SameRequest(row, call) /\ row.status # "completed"
    THEN [row EXCEPT !.status = "completed", !.response = response,
                     !.supportable = readable]
    ELSE row

\* The worker reports the outcome to the ledger and answers the browser; it
\* does not look at what the ledger says, and the report may not arrive.
Settle(w, delivered) ==
    LET call == CallOf(w)
        response == workers[w].response
        settled == IF response.outcome = "unknown"
                   THEN MarkUnknown(rows[call.key], call)
                   ELSE CompleteRow(rows[call.key], call, response,
                                    workers[w].readable) IN
    /\ workers[w].pc = "answered"
    /\ rows' = IF delivered THEN [rows EXCEPT ![call.key] = settled] ELSE rows
    /\ answers' = IF response.outcome = "unknown" THEN answers
                  ELSE answers \union {[key |-> call.key,
                                        payload |-> call.payload,
                                        response |-> response]}
    /\ Goto(w, Idle)
    /\ UNCHANGED <<now, consumed, installations, usage, received, inferences,
                   legible>>

Handle(w) ==
    \/ \E call \in Calls : Accept(w, call)
    \/ \E heard \in BOOLEAN : Reserve(w, heard)
    \/ Replay(w)
    \/ Refuse(w)
    \/ \E heard \in BOOLEAN : AskProvenance(w, heard)
    \/ \E permitted \in BOOLEAN : CheckInput(w, permitted)
    \/ \E outcome \in Outcomes, readable \in BOOLEAN : Infer(w, outcome, readable)
    \/ \E permitted \in BOOLEAN : CheckOutput(w, permitted)
    \/ \E delivered \in BOOLEAN : Settle(w, delivered)
    \/ Abandon(w)

LedgerNext ==
    \/ Tick
    \/ \E t \in Tokens : Activate(t) \/ Revoke(t)
    \/ \E w \in Workers : Handle(w)

LedgerSpec == LedgerInit /\ [][LedgerNext]_ledgerVars

-----------------------------------------------------------------------------
(* What is claimed of the service.                                         *)

\* Every variable has its type.
LedgerTypeOK ==
    /\ now \in Times
    /\ consumed \in BOOLEAN
    /\ installations \in [Tokens -> Installation]
    /\ rows \in [Keys -> Row \union {NoRow}]
    /\ usage \in [Days -> Nat]
    /\ workers \in [Workers -> Invocation \union {Idle}]
    /\ received \in 0..MaxRequests
    /\ inferences \in [Keys -> Nat]
    /\ answers \subseteq Answer
    /\ legible \subseteq Payloads

\* What is reserved on one UTC day never exceeds the daily application limit,
\* and one reservation is never used for more than one run of the writing model,
\* the run it is an estimate of, whatever answers are lost, invocations die and
\* requests are repeated.  The safety checks before and after that run are not
\* part of the estimate and not counted.
PaidWithinLimit ==
    /\ \A d \in Days : usage[d] <= DailyLimit
    /\ \A k \in Keys : inferences[k] <= 1

\* Two invocations never work on the same request, and the request an
\* invocation works on stays recorded as pending, with its payload, until that
\* invocation settles it.
WorkIsExclusive ==
    \A w \in Working :
        /\ RowOf(w).status = "pending"
        /\ RowOf(w).payload = CallOf(w).payload
        /\ \A v \in Working : CallOf(v).key = CallOf(w).key => v = w

\* A request is answered with one response however often it is sent, and that
\* response was made for the payload it was asked with: neither a repeated
\* request nor an identity used twice is answered with work on other content.
OneAnswer ==
    \A a, b \in answers :
        /\ a.response.payload = a.payload
        /\ a.key = b.key => a.response = b.response

\* An evaluation judges spelling only if a transcription of exactly that ink
\* supports it, whatever expired, was repeated or was lost in between.
SpellingNeedsItsInk ==
    \A w \in Workers :
        workers[w] # Idle /\ workers[w].spelling =>
            CallOf(w).payload \in legible

\* A request that is completed or of unknown outcome is never worked on again
\* while its record lives.
SettledStands ==
    [][\A k \in Keys : rows[k].status \in {"completed", "unknown"} =>
            rows'[k] = rows[k] \/ Expired(rows[k], now)]_ledgerVars

\* Once a bearer is revoked nothing is reserved for it any more.
RevokedStaysOut ==
    [][\A t \in Tokens : installations[t].revoked =>
            \A k \in Keys : k.token = t /\ rows'[k] # NoRow =>
                rows[k] # NoRow /\ rows'[k].expiresAt = rows[k].expiresAt
      ]_ledgerVars

=============================================================================
