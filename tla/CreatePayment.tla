---------------------------- MODULE CreatePayment ----------------------------
(***************************************************************************)
(* POST /payments (application/commands/create_payment.py with             *)
(* providers/engine/executor.py): the charge is sent from inside the       *)
(* database transaction that inserts the payment.  Every request makes a   *)
(* new payment, so a request stands for its payment id and for the one     *)
(* call of HttpEgress.send it makes.  Requests run concurrently, against   *)
(* one database and one PSP; the process of any may stop at any await.     *)
(*                                                                         *)
(* The Postgres repositories are behind ports.py: a row is written when    *)
(* the transaction commits, and the unique index of schema.sql on          *)
(* (merchant_id, idempotency_key) makes an INSERT wait for an uncommitted  *)
(* row with its key and fail on a committed one.                           *)
(***************************************************************************)
EXTENDS HttpEgress, PaymentStatus, SequencesExt

CONSTANTS KeyOf,           \* KeyOf[r]: the merchant and Idempotency-Key of request r
          StatusMap,       \* status_mapping: provider status -> domain status
          SuccessStatuses, \* the provider statuses success_when accepts
          Paid             \* the provider statuses under which the customer has paid

Requests == Calls

Phases == {"new", "inserting", "executing", "staged", "committed", "ended", "crashed"}

ErrorAnswers == {"409", "500"}

\* error_code: the category of the error, or what stands for it; "none" is None.
Codes == Categories \cup {"circuit_open", "oversize", "engine_error", "provider_error",
                          "none"}

\* The aggregate in memory and the transactions row staged with it.
Work == [status: PaymentStatuses, events: Seq(EventTypes),
         txStatus: {"PENDING", "SUCCESS", "FAILED"}, code: Codes]

ASSUME CreateAssumption ==
    /\ DOMAIN KeyOf = Requests
    /\ DOMAIN StatusMap \subseteq ProviderStatuses
    /\ \A s \in DOMAIN StatusMap : StatusMap[s] \in PaymentStatuses
    /\ SuccessStatuses \subseteq ProviderStatuses
    /\ Paid \subseteq ProviderStatuses
    /\ None \notin PaymentStatuses \cup Work

VARIABLES pc,       \* pc[r]: where request r is in execute
          uow,      \* uow[r]: what its transaction has written, or None
          payments, \* payments[r]: the status in the committed row, or None
          ledger,   \* the committed transactions rows
          outbox,   \* the committed outbox rows, in id order
          answer    \* answer[r]: the HTTP answer the client got, or None

dbVars == <<payments, ledger, outbox>>
vars == <<pc, uow, payments, ledger, outbox, answer, egressVars>>

Init == /\ pc = [r \in Requests |-> "new"]
        /\ uow = [r \in Requests |-> None]
        /\ payments = [r \in Requests |-> None]
        /\ ledger = {}
        /\ outbox = <<>>
        /\ answer = [r \in Requests |-> None]
        /\ EgressInit

SameKey(r, q) == q # r /\ KeyOf[q] = KeyOf[r]

\* The context manager leaves without commit; the client gets code.
RollBack(r, code) == /\ pc' = [pc EXCEPT ![r] = "ended"]
                     /\ uow' = [uow EXCEPT ![r] = None]
                     /\ answer' = [answer EXCEPT ![r] = code]
                     /\ UNCHANGED <<dbVars, egressVars>>

\* The instance is unknown, inactive or cannot charge (409), or its manifest or
\* secrets cannot be loaded (500).
Refuse(r) == /\ pc[r] = "new"
             /\ \E code \in ErrorAnswers : RollBack(r, code)

\* The instance, manifest and secrets are loaded and Payment.create has run.
Begin(r) == /\ pc[r] = "new"
            /\ pc' = [pc EXCEPT ![r] = "inserting"]
            /\ UNCHANGED <<uow, answer, dbVars, egressVars>>

KeyCommitted(r) == \E q \in Requests : SameKey(r, q) /\ payments[q] # None
KeyLocked(r)    == \E q \in Requests : SameKey(r, q) /\ uow[q] # None

\* A mutant of Insert: the key is looked up, not claimed, before the charge.
InsertAfterLookup(r) ==
    /\ pc[r] = "inserting"
    /\ ~KeyCommitted(r)
    /\ pc' = [pc EXCEPT ![r] = "executing"]
    /\ uow' = [uow EXCEPT ![r] = [status |-> "PENDING", events |-> <<"payment.created">>,
                                  txStatus |-> "PENDING", code |-> "none"]]
    /\ UNCHANGED <<answer, dbVars, egressVars>>

\* payments.add: the row and with it the key, for as long as the transaction lasts.
Insert(r) ==
    /\ pc[r] = "inserting"
    /\ ~KeyCommitted(r) /\ ~KeyLocked(r)
    /\ pc' = [pc EXCEPT ![r] = "executing"]
    /\ uow' = [uow EXCEPT ![r] = [status |-> "PENDING", events |-> <<"payment.created">>,
                                  txStatus |-> "PENDING", code |-> "none"]]
    /\ UNCHANGED <<answer, dbVars, egressVars>>

\* payments.add meets a committed row with its key: the exception is not handled.
DuplicateKey(r) == /\ pc[r] = "inserting"
                   /\ KeyCommitted(r)
                   /\ RollBack(r, "500")

\* The engine calls send, which runs by itself until it returns or raises.
Execute(r) == /\ pc[r] = "executing"
              /\ SendAllowed(r) \/ SendCircuitOpen(r) \/ SendStep(r)
              /\ UNCHANGED <<pc, uow, answer, dbVars>>

-----------------------------------------------------------------------------
\* The status method moves the aggregate to dst, the settled transactions row, the
\* payments row and the drained events are written; the transaction is still open.
Stage(r, dst, txStatus, code) ==
    /\ pc' = [pc EXCEPT ![r] = "staged"]
    /\ uow' = [uow EXCEPT ![r] =
                 [status   |-> dst,
                  events   |-> IF dst = @.status THEN @.events
                               ELSE Append(@.events, EventOf(dst)),
                  txStatus |-> txStatus,
                  code     |-> code]]
    /\ UNCHANGED <<answer, dbVars, egressVars>>

\* HttpEgressError: the row keeps its category.
ApplyEgressError(r) == /\ pc[r] = "executing"
                       /\ st[r] = "raised"
                       /\ Stage(r, "FAILED", "FAILED", category[r])

\* success_when held, but provider_status is missing or not in status_mapping.
StatusUnusable(r) == \/ reply[r].body \in SuccessStatuses \ DOMAIN StatusMap
                     \/ reply[r].body = "garbled"

\* ProviderProtocolError: for a status that cannot be used, or before the call for
\* an operation or body encoding the manifest lacks.  It has no category.
ApplyProtocolError(r) == /\ pc[r] = "executing"
                         /\ st[r] \in {"idle", "returned"}
                         /\ st[r] = "returned" => StatusUnusable(r)
                         /\ Stage(r, "FAILED", "FAILED", "engine_error")

\* success_when is false, or cannot be evaluated on what came back.
ApplyUnsuccess(r) == /\ pc[r] = "executing"
                     /\ st[r] = "returned"
                     /\ reply[r].body \notin SuccessStatuses
                     /\ Stage(r, "FAILED", "FAILED", "provider_error")

\* A mutant of Applied: a status the create flow does not expect is taken as captured.
AppliedOptimist(mapped) ==
    IF mapped \in {"AUTHORIZED", "ACTION_REQUIRED", "PENDING", "FAILED"}
    THEN mapped ELSE "CAPTURED"

\* _apply_engine_result: the status it leaves a PENDING payment in.
Applied(mapped) ==
    IF mapped \in {"CAPTURED", "AUTHORIZED", "ACTION_REQUIRED", "PENDING"}
    THEN mapped ELSE "FAILED"

ApplySuccess(r) ==
    /\ pc[r] = "executing"
    /\ st[r] = "returned"
    /\ reply[r].body \in SuccessStatuses \cap DOMAIN StatusMap
    /\ Stage(r, Applied(StatusMap[reply[r].body]), "SUCCESS", "none")

\* An exception execute does not catch: a template the sandbox rejects, an answer
\* httpx cannot decode (DecodingError is no TransportError), a body that is not
\* valid UTF-8, a mapping jsonpath cannot parse.
EngineEscapes(r) == /\ pc[r] = "executing"
                    /\ \/ st[r] = "idle"
                       \/ st[r] = "awaiting" /\ reply[r] # None
                       \/ st[r] = "returned" /\ reply[r].body = "garbled"
                    /\ RollBack(r, "500")

\* The rows an open transaction leaves behind when it commits.
LedgerRow(r) == [payment |-> r, status |-> uow[r].txStatus, code |-> uow[r].code]
OutboxRows(r) == [i \in 1 .. Len(uow[r].events) |->
                     [payment |-> r, type |-> uow[r].events[i]]]

\* A mutant of WriteFails: the events are added outside the transaction.
WriteFailsAnnounced(r) == /\ pc[r] = "staged"
                          /\ pc' = [pc EXCEPT ![r] = "ended"]
                          /\ uow' = [uow EXCEPT ![r] = None]
                          /\ answer' = [answer EXCEPT ![r] = "500"]
                          /\ outbox' = outbox \o OutboxRows(r)
                          /\ UNCHANGED <<payments, ledger, egressVars>>

\* The database refuses one of the staged writes or the commit.
WriteFails(r) == /\ pc[r] = "staged"
                 /\ RollBack(r, "500")

\* A mutant of Commit: the events are added after the transaction, by another one.
CommitWithoutOutbox(r) ==
    /\ pc[r] = "staged"
    /\ pc' = [pc EXCEPT ![r] = "committed"]
    /\ payments' = [payments EXCEPT ![r] = uow[r].status]
    /\ ledger' = ledger \cup {LedgerRow(r)}
    /\ outbox' = outbox \o SubSeq(OutboxRows(r), 1, 1)
    /\ uow' = [uow EXCEPT ![r] = None]
    /\ UNCHANGED <<answer, egressVars>>

\* Leaving the context manager: all the rows at once, and the key for good.
Commit(r) == /\ pc[r] = "staged"
             /\ pc' = [pc EXCEPT ![r] = "committed"]
             /\ payments' = [payments EXCEPT ![r] = uow[r].status]
             /\ ledger' = ledger \cup {LedgerRow(r)}
             /\ outbox' = outbox \o OutboxRows(r)
             /\ uow' = [uow EXCEPT ![r] = None]
             /\ UNCHANGED <<answer, egressVars>>

\* A mutant of Reply: the answer leaves while the transaction is still open.
ReplyEarly(r) == /\ pc[r] = "staged"
                 /\ pc' = [pc EXCEPT ![r] = "ended"]
                 /\ answer' = [answer EXCEPT ![r] = uow[r].status]
                 /\ UNCHANGED <<uow, dbVars, egressVars>>

\* 201 with the status of the payment, or 500: the commit's acknowledgement is lost,
\* or PaymentResponse rejects what the PSP sent as its id or next action.
Reply(r) == /\ pc[r] = "committed"
            /\ pc' = [pc EXCEPT ![r] = "ended"]
            /\ \E a \in {payments[r], "500"} : answer' = [answer EXCEPT ![r] = a]
            /\ UNCHANGED <<uow, dbVars, egressVars>>

\* The process of request r stops: its transaction is rolled back, its request on
\* the wire is not called back, and the client hears nothing.
Crash(r) == /\ pc[r] \in {"inserting", "executing", "staged", "committed"}
            /\ pc' = [pc EXCEPT ![r] = "crashed"]
            /\ uow' = [uow EXCEPT ![r] = None]
            /\ Stop(r)
            /\ UNCHANGED <<answer, dbVars>>

PspStep == Psp /\ UNCHANGED <<pc, uow, answer, dbVars>>

Over(r) == pc[r] \in {"ended", "crashed"}

AllOver == /\ \A r \in Requests : Over(r)
           /\ wire = {}
           /\ UNCHANGED vars

HandlerStep(r) ==
    \/ Insert(r) \/ DuplicateKey(r) \/ Execute(r)
    \/ ApplyEgressError(r) \/ ApplyProtocolError(r) \/ ApplyUnsuccess(r)
    \/ ApplySuccess(r) \/ EngineEscapes(r)
    \/ WriteFails(r) \/ Commit(r) \/ Reply(r)

Next == \/ \E r \in Requests : Refuse(r) \/ Begin(r) \/ HandlerStep(r) \/ Crash(r)
        \/ PspStep
        \/ AllOver

\* The event loop runs every handler it has started.
Fairness == \A r \in Requests : WF_vars(HandlerStep(r))

Spec == Init /\ [][Next]_vars /\ Fairness

-----------------------------------------------------------------------------
\* The shape of the use case's state and of the rows it leaves.
TypeOK == /\ EgressTypeOK
          /\ pc \in [Requests -> Phases]
          /\ uow \in [Requests -> Work \cup {None}]
          /\ payments \in [Requests -> PaymentStatuses \cup {None}]
          /\ ledger \subseteq [payment: Requests, status: {"SUCCESS", "FAILED"},
                               code: Codes]
          /\ outbox \in Seq([payment: Requests, type: EventTypes])
          /\ answer \in [Requests -> PaymentStatuses \cup ErrorAnswers \cup {None}]

\* r has the row of its key: committed, or inserted and not yet rolled back.
Holds(r) == payments[r] # None \/ uow[r] # None

\* One request at a time holds a key, and none after another's row is committed:
\* concurrent submissions of one Idempotency-Key wait or fail, they do not both
\* charge (payments.add before the engine call, payments_merchant_idem_idx).
OneHolderPerKey ==
    \A r, q \in Requests : SameKey(r, q) => ~(Holds(r) /\ Holds(q))

PaidFor(r) == {d \in ChargesOf(r) : d.outcome \in Paid}

\* Two charges for one Idempotency-Key need a rollback: one of the two requests
\* ended without a row (a crash or an exception after the PSP was called).  As
\* long as transactions commit, retries and double submits never charge twice.
DuplicateNeedsRollback ==
    \A r, q \in Requests :
        SameKey(r, q) /\ PaidFor(r) # {} /\ PaidFor(q) # {} =>
            \E x \in {r, q} : ~Holds(x) /\ Over(x)

\* The positions of r's rows in the outbox.
RowsFor(r) == {n \in DOMAIN outbox : outbox[n].payment = r}
LedgerFor(r) == {row \in ledger : row.payment = r}

\* The payment, its ledger row and its events appear together or not at all: no
\* event is relayed for a payment that was rolled back, and the last event of a
\* committed payment is the one its status calls for, after its creation and nothing
\* else (outbox.add_many in the transaction of payments.update).
TransactionalOutbox ==
    \A r \in Requests :
        IF payments[r] = None
        THEN RowsFor(r) = {} /\ LedgerFor(r) = {}
        ELSE /\ Cardinality(LedgerFor(r)) = 1
             /\ \E first, last \in RowsFor(r) :
                    /\ \A n \in RowsFor(r) : first <= n /\ n <= last
                    /\ outbox[first].type = "payment.created"
                    /\ outbox[last].type = EventOf(payments[r])
             /\ \A n \in RowsFor(r) :
                    outbox[n].type \in {"payment.created", EventOf(payments[r])}
             /\ \A m, n \in RowsFor(r) : outbox[m].type = outbox[n].type => m = n

\* A payment recorded as captured, authorised or waiting for the customer is one
\* the PSP said that of, for this payment, whatever was retried or delayed.
NoInventedSuccess ==
    \A r \in Requests :
        payments[r] \in {"CAPTURED", "AUTHORIZED", "ACTION_REQUIRED"} =>
            \E d \in ChargesOf(r) :
                /\ d.outcome \in DOMAIN StatusMap
                /\ StatusMap[d.outcome] = payments[r]

\* A 201 tells of a committed payment in exactly the status it says.
AnswerIsDurable ==
    \A r \in Requests : answer[r] \in PaymentStatuses => payments[r] = answer[r]

\* A ledger row that says the PSP refused the charge, or that the breaker kept it
\* from being sent, belongs to a payment the PSP never charges, not even by an
\* attempt that is still on the wire.
RecordedRefusalIsFinal ==
    \A row \in ledger :
        row.code \in {"http_402", "circuit_open"} => ChargesOf(row.payment) = {}

\* The committed rows implement a table in which a key is used at most once and a
\* payment of the create flow is written once.
Keyed == INSTANCE KeyedOnce WITH rows <- payments, Values <- PaymentStatuses

ImplementsKeyedOnce == Keyed!KeyedSpec

\* A request that has begun always ends, also one that waits for the key of a
\* request that hangs on the PSP: attempts are bounded, so the holder ends too.
RequestsEnd == \A r \in Requests : pc[r] = "inserting" ~> Over(r)

-----------------------------------------------------------------------------
(* What the documents say of the create flow.                               *)

\* "Money is never lost or duplicated. Idempotency end to end."
\* (docs/architecture.md:15): one Idempotency-Key pays at most once.
NoDuplicateCharge ==
    \A r, q \in Requests : SameKey(r, q) => PaidFor(r) = {} \/ PaidFor(q) = {}

\* "PSP returns an unmapped status -> ProviderProtocolError -> payment parked, alert
\* fires, no transition" (ARCHITECTURE.md:506).
UnmappedStatusParks ==
    \A r \in Requests :
        /\ payments[r] # None
        /\ st[r] = "returned"
        /\ reply[r].body \in SuccessStatuses \ DOMAIN StatusMap
        => payments[r] = "PENDING"
=============================================================================
