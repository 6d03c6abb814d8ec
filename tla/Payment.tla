------------------------------- MODULE Payment -------------------------------
(***************************************************************************)
(* The Payment aggregate (domain/payment.py): one payment object, every    *)
(* method called in any order with any arguments, the calls that raise     *)
(* included, and drain_events handing the recorded events over.            *)
(***************************************************************************)
EXTENDS PaymentStatus, Integers, SequencesExt

CONSTANTS Amount,          \* payment.amount.amount_minor
          PaymentCurrency, \* payment.amount.currency
          Currencies,      \* the currencies a refund may be asked in
          ProviderIds,     \* the ids a provider may give to the payment
          NoProviderId,    \* provider_payment_id is None
          MaxEvents        \* BOUND: no refund is asked once this many events exist

ASSUME PaymentAssumption ==
    /\ Amount \in Nat
    /\ PaymentCurrency \in Currencies
    /\ NoProviderId \notin ProviderIds
    /\ MaxEvents \in Nat

VARIABLES status,
          refunded,          \* payment.refunded, in minor units
          providerPaymentId,
          pending,           \* pending_events
          emitted,           \* everything drain_events has handed out
          outcome            \* how the last call ended: "ok" or what it raised

vars == <<status, refunded, providerPaymentId, pending, emitted, outcome>>

Refs == ProviderIds \cup {NoProviderId}

Events == [type: EventTypes, ref: Refs, minor: Nat, total: Nat, full: BOOLEAN]

\* make_event for the events without money in them.
Event(type, ref) ==
    [type |-> type, ref |-> ref, minor |-> 0, total |-> 0, full |-> FALSE]

\* make_event(PaymentRefunded, ...): total includes the minor units of this refund.
RefundEvent(minor, total) ==
    [type |-> "payment.refunded", ref |-> NoProviderId, minor |-> minor,
     total |-> total, full |-> total = Amount]

Log == emitted \o pending

Init == /\ status = "PENDING"
        /\ refunded = 0
        /\ providerPaymentId = NoProviderId
        /\ pending = <<Event("payment.created", NoProviderId)>>
        /\ emitted = <<>>
        /\ outcome = "ok"

Record(event) == pending' = Append(pending, event)

Raise(exception) ==
    /\ outcome' = exception
    /\ UNCHANGED <<status, refunded, providerPaymentId, pending, emitted>>

\* A mutant of Move: _transition assigns without asking can_transition.
MoveUnchecked(dst, ref, event) ==
    /\ status' = dst
    /\ providerPaymentId' = ref
    /\ Record(event)
    /\ outcome' = "ok"
    /\ UNCHANGED <<refunded, emitted>>

\* _transition(dst), then the provider's id, then _record.
Move(dst, ref, event) ==
    IF CanTransition(status, dst)
    THEN /\ status' = dst
         /\ providerPaymentId' = ref
         /\ Record(event)
         /\ outcome' = "ok"
         /\ UNCHANGED <<refunded, emitted>>
    ELSE Raise("IllegalStateTransition")

MarkActionRequired ==
    Move("ACTION_REQUIRED", providerPaymentId,
         Event("payment.action_required", NoProviderId))

Authorize(ref) == Move("AUTHORIZED", ref, Event("payment.authorized", ref))

\* capture(None) keeps the id an authorisation left, and the event carries it.
Capture(ref) ==
    LET kept == IF ref = NoProviderId THEN providerPaymentId ELSE ref
    IN  Move("CAPTURED", kept, Event("payment.captured", kept))

Fail == Move("FAILED", providerPaymentId, Event("payment.failed", NoProviderId))

Void == Move("VOIDED", providerPaymentId, Event("payment.voided", NoProviderId))

Chargeback == Move("CHARGEBACK", providerPaymentId,
                   Event("payment.chargeback", NoProviderId))

\* A mutant of Refund: the cap is checked on this refund, not on the running total.
RefundCapsEachCall(minor, currency) ==
    /\ Len(Log) < MaxEvents
    /\ LET total == refunded + minor
       IN  IF status \notin {"CAPTURED", "SETTLED"}
           THEN Raise("IllegalStateTransition")
           ELSE IF currency # PaymentCurrency \/ minor > Amount
           THEN Raise("ValueError")
           ELSE /\ refunded' = total
                /\ status' = IF total = Amount THEN "REFUNDED" ELSE status
                /\ Record(RefundEvent(minor, total))
                /\ outcome' = "ok"
                /\ UNCHANGED <<providerPaymentId, emitted>>

\* A mutant of Refund: the event reports the running total as this refund.
RefundReportsTotal(minor, currency) ==
    /\ Len(Log) < MaxEvents
    /\ LET total == refunded + minor
       IN  IF status \notin {"CAPTURED", "SETTLED"}
           THEN Raise("IllegalStateTransition")
           ELSE IF currency # PaymentCurrency \/ total > Amount
           THEN Raise("ValueError")
           ELSE /\ refunded' = total
                /\ status' = IF total = Amount THEN "REFUNDED" ELSE status
                /\ Record(RefundEvent(total, total))
                /\ outcome' = "ok"
                /\ UNCHANGED <<providerPaymentId, emitted>>

\* A mutant of Refund: only a single refund of the whole amount closes the payment.
RefundClosesOnOneCall(minor, currency) ==
    /\ Len(Log) < MaxEvents
    /\ LET total == refunded + minor
       IN  IF status \notin {"CAPTURED", "SETTLED"}
           THEN Raise("IllegalStateTransition")
           ELSE IF currency # PaymentCurrency \/ total > Amount
           THEN Raise("ValueError")
           ELSE /\ refunded' = total
                /\ status' = IF minor = Amount THEN "REFUNDED" ELSE status
                /\ Record(RefundEvent(minor, total))
                /\ outcome' = "ok"
                /\ UNCHANGED <<providerPaymentId, emitted>>

\* The running total is assigned before _transition, which could still raise.
Refund(minor, currency) ==
    /\ Len(Log) < MaxEvents
    /\ LET total == refunded + minor
           full  == total = Amount
       IN  IF status \notin {"CAPTURED", "SETTLED"}
           THEN Raise("IllegalStateTransition")
           ELSE IF currency # PaymentCurrency \/ total > Amount
           THEN Raise("ValueError")
           ELSE /\ refunded' = total
                /\ UNCHANGED <<providerPaymentId, emitted>>
                /\ IF full /\ ~CanTransition(status, "REFUNDED")
                   THEN /\ outcome' = "IllegalStateTransition"
                        /\ UNCHANGED <<status, pending>>
                   ELSE /\ status' = IF full THEN "REFUNDED" ELSE status
                        /\ Record(RefundEvent(minor, total))
                        /\ outcome' = "ok"

DrainEvents ==
    /\ emitted' = Log
    /\ pending' = <<>>
    /\ outcome' = "ok"
    /\ UNCHANGED <<status, refunded, providerPaymentId>>

Next == \/ MarkActionRequired \/ Fail \/ Void \/ Chargeback \/ DrainEvents
        \/ \E ref \in ProviderIds : Authorize(ref)
        \/ \E ref \in Refs : Capture(ref)
        \/ \E minor \in 0 .. Amount + 1, currency \in Currencies :
               Refund(minor, currency)

Spec == Init /\ [][Next]_vars

-----------------------------------------------------------------------------
\* The type of the aggregate: no more than the amount is ever refunded, and the
\* events recorded are well formed (Payment's fields; Money is never negative).
TypeOK == /\ status \in PaymentStatuses
          /\ refunded \in 0 .. Amount
          /\ providerPaymentId \in Refs
          /\ pending \in Seq(Events)
          /\ emitted \in Seq(Events)
          /\ outcome \in {"ok", "IllegalStateTransition", "ValueError"}

\* j is the last of the marked events among the first n of the log.
LastOf(j, marked, n) == /\ j \in marked
                        /\ j <= n
                        /\ \A k \in marked : k <= n => k <= j

Refunds == {i \in DOMAIN Log : Log[i].type = "payment.refunded"}

\* The first n events tell a consumer that total was refunded so far.
Told(n, total) == \/ total = 0 /\ \A k \in Refunds : k > n
                  \/ \E j \in Refunds : LastOf(j, Refunds, n) /\ Log[j].total = total

\* The refund events a consumer has received and is about to receive add up to
\* exactly what the aggregate says was refunded, however many partial refunds
\* were mixed with rejected ones and with drains: each tells the total before it
\* and its own minor units, and the last one tells the total there is (refund,
\* drain_events).
RefundLedger == /\ Told(Len(Log), refunded)
                /\ \A i \in Refunds : Told(i - 1, Log[i].total - Log[i].minor)

\* The events that tell of a status, and those that carry the provider's id.
StatusEvents == {i \in DOMAIN Log : i \in Refunds => Log[i].full}
RefEvents == {i \in DOMAIN Log : Log[i].type \in {"payment.authorized", "payment.captured"}}

\* Replaying the event stream gives the aggregate back: its status, its refunded
\* total and its provider id are those of the last events that tell of them, so a
\* consumer that reads the topic never disagrees with the payments table.
EventsReplayPayment ==
    /\ \E j \in StatusEvents : /\ LastOf(j, StatusEvents, Len(Log))
                               /\ EventOf(status) = Log[j].type
                               /\ status # "SETTLED"
    /\ Told(Len(Log), refunded)
    /\ IF RefEvents = {}
       THEN providerPaymentId = NoProviderId
       ELSE \E j \in RefEvents : /\ LastOf(j, RefEvents, Len(Log))
                                 /\ providerPaymentId = Log[j].ref

\* An event that closes the payment is the last one ever recorded: no capture
\* after a failure, no refund after a chargeback or after a full refund.
ClosingEvent(e) ==
    \/ e.type \in {"payment.failed", "payment.voided", "payment.chargeback"}
    \/ e.type = "payment.refunded" /\ e.full

ClosingEventIsLast ==
    \A i \in 1 .. Len(Log) : ClosingEvent(Log[i]) => i = Len(Log)

\* A method that raises leaves the payment as it was: the caller may catch the
\* exception and go on with the same object (refund assigns before it calls
\* _transition, so this rests on what _ALLOWED permits).
RaiseLeavesPaymentAlone ==
    [][outcome' # "ok" =>
         UNCHANGED <<status, refunded, providerPaymentId, pending>>]_vars

\* The aggregate implements the abstract flow of money: taken once, given back
\* only after it was taken and never beyond the amount, nothing after closing.
Flow == INSTANCE MoneyFlow WITH
            taken    <- status \in {"CAPTURED", "SETTLED", "REFUNDED", "CHARGEBACK"},
            returned <- refunded,
            closed   <- status \in Terminal

ImplementsMoneyFlow == Flow!FlowSpec
=============================================================================
