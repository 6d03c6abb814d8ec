---------------------------- MODULE PaymentProofs ----------------------------
(***************************************************************************)
(* For every amount, currency and set of provider ids: the aggregate never *)
(* refunds more than its amount, a call that raises leaves it alone, its   *)
(* events tell what it is, none follows the one that closes it, and its    *)
(* moves of money are those of MoneyFlow.                                  *)
(***************************************************************************)
EXTENDS Payment, TLAPS

\* The status machine's rows used below, each status's moves spelled out.
LEMMA MovesOfStatus ==
    /\ \A s, d : CanTransition(s, d) => s \notin Terminal /\ d \in PaymentStatuses
    /\ \A s \in {"CAPTURED", "SETTLED"} : CanTransition(s, "REFUNDED")
    /\ \A s : CanTransition(s, "CHARGEBACK") => s \in {"CAPTURED", "SETTLED"}
    /\ \A s, d : CanTransition(s, d) /\ d \in {"ACTION_REQUIRED", "AUTHORIZED",
                                               "CAPTURED", "FAILED", "VOIDED"}
                 => s \in {"PENDING", "ACTION_REQUIRED", "AUTHORIZED"}
  BY DEF CanTransition, Allowed, Terminal, PaymentStatuses

\* Every event a method records is well formed.
LEMMA EventsTyped ==
    /\ \A type \in EventTypes, ref \in Refs : Event(type, ref) \in Events
    /\ \A minor, total \in Nat : RefundEvent(minor, total) \in Events
  BY DEF Event, RefundEvent, Events, EventTypes, Refs

-----------------------------------------------------------------------------
LEMMA InitTypeOK == Init => TypeOK
  BY PaymentAssumption, EventsTyped
  DEF Init, TypeOK, PaymentStatuses, Refs, EventTypes

\* A method that goes through _transition keeps the type.
LEMMA MoveTypeOK ==
  ASSUME TypeOK, NEW dst, NEW ref \in Refs, NEW event \in Events,
         Move(dst, ref, event)
  PROVE  TypeOK'
<1>1. CASE CanTransition(status, dst)
  <2>1. status' \in PaymentStatuses
    BY <1>1, MovesOfStatus DEF Move
  <2>2. pending' \in Seq(Events)
    BY <1>1 DEF Move, Record, TypeOK
  <2> QED
    BY <1>1, <2>1, <2>2 DEF Move, TypeOK
<1>2. CASE ~CanTransition(status, dst)
  BY <1>2 DEF Move, Raise, TypeOK
<1> QED
  BY <1>1, <1>2

LEMMA RefundTypeOK ==
  ASSUME TypeOK, NEW minor \in 0 .. Amount + 1, NEW currency \in Currencies,
         Refund(minor, currency)
  PROVE  TypeOK'
<1> DEFINE total == refunded + minor
<1>1. CASE \/ status \notin {"CAPTURED", "SETTLED"}
           \/ currency # PaymentCurrency
           \/ total > Amount
  BY <1>1 DEF Refund, Raise, TypeOK
<1>2. CASE /\ status \in {"CAPTURED", "SETTLED"}
           /\ currency = PaymentCurrency
           /\ ~(total > Amount)
  <2>1. total \in 0 .. Amount /\ minor \in Nat
    BY <1>2, PaymentAssumption DEF TypeOK
  <2>2. RefundEvent(minor, total) \in Events
    BY <2>1, EventsTyped
  <2>3. CanTransition(status, "REFUNDED")
    BY <1>2, MovesOfStatus
  <2>4. /\ refunded' = total
        /\ status' = IF total = Amount THEN "REFUNDED" ELSE status
        /\ pending' = Append(pending, RefundEvent(minor, total))
        /\ outcome' = "ok"
        /\ UNCHANGED <<providerPaymentId, emitted>>
    BY <1>2, <2>3 DEF Refund, Record
  <2> QED
    BY <2>1, <2>2, <2>4 DEF TypeOK, PaymentStatuses
<1> QED
  BY <1>1, <1>2

LEMMA NextTypeOK == TypeOK /\ [Next]_vars => TypeOK'
<1> SUFFICES ASSUME TypeOK, [Next]_vars PROVE TypeOK'
  OBVIOUS
<1>1. providerPaymentId \in Refs /\ NoProviderId \in Refs /\ ProviderIds \subseteq Refs
  BY DEF TypeOK, Refs
<1>2. CASE MarkActionRequired
  BY <1>1, <1>2, EventsTyped, MoveTypeOK DEF MarkActionRequired, EventTypes
<1>3. CASE Fail
  BY <1>1, <1>3, EventsTyped, MoveTypeOK DEF Fail, EventTypes
<1>4. CASE Void
  BY <1>1, <1>4, EventsTyped, MoveTypeOK DEF Void, EventTypes
<1>5. CASE Chargeback
  BY <1>1, <1>5, EventsTyped, MoveTypeOK DEF Chargeback, EventTypes
<1>6. CASE DrainEvents
  <2>1. Log \in Seq(Events)
    BY DEF TypeOK, Log
  <2> QED
    BY <1>6, <2>1 DEF DrainEvents, TypeOK
<1>7. ASSUME NEW ref \in ProviderIds, Authorize(ref) PROVE TypeOK'
  BY <1>1, <1>7, EventsTyped, MoveTypeOK DEF Authorize, EventTypes
<1>8. ASSUME NEW ref \in Refs, Capture(ref) PROVE TypeOK'
  <2> DEFINE kept == IF ref = NoProviderId THEN providerPaymentId ELSE ref
  <2>1. kept \in Refs
    BY <1>1
  <2>2. Move("CAPTURED", kept, Event("payment.captured", kept))
    BY <1>8 DEF Capture
  <2>3. Event("payment.captured", kept) \in Events
    BY <2>1, EventsTyped DEF EventTypes
  <2> QED
    BY <2>1, <2>2, <2>3, MoveTypeOK
<1>9. ASSUME NEW minor \in 0 .. Amount + 1, NEW currency \in Currencies,
             Refund(minor, currency)
      PROVE  TypeOK'
  BY <1>9, RefundTypeOK
<1>10. CASE UNCHANGED vars
  BY <1>10 DEF vars, TypeOK
<1> QED
  BY <1>2, <1>3, <1>4, <1>5, <1>6, <1>7, <1>8, <1>9, <1>10 DEF Next

\* The aggregate keeps its type, whatever is called: in particular no sequence of
\* partial refunds ever gives back more than the amount (refund's check).
THEOREM TypeCorrect == Spec => []TypeOK
<1>1. Init => TypeOK
  BY InitTypeOK
<1>2. TypeOK /\ [Next]_vars => TypeOK'
  BY NextTypeOK
<1> QED
  BY <1>1, <1>2, PTL DEF Spec

-----------------------------------------------------------------------------
\* A call of _transition that raises changes nothing but how the call ended.
LEMMA MoveRaises ==
  ASSUME NEW dst, NEW ref, NEW event, Move(dst, ref, event), outcome' # "ok"
  PROVE  UNCHANGED <<status, refunded, providerPaymentId, pending>>
  BY DEF Move, Raise

\* A method that raises leaves the payment as it was.  For refund, which assigns
\* the new total before _transition, this needs what _ALLOWED says: both statuses
\* a refund may start from may move to REFUNDED.
THEOREM RaiseIsHarmless == Spec => RaiseLeavesPaymentAlone
<1>1. [Next]_vars =>
        [outcome' # "ok" =>
           UNCHANGED <<status, refunded, providerPaymentId, pending>>]_vars
  <2> SUFFICES ASSUME Next, outcome' # "ok"
               PROVE  UNCHANGED <<status, refunded, providerPaymentId, pending>>
    BY DEF vars
  <2>1. CASE MarkActionRequired
    BY <2>1, MoveRaises DEF MarkActionRequired
  <2>2. CASE Fail
    BY <2>2, MoveRaises DEF Fail
  <2>3. CASE Void
    BY <2>3, MoveRaises DEF Void
  <2>4. CASE Chargeback
    BY <2>4, MoveRaises DEF Chargeback
  <2>5. CASE DrainEvents
    BY <2>5 DEF DrainEvents
  <2>6. ASSUME NEW ref \in ProviderIds, Authorize(ref)
        PROVE  UNCHANGED <<status, refunded, providerPaymentId, pending>>
    BY <2>6, MoveRaises DEF Authorize
  <2>7. ASSUME NEW ref \in Refs, Capture(ref)
        PROVE  UNCHANGED <<status, refunded, providerPaymentId, pending>>
    BY <2>7, MoveRaises DEF Capture
  <2>8. ASSUME NEW minor \in 0 .. Amount + 1, NEW currency \in Currencies,
               Refund(minor, currency)
        PROVE  UNCHANGED <<status, refunded, providerPaymentId, pending>>
    <3>1. status \in {"CAPTURED", "SETTLED"} => CanTransition(status, "REFUNDED")
      BY MovesOfStatus
    <3> QED
      BY <2>8, <3>1 DEF Refund, Raise
  <2> QED
    BY <2>1, <2>2, <2>3, <2>4, <2>5, <2>6, <2>7, <2>8 DEF Next
<1> QED
  BY <1>1, PTL DEF Spec, RaiseLeavesPaymentAlone

-----------------------------------------------------------------------------
(* The event that closes the payment is the last.  As an invariant this needs *)
(* the status: a closing event has been recorded only if the payment is in a  *)
(* terminal status, from which no method records anything.                    *)

ClosedLog ==
    \A i \in 1 .. Len(Log) : ClosingEvent(Log[i]) => i = Len(Log) /\ status \in Terminal

\* Recording an event appends it to the log, whatever was drained before.
LEMMA RecordAppends ==
  ASSUME TypeOK, NEW event \in Events, Record(event), UNCHANGED emitted
  PROVE  /\ Log' = Append(Log, event)
         /\ Len(Log') = Len(Log) + 1
         /\ Log'[Len(Log) + 1] = event
         /\ \A i \in 1 .. Len(Log) : Log'[i] = Log[i]
<1>1. emitted \in Seq(Events) /\ pending \in Seq(Events)
  BY DEF TypeOK
<1>2. emitted \o Append(pending, event) = Append(emitted \o pending, event)
  BY <1>1
<1>3. Log' = Append(Log, event)
  BY <1>2 DEF Log, Record
<1>4. Log \in Seq(Events)
  BY <1>1 DEF Log
<1> QED
  BY <1>3, <1>4

\* An open payment records an event, and is closed by it if the event closes.
LEMMA RecordKeepsClosedLog ==
  ASSUME TypeOK, ClosedLog, status \notin Terminal, NEW event \in Events,
         Record(event), UNCHANGED emitted,
         ClosingEvent(event) => status' \in Terminal
  PROVE  ClosedLog'
<1>1. \A i \in 1 .. Len(Log) : ~ClosingEvent(Log[i])
  BY DEF ClosedLog
<1>2. Len(Log) \in Nat
  BY DEF TypeOK, Log
<1> SUFFICES ASSUME NEW i \in 1 .. Len(Log'), ClosingEvent(Log'[i])
             PROVE  i = Len(Log') /\ status' \in Terminal
  BY DEF ClosedLog, ClosingEvent
<1>3. CASE i \in 1 .. Len(Log)
  BY <1>1, <1>3, RecordAppends
<1>4. CASE i = Len(Log) + 1
  BY <1>4, RecordAppends
<1> QED
  BY <1>2, <1>3, <1>4, RecordAppends

LEMMA MoveKeepsClosedLog ==
  ASSUME TypeOK, ClosedLog, NEW dst, NEW ref, NEW event \in Events,
         Move(dst, ref, event), ClosingEvent(event) => dst \in Terminal
  PROVE  ClosedLog'
<1>1. CASE CanTransition(status, dst)
  <2>1. status \notin Terminal
    BY <1>1, MovesOfStatus
  <2>2. Record(event) /\ status' = dst /\ UNCHANGED emitted
    BY <1>1 DEF Move
  <2> QED
    BY <2>1, <2>2, RecordKeepsClosedLog
<1>2. CASE ~CanTransition(status, dst)
  BY <1>2 DEF Move, Raise, ClosedLog, ClosingEvent, Log
<1> QED
  BY <1>1, <1>2

LEMMA RefundKeepsClosedLog ==
  ASSUME TypeOK, ClosedLog, NEW minor \in 0 .. Amount + 1, NEW currency \in Currencies,
         Refund(minor, currency)
  PROVE  ClosedLog'
<1> DEFINE total == refunded + minor
<1>1. CASE \/ status \notin {"CAPTURED", "SETTLED"}
           \/ currency # PaymentCurrency
           \/ total > Amount
  BY <1>1 DEF Refund, Raise, ClosedLog, ClosingEvent, Log
<1>2. CASE /\ status \in {"CAPTURED", "SETTLED"}
           /\ currency = PaymentCurrency
           /\ ~(total > Amount)
  <2>1. total \in Nat /\ minor \in Nat
    BY PaymentAssumption DEF TypeOK
  <2>2. RefundEvent(minor, total) \in Events
    BY <2>1, EventsTyped
  <2>3. CanTransition(status, "REFUNDED") /\ status \notin Terminal
    BY <1>2, MovesOfStatus
  <2>4. /\ status' = IF total = Amount THEN "REFUNDED" ELSE status
        /\ Record(RefundEvent(minor, total))
        /\ UNCHANGED emitted
    BY <1>2, <2>3 DEF Refund
  <2>5. ClosingEvent(RefundEvent(minor, total)) => status' \in Terminal
    BY <2>4 DEF ClosingEvent, RefundEvent, Terminal
  <2> QED
    BY <2>2, <2>3, <2>4, <2>5, RecordKeepsClosedLog
<1> QED
  BY <1>1, <1>2

LEMMA NextClosedLog == TypeOK /\ ClosedLog /\ [Next]_vars => ClosedLog'
<1> SUFFICES ASSUME TypeOK, ClosedLog, [Next]_vars PROVE ClosedLog'
  OBVIOUS
<1> USE DEF EventTypes
<1>1. /\ NoProviderId \in Refs /\ ProviderIds \subseteq Refs
      /\ \A type \in EventTypes, ref \in Refs :
             ClosingEvent(Event(type, ref)) =>
                 type \in {"payment.failed", "payment.voided", "payment.chargeback"}
  BY DEF Refs, ClosingEvent, Event
<1>2. CASE MarkActionRequired
  BY <1>1, <1>2, EventsTyped, MoveKeepsClosedLog DEF MarkActionRequired
<1>3. CASE Fail
  BY <1>1, <1>3, EventsTyped, MoveKeepsClosedLog DEF Fail, Terminal
<1>4. CASE Void
  BY <1>1, <1>4, EventsTyped, MoveKeepsClosedLog DEF Void, Terminal
<1>5. CASE Chargeback
  BY <1>1, <1>5, EventsTyped, MoveKeepsClosedLog DEF Chargeback, Terminal
<1>6. CASE DrainEvents
  <2>1. Log \in Seq(Events)
    BY DEF TypeOK, Log
  <2>2. Log' = Log
    BY <1>6, <2>1 DEF DrainEvents, Log
  <2> QED
    BY <1>6, <2>2 DEF DrainEvents, ClosedLog, ClosingEvent
<1>7. ASSUME NEW ref \in ProviderIds, Authorize(ref) PROVE ClosedLog'
  BY <1>1, <1>7, EventsTyped, MoveKeepsClosedLog DEF Authorize
<1>8. ASSUME NEW ref \in Refs, Capture(ref) PROVE ClosedLog'
  <2> DEFINE kept == IF ref = NoProviderId THEN providerPaymentId ELSE ref
             event == Event("payment.captured", kept)
  <2>1. kept \in Refs
    BY DEF TypeOK
  <2>2. Move("CAPTURED", kept, event)
    BY <1>8 DEF Capture
  <2>3. event \in Events /\ ~ClosingEvent(event)
    BY <1>1, <2>1, EventsTyped
  <2> HIDE DEF event
  <2> QED
    BY <2>2, <2>3, MoveKeepsClosedLog
<1>9. ASSUME NEW minor \in 0 .. Amount + 1, NEW currency \in Currencies,
             Refund(minor, currency)
      PROVE  ClosedLog'
  BY <1>9, RefundKeepsClosedLog
<1>10. CASE UNCHANGED vars
  BY <1>10 DEF vars, ClosedLog, ClosingEvent, Log
<1> QED
  BY <1>2, <1>3, <1>4, <1>5, <1>6, <1>7, <1>8, <1>9, <1>10 DEF Next

\* Nothing is recorded after the event that closes the payment, over any number of
\* calls and drains.
THEOREM ClosingIsFinal == Spec => []ClosingEventIsLast
<1>1. Init => ClosedLog
  BY DEF Init, ClosedLog, ClosingEvent, Log, Event
<1>2. ClosedLog => ClosingEventIsLast
  BY DEF ClosedLog, ClosingEventIsLast
<1> QED
  BY <1>1, <1>2, InitTypeOK, NextTypeOK, NextClosedLog, PTL DEF Spec

-----------------------------------------------------------------------------
(* MoneyFlow.  A capture is the only call that takes, a refund the only one    *)
(* that gives back, and every other call either closes the payment or is not   *)
(* seen by the flow at all.                                                    *)

LEMMA MoveFlows ==
  ASSUME TypeOK, NEW dst, NEW ref, NEW event, Move(dst, ref, event),
         dst \in {"ACTION_REQUIRED", "AUTHORIZED", "CAPTURED", "FAILED", "VOIDED",
                  "CHARGEBACK"}
  PROVE  [Flow!FlowNext]_(Flow!flowVars)
<1> USE DEF Flow!flowVars, Flow!FlowNext, Flow!Take, Flow!Close, Terminal
<1>1. CASE ~CanTransition(status, dst)
  BY <1>1 DEF Move, Raise
<1>2. CASE CanTransition(status, dst) /\ dst = "CHARGEBACK"
  <2>1. status \in {"CAPTURED", "SETTLED"}
    BY <1>2, MovesOfStatus
  <2> QED
    BY <1>2, <2>1 DEF Move
<1>3. CASE CanTransition(status, dst) /\ dst # "CHARGEBACK"
  <2>1. status \in {"PENDING", "ACTION_REQUIRED", "AUTHORIZED"}
    BY <1>3, MovesOfStatus
  <2> QED
    BY <1>3, <2>1 DEF Move
<1> QED
  BY <1>1, <1>2, <1>3

LEMMA RefundFlows ==
  ASSUME TypeOK, NEW minor \in 0 .. Amount + 1, NEW currency \in Currencies,
         Refund(minor, currency)
  PROVE  [Flow!FlowNext]_(Flow!flowVars)
<1> DEFINE total == refunded + minor
<1> USE DEF Flow!flowVars, Flow!FlowNext, Flow!GiveBack, Terminal
<1>1. CASE \/ status \notin {"CAPTURED", "SETTLED"}
           \/ currency # PaymentCurrency
           \/ total > Amount
  BY <1>1 DEF Refund, Raise
<1>2. CASE /\ status \in {"CAPTURED", "SETTLED"}
           /\ currency = PaymentCurrency
           /\ ~(total > Amount)
  <2>1. CanTransition(status, "REFUNDED")
    BY <1>2, MovesOfStatus
  <2>2. /\ refunded' = total
        /\ status' = IF total = Amount THEN "REFUNDED" ELSE status
    BY <1>2, <2>1 DEF Refund
  <2>3. total \in refunded .. Amount
    BY <1>2, PaymentAssumption DEF TypeOK
  <2> QED
    BY <1>2, <2>2, <2>3
<1> QED
  BY <1>1, <1>2

\* The aggregate's methods, called in any order, move money only as MoneyFlow does.
THEOREM PaymentImplementsMoneyFlow == Spec => ImplementsMoneyFlow
<1>1. Init => Flow!FlowInit
  BY DEF Init, Flow!FlowInit, Terminal
<1>2. TypeOK /\ [Next]_vars => [Flow!FlowNext]_(Flow!flowVars)
  <2> SUFFICES ASSUME TypeOK, [Next]_vars PROVE [Flow!FlowNext]_(Flow!flowVars)
    OBVIOUS
  <2>1. CASE MarkActionRequired
    BY <2>1, MoveFlows DEF MarkActionRequired
  <2>2. CASE Fail
    BY <2>2, MoveFlows DEF Fail
  <2>3. CASE Void
    BY <2>3, MoveFlows DEF Void
  <2>4. CASE Chargeback
    BY <2>4, MoveFlows DEF Chargeback
  <2>5. CASE DrainEvents
    BY <2>5 DEF DrainEvents, Flow!flowVars
  <2>6. ASSUME NEW ref \in ProviderIds, Authorize(ref)
        PROVE  [Flow!FlowNext]_(Flow!flowVars)
    BY <2>6, MoveFlows DEF Authorize
  <2>7. ASSUME NEW ref \in Refs, Capture(ref)
        PROVE  [Flow!FlowNext]_(Flow!flowVars)
    BY <2>7, MoveFlows DEF Capture
  <2>8. ASSUME NEW minor \in 0 .. Amount + 1, NEW currency \in Currencies,
               Refund(minor, currency)
        PROVE  [Flow!FlowNext]_(Flow!flowVars)
    BY <2>8, RefundFlows
  <2>9. CASE UNCHANGED vars
    BY <2>9 DEF vars, Flow!flowVars
  <2> QED
    BY <2>1, <2>2, <2>3, <2>4, <2>5, <2>6, <2>7, <2>8, <2>9 DEF Next
<1> QED
  BY <1>1, <1>2, InitTypeOK, NextTypeOK, PTL
  DEF Spec, ImplementsMoneyFlow, Flow!FlowSpec

-----------------------------------------------------------------------------
(* What a consumer learns.  A recorded event is the last of its kinds, and the *)
(* others stay where they are; so the last refund tells the total, the last    *)
(* event that tells of a status the status, and the last that carries an id    *)
(* the provider's id.                                                          *)

LEMMA LogGrows ==
  ASSUME TypeOK, NEW event \in Events, Record(event), UNCHANGED emitted
  PROVE  /\ Len(Log) \in Nat /\ Len(Log') = Len(Log) + 1
         /\ DOMAIN Log = 1 .. Len(Log) /\ DOMAIN Log' = 1 .. Len(Log) + 1
         /\ Log'[Len(Log) + 1] = event
         /\ \A i \in 1 .. Len(Log) : Log'[i] = Log[i]
<1>1. Log \in Seq(Events)
  BY DEF TypeOK, Log
<1>2. Log' = Append(Log, event)
  BY RecordAppends
<1> QED
  BY <1>1, <1>2, RecordAppends

\* The refunds of the grown log.
LEMMA RefundsGrow ==
  ASSUME TypeOK, NEW event \in Events, Record(event), UNCHANGED emitted
  PROVE  /\ \A i \in Refunds : i \in 1 .. Len(Log) /\ i \in Refunds' /\ Log'[i] = Log[i]
         /\ \A i \in Refunds' : i \in Refunds \/ i = Len(Log) + 1
         /\ Len(Log) + 1 \in Refunds' <=> event.type = "payment.refunded"
<1>1. /\ Len(Log) \in Nat
      /\ DOMAIN Log = 1 .. Len(Log) /\ DOMAIN Log' = 1 .. Len(Log) + 1
      /\ Log'[Len(Log) + 1] = event
      /\ \A i \in 1 .. Len(Log) : Log'[i] = Log[i]
  BY LogGrows
<1> DEFINE n == Len(Log)
<1> HIDE DEF n
<1>2. \A i \in 1 .. n + 1 : i \in 1 .. n \/ i = n + 1
  BY <1>1 DEF n
<1>3. n + 1 \in 1 .. n + 1 /\ \A i \in 1 .. n : i \in 1 .. n + 1
  BY <1>1 DEF n
<1> QED
  BY <1>1, <1>2, <1>3 DEF Refunds, n

\* What the events so far told is told still, and not unsaid by an event that is no
\* refund; a refund tells its own total.
LEMMA ToldGrows ==
  ASSUME TypeOK, NEW event \in Events, Record(event), UNCHANGED emitted
  PROVE  /\ \A n \in 0 .. Len(Log) : \A total : Told(n, total) => Told(n, total)'
         /\ event.type = "payment.refunded" => Told(Len(Log), event.total)'
         /\ event.type # "payment.refunded" =>
                \A total : Told(Len(Log), total) => Told(Len(Log), total)'
<1> DEFINE l == Len(Log)
<1>1. /\ l \in Nat /\ Len(Log') = l + 1 /\ Log'[l + 1] = event
      /\ \A i \in Refunds : i \in Nat /\ i <= l /\ i \in Refunds' /\ Log'[i] = Log[i]
      /\ \A i \in Refunds' : i \in Refunds \/ i = l + 1
      /\ l + 1 \in Refunds' <=> event.type = "payment.refunded"
  BY LogGrows, RefundsGrow
<1> HIDE DEF l
<1>2. ASSUME NEW n \in 0 .. l, NEW total, Told(n, total) PROVE Told(n, total)'
  <2>1. \A i \in Refunds' : i <= n => i \in Refunds
    BY <1>1
  <2>2. CASE total = 0 /\ \A k \in Refunds : k > n
    BY <1>1, <2>1, <2>2 DEF Told
  <2>3. CASE \E j \in Refunds : LastOf(j, Refunds, n) /\ Log[j].total = total
    BY <1>1, <2>1, <2>3 DEF Told, LastOf
  <2> QED
    BY <1>2, <2>2, <2>3 DEF Told
<1>3. ASSUME event.type = "payment.refunded" PROVE Told(Len(Log), event.total)'
  <2>1. l + 1 \in Refunds' /\ \A k \in Refunds' : k <= l + 1
    BY <1>1, <1>3
  <2> QED
    BY <1>1, <2>1 DEF Told, LastOf
<1>4. ASSUME event.type # "payment.refunded", NEW total, Told(l, total)
      PROVE  Told(Len(Log), total)'
  <2>1. \A i : i \in Refunds' <=> i \in Refunds
    BY <1>1, <1>4
  <2>2. \A i \in Refunds : i \in Nat /\ i <= l /\ i <= l + 1
    BY <1>1
  <2>3. CASE total = 0 /\ \A k \in Refunds : k > l
    BY <1>1, <2>1, <2>2, <2>3 DEF Told
  <2>4. CASE \E j \in Refunds : LastOf(j, Refunds, l) /\ Log[j].total = total
    BY <1>1, <2>1, <2>2, <2>4 DEF Told, LastOf
  <2> QED
    BY <1>4, <2>3, <2>4 DEF Told
<1> QED
  BY <1>2, <1>3, <1>4 DEF l

\* An event that is no refund leaves the ledger as it is, a refund adds to it.
LEMMA RecordKeepsLedger ==
  ASSUME TypeOK, RefundLedger, NEW event \in Events, Record(event), UNCHANGED emitted,
         IF event.type = "payment.refunded"
         THEN refunded' = event.total /\ event.total - event.minor = refunded
         ELSE refunded' = refunded
  PROVE  RefundLedger'
<1> DEFINE l == Len(Log)
<1>1. /\ l \in Nat /\ Log'[l + 1] = event
      /\ \A i \in Refunds : i \in 1 .. l /\ Log'[i] = Log[i]
      /\ \A i \in Refunds' : i \in Refunds \/ i = l + 1
      /\ l + 1 \in Refunds' <=> event.type = "payment.refunded"
  BY LogGrows, RefundsGrow
<1>2. /\ \A n \in 0 .. l : \A total : Told(n, total) => Told(n, total)'
      /\ event.type = "payment.refunded" => Told(Len(Log), event.total)'
      /\ event.type # "payment.refunded" =>
             \A total : Told(l, total) => Told(Len(Log), total)'
  BY ToldGrows
<1>3. Told(Len(Log), refunded)'
  BY <1>2 DEF RefundLedger, Told, LastOf
<1>4. ASSUME NEW i \in Refunds' PROVE Told(i - 1, Log[i].total - Log[i].minor)'
  <2>1. CASE i \in Refunds
    <3>1. PICK told : told = Log[i].total - Log[i].minor /\ Told(i - 1, told)
      BY <2>1 DEF RefundLedger
    <3>2. Told(i - 1, told)'
      BY <1>1, <1>2, <2>1, <3>1
    <3>3. Log'[i].total - Log'[i].minor = told
      BY <1>1, <2>1, <3>1
    <3> QED
      BY <3>2, <3>3 DEF Told, LastOf
  <2>2. CASE i = l + 1 /\ event.type = "payment.refunded"
    <3>1. PICK told : told = refunded /\ Told(l, told)
      BY DEF RefundLedger
    <3>2. Told(i - 1, told)'
      BY <1>1, <1>2, <2>2, <3>1
    <3>3. Log'[i].total - Log'[i].minor = told
      BY <1>1, <2>2, <3>1
    <3> QED
      BY <3>2, <3>3 DEF Told, LastOf
  <2> QED
    BY <1>1, <2>1, <2>2
<1> QED
  BY <1>3, <1>4 DEF RefundLedger

\* A step that records event and leaves the payment as the event tells.
Tells(event) ==
    /\ Record(event)
    /\ UNCHANGED emitted
    /\ IF event.type = "payment.refunded"
       THEN refunded' = event.total /\ event.total - event.minor = refunded
       ELSE refunded' = refunded
    /\ IF event.type = "payment.refunded" => event.full
       THEN EventOf(status') = event.type /\ status' # "SETTLED"
       ELSE status' = status
    /\ providerPaymentId' = IF event.type \in {"payment.authorized", "payment.captured"}
                            THEN event.ref ELSE providerPaymentId

LEMMA TellsKeepsReplay ==
  ASSUME TypeOK, RefundLedger, EventsReplayPayment, NEW event \in Events, Tells(event)
  PROVE  RefundLedger' /\ EventsReplayPayment'
<1>1. RefundLedger'
  BY RecordKeepsLedger DEF Tells
<1> DEFINE l == Len(Log)
<1>2. /\ l \in Nat /\ Len(Log') = l + 1 /\ Log'[l + 1] = event
      /\ DOMAIN Log = 1 .. l /\ DOMAIN Log' = 1 .. l + 1
      /\ \A i \in 1 .. l : Log'[i] = Log[i]
      /\ \A i \in Refunds : i \in 1 .. l /\ i \in Refunds' /\ Log'[i] = Log[i]
      /\ \A i \in Refunds' : i \in Refunds \/ i = l + 1
      /\ l + 1 \in Refunds' <=> event.type = "payment.refunded"
  BY LogGrows, RefundsGrow DEF Tells
<1>3. /\ \A i \in 1 .. l + 1 : i \in 1 .. l \/ i = l + 1
      /\ \A i \in 1 .. l : i \in 1 .. l + 1 /\ i # l + 1 /\ i <= l + 1
      /\ l + 1 \in 1 .. l + 1
  BY <1>2
<1> HIDE DEF l
<1>4. \E j \in StatusEvents' : /\ LastOf(j, StatusEvents, Len(Log))'
                               /\ EventOf(status') = Log'[j].type
                               /\ status' # "SETTLED"
  <2>1. /\ \A i \in 1 .. l : i \in StatusEvents' <=> i \in StatusEvents
        /\ l + 1 \in StatusEvents' <=> (event.type = "payment.refunded" => event.full)
        /\ StatusEvents \subseteq 1 .. l /\ StatusEvents' \subseteq 1 .. l + 1
    BY <1>2, <1>3 DEF StatusEvents
  <2>2. CASE event.type = "payment.refunded" => event.full
    <3>1. \A k \in StatusEvents' : k <= l + 1
      BY <1>2, <1>3, <2>1
    <3> QED
      BY <1>2, <2>1, <2>2, <3>1 DEF Tells, LastOf
  <2>3. CASE ~(event.type = "payment.refunded" => event.full)
    <3>1. \A k : k \in StatusEvents' <=> k \in StatusEvents
      BY <1>3, <2>1, <2>3
    <3>2. PICK j \in StatusEvents : /\ LastOf(j, StatusEvents, l)
                                    /\ EventOf(status) = Log[j].type
                                    /\ status # "SETTLED"
      BY DEF EventsReplayPayment, l
    <3>3. \A k \in StatusEvents : k <= l /\ k <= l + 1
      BY <1>2, <1>3, <2>1
    <3>4. status' = status /\ Log'[j] = Log[j]
      BY <1>2, <2>1, <2>3 DEF Tells
    <3> QED
      BY <1>2, <3>1, <3>2, <3>3, <3>4 DEF LastOf
  <2> QED
    BY <2>2, <2>3
<1>5. Told(Len(Log), refunded)'
  BY <1>1 DEF RefundLedger, Told, LastOf
<1>6. IF RefEvents' = {}
      THEN providerPaymentId' = NoProviderId
      ELSE \E j \in RefEvents' : /\ LastOf(j, RefEvents, Len(Log))'
                                 /\ providerPaymentId' = Log'[j].ref
  <2>1. /\ \A i \in 1 .. l : i \in RefEvents' <=> i \in RefEvents
        /\ l + 1 \in RefEvents' <=> event.type \in {"payment.authorized", "payment.captured"}
        /\ RefEvents \subseteq 1 .. l /\ RefEvents' \subseteq 1 .. l + 1
    BY <1>2, <1>3 DEF RefEvents
  <2>2. CASE event.type \in {"payment.authorized", "payment.captured"}
    <3>1. \A k \in RefEvents' : k <= l + 1
      BY <1>2, <1>3, <2>1
    <3> QED
      BY <1>2, <2>1, <2>2, <3>1 DEF Tells, LastOf
  <2>3. CASE event.type \notin {"payment.authorized", "payment.captured"}
    <3>1. \A k : k \in RefEvents' <=> k \in RefEvents
      BY <1>3, <2>1, <2>3
    <3>2. providerPaymentId' = providerPaymentId
      BY <2>3 DEF Tells
    <3>3. CASE RefEvents = {}
      BY <3>1, <3>2, <3>3 DEF EventsReplayPayment
    <3>4. CASE RefEvents # {}
      <4>1. PICK j \in RefEvents : /\ LastOf(j, RefEvents, l)
                                   /\ providerPaymentId = Log[j].ref
        BY <3>4 DEF EventsReplayPayment, l
      <4>2. \A k \in RefEvents : k <= l /\ k <= l + 1
        BY <1>2, <1>3, <2>1
      <4>3. Log'[j] = Log[j]
        BY <1>2, <2>1
      <4> QED
        BY <1>2, <3>1, <3>2, <3>4, <4>1, <4>2, <4>3 DEF LastOf
    <3> QED
      BY <3>3, <3>4
  <2> QED
    BY <2>2, <2>3
<1> QED
  BY <1>1, <1>4, <1>5, <1>6 DEF EventsReplayPayment, LastOf, Told

\* A call that raises, and a drain, record nothing.
LEMMA SameLogKeepsReplay ==
  ASSUME RefundLedger, EventsReplayPayment, Log' = Log,
         UNCHANGED <<status, refunded, providerPaymentId>>
  PROVE  RefundLedger' /\ EventsReplayPayment'
  BY DEF RefundLedger, EventsReplayPayment, Told, LastOf, Refunds, StatusEvents, RefEvents

LEMMA MoveKeepsReplay ==
  ASSUME TypeOK, RefundLedger, EventsReplayPayment,
         NEW dst, dst # "SETTLED", dst # "REFUNDED", NEW ref, NEW event \in Events,
         Move(dst, ref, event), event.type = EventOf(dst),
         ref = IF event.type \in {"payment.authorized", "payment.captured"}
               THEN event.ref ELSE providerPaymentId
  PROVE  RefundLedger' /\ EventsReplayPayment'
<1>1. CASE CanTransition(status, dst)
  <2>1. event.type # "payment.refunded"
    BY DEF EventOf
  <2>2. Tells(event)
    BY <1>1, <2>1 DEF Move, Tells
  <2> QED
    BY <2>2, TellsKeepsReplay
<1>2. CASE ~CanTransition(status, dst)
  <2>1. Log' = Log
    BY <1>2 DEF Move, Raise, Log
  <2> QED
    BY <1>2, <2>1, SameLogKeepsReplay DEF Move, Raise
<1> QED
  BY <1>1, <1>2

LEMMA RefundKeepsReplay ==
  ASSUME TypeOK, RefundLedger, EventsReplayPayment,
         NEW minor \in 0 .. Amount + 1, NEW currency \in Currencies,
         Refund(minor, currency)
  PROVE  RefundLedger' /\ EventsReplayPayment'
<1> DEFINE total == refunded + minor
<1>1. CASE \/ status \notin {"CAPTURED", "SETTLED"}
           \/ currency # PaymentCurrency
           \/ total > Amount
  <2>1. UNCHANGED <<status, refunded, providerPaymentId, pending, emitted>>
    BY <1>1 DEF Refund, Raise
  <2> QED
    BY <2>1, SameLogKeepsReplay DEF Log
<1>2. CASE /\ status \in {"CAPTURED", "SETTLED"}
           /\ currency = PaymentCurrency
           /\ ~(total > Amount)
  <2> DEFINE event == RefundEvent(minor, total)
  <2>1. total \in Nat /\ minor \in Nat /\ total - minor = refunded
    BY PaymentAssumption DEF TypeOK
  <2>2. /\ event \in Events /\ event.type = "payment.refunded"
        /\ event.total = total /\ event.minor = minor
        /\ event.full <=> total = Amount
    BY <2>1, EventsTyped DEF RefundEvent
  <2>3. CanTransition(status, "REFUNDED")
    BY <1>2, MovesOfStatus
  <2>4. /\ refunded' = total
        /\ status' = IF total = Amount THEN "REFUNDED" ELSE status
        /\ Record(event)
        /\ UNCHANGED <<providerPaymentId, emitted>>
    BY <1>2, <2>3 DEF Refund
  <2>5. EventOf("REFUNDED") = "payment.refunded"
    BY DEF EventOf
  <2> HIDE DEF event, total
  <2>6. Tells(event)
    BY <2>1, <2>2, <2>4, <2>5 DEF Tells
  <2> QED
    BY <2>2, <2>6, TellsKeepsReplay
<1> QED
  BY <1>1, <1>2

LEMMA NextReplays ==
  TypeOK /\ RefundLedger /\ EventsReplayPayment /\ [Next]_vars =>
      RefundLedger' /\ EventsReplayPayment'
<1> SUFFICES ASSUME TypeOK, RefundLedger, EventsReplayPayment, [Next]_vars
             PROVE  RefundLedger' /\ EventsReplayPayment'
  OBVIOUS
<1>1. /\ NoProviderId \in Refs /\ ProviderIds \subseteq Refs
      /\ \A type \in EventTypes, ref \in Refs :
             /\ Event(type, ref) \in Events
             /\ Event(type, ref).type = type /\ Event(type, ref).ref = ref
  BY EventsTyped DEF Refs, Event
<1> USE DEF EventTypes, EventOf
<1>2. CASE MarkActionRequired
  BY <1>1, <1>2, MoveKeepsReplay DEF MarkActionRequired
<1>3. CASE Fail
  BY <1>1, <1>3, MoveKeepsReplay DEF Fail
<1>4. CASE Void
  BY <1>1, <1>4, MoveKeepsReplay DEF Void
<1>5. CASE Chargeback
  BY <1>1, <1>5, MoveKeepsReplay DEF Chargeback
<1>6. CASE DrainEvents
  <2>1. Log \in Seq(Events)
    BY DEF TypeOK, Log
  <2>2. Log' = Log
    BY <1>6, <2>1 DEF DrainEvents, Log
  <2> QED
    BY <1>6, <2>2, SameLogKeepsReplay DEF DrainEvents
<1>7. ASSUME NEW ref \in ProviderIds, Authorize(ref)
      PROVE  RefundLedger' /\ EventsReplayPayment'
  BY <1>1, <1>7, MoveKeepsReplay DEF Authorize
<1>8. ASSUME NEW ref \in Refs, Capture(ref)
      PROVE  RefundLedger' /\ EventsReplayPayment'
  <2> DEFINE kept == IF ref = NoProviderId THEN providerPaymentId ELSE ref
             event == Event("payment.captured", kept)
  <2>1. kept \in Refs
    BY DEF TypeOK
  <2>2. Move("CAPTURED", kept, event)
    BY <1>8 DEF Capture
  <2>3. event \in Events /\ event.type = "payment.captured" /\ event.ref = kept
    BY <1>1, <2>1
  <2> HIDE DEF event, kept
  <2> QED
    BY <2>2, <2>3, MoveKeepsReplay
<1>9. ASSUME NEW minor \in 0 .. Amount + 1, NEW currency \in Currencies,
             Refund(minor, currency)
      PROVE  RefundLedger' /\ EventsReplayPayment'
  BY <1>9, RefundKeepsReplay
<1>10. CASE UNCHANGED vars
  BY <1>10, SameLogKeepsReplay DEF vars, Log
<1> QED
  BY <1>2, <1>3, <1>4, <1>5, <1>6, <1>7, <1>8, <1>9, <1>10 DEF Next

LEMMA InitReplays == Init => RefundLedger /\ EventsReplayPayment
<1> SUFFICES ASSUME Init PROVE RefundLedger /\ EventsReplayPayment
  OBVIOUS
<1>1. Log = <<Event("payment.created", NoProviderId)>>
  BY DEF Init, Log
<1>2. /\ Len(Log) = 1 /\ DOMAIN Log = {1}
      /\ Log[1].type = "payment.created"
  BY <1>1 DEF Event
<1>3. Refunds = {} /\ RefEvents = {} /\ StatusEvents = {1}
  BY <1>2 DEF Refunds, RefEvents, StatusEvents
<1>4. EventOf("PENDING") = "payment.created"
  BY DEF EventOf
<1> QED
  BY <1>2, <1>3, <1>4 DEF Init, RefundLedger, EventsReplayPayment, Told, LastOf

\* The refund events add up to the refunded total, over any sequence of partial
\* refunds, rejected calls and drains.
THEOREM RefundsAddUp == Spec => []RefundLedger
  BY InitTypeOK, NextTypeOK, InitReplays, NextReplays, PTL DEF Spec

\* The event stream alone tells the status, the refunded total and the provider's id
\* of the payment, whatever methods were called, with whatever arguments.
THEOREM EventsTellThePayment == Spec => []EventsReplayPayment
  BY InitTypeOK, NextTypeOK, InitReplays, NextReplays, PTL DEF Spec
=============================================================================
