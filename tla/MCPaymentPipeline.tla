-------------------------- MODULE MCPaymentPipeline --------------------------
(* Two requests with one Idempotency-Key and one relay.                      *)
EXTENDS PaymentPipeline

MCCalls    == {1, 2}
MCKeyOf    == [r \in MCCalls |-> "shared"]
MCFirstId  == [r \in MCCalls |-> 2 * r]

\* Of the one payment that may be committed under the key: if it is the first request's,
\* the publication of its events raises, of the first for ever and of the second once; if
\* it is the second request's, the batches with its events are rolled back.
MCMaxErrors    == [i \in OutboxIds |-> IF i \in IdsOf(1) THEN 1 ELSE 0]
MCMaxRollbacks == [i \in OutboxIds |-> IF i \in IdsOf(2) THEN 1 ELSE 0]

\* One status, mapped: the charge was made.
OneStatus    == {"succeeded"}
OneStatusMap == [succeeded |-> "CAPTURED"]
=============================================================================
