----------------------------- MODULE OutboxRelay -----------------------------
(***************************************************************************)
(* OutboxRelay (infrastructure/outbox/relay.py): several relays poll the   *)
(* outbox table with FOR UPDATE SKIP LOCKED, publish what they claimed and *)
(* mark it in one database transaction per batch.  A publish may raise,    *)
(* whether or not the broker took the message; a batch may be rolled back  *)
(* at any await.  Rows become visible when the transaction that wrote them *)
(* commits, which need not be in the order of their ids.                   *)
(***************************************************************************)
EXTENDS Naturals, FiniteSets

CONSTANTS Rows,         \* the ids the outbox sequence has given out
          PaymentOf,    \* PaymentOf[i]: the aggregate_id of row i
          Relays,
          Batch,        \* batch_size
          Poison,       \* the rows whose publication always raises
          MaxErrors,    \* BOUND: MaxErrors[i], how often the publication of row i raises
          MaxRollbacks  \* BOUND: MaxRollbacks[i], how often a claim on row i is rolled back

ASSUME RelayAssumption ==
    /\ Rows \subseteq Nat
    /\ DOMAIN PaymentOf = Rows
    /\ Batch \in Nat \ {0}
    /\ Poison \subseteq Rows
    /\ MaxErrors \in [Rows -> Nat] /\ \A i \in Poison : MaxErrors[i] > 0
    /\ MaxRollbacks \in [Rows -> Nat]

VARIABLES committed, \* the rows whose transaction has committed
          published, \* the rows with a published_at
          claim,     \* claim[w]: the rows relay w has locked
          todo,      \* todo[w]: those its loop has not reached
          raised,    \* raised[w]: those with a dead letter in its open transaction
          dead,      \* the rows with an outbox_dead_letter row
          copies,    \* copies[i]: messages of row i on the topic
          errors,    \* errors[i]: how often the publication of row i raised
          rollbacks  \* rollbacks[i]: how often a claim on row i was rolled back

relayVars == <<committed, published, claim, todo, raised, dead, copies, errors, rollbacks>>

Init == /\ committed = {}
        /\ published = {}
        /\ claim = [w \in Relays |-> {}]
        /\ todo = [w \in Relays |-> {}]
        /\ raised = [w \in Relays |-> {}]
        /\ dead = {}
        /\ copies = [i \in Rows |-> 0]
        /\ errors = [i \in Rows |-> 0]
        /\ rollbacks = [i \in Rows |-> 0]

\* outbox.add_many: the rows of one payment's events, all at once.
TransactionCommits(i) ==
    /\ i \notin committed
    /\ committed' = committed \cup {j \in Rows : PaymentOf[j] = PaymentOf[i]}
    /\ UNCHANGED <<published, claim, todo, raised, dead, copies, errors, rollbacks>>

Claimed == UNION {claim[w] : w \in Relays}
Unpublished == committed \ published

\* A mutant of Claimable: the rows another relay has locked are not skipped.
ClaimableUnlocked == Unpublished

\* WHERE published_at IS NULL ... FOR UPDATE SKIP LOCKED
Claimable == Unpublished \ Claimed

\* A mutant of FirstRows: LIMIT without ORDER BY.
FirstRowsUnordered(S) ==
    {T \in SUBSET S : Cardinality(T) = IF Cardinality(S) < Batch THEN Cardinality(S) ELSE Batch}

\* ORDER BY id LIMIT batch_size, as the set of the results it may have: one.
FirstRows(S) == {{i \in S : Cardinality({j \in S : j < i}) < Batch}}

\* _drain_batch opens its transaction and finds rows.
Fetch(w) == /\ claim[w] = {}
            /\ Claimable # {}
            /\ \E T \in FirstRows(Claimable) :
                   /\ claim' = [claim EXCEPT ![w] = T]
                   /\ todo' = [todo EXCEPT ![w] = T]
            /\ UNCHANGED <<committed, published, raised, dead, copies, errors, rollbacks>>

\* _drain_batch finds none, and run sleeps.
Poll(w) == /\ claim[w] = {}
           /\ Claimable = {}
           /\ UNCHANGED relayVars

\* The row the loop of w is at: its rows come in id order.
IsNext(w, i) == i \in todo[w] /\ \A j \in todo[w] : i <= j

\* The broker acknowledges, and the UPDATE stays in the open transaction.
Publish(w, i) == /\ IsNext(w, i)
                 /\ i \notin Poison
                 /\ todo' = [todo EXCEPT ![w] = @ \ {i}]
                 /\ copies' = [copies EXCEPT ![i] = @ + 1]
                 /\ UNCHANGED <<committed, published, claim, raised, dead, errors, rollbacks>>

\* A mutant of PublishFails: the loop stops at the first row that raises.
PublishFailsStops(w, i) ==
    /\ IsNext(w, i)
    /\ i \in Poison \/ errors[i] < MaxErrors[i]
    /\ todo' = [todo EXCEPT ![w] = {}]
    /\ raised' = [raised EXCEPT ![w] = @ \cup todo[w]]
    /\ errors' = [errors EXCEPT ![i] = IF @ < MaxErrors[i] THEN @ + 1 ELSE @]
    /\ UNCHANGED <<committed, published, claim, dead, copies, rollbacks>>

\* The publish raises, though the broker may have the message; the dead letter is
\* inserted in the open transaction and the loop goes on.  The count of a poisonous
\* row stops at its bound, its publications do not.
PublishFails(w, i) ==
    /\ IsNext(w, i)
    /\ i \in Poison \/ errors[i] < MaxErrors[i]
    /\ todo' = [todo EXCEPT ![w] = @ \ {i}]
    /\ raised' = [raised EXCEPT ![w] = @ \cup {i}]
    /\ errors' = [errors EXCEPT ![i] = IF @ < MaxErrors[i] THEN @ + 1 ELSE @]
    /\ \/ UNCHANGED copies
       \/ i \notin Poison /\ copies' = [copies EXCEPT ![i] = @ + 1]
    /\ UNCHANGED <<committed, published, claim, dead, rollbacks>>

\* The transaction is over and its locks are gone.
Release(w) == /\ claim' = [claim EXCEPT ![w] = {}]
              /\ todo' = [todo EXCEPT ![w] = {}]
              /\ raised' = [raised EXCEPT ![w] = {}]

\* A mutant of CommitBatch: the whole batch is marked, dead letters included.
CommitBatchWhole(w) == /\ claim[w] # {}
                       /\ todo[w] = {}
                       /\ published' = published \cup claim[w]
                       /\ dead' = dead \cup raised[w]
                       /\ Release(w)
                       /\ UNCHANGED <<committed, copies, errors, rollbacks>>

\* A mutant of CommitBatch: a failed publish is only logged.
CommitBatchSilently(w) == /\ claim[w] # {}
                          /\ todo[w] = {}
                          /\ published' = published \cup (claim[w] \ raised[w])
                          /\ Release(w)
                          /\ UNCHANGED <<committed, dead, copies, errors, rollbacks>>

\* The transaction of the batch ends: the marks and the dead letters together.  A
\* dead-lettered row keeps published_at NULL, so the next batch has it again.
CommitBatch(w) == /\ claim[w] # {}
                  /\ todo[w] = {}
                  /\ published' = published \cup (claim[w] \ raised[w])
                  /\ dead' = dead \cup raised[w]
                  /\ Release(w)
                  /\ UNCHANGED <<committed, copies, errors, rollbacks>>

\* A mutant of BatchFails: the marks were committed row by row.
BatchFailsMarked(w) ==
    /\ claim[w] # {}
    /\ \A i \in claim[w] : rollbacks[i] < MaxRollbacks[i]
    /\ published' = published \cup claim[w]
    /\ rollbacks' = [i \in Rows |-> IF i \in claim[w] THEN rollbacks[i] + 1 ELSE rollbacks[i]]
    /\ Release(w)
    /\ UNCHANGED <<committed, dead, copies, errors>>

\* The process stops, or a statement or the commit raises: the database forgets the
\* batch, the broker does not.  run logs it and starts over.
BatchFails(w) ==
    /\ claim[w] # {}
    /\ \A i \in claim[w] : rollbacks[i] < MaxRollbacks[i]
    /\ rollbacks' = [i \in Rows |-> IF i \in claim[w] THEN rollbacks[i] + 1 ELSE rollbacks[i]]
    /\ Release(w)
    /\ UNCHANGED <<committed, published, dead, copies, errors>>

RelayStep(w) == \/ Fetch(w) \/ CommitBatch(w)
                \/ \E i \in Rows : Publish(w, i) \/ PublishFails(w, i)

Next == \/ \E i \in Rows : TransactionCommits(i)
        \/ \E w \in Relays : RelayStep(w) \/ Poll(w) \/ BatchFails(w)

\* run never ends and awaits nothing without a timeout; a relay that stopped is
\* started again.
Fairness == \A w \in Relays : WF_relayVars(RelayStep(w))

Spec == Init /\ [][Next]_relayVars /\ Fairness

-----------------------------------------------------------------------------
\* The shape of the tables, of the topic and of the open transactions: a relay has
\* rows left to handle, or dead letters to write, only of the batch it has locked.
RelayTypeOK == /\ committed \subseteq Rows
               /\ published \subseteq Rows
               /\ claim \in [Relays -> SUBSET Rows]
               /\ todo \in [Relays -> SUBSET Rows]
               /\ raised \in [Relays -> SUBSET Rows]
               /\ \A w \in Relays : todo[w] \cup raised[w] \subseteq claim[w]
               /\ dead \subseteq Rows
               /\ copies \in [Rows -> Nat]
               /\ errors \in [Rows -> Nat]
               /\ rollbacks \in [Rows -> Nat]
               /\ \A i \in Rows : errors[i] <= MaxErrors[i] /\ rollbacks[i] <= MaxRollbacks[i]

\* A consumer sees a second copy of an event only because a publish of it raised or
\* a batch with it was rolled back: relays that run side by side duplicate nothing
\* (FOR UPDATE SKIP LOCKED, the UPDATE after each publish).
CopiesNeedFailures ==
    \A i \in Rows : copies[i] <= 1 + errors[i] + rollbacks[i]

\* A failed publication is not lost from sight: once no relay holds the row, it has
\* a dead letter, unless the batch that would have written it was rolled back.
FailuresAreVisible ==
    \A i \in Rows : errors[i] > 0 /\ i \notin Claimed => i \in dead \/ rollbacks[i] > 0

\* The events of one payment reach the topic in the order they were recorded.  One
\* overtakes another only if the earlier one has failed before or is in the hands
\* of another relay at that moment.
OvertakenForAReason ==
    [][\A i, j \in Rows :
          /\ i < j
          /\ PaymentOf[i] = PaymentOf[j]
          /\ copies[i] = 0
          /\ copies[j] = 0 /\ copies'[j] > 0
          => \/ errors[i] > 0 \/ rollbacks[i] > 0
             \/ \E w \in Relays : i \in claim[w] /\ j \notin claim[w]]_relayVars

\* The relays implement at-least-once delivery: nothing that was not committed goes
\* out, no row is marked that did not go out, and no marked row goes out again.
Delivery == INSTANCE EventDelivery WITH
                Events <- Rows, recorded <- committed, settled <- published

ImplementsEventDelivery == Delivery!DeliverySpec

\* Every committed event that can be published is, whatever failed before.
HealthyRowsGoOut == \A i \in Rows \ Poison : i \in committed ~> i \in published

-----------------------------------------------------------------------------
\* "outbox_dead_letter catches messages that fail to publish after N attempts"
\* (ARCHITECTURE.md:406), "outbox row moved to dead letter" (relay.py:89): once every
\* row that cannot be published has its dead letter, the others go out.
DeadLettersStepAside ==
    \A i \in Rows \ Poison : (i \in committed /\ Poison \subseteq dead) ~> i \in published
=============================================================================
