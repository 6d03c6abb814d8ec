------------------------ MODULE PaymentPipelineProofs ------------------------
(***************************************************************************)
(* Proofs about PaymentPipeline, for any number of requests, keys, relays  *)
(* and any batch size: what is proved of the use case alone holds of it in *)
(* the pipeline, what is proved of the relays holds when the use case      *)
(* feeds them, and together they announce what was committed and keep the  *)
(* promises of PaymentPromises.                                            *)
(***************************************************************************)
EXTENDS PaymentPipeline, CreatePaymentProofs

\* The relays of the pipeline with what is proved of them.
R == INSTANCE OutboxRelayProofs WITH
         Rows <- OutboxIds,
         PaymentOf <- [i \in OutboxIds |-> CHOOSE r \in Requests : i \in IdsOf(r)],
         committed <- Visible

\* The pipeline's use case is the use case: all that is proved of it holds here.
THEOREM PipelineCreates == PipelineSpec => Spec
<1>1. PipelineInit => Init
  BY DEF PipelineInit
<1>2. [PipelineNext]_pipelineVars => [Next]_vars
  BY DEF PipelineNext, CreateMoves, RelayMoves, RelayFails, pipelineVars
<1> QED
  BY <1>1, <1>2, PTL DEF PipelineSpec, PipelineFairness, Spec

-----------------------------------------------------------------------------
(* The ids of the rows. *)

Earlier(n) == {m \in 1 .. n - 1 : outbox[m].payment = outbox[n].payment}

LEMMA IdOf == \A n : IdAt(n) = FirstId[outbox[n].payment] + Cardinality(Earlier(n))
  BY DEF IdAt, Earlier

\* A row's payment is committed, and has the types of rows its status calls for, each
\* once.
LEMMA RowsAreOfPayments ==
  ASSUME Typed, TransactionalOutbox, NEW n \in DOMAIN outbox
  PROVE  /\ n \in Nat \ {0} /\ 1 .. n - 1 \subseteq DOMAIN outbox
         /\ outbox[n].payment \in Requests
         /\ payments[outbox[n].payment] # None
         /\ outbox[n].type \in {"payment.created", EventOf(payments[outbox[n].payment])}
         /\ \A m \in DOMAIN outbox :
                outbox[m].payment = outbox[n].payment /\ outbox[m].type = outbox[n].type
                    => m = n
<1> DEFINE r == outbox[n].payment
           Row == [payment: Requests, type: EventTypes]
<1>1. outbox \in Seq(Row)
  BY DEF Typed, TypeOK
<1>2. DOMAIN outbox = 1 .. Len(outbox) /\ Len(outbox) \in Nat /\ outbox[n] \in Row
  BY <1>1, LenProperties, ElementOfSeq
<1>3. r \in Requests /\ n \in RowsFor(r)
  BY <1>2 DEF RowsFor
<1>4. WholeFor(r)
  BY <1>3, WholeIsTransactional
<1>5. payments[r] # None
  BY <1>3, <1>4 DEF WholeFor
<1>6. ASSUME NEW m \in DOMAIN outbox, outbox[m].payment = r, outbox[m].type = outbox[n].type
      PROVE  m = n
  <2>1. m \in RowsFor(r)
    BY <1>6 DEF RowsFor
  <2> QED
    BY <1>3, <1>4, <1>5, <1>6, <2>1 DEF WholeFor
<1>7. outbox[n].type \in {"payment.created", EventOf(payments[r])}
  BY <1>3, <1>4, <1>5 DEF WholeFor
<1>8. n \in Nat \ {0} /\ 1 .. n - 1 \subseteq DOMAIN outbox
  BY <1>2
<1> QED
  BY <1>3, <1>5, <1>6, <1>7, <1>8

\* At most one row of a payment comes before another.
LEMMA EarlierIsOne ==
  ASSUME Typed, TransactionalOutbox, NEW n \in DOMAIN outbox, Earlier(n) # {}
  PROVE  \E m \in DOMAIN outbox : /\ Earlier(n) = {m} /\ Earlier(m) = {}
                                  /\ outbox[m].payment = outbox[n].payment
<1> PICK m \in Earlier(n) : TRUE
  OBVIOUS
<1> DEFINE r == outbox[n].payment
<1>1. n \in Nat \ {0} /\ 1 .. n - 1 \subseteq DOMAIN outbox
  BY RowsAreOfPayments
<1>2. m \in DOMAIN outbox /\ m \in 1 .. n - 1 /\ outbox[m].payment = r
  BY <1>1 DEF Earlier
<1>3. ASSUME NEW k \in DOMAIN outbox, outbox[k].payment = r, k # n
      PROVE  k = m
  <2>1. /\ outbox[n].type \in {"payment.created", EventOf(payments[r])}
        /\ outbox[k].type \in {"payment.created", EventOf(payments[r])}
        /\ outbox[m].type \in {"payment.created", EventOf(payments[r])}
    BY <1>2, <1>3, RowsAreOfPayments
  <2>2. m # n
    BY <1>1, <1>2
  <2>3. outbox[k].type # outbox[n].type /\ outbox[m].type # outbox[n].type
    BY <1>2, <1>3, <2>2, RowsAreOfPayments
  <2>4. outbox[k].type = outbox[m].type
    BY <2>1, <2>3
  <2> QED
    BY <1>2, <1>3, <2>4, RowsAreOfPayments
<1>4. Earlier(n) = {m}
  BY <1>1, <1>2, <1>3 DEF Earlier
<1>5. Earlier(m) = {}
  <2>1. m \in Nat /\ 1 .. m - 1 \subseteq DOMAIN outbox
    BY <1>2, RowsAreOfPayments
  <2>2. ASSUME NEW k \in Earlier(m)
        PROVE  FALSE
    <3>1. k \in DOMAIN outbox /\ k \in 1 .. m - 1 /\ outbox[k].payment = r
      BY <1>2, <2>1 DEF Earlier
    <3>2. k # n /\ k # m
      BY <1>1, <1>2, <2>1, <3>1
    <3> QED
      BY <1>3, <3>1, <3>2
  <2> QED
    BY <2>2
<1> QED
  BY <1>2, <1>4, <1>5

\* So the ids given out for a payment are enough, and none is given to another.
LEMMA IdsFit ==
  ASSUME Typed, TransactionalOutbox, NEW n \in DOMAIN outbox
  PROVE  /\ IdAt(n) \in IdsOf(outbox[n].payment)
         /\ IdAt(n) = FirstId[outbox[n].payment] + (IF Earlier(n) = {} THEN 0 ELSE 1)
<1>1. outbox[n].payment \in Requests /\ FirstId[outbox[n].payment] \in Nat
  BY RowsAreOfPayments, PipelineAssumption
<1>2. CASE Earlier(n) = {}
  <2>1. Cardinality(Earlier(n)) = 0
    BY <1>2, FS_EmptySet
  <2>2. IdAt(n) = FirstId[outbox[n].payment]
    BY <1>1, <2>1, IdOf
  <2> QED
    BY <1>1, <1>2, <2>2 DEF IdsOf
<1>3. CASE Earlier(n) # {}
  <2>1. PICK m : Earlier(n) = {m}
    BY <1>3, EarlierIsOne
  <2>2. Cardinality(Earlier(n)) = 1
    BY <2>1, FS_Singleton
  <2> QED
    BY <1>1, <1>3, <2>2, IdOf DEF IdsOf
<1> QED
  BY <1>2, <1>3

LEMMA VisibleIds ==
  ASSUME Typed, TransactionalOutbox
  PROVE  Visible \subseteq OutboxIds
  BY IdsFit, RowsAreOfPayments DEF Visible, OutboxIds

\* The payment a row belongs to.
LEMMA OwnerOf ==
  ASSUME NEW r \in Requests, NEW i \in IdsOf(r)
  PROVE  (CHOOSE q \in Requests : i \in IdsOf(q)) = r
  BY PipelineAssumption

\* No row of a payment is visible before an earlier one.
LEMMA VisibleInOrder ==
  ASSUME Typed, TransactionalOutbox
  PROVE  R!Together
<1> SUFFICES ASSUME NEW i \in Visible, NEW j \in OutboxIds, j < i,
                    (CHOOSE r \in Requests : i \in IdsOf(r))
                        = (CHOOSE r \in Requests : j \in IdsOf(r))
             PROVE  j \in Visible
  BY VisibleIds DEF R!Together
<1>1. PICK n \in DOMAIN outbox : i = IdAt(n)
  BY DEF Visible
<1> DEFINE r == outbox[n].payment
<1>2. r \in Requests /\ i \in IdsOf(r) /\ FirstId[r] \in Nat
      /\ i = FirstId[r] + (IF Earlier(n) = {} THEN 0 ELSE 1)
  BY <1>1, IdsFit, RowsAreOfPayments, PipelineAssumption
<1>3. PICK q \in Requests : j \in IdsOf(q)
  BY DEF OutboxIds
<1>4. q = r
  <2>1. (CHOOSE p \in Requests : i \in IdsOf(p)) = r
    BY <1>2, OwnerOf
  <2>2. (CHOOSE p \in Requests : j \in IdsOf(p)) = q
    BY <1>3, OwnerOf
  <2> QED
    BY <2>1, <2>2
<1>5. j = FirstId[r] /\ Earlier(n) # {}
  BY <1>2, <1>3, <1>4 DEF IdsOf
<1>6. PICK m \in DOMAIN outbox : Earlier(m) = {} /\ outbox[m].payment = r
  BY <1>5, EarlierIsOne
<1>7. IdAt(m) = j
  BY <1>2, <1>5, <1>6, IdsFit
<1> QED
  BY <1>7 DEF Visible

\* A row stays where it is and keeps its id when others are committed after it.
LEMMA RowsStay ==
  ASSUME Typed, [Next]_vars, NEW n \in DOMAIN outbox
  PROVE  n \in DOMAIN outbox' /\ outbox'[n] = outbox[n] /\ IdAt(n)' = IdAt(n)
<1>1. CASE UNCHANGED dbVars
  BY <1>1 DEF dbVars, IdAt
<1>2. CASE ~UNCHANGED dbVars
  <2>1. PICK r \in Requests : Commit(r)
    BY <1>2, OnlyCommitStores
  <2>2. uow[r] \in Work
    BY <2>1 DEF Commit, Typed, TypeOK, PhaseTyped
  <2>3. /\ DOMAIN outbox = 1 .. Len(outbox) /\ Len(outbox) \in Nat
        /\ DOMAIN outbox' = 1 .. Len(outbox) + Len(uow[r].events)
        /\ \A m \in DOMAIN outbox : outbox'[m] = outbox[m]
    BY <2>1, <2>2, RowsAppended DEF Commit
  <2>4. Len(uow[r].events) \in Nat
    BY <2>2 DEF Work
  <2>5. n \in DOMAIN outbox' /\ outbox'[n] = outbox[n]
    BY <2>3, <2>4
  <2>6. \A m \in 1 .. n - 1 : outbox'[m] = outbox[m]
    BY <2>3
  <2> QED
    BY <2>5, <2>6 DEF IdAt
<1> QED
  BY <1>1, <1>2

LEMMA IdsStay ==
  ASSUME Typed, [Next]_vars
  PROVE  Visible \subseteq Visible'
  BY RowsStay DEF Visible

-----------------------------------------------------------------------------
(* The relays, fed by the use case. *)

\* OutboxRelayProofs has its own names for what OutboxRelay defines.
LEMMA SameCardinality == \A S : R!Cardinality(S) = Relay!Cardinality(S)
  BY DEF R!Cardinality, Relay!Cardinality, R!IsFiniteSet, Relay!IsFiniteSet

LEMMA SameFirstRows == \A S : R!FirstRows(S) = Relay!FirstRows(S)
  BY SameCardinality, Zenon DEF R!FirstRows, Relay!FirstRows

LEMMA SameFetch == \A w : R!Fetch(w) <=> Relay!Fetch(w)
  BY SameFirstRows DEF R!Fetch, Relay!Fetch, R!Claimable, Relay!Claimable,
     R!Unpublished, Relay!Unpublished, R!Claimed, Relay!Claimed

LEMMA SamePublish ==
  \A w, i : /\ R!Publish(w, i) <=> Relay!Publish(w, i)
            /\ R!PublishFails(w, i) <=> Relay!PublishFails(w, i)
  BY DEF R!Publish, Relay!Publish, R!PublishFails, Relay!PublishFails,
     R!IsNext, Relay!IsNext

LEMMA SameEnds ==
  \A w : /\ R!CommitBatch(w) <=> Relay!CommitBatch(w)
         /\ R!BatchFails(w) <=> Relay!BatchFails(w)
  BY DEF R!CommitBatch, Relay!CommitBatch, R!BatchFails, Relay!BatchFails,
     R!Release, Relay!Release

LEMMA RelaysAssumed == R!RelayAssumption
<1>1. OutboxIds \subseteq Nat
  BY PipelineAssumption DEF OutboxIds, IdsOf
<1> QED
  BY <1>1, PipelineAssumption DEF R!RelayAssumption

LEMMA RelaysStart == PipelineInit => R!RelayInv
<1> SUFFICES ASSUME PipelineInit
             PROVE  R!RelayInv
  OBVIOUS
<1>1. R!Init
  BY DEF PipelineInit, Relay!Init, R!Init
<1> QED
  BY <1>1, RelaysAssumed, R!RelayInit

\* What feeds the relays: the use case with its outbox as it was proved to be.
FeedSound == Typed /\ TransactionalOutbox

LEMMA FeedAlwaysSound == PipelineSpec => []FeedSound
<1>1. Typed /\ TransactionalOutbox => FeedSound
  BY DEF FeedSound
<1> QED
  BY <1>1, PipelineCreates, CreateAlwaysSound, OutboxIsTransactional, PTL

IdsAreGiven == Visible \subseteq OutboxIds

LEMMA FeedIsIds == FeedSound => IdsAreGiven
  BY VisibleIds DEF FeedSound, IdsAreGiven

LEMMA FeedIsInOrder == FeedSound => R!Together
  BY VisibleInOrder DEF FeedSound

LEMMA RelaysFed ==
  ASSUME FeedSound, FeedSound', R!RelayInv, CreateMoves
  PROVE  R!RelayInv'
<1>1. Visible \subseteq Visible'
  BY IdsStay DEF FeedSound, CreateMoves
<1>2. Visible' \subseteq OutboxIds
  <2>1. IdsAreGiven'
    BY FeedIsIds, PTL
  <2> QED
    BY <2>1 DEF IdsAreGiven
<1>3. R!Together'
  BY FeedIsInOrder, PTL
<1>4. UNCHANGED <<published, claim, todo, raised, dead, copies, errors, rollbacks>>
  BY DEF CreateMoves, relayOnlyVars
<1> QED
  BY <1>1, <1>2, <1>3, <1>4, RelaysAssumed, R!CommittedGrows

LEMMA RelaysMove ==
  ASSUME R!RelayInv, NEW w \in Relays, RelayMoves(w) \/ RelayFails(w)
  PROVE  R!RelayInv'
<1>1. CASE Relay!Fetch(w)
  BY <1>1, SameFetch, RelaysAssumed, R!FetchPreserves
<1>2. CASE Relay!CommitBatch(w)
  BY <1>2, SameEnds, RelaysAssumed, R!CommitBatchPreserves
<1>3. CASE Relay!BatchFails(w)
  BY <1>3, SameEnds, RelaysAssumed, R!BatchFailsPreserves
<1>4. ASSUME NEW i \in OutboxIds, Relay!Publish(w, i)
      PROVE  R!RelayInv'
  BY <1>4, SamePublish, RelaysAssumed, R!PublishPreserves
<1>5. ASSUME NEW i \in OutboxIds, Relay!PublishFails(w, i)
      PROVE  R!RelayInv'
  BY <1>5, SamePublish, RelaysAssumed, R!PublishFailsPreserves
<1> QED
  BY <1>1, <1>2, <1>3, <1>4, <1>5 DEF RelayMoves, RelayFails, Relay!RelayStep

LEMMA NothingMoves ==
  ASSUME R!RelayInv, UNCHANGED pipelineVars
  PROVE  R!RelayInv'
<1>1. R!RelayInv /\ [R!Next]_(R!relayVars) => R!RelayInv'
  BY RelaysAssumed, R!RelayStepPreserves
<1>2. UNCHANGED (R!relayVars)
  BY DEF pipelineVars, vars, relayOnlyVars, R!relayVars, Visible, IdAt
<1> QED
  BY <1>1, <1>2

LEMMA RelaysSound == PipelineSpec => [](FeedSound /\ R!RelayInv)
<1>1. FeedSound /\ FeedSound' /\ R!RelayInv /\ [PipelineNext]_pipelineVars => R!RelayInv'
  BY RelaysFed, RelaysMove, NothingMoves DEF PipelineNext
<1> QED
  BY <1>1, RelaysStart, FeedAlwaysSound, PTL DEF PipelineSpec

\* The tables of the relays and the topic keep their shape when the use case feeds them,
\* however often publishes raise and batches are rolled back.  A second copy of a
\* payment's event needs one of these, and a publish that raised leaves a dead letter
\* unless its batch was rolled back: as of the relays alone.
THEOREM PipelineRelays ==
  PipelineSpec => [](/\ Relay!RelayTypeOK
                     /\ Relay!CopiesNeedFailures
                     /\ Relay!FailuresAreVisible)
<1>1. R!RelayInv => Relay!RelayTypeOK /\ Relay!CopiesNeedFailures
  BY DEF R!RelayInv, R!RelayTypeOK, R!CopiesBounded, Relay!RelayTypeOK,
     Relay!CopiesNeedFailures
<1>2. R!RelayInv => Relay!FailuresAreVisible
  BY DEF R!RelayInv, R!RelayTypeOK, R!BatchSound, R!ErrorsSeen, Relay!FailuresAreVisible,
     Relay!Claimed
<1> QED
  BY <1>1, <1>2, RelaysSound, PTL

\* The events of a payment overtake each other only for a reason: that it was created is
\* not heard after what became of it, unless its publication raised before, a batch with
\* it was rolled back, or another relay has it at that moment.
THEOREM PipelineKeepsOrder == PipelineSpec => Relay!OvertakenForAReason
<1>1. ASSUME FeedSound, R!RelayInv, [PipelineNext]_pipelineVars
      PROVE  [R!OvertakesForAReason]_(Relay!relayVars)
  <2>1. CASE UNCHANGED pipelineVars \/ CreateMoves
    <3>1. UNCHANGED copies
      BY <2>1 DEF pipelineVars, CreateMoves, relayOnlyVars
    <3> QED
      BY <3>1 DEF R!OvertakesForAReason
  <2>2. ASSUME NEW w \in Relays, RelayMoves(w) \/ RelayFails(w)
        PROVE  R!OvertakesForAReason
    <3>1. R!RelayStep(w) \/ R!BatchFails(w)
      BY <2>2, SameFetch, SamePublish, SameEnds DEF RelayMoves, RelayFails,
         Relay!RelayStep, R!RelayStep
    <3>2. R!Next
      BY <3>1 DEF R!Next
    <3> QED
      BY <1>1, <3>2, RelaysAssumed, R!StepOvertakes
  <2> QED
    BY <1>1, <2>1, <2>2 DEF PipelineNext
<1>2. FeedSound /\ R!RelayInv /\ [PipelineNext]_pipelineVars
          => [R!OvertakesForAReason]_(Relay!relayVars)
  BY <1>1
<1>3. PipelineSpec => [][R!OvertakesForAReason]_(Relay!relayVars)
  BY <1>2, RelaysSound, PTL DEF PipelineSpec
<1> QED
  BY <1>3 DEF Relay!OvertakenForAReason, R!OvertakesForAReason

\* A message on the topic tells of a committed payment that it was created or is in the
\* status it has, for any number of requests and relays and any interleaving of commits,
\* batches, rollbacks and crashes.
THEOREM AnnouncementsAreTrue == PipelineSpec => []AnnouncedIsCommitted
<1>1. FeedSound /\ R!RelayInv => AnnouncedIsCommitted
  <2> SUFFICES ASSUME FeedSound, R!RelayInv, NEW i \in OutboxIds, copies[i] > 0
               PROVE  \E n \in DOMAIN outbox :
                          /\ IdAt(n) = i
                          /\ payments[outbox[n].payment] # None
                          /\ outbox[n].type \in
                                {"payment.created", EventOf(payments[outbox[n].payment])}
    BY DEF AnnouncedIsCommitted
  <2>1. i \in Visible
    BY DEF R!RelayInv, R!MarksSound
  <2>2. PICK n \in DOMAIN outbox : IdAt(n) = i
    BY <2>1 DEF Visible
  <2> QED
    BY <2>2, RowsAreOfPayments DEF FeedSound
<1> QED
  BY <1>1, RelaysSound, PTL

\* The use case and the relays implement at-least-once delivery: what is committed, and
\* nothing else, goes out before it is marked, and a committed row keeps its id, with
\* any number of raised publishes and rolled-back batches.
THEOREM PipelineDelivers == PipelineSpec => CommittedIsDelivered
<1> USE DEF Delivery!deliveryVars
<1>1. PipelineInit => Delivery!DeliveryInit
  <2>1. Init => Visible = {}
    BY DEF Init, Visible
  <2> QED
    BY <2>1 DEF PipelineInit, Relay!Init, Delivery!DeliveryInit
<1>2. ASSUME FeedSound, FeedSound', R!RelayInv, [PipelineNext]_pipelineVars
      PROVE  [Delivery!DeliveryNext]_(Delivery!deliveryVars)
  <2>1. CASE UNCHANGED pipelineVars
    BY <2>1 DEF pipelineVars, vars, relayOnlyVars, Visible, IdAt
  <2>2. CASE CreateMoves
    <3>1. Visible \subseteq Visible' /\ Visible' \subseteq OutboxIds
      <4>1. IdsAreGiven'
        BY <1>2, FeedIsIds, PTL
      <4> QED
        BY <1>2, <2>2, <4>1, IdsStay DEF FeedSound, CreateMoves, IdsAreGiven
    <3>2. Visible' \in SUBSET OutboxIds /\ Visible' = Visible \cup Visible'
      BY <3>1
    <3> QED
      BY <2>2, <3>2 DEF CreateMoves, relayOnlyVars, Delivery!RecordEvents,
         Delivery!DeliveryNext
  <2>3. ASSUME NEW w \in Relays, RelayMoves(w) \/ RelayFails(w)
        PROVE  [Delivery!DeliveryNext]_(Delivery!deliveryVars)
    <3>1. UNCHANGED Visible
      BY <2>3 DEF RelayMoves, RelayFails, vars, Visible, IdAt
    <3>2. CASE Relay!Fetch(w) \/ Relay!BatchFails(w)
      BY <3>1, <3>2 DEF Relay!Fetch, Relay!BatchFails
    <3>3. CASE Relay!CommitBatch(w)
      <4>1. claim[w] \ raised[w] \in SUBSET {i \in Visible : copies[i] > 0}
        BY <1>2, <3>3 DEF Relay!CommitBatch, R!RelayInv, R!BatchSound
      <4> QED
        BY <3>1, <3>3, <4>1 DEF Relay!CommitBatch, Delivery!Settle, Delivery!DeliveryNext
    <3>4. ASSUME NEW i \in OutboxIds, Relay!Publish(w, i) \/ Relay!PublishFails(w, i)
          PROVE  [Delivery!DeliveryNext]_(Delivery!deliveryVars)
      <4>1. i \in Visible \ published
        BY <1>2, <3>4 DEF Relay!Publish, Relay!PublishFails, Relay!IsNext, R!RelayInv,
           R!BatchSound
      <4> QED
        BY <3>1, <3>4, <4>1 DEF Relay!Publish, Relay!PublishFails, Delivery!Deliver,
           Delivery!DeliveryNext
    <3> QED
      BY <2>3, <3>2, <3>3, <3>4 DEF RelayMoves, RelayFails, Relay!RelayStep
  <2> QED
    BY <1>2, <2>1, <2>2, <2>3 DEF PipelineNext
<1>3. FeedSound /\ FeedSound' /\ R!RelayInv /\ [PipelineNext]_pipelineVars
          => [Delivery!DeliveryNext]_(Delivery!deliveryVars)
  BY <1>2
<1> QED
  BY <1>1, <1>3, RelaysSound, PTL DEF PipelineSpec, CommittedIsDelivered,
     Delivery!DeliverySpec
-----------------------------------------------------------------------------
(* What is seen from outside: the pipeline implements PaymentPromises. *)

\* No two rows have one id.
LEMMA IdsDiffer ==
  ASSUME FeedSound, NEW m \in DOMAIN outbox, NEW n \in DOMAIN outbox, IdAt(m) = IdAt(n)
  PROVE  m = n
<1> USE DEF FeedSound
<1> DEFINE r == outbox[n].payment
<1>1. /\ r \in Requests /\ outbox[m].payment \in Requests /\ FirstId[r] \in Nat
      /\ m \in Nat \ {0} /\ n \in Nat \ {0}
  BY RowsAreOfPayments, PipelineAssumption
<1>2. outbox[m].payment = r
  <2>1. IdAt(n) \in IdsOf(r) \cap IdsOf(outbox[m].payment)
    BY IdsFit
  <2> QED
    BY <1>1, <2>1, PipelineAssumption
<1>3. Earlier(m) = {} <=> Earlier(n) = {}
  BY <1>1, <1>2, IdsFit
<1>4. ASSUME NEW a \in DOMAIN outbox, NEW b \in DOMAIN outbox, a \in Earlier(b)
      PROVE  Earlier(a) = {} /\ Earlier(b) # {}
  BY <1>4, EarlierIsOne
<1>5. m \in Earlier(n) \/ n \in Earlier(m) \/ m = n
  BY <1>1, <1>2 DEF Earlier
<1> QED
  BY <1>3, <1>4, <1>5

\* So the message with the id of a row is that row.
MessagesAreRows == \A n \in DOMAIN outbox : Message(IdAt(n)) = outbox[n]

LEMMA FeedIsMessages == FeedSound => MessagesAreRows
<1> SUFFICES ASSUME FeedSound, NEW n \in DOMAIN outbox
             PROVE  Message(IdAt(n)) = outbox[n]
  BY DEF MessagesAreRows
<1>1. (CHOOSE m \in DOMAIN outbox : IdAt(m) = IdAt(n)) = n
  BY IdsDiffer
<1>2. IdAt(n) \in Visible
  BY DEF Visible
<1> QED
  BY <1>1, <1>2 DEF Message

\* What went out is a row, now and later.
OnlyRowsGoOut == \A i \in OutboxIds : copies[i] > 0 => i \in Visible

\* What a request commits does not change what was told.
LEMMA ToldStays ==
  ASSUME Typed, MessagesAreRows, MessagesAreRows', OnlyRowsGoOut, [Next]_vars,
         UNCHANGED copies
  PROVE  told' = told
<1>1. ASSUME NEW i \in OutboxIds, copies[i] > 0
      PROVE  Message(i)' = Message(i)
  <2>1. PICK n \in DOMAIN outbox : i = IdAt(n)
    BY <1>1 DEF OnlyRowsGoOut, Visible
  <2>2. n \in DOMAIN outbox' /\ outbox'[n] = outbox[n] /\ IdAt(n)' = i
    BY <2>1, RowsStay
  <2>3. Message(i) = outbox[n]
    BY <2>1 DEF MessagesAreRows
  <2>4. \A k \in DOMAIN outbox' : k = n => Message(i)' = outbox'[k]
    BY <2>2 DEF MessagesAreRows
  <2> QED
    BY <2>2, <2>3, <2>4
<1> QED
  BY <1>1 DEF told

LEMMA SaidStays ==
  ASSUME UNCHANGED decided
  PROVE  said' = said
  BY DEF said, ChargesOf

\* A request ends without a row, and its client hears so.
LEMMA RollBackAnswers ==
  ASSUME AnswerKept, NEW r \in Requests, NEW code \in ErrorAnswers, RollBack(r, code),
         pc[r] # "ended", UNCHANGED told
  PROVE  Promise!PromiseNext
<1>1. answer[r] = None
  BY DEF AnswerKept, Answered
<1>2. said' = said
  BY SaidStays DEF RollBack, egressVars
<1>3. Promise!Answer(r, code)
  BY <1>1, <1>2 DEF RollBack, dbVars, Promise!Answer
<1> QED
  BY <1>3 DEF Promise!PromiseNext

\* A commit records the payment: under a key that is free, and as what the PSP said.
LEMMA CommitRecords ==
  ASSUME Typed, WorkSound, OneHolderPerKey, NEW r \in Requests, Commit(r), UNCHANGED told
  PROVE  Promise!PromiseNext
<1> DEFINE s == uow[r].status
<1>1. /\ uow[r] # None /\ uow[r] \in Work /\ payments[r] = None
      /\ payments' = [payments EXCEPT ![r] = s]
  BY DEF Commit, Typed, TypeOK, PhaseTyped
<1>2. s \in PaymentStatuses
  BY <1>1 DEF Work
<1>3. \A q \in Requests : KeyOf[q] = KeyOf[r] => payments[q] = None
  BY <1>1 DEF OneHolderPerKey, SameKey, Holds
<1>4. s \in Successes => s \in said[r]
  BY <1>1 DEF WorkSound, SoundFor, BackedBy, said
<1>5. said' = said
  BY SaidStays DEF Commit, egressVars
<1>6. Promise!Record(r, s)
  BY <1>1, <1>3, <1>4, <1>5 DEF Commit, Promise!Record, Successes
<1> QED
  BY <1>2, <1>6 DEF Promise!PromiseNext

\* The answer to a request that was committed.
LEMMA ReplyAnswers ==
  ASSUME Typed, AnswerKept, NEW r \in Requests, Reply(r), UNCHANGED told
  PROVE  Promise!PromiseNext
<1>1. answer[r] = None /\ payments[r] # None /\ payments[r] \in PaymentStatuses
  BY DEF Reply, AnswerKept, Answered, Typed, TypeOK, PhaseTyped
<1>2. PICK a \in {payments[r], "500"} : answer' = [answer EXCEPT ![r] = a]
  BY DEF Reply
<1>3. said' = said
  BY SaidStays DEF Reply, egressVars
<1>4. Promise!Answer(r, a)
  BY <1>1, <1>2, <1>3 DEF Reply, dbVars, ErrorAnswers, Promise!Answer
<1>5. a \in PaymentStatuses \cup ErrorAnswers
  BY <1>1, <1>2 DEF ErrorAnswers
<1> QED
  BY <1>4, <1>5 DEF Promise!PromiseNext

\* An attempt reaches the PSP: it says of the payment what the status map makes of it.
LEMMA PspSays ==
  ASSUME Typed, PspStep, UNCHANGED told
  PROVE  Promise!PromiseNext \/ UNCHANGED Promise!promiseVars
<1>1. UNCHANGED <<payments, answer>>
  BY DEF PspStep, dbVars
<1>2. CASE UNCHANGED decided
  BY <1>1, <1>2, SaidStays DEF Promise!promiseVars
<1>3. CASE ~UNCHANGED decided
  <2>1. PICK m \in wire : PspActs(m[1], m[2])
    BY <1>3 DEF PspStep, Psp, PspTurnsAway
  <2>2. PICK o : decided' = decided \cup {[key |-> OutboundKey(m[1], m[2]), outcome |-> o]}
    BY <2>1 DEF PspActs
  <2> DEFINE r == m[1]
  <2>3. r \in Requests /\ OutboundKey(m[1], m[2])[1] = r
    BY DEF Typed, TypeOK, EgressTypeOK, Requests, OutboundKey
  <2>4. CASE o \in DOMAIN StatusMap
    <3>1. o # "declined" /\ StatusMap[o] \in PaymentStatuses
      BY <2>4, CreateAssumption, EgressAssumption
    <3>2. \A q \in Requests : ChargesOf(q)' = ChargesOf(q) \cup
              (IF q = r THEN {[key |-> OutboundKey(m[1], m[2]), outcome |-> o]} ELSE {})
      BY <2>2, <2>3, <3>1 DEF ChargesOf
    <3> DEFINE Said(C) == {StatusMap[d.outcome] :
                              d \in {c \in C : c.outcome \in DOMAIN StatusMap}}
               new == [key |-> OutboundKey(m[1], m[2]), outcome |-> o]
    <3>3. \A C : Said(C \cup {new}) = Said(C) \cup {StatusMap[o]}
      <4>1. new.outcome = o
        OBVIOUS
      <4> HIDE DEF new
      <4> QED
        BY <2>4, <4>1
    <3>4. /\ said = [q \in Requests |-> Said(ChargesOf(q))]
          /\ said' = [q \in Requests |-> Said(ChargesOf(q)')]
      BY DEF said
    <3> HIDE DEF Said, new
    <3>5. \A q \in Requests : Said(ChargesOf(q)')
                                = IF q = r THEN said[r] \cup {StatusMap[o]} ELSE said[q]
      BY <2>3, <3>2, <3>3, <3>4 DEF new
    <3>6. said' = [said EXCEPT ![r] = @ \cup {StatusMap[o]}]
      BY <2>3, <3>4, <3>5
    <3>7. Promise!Say(r, StatusMap[o])
      BY <1>1, <3>6 DEF Promise!Say
    <3> QED
      BY <2>3, <3>1, <3>7 DEF Promise!PromiseNext
  <2>5. CASE o \notin DOMAIN StatusMap
    <3>1. said' = said
      BY <2>2, <2>5 DEF said, ChargesOf
    <3> QED
      BY <1>1, <3>1 DEF Promise!promiseVars
  <2> QED
    BY <2>4, <2>5
<1> QED
  BY <1>2, <1>3

\* The use case moves.
LEMMA CreateKeepsPromises ==
  ASSUME Typed, WorkSound, AnswerKept, OneHolderPerKey, [Next]_vars, UNCHANGED told
  PROVE  Promise!PromiseNext \/ UNCHANGED Promise!promiseVars
<1> DEFINE Quiet == UNCHANGED <<decided, payments, answer>>
<1>1. Quiet => UNCHANGED Promise!promiseVars
  BY SaidStays DEF Promise!promiseVars
<1>2. ASSUME NEW r \in Requests, NEW code \in ErrorAnswers, RollBack(r, code),
             pc[r] # "ended"
      PROVE  Promise!PromiseNext
  BY <1>2, RollBackAnswers
<1>3. ASSUME NEW r \in Requests, HandlerStep(r)
      PROVE  Promise!PromiseNext \/ Quiet
  <2>1. "500" \in ErrorAnswers
    BY DEF ErrorAnswers
  <2>2. CASE Commit(r) \/ Reply(r)
    BY <2>2, CommitRecords, ReplyAnswers
  <2>3. CASE DuplicateKey(r) \/ EngineEscapes(r) \/ WriteFails(r)
    BY <1>2, <2>1, <2>3 DEF DuplicateKey, EngineEscapes, WriteFails
  <2>4. CASE Execute(r)
    BY <2>4 DEF Execute, dbVars, SendAllowed, SendCircuitOpen, SendStep, Receive2xx,
       ReceiveError, Oversize, LoseAttempt, GiveUp, Backoff, Retry, SendAttempt,
       AttemptFailed
  <2>5. CASE \/ Insert(r) \/ ApplyEgressError(r) \/ ApplyProtocolError(r)
             \/ ApplyUnsuccess(r) \/ ApplySuccess(r)
    BY <2>5 DEF Insert, ApplyEgressError, ApplyProtocolError, ApplyUnsuccess,
       ApplySuccess, Stage, dbVars, egressVars
  <2> QED
    BY <1>3, <2>2, <2>3, <2>4, <2>5 DEF HandlerStep
<1>4. ASSUME NEW r \in Requests, Refuse(r)
      PROVE  Promise!PromiseNext
  BY <1>2, <1>4 DEF Refuse
<1>5. ASSUME NEW r \in Requests, Begin(r) \/ Crash(r)
      PROVE  Quiet
  BY <1>5 DEF Begin, Crash, Stop, dbVars, egressVars
<1>6. CASE PspStep
  BY <1>6, PspSays
<1>7. CASE AllOver \/ UNCHANGED vars
  BY <1>1, <1>7 DEF AllOver, vars, egressVars
<1> QED
  BY <1>1, <1>3, <1>4, <1>5, <1>6, <1>7 DEF Next

\* A relay moves: what goes out is a row of a recorded payment.
LEMMA RelayKeepsPromises ==
  ASSUME FeedSound, MessagesAreRows, R!RelayInv, NEW w \in Relays,
         RelayMoves(w) \/ RelayFails(w)
  PROVE  Promise!PromiseNext \/ UNCHANGED Promise!promiseVars
<1>1. UNCHANGED <<decided, payments, answer, outbox>>
  BY DEF RelayMoves, RelayFails, vars, egressVars
<1>2. said' = said /\ \A i : Message(i)' = Message(i)
  BY <1>1, SaidStays DEF Message, Visible, IdAt
<1>3. CASE UNCHANGED copies
  BY <1>1, <1>2, <1>3 DEF Promise!promiseVars, told
<1>4. ASSUME NEW i \in OutboxIds, copies' = [copies EXCEPT ![i] = @ + 1], i \in Visible
      PROVE  Promise!PromiseNext
  <2>1. PICK n \in DOMAIN outbox : i = IdAt(n)
    BY <1>4 DEF Visible
  <2> DEFINE r == outbox[n].payment
             e == outbox[n].type
  <2>2. /\ r \in Requests /\ payments[r] # None
        /\ e \in {"payment.created", EventOf(payments[r])} /\ e \in EventTypes
        /\ outbox[n] = [payment |-> r, type |-> e]
    <3>1. outbox[n] \in [payment: Requests, type: EventTypes]
      <4>1. outbox \in Seq([payment: Requests, type: EventTypes])
        BY DEF FeedSound, Typed, TypeOK
      <4> QED
        BY <4>1, LenProperties, ElementOfSeq
    <3>2. outbox[n] = [payment |-> r, type |-> e] /\ e \in EventTypes
      BY <3>1
    <3>3. r \in Requests /\ payments[r] # None /\ e \in {"payment.created", EventOf(payments[r])}
      BY RowsAreOfPayments DEF FeedSound
    <3> QED
      BY <3>2, <3>3
  <2>3. Message(i) = outbox[n]
    BY <2>1 DEF MessagesAreRows
  <2>4. \A j \in OutboxIds : copies'[j] > 0 <=> copies[j] > 0 \/ j = i
    BY <1>4 DEF R!RelayInv, R!RelayTypeOK
  <2>5. told' = told \cup {Message(i)}
    BY <1>2, <2>4 DEF told
  <2>6. Promise!Announce(r, e)
    BY <1>1, <1>2, <2>2, <2>3, <2>5 DEF Promise!Announce
  <2> QED
    BY <2>2, <2>6 DEF Promise!PromiseNext
<1>5. ASSUME NEW i \in OutboxIds, Relay!Publish(w, i) \/ Relay!PublishFails(w, i)
      PROVE  i \in Visible /\ (UNCHANGED copies \/ copies' = [copies EXCEPT ![i] = @ + 1])
  BY <1>5 DEF Relay!Publish, Relay!PublishFails, Relay!IsNext, R!RelayInv, R!BatchSound
<1>6. CASE Relay!Fetch(w) \/ Relay!CommitBatch(w) \/ Relay!BatchFails(w)
  BY <1>3, <1>6 DEF Relay!Fetch, Relay!CommitBatch, Relay!BatchFails
<1> QED
  BY <1>3, <1>4, <1>5, <1>6 DEF RelayMoves, RelayFails, Relay!RelayStep

\* All that the two parts were proved to keep.
PipelineSound == /\ FeedSound /\ WorkSound /\ AnswerKept /\ OneHolderPerKey
                 /\ R!RelayInv

LEMMA PipelineAlwaysSound == PipelineSpec => []PipelineSound
<1>1. Spec => []AnswerKept
  BY AnswersAlwaysKept
<1>2. FeedSound /\ R!RelayInv /\ WorkSound /\ AnswerKept /\ OneHolderPerKey => PipelineSound
  BY DEF PipelineSound
<1> QED
  BY <1>1, <1>2, PipelineCreates, CreateAlwaysSound, KeyHeldOnce, RelaysSound, PTL

LEMMA SoundOnlyRowsGoOut == PipelineSound => OnlyRowsGoOut
  BY DEF PipelineSound, OnlyRowsGoOut, R!RelayInv, R!MarksSound

\* PSP, client, table and topic never contradict each other: each step of requests,
\* PSP and relays is one of the single steps of PaymentPromises, or none, for any number
\* of requests, keys and relays and whatever crashes, is retried or is rolled back.
THEOREM PipelineKeepsPromises == PipelineSpec => KeepsPromises
<1>1. PipelineInit => Promise!PromiseInit
  <2>1. Init => said = [r \in Requests |-> {}]
    BY DEF Init, EgressInit, said, ChargesOf
  <2>2. Relay!Init => told = {}
    BY DEF Relay!Init, told
  <2> QED
    BY <2>1, <2>2 DEF PipelineInit, Init, Promise!PromiseInit
<1>2. ASSUME PipelineSound, MessagesAreRows, MessagesAreRows', OnlyRowsGoOut,
             [PipelineNext]_pipelineVars
      PROVE  Promise!PromiseNext \/ UNCHANGED Promise!promiseVars
  <2> USE DEF PipelineSound
  <2>1. CASE CreateMoves \/ UNCHANGED pipelineVars
    <3>1. [Next]_vars /\ UNCHANGED copies
      BY <2>1 DEF CreateMoves, relayOnlyVars, pipelineVars
    <3>2. told' = told
      BY <1>2, <3>1, ToldStays DEF FeedSound
    <3> QED
      BY <1>2, <3>1, <3>2, CreateKeepsPromises DEF FeedSound
  <2>2. ASSUME NEW w \in Relays, RelayMoves(w) \/ RelayFails(w)
        PROVE  Promise!PromiseNext \/ UNCHANGED Promise!promiseVars
    BY <1>2, <2>2, RelayKeepsPromises
  <2> QED
    BY <1>2, <2>1, <2>2 DEF PipelineNext
<1>3. PipelineSound /\ MessagesAreRows /\ MessagesAreRows' /\ OnlyRowsGoOut
          /\ [PipelineNext]_pipelineVars => [Promise!PromiseNext]_(Promise!promiseVars)
  BY <1>2
<1>4. PipelineSound => MessagesAreRows
  BY FeedIsMessages DEF PipelineSound
<1> QED
  BY <1>1, <1>3, <1>4, SoundOnlyRowsGoOut, PipelineAlwaysSound, PTL
  DEF PipelineSpec, KeepsPromises, Promise!PromiseSpec

\* Whoever hears of a success, the client in a 201 or a reader of the topic, hears of a
\* payment the PSP has given that status.
SuccessHeardIsTrue ==
    /\ \A r \in Requests : answer[r] \in Successes => BackedBy(r, answer[r])
    /\ \A m \in told, s \in Successes : m.type = EventOf(s) => BackedBy(m.payment, s)

\* From the PSP to the last reader: an answer or a message that means success has a
\* charge behind it, for any number of requests and relays.
THEOREM SuccessesHeardAreTrue == PipelineSpec => []SuccessHeardIsTrue
<1>1. PipelineSound /\ NoInventedSuccess => SuccessHeardIsTrue
  <2> SUFFICES ASSUME PipelineSound, NoInventedSuccess
               PROVE  SuccessHeardIsTrue
    OBVIOUS
  <2> USE DEF PipelineSound
  <2>1. \A r \in Requests : payments[r] \in Successes => BackedBy(r, payments[r])
    BY DEF NoInventedSuccess, Successes, BackedBy
  <2>2. ASSUME NEW r \in Requests, answer[r] \in Successes
        PROVE  BackedBy(r, answer[r])
    <3>1. payments[r] = answer[r]
      BY <2>2 DEF AnswerKept, Answered, Successes, PaymentStatuses
    <3> QED
      BY <2>1, <2>2, <3>1
  <2>3. ASSUME NEW m \in told, NEW s \in Successes, m.type = EventOf(s)
        PROVE  BackedBy(m.payment, s)
    <3>1. PICK i \in OutboxIds : copies[i] > 0 /\ m = Message(i)
      BY DEF told
    <3>2. PICK n \in DOMAIN outbox : i = IdAt(n)
      BY <3>1, SoundOnlyRowsGoOut DEF OnlyRowsGoOut, Visible
    <3>3. m = outbox[n]
      BY <3>1, <3>2, FeedIsMessages DEF MessagesAreRows
    <3>4. /\ m.payment \in Requests /\ payments[m.payment] # None
          /\ m.type \in {"payment.created", EventOf(payments[m.payment])}
      BY <3>3, RowsAreOfPayments DEF FeedSound
    <3>5. payments[m.payment] = s
      BY <2>3, <3>4 DEF EventOf, Successes
    <3> QED
      BY <2>1, <3>4, <3>5
  <2> QED
    BY <2>2, <2>3 DEF SuccessHeardIsTrue
<1> QED
  BY <1>1, PipelineAlwaysSound, PipelineCreates, SuccessIsNotInvented, PTL
=============================================================================
