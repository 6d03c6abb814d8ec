-------------------------- MODULE OutboxRelayProofs --------------------------
(***************************************************************************)
(* Proofs about OutboxRelay, for any number of rows, payments and relays,  *)
(* any batch size, and failures bounded by any numbers.                    *)
(***************************************************************************)
EXTENDS OutboxRelay, FiniteSetTheorems, TLAPS

USE DEF relayVars

\* What an open batch knows of its rows: a relay holds only committed rows that are
\* not marked, nobody else holds them, and those its loop has passed either went out
\* or have a dead letter in the transaction.
ClaimsExclusive == \A w, v \in Relays : w # v => claim[w] \cap claim[v] = {}

BatchSound ==
    \A w \in Relays :
        /\ claim[w] \subseteq committed
        /\ claim[w] \cap published = {}
        /\ todo[w] \subseteq claim[w]
        /\ raised[w] \subseteq claim[w] \ todo[w]
        /\ \A i \in raised[w] : errors[i] > 0
        /\ \A i \in claim[w] \ (todo[w] \cup raised[w]) : copies[i] > 0

MarksSound == /\ published \subseteq committed
              /\ \A i \in published : copies[i] > 0
              /\ \A i \in Rows : copies[i] > 0 => i \in committed

\* The rows of an open batch that went out.
Done(w) == claim[w] \ (todo[w] \cup raised[w])

\* A row that may still go out once more has used up no more copies than failures.
CopiesBounded ==
    \A i \in Rows :
        /\ copies[i] <= 1 + errors[i] + rollbacks[i]
        /\ copies[i] > errors[i] + rollbacks[i] =>
               i \in published \/ \E w \in Relays : i \in Done(w)

ErrorsSeen ==
    \A i \in Rows : errors[i] > 0 =>
        i \in dead \/ rollbacks[i] > 0 \/ \E w \in Relays : i \in raised[w]

\* No row of a payment is committed before an earlier one, and a claimed row has no
\* earlier row of its payment that is still waiting for its first claim.
Together == \A i \in committed, j \in Rows :
                j < i /\ PaymentOf[i] = PaymentOf[j] => j \in committed

Touched(i) == \/ copies[i] > 0 \/ errors[i] > 0 \/ rollbacks[i] > 0
              \/ \E w \in Relays : i \in claim[w]

EarlierTouched ==
    \A w \in Relays : \A j \in claim[w] : \A i \in Rows :
        i < j /\ PaymentOf[i] = PaymentOf[j] => Touched(i)

RelayInv == /\ RelayTypeOK
            /\ ClaimsExclusive
            /\ BatchSound
            /\ MarksSound
            /\ CopiesBounded
            /\ ErrorsSeen
            /\ Together
            /\ EarlierTouched

\* The rows a batch takes are claimable, and none it leaves has a smaller id.
LEMMA FirstRowsAreFirst ==
    ASSUME NEW S, S \subseteq Rows, NEW T \in FirstRows(S)
    PROVE  /\ T \subseteq S
           /\ \A j \in T, i \in S : i < j => i \in T
<1> DEFINE below(i) == {k \in S : k < i}
<1>1. S \subseteq Nat
  BY RelayAssumption
<1>2. T = {i \in S : Cardinality(below(i)) < Batch}
  BY DEF FirstRows
<1>3. ASSUME NEW j \in T, NEW i \in S, i < j
      PROVE  i \in T
  <2>1. j \in Nat /\ i \in Nat /\ j \in S
    BY <1>1, <1>2
  <2>2. below(j) \in SUBSET (0 .. j) /\ below(i) \in SUBSET below(j)
    <3>1. ASSUME NEW k \in below(j)
          PROVE  k \in 0 .. j
      <4>1. k \in Nat /\ k < j
        BY <1>1
      <4> QED
        BY <4>1, <2>1
    <3>2. ASSUME NEW k \in below(i)
          PROVE  k \in below(j)
      <4>1. k \in Nat /\ k \in S /\ k < i
        BY <1>1
      <4>2. k < j
        BY <4>1, <1>3, <2>1
      <4> QED
        BY <4>1, <4>2
    <3> QED
      BY <3>1, <3>2
  <2>3. i \in T <=> Cardinality(below(i)) < Batch
    BY <1>2
  <2>4. Cardinality(below(j)) < Batch
    BY <1>2
  <2> HIDE DEF below
  <2>5. IsFiniteSet(0 .. j)
    BY <2>1, FS_Interval
  <2>6. IsFiniteSet(below(j))
    BY <2>2, <2>5, FS_Subset
  <2>7. IsFiniteSet(below(i)) /\ Cardinality(below(i)) <= Cardinality(below(j))
    BY <2>2, <2>6, FS_Subset
  <2>8. Cardinality(below(i)) \in Nat /\ Cardinality(below(j)) \in Nat
    BY <2>6, <2>7, FS_CardinalityType
  <2> QED
    BY <2>3, <2>4, <2>7, <2>8, RelayAssumption
<1> QED
  BY <1>2, <1>3

LEMMA RelayInit == Init => RelayInv
  BY RelayAssumption DEF Init, RelayInv, RelayTypeOK, ClaimsExclusive, BatchSound,
     MarksSound, CopiesBounded, ErrorsSeen, Together, EarlierTouched

-----------------------------------------------------------------------------
(* One lemma per action. *)

\* Whoever commits rows, in whatever transactions: the relays do not mind, as long as
\* no row of a payment becomes visible before an earlier one.
LEMMA CommittedGrows ==
    ASSUME RelayInv, committed \subseteq committed', committed' \subseteq Rows, Together',
           UNCHANGED <<published, claim, todo, raised, dead, copies, errors, rollbacks>>
    PROVE  RelayInv'
<1> USE DEF RelayInv
<1>1. RelayTypeOK'
  BY DEF RelayTypeOK
<1>2. ClaimsExclusive' /\ BatchSound' /\ MarksSound'
  BY DEF ClaimsExclusive, BatchSound, MarksSound
<1>3. CopiesBounded' /\ ErrorsSeen'
  BY DEF CopiesBounded, Done, ErrorsSeen
<1>4. EarlierTouched'
  BY DEF EarlierTouched, Touched
<1> QED
  BY <1>1, <1>2, <1>3, <1>4

LEMMA CommitPreserves ==
    ASSUME RelayInv, NEW i \in Rows, TransactionCommits(i)
    PROVE  RelayInv'
<1>1. committed \subseteq committed' /\ committed' \subseteq Rows
  BY DEF TransactionCommits, RelayInv, RelayTypeOK
<1>2. Together'
  BY DEF TransactionCommits, RelayInv, Together, RelayTypeOK
<1> QED
  BY <1>1, <1>2, CommittedGrows DEF TransactionCommits

LEMMA FetchPreserves ==
    ASSUME RelayInv, NEW w \in Relays, Fetch(w)
    PROVE  RelayInv'
<1> PICK T \in FirstRows(Claimable) : /\ claim' = [claim EXCEPT ![w] = T]
                                      /\ todo' = [todo EXCEPT ![w] = T]
  BY DEF Fetch
<1>1. /\ claim[w] = {}
      /\ UNCHANGED <<committed, published, raised, dead, copies, errors, rollbacks>>
  BY DEF Fetch
<1>2. RelayTypeOK
  BY DEF RelayInv
<1>3. Claimable \subseteq Rows
  BY <1>2 DEF RelayTypeOK, Claimable, Unpublished
<1>4. /\ T \subseteq Claimable
      /\ \A j \in T, i \in Claimable : i < j => i \in T
  BY <1>3, FirstRowsAreFirst
<1>5. claim'[w] = T /\ todo'[w] = T
  BY <1>2 DEF RelayTypeOK
<1>6. \A v \in Relays : v # w => claim'[v] = claim[v] /\ todo'[v] = todo[v]
  BY <1>2 DEF RelayTypeOK
<1>7. todo[w] = {} /\ raised[w] = {}
  BY <1>1 DEF RelayInv, BatchSound
<1>8. /\ T \subseteq committed
      /\ T \cap published = {}
      /\ \A v \in Relays : T \cap claim[v] = {}
  BY <1>4 DEF Claimable, Unpublished, Claimed
<1>9. RelayTypeOK'
  BY <1>1, <1>2, <1>3, <1>4 DEF RelayTypeOK
<1>10. ClaimsExclusive'
  BY <1>5, <1>6, <1>8 DEF RelayInv, ClaimsExclusive
<1>11. BatchSound'
  BY <1>1, <1>5, <1>6, <1>7, <1>8 DEF RelayInv, BatchSound
<1>12. MarksSound' /\ Together'
  BY <1>1 DEF RelayInv, MarksSound, Together
<1>13. CopiesBounded' /\ ErrorsSeen'
  <2>1. \A v \in Relays : \A i \in Done(v) : i \in Done(v)'
    BY <1>1, <1>6 DEF Done
  <2> QED
    BY <1>1, <2>1 DEF RelayInv, CopiesBounded, ErrorsSeen
<1>14. EarlierTouched'
  <2>1. \A v \in Relays : \A i \in claim[v] : i \in claim'[v]
    BY <1>1, <1>6
  <2>2. \A i \in Rows : Touched(i) => Touched(i)'
    BY <1>1, <2>1 DEF Touched
  <2>3. ASSUME NEW j \in T, NEW i \in Rows, i < j, PaymentOf[i] = PaymentOf[j]
        PROVE  Touched(i)'
    <3>1. j \in Rows /\ j \in committed
      BY <1>3, <1>4, <1>8
    <3>2. i \in committed
      BY <2>3, <3>1 DEF RelayInv, Together
    <3>3. CASE i \in published
      BY <3>3, <2>2 DEF RelayInv, MarksSound, Touched
    <3>4. CASE i \in Claimed
      BY <3>4, <2>2 DEF Claimed, Touched
    <3>5. CASE i \in Claimable
      BY <3>5, <1>4, <1>5, <2>3 DEF Touched
    <3> QED
      BY <3>2, <3>3, <3>4, <3>5 DEF Claimable, Unpublished
  <2> QED
    BY <1>5, <1>6, <2>2, <2>3 DEF RelayInv, EarlierTouched
<1> QED
  BY <1>9, <1>10, <1>11, <1>12, <1>13, <1>14 DEF RelayInv

LEMMA PublishPreserves ==
    ASSUME RelayInv, NEW w \in Relays, NEW i \in Rows, Publish(w, i)
    PROVE  RelayInv'
<1>1. /\ i \in todo[w]
      /\ todo' = [todo EXCEPT ![w] = @ \ {i}]
      /\ copies' = [copies EXCEPT ![i] = @ + 1]
      /\ UNCHANGED <<committed, published, claim, dead, raised, errors, rollbacks>>
  BY DEF Publish, IsNext
<1>2. RelayTypeOK
  BY DEF RelayInv
<1>3. /\ todo'[w] = todo[w] \ {i}
      /\ \A v \in Relays : v # w => todo'[v] = todo[v]
      /\ copies'[i] = copies[i] + 1
      /\ \A j \in Rows : j # i => copies'[j] = copies[j]
  BY <1>1, <1>2 DEF RelayTypeOK
<1>4. /\ \A j \in Rows : copies[j] \in Nat /\ errors[j] \in Nat /\ rollbacks[j] \in Nat
      /\ \A v \in Relays : claim[v] \subseteq Rows
  BY <1>2, RelayAssumption DEF RelayTypeOK
<1>5. i \in claim[w] /\ i \in committed \ published
  BY <1>1 DEF RelayInv, BatchSound
<1>6. RelayTypeOK'
  BY <1>1, <1>2, <1>4 DEF RelayTypeOK
<1>7. ClaimsExclusive' /\ Together'
  BY <1>1 DEF RelayInv, ClaimsExclusive, Together
<1>8. \A j \in Rows : copies[j] > 0 => copies'[j] > 0
  BY <1>3, <1>4
<1>9. copies'[i] > 0
  BY <1>3, <1>4
<1>10. BatchSound'
  BY <1>1, <1>3, <1>4, <1>8, <1>9 DEF RelayInv, BatchSound
<1>11. MarksSound'
  BY <1>1, <1>2, <1>3, <1>5, <1>8 DEF RelayInv, MarksSound, RelayTypeOK
<1>12. CopiesBounded'
  <2>1. copies[i] <= errors[i] + rollbacks[i]
    <3>1. ~ \E v \in Relays : i \in Done(v)
      BY <1>1, <1>5 DEF RelayInv, ClaimsExclusive, Done
    <3> QED
      BY <3>1, <1>4, <1>5 DEF RelayInv, CopiesBounded
  <2>2. i \in Done(w)'
    BY <1>1, <1>3, <1>5 DEF RelayInv, BatchSound, Done
  <2>3. \A v \in Relays : \A j \in Done(v) : j \in Done(v)'
    BY <1>1, <1>3 DEF Done
  <2>4. copies'[i] <= 1 + errors'[i] + rollbacks'[i]
    BY <1>1, <1>3, <1>4, <2>1
  <2>5. ASSUME NEW j \in Rows, j # i
        PROVE  /\ copies'[j] <= 1 + errors'[j] + rollbacks'[j]
               /\ copies'[j] > errors'[j] + rollbacks'[j] =>
                     j \in published' \/ \E v \in Relays : j \in Done(v)'
    BY <1>1, <1>3, <2>3, <2>5 DEF RelayInv, CopiesBounded
  <2> QED
    BY <2>2, <2>4, <2>5 DEF CopiesBounded
<1>13. ErrorsSeen'
  BY <1>1 DEF RelayInv, ErrorsSeen
<1>14. EarlierTouched'
  BY <1>1, <1>8 DEF RelayInv, EarlierTouched, Touched
<1> QED
  BY <1>6, <1>7, <1>10, <1>11, <1>12, <1>13, <1>14 DEF RelayInv

LEMMA PublishFailsPreserves ==
    ASSUME RelayInv, NEW w \in Relays, NEW i \in Rows, PublishFails(w, i)
    PROVE  RelayInv'
<1>1. /\ i \in todo[w]
      /\ i \in Poison \/ errors[i] < MaxErrors[i]
      /\ todo' = [todo EXCEPT ![w] = @ \ {i}]
      /\ raised' = [raised EXCEPT ![w] = @ \cup {i}]
      /\ errors' = [errors EXCEPT ![i] = IF @ < MaxErrors[i] THEN @ + 1 ELSE @]
      /\ \/ copies' = copies
         \/ i \notin Poison /\ copies' = [copies EXCEPT ![i] = @ + 1]
      /\ UNCHANGED <<committed, published, claim, dead, rollbacks>>
  BY DEF PublishFails, IsNext
<1>2. RelayTypeOK
  BY DEF RelayInv
<1>3. /\ todo'[w] = todo[w] \ {i}
      /\ raised'[w] = raised[w] \cup {i}
      /\ \A v \in Relays : v # w => todo'[v] = todo[v] /\ raised'[v] = raised[v]
      /\ errors'[i] = IF errors[i] < MaxErrors[i] THEN errors[i] + 1 ELSE errors[i]
      /\ \/ copies'[i] = copies[i]
         \/ copies'[i] = copies[i] + 1 /\ errors[i] < MaxErrors[i]
      /\ \A j \in Rows : j # i => copies'[j] = copies[j] /\ errors'[j] = errors[j]
  BY <1>1, <1>2 DEF RelayTypeOK
<1>4. /\ \A j \in Rows : /\ copies[j] \in Nat /\ errors[j] \in Nat /\ rollbacks[j] \in Nat
                         /\ errors[j] <= MaxErrors[j]
      /\ \A v \in Relays : claim[v] \subseteq Rows
      /\ MaxErrors[i] \in Nat /\ (i \in Poison => MaxErrors[i] > 0)
  BY <1>2, RelayAssumption DEF RelayTypeOK
<1>5. i \in claim[w] /\ i \in committed \ published
  BY <1>1 DEF RelayInv, BatchSound
<1>6. RelayTypeOK'
  <2>1. errors'[i] \in Nat /\ errors'[i] <= MaxErrors[i]
    BY <1>3, <1>4
  <2>2. errors' \in [Rows -> Nat] /\ \A j \in Rows : errors'[j] <= MaxErrors[j]
    BY <2>1, <1>1, <1>2, <1>3, <1>4 DEF RelayTypeOK
  <2>3. copies' \in [Rows -> Nat]
    BY <1>1, <1>2 DEF RelayTypeOK
  <2> QED
    BY <1>1, <1>2, <2>2, <2>3 DEF RelayTypeOK
<1>7. ClaimsExclusive' /\ Together'
  BY <1>1 DEF RelayInv, ClaimsExclusive, Together
<1>8. \A j \in Rows : /\ copies[j] > 0 => copies'[j] > 0
                      /\ errors[j] > 0 => errors'[j] > 0
  BY <1>3, <1>4
<1>9. errors'[i] > 0
  BY <1>1, <1>3, <1>4
<1>10. BatchSound'
  BY <1>1, <1>3, <1>4, <1>5, <1>8, <1>9 DEF RelayInv, BatchSound
<1>11. MarksSound'
  BY <1>1, <1>2, <1>3, <1>5, <1>8 DEF RelayInv, MarksSound, RelayTypeOK
<1>12. CopiesBounded'
  <2>1. copies[i] <= errors[i] + rollbacks[i]
    <3>1. ~ \E v \in Relays : i \in Done(v)
      BY <1>1, <1>5 DEF RelayInv, ClaimsExclusive, Done
    <3> QED
      BY <3>1, <1>4, <1>5 DEF RelayInv, CopiesBounded
  <2>2. copies'[i] <= errors'[i] + rollbacks'[i]
    BY <1>1, <1>3, <1>4, <2>1
  <2>3. \A v \in Relays : \A j \in Done(v) : j \in Done(v)'
    BY <1>1, <1>3 DEF Done
  <2>5. copies'[i] <= 1 + errors'[i] + rollbacks'[i]
    BY <1>1, <1>3, <1>4, <2>2
  <2>6. ASSUME NEW j \in Rows, j # i
        PROVE  /\ copies'[j] <= 1 + errors'[j] + rollbacks'[j]
               /\ copies'[j] > errors'[j] + rollbacks'[j] =>
                     j \in published' \/ \E v \in Relays : j \in Done(v)'
    BY <1>1, <1>3, <2>3, <2>6 DEF RelayInv, CopiesBounded
  <2> QED
    BY <1>1, <1>3, <1>4, <2>2, <2>5, <2>6 DEF CopiesBounded
<1>13. ErrorsSeen'
  <2>1. i \in raised'[w]
    BY <1>3
  <2>2. \A v \in Relays : \A j \in raised[v] : j \in raised'[v]
    BY <1>3
  <2> QED
    BY <1>1, <1>3, <2>1, <2>2 DEF RelayInv, ErrorsSeen
<1>14. EarlierTouched'
  BY <1>1, <1>8 DEF RelayInv, EarlierTouched, Touched
<1> QED
  BY <1>6, <1>7, <1>10, <1>11, <1>12, <1>13, <1>14 DEF RelayInv

\* What both ends of a batch have in common.
LEMMA ReleaseFacts ==
    ASSUME RelayTypeOK, NEW w \in Relays, Release(w)
    PROVE  /\ claim'[w] = {} /\ todo'[w] = {} /\ raised'[w] = {}
           /\ \A v \in Relays : v # w =>
                claim'[v] = claim[v] /\ todo'[v] = todo[v] /\ raised'[v] = raised[v]
           /\ claim' \in [Relays -> SUBSET Rows]
           /\ todo' \in [Relays -> SUBSET Rows]
           /\ raised' \in [Relays -> SUBSET Rows]
  BY DEF RelayTypeOK, Release

LEMMA CommitBatchPreserves ==
    ASSUME RelayInv, NEW w \in Relays, CommitBatch(w)
    PROVE  RelayInv'
<1>1. /\ todo[w] = {}
      /\ published' = published \cup (claim[w] \ raised[w])
      /\ dead' = dead \cup raised[w]
      /\ UNCHANGED <<committed, copies, errors, rollbacks>>
  BY DEF CommitBatch
<1>2. RelayTypeOK
  BY DEF RelayInv
<1>3. /\ claim'[w] = {} /\ todo'[w] = {} /\ raised'[w] = {}
      /\ \A v \in Relays : v # w =>
           claim'[v] = claim[v] /\ todo'[v] = todo[v] /\ raised'[v] = raised[v]
      /\ claim' \in [Relays -> SUBSET Rows]
      /\ todo' \in [Relays -> SUBSET Rows]
      /\ raised' \in [Relays -> SUBSET Rows]
  <2>1. Release(w)
    BY DEF CommitBatch
  <2> QED
    BY <1>2, <2>1, ReleaseFacts
<1>4. /\ claim[w] \subseteq committed
      /\ \A i \in raised[w] : errors[i] > 0
      /\ \A i \in claim[w] \ raised[w] : copies[i] > 0
  BY <1>1 DEF RelayInv, BatchSound
<1>5. \A v \in Relays : v # w => claim[v] \cap claim[w] = {}
  BY DEF RelayInv, ClaimsExclusive
<1>6. RelayTypeOK'
  BY <1>1, <1>2, <1>3 DEF RelayTypeOK
<1>7. ClaimsExclusive' /\ Together'
  BY <1>1, <1>3 DEF RelayInv, ClaimsExclusive, Together
<1>8. BatchSound'
  BY <1>1, <1>3, <1>5 DEF RelayInv, BatchSound
<1>9. MarksSound'
  BY <1>1, <1>4 DEF RelayInv, MarksSound
<1>10. CopiesBounded'
  <2>1. ASSUME NEW i \in Rows, copies[i] > errors[i] + rollbacks[i]
        PROVE  i \in published' \/ \E v \in Relays : i \in Done(v)'
    <3>1. CASE i \in published
      BY <1>1, <3>1
    <3>2. CASE i \in Done(w)
      BY <1>1, <3>2 DEF Done
    <3>3. CASE \E v \in Relays \ {w} : i \in Done(v)
      BY <1>3, <3>3 DEF Done
    <3> QED
      BY <2>1, <3>1, <3>2, <3>3 DEF RelayInv, CopiesBounded
  <2>2. ASSUME NEW i \in Rows
        PROVE  copies'[i] <= 1 + errors'[i] + rollbacks'[i]
    BY <1>1 DEF RelayInv, CopiesBounded
  <2>3. ASSUME NEW i \in Rows, copies'[i] > errors'[i] + rollbacks'[i]
        PROVE  i \in published' \/ \E v \in Relays : i \in Done(v)'
    <3>1. copies[i] > errors[i] + rollbacks[i]
      BY <1>1, <2>3
    <3> QED
      BY <2>1, <3>1
  <2> QED
    BY <2>2, <2>3 DEF CopiesBounded
<1>11. ErrorsSeen'
  BY <1>1, <1>3 DEF RelayInv, ErrorsSeen
<1>12. EarlierTouched'
  <2>1. \A i \in claim[w] : copies[i] > 0 \/ errors[i] > 0
    BY <1>4
  <2>2. ASSUME NEW i \in Rows, Touched(i)
        PROVE  Touched(i)'
    BY <1>1, <1>3, <2>1, <2>2 DEF Touched
  <2>3. \A v \in Relays : \A j \in claim'[v] : j \in claim[v]
    BY <1>3
  <2> QED
    BY <2>2, <2>3 DEF RelayInv, EarlierTouched
<1> QED
  BY <1>6, <1>7, <1>8, <1>9, <1>10, <1>11, <1>12 DEF RelayInv

LEMMA BatchFailsPreserves ==
    ASSUME RelayInv, NEW w \in Relays, BatchFails(w)
    PROVE  RelayInv'
<1>1. /\ \A i \in claim[w] : rollbacks[i] < MaxRollbacks[i]
      /\ rollbacks' = [i \in Rows |-> IF i \in claim[w] THEN rollbacks[i] + 1
                                      ELSE rollbacks[i]]
      /\ UNCHANGED <<committed, published, dead, copies, errors>>
  BY DEF BatchFails
<1>2. RelayTypeOK
  BY DEF RelayInv
<1>3. /\ claim'[w] = {} /\ todo'[w] = {} /\ raised'[w] = {}
      /\ \A v \in Relays : v # w =>
           claim'[v] = claim[v] /\ todo'[v] = todo[v] /\ raised'[v] = raised[v]
      /\ claim' \in [Relays -> SUBSET Rows]
      /\ todo' \in [Relays -> SUBSET Rows]
      /\ raised' \in [Relays -> SUBSET Rows]
  <2>1. Release(w)
    BY DEF BatchFails
  <2> QED
    BY <1>2, <2>1, ReleaseFacts
<1>4. \A i \in Rows : /\ copies[i] \in Nat /\ errors[i] \in Nat /\ rollbacks[i] \in Nat
                      /\ rollbacks'[i] \in Nat
                      /\ rollbacks'[i] >= rollbacks[i]
                      /\ i \in claim[w] => rollbacks'[i] = rollbacks[i] + 1
  BY <1>1, <1>2, RelayAssumption DEF RelayTypeOK
<1>5. rollbacks' \in [Rows -> Nat] /\ \A i \in Rows : rollbacks'[i] <= MaxRollbacks[i]
  <2>1. rollbacks' \in [Rows -> Nat]
    BY <1>1, <1>4
  <2>2. ASSUME NEW i \in Rows
        PROVE  rollbacks'[i] <= MaxRollbacks[i]
    <3>1. rollbacks[i] <= MaxRollbacks[i] /\ MaxRollbacks[i] \in Nat
      BY <1>2, RelayAssumption DEF RelayTypeOK
    <3>2. rollbacks'[i] = IF i \in claim[w] THEN rollbacks[i] + 1 ELSE rollbacks[i]
      BY <1>1
    <3> QED
      BY <1>1, <1>4, <3>1, <3>2
  <2> QED
    BY <2>1, <2>2
<1>6. RelayTypeOK'
  BY <1>1, <1>2, <1>3, <1>5 DEF RelayTypeOK
<1>7. ClaimsExclusive' /\ Together' /\ MarksSound'
  BY <1>1, <1>3 DEF RelayInv, ClaimsExclusive, Together, MarksSound
<1>8. BatchSound'
  BY <1>1, <1>3 DEF RelayInv, BatchSound
<1>9. \A i \in claim[w] : i \in Rows /\ rollbacks'[i] > 0
  BY <1>2, <1>4 DEF RelayTypeOK
<1>10. CopiesBounded'
  <2>1. ASSUME NEW i \in Rows
        PROVE  copies'[i] <= 1 + errors'[i] + rollbacks'[i]
    BY <1>1, <1>4 DEF RelayInv, CopiesBounded
  <2>2. ASSUME NEW i \in Rows, copies'[i] > errors'[i] + rollbacks'[i]
        PROVE  i \in published' \/ \E v \in Relays : i \in Done(v)'
    <3>1. copies[i] <= 1 + errors[i] + rollbacks[i]
      BY DEF RelayInv, CopiesBounded
    <3>2. i \notin claim[w] /\ copies[i] > errors[i] + rollbacks[i]
      BY <1>1, <1>4, <2>2, <3>1
    <3>3. i \in published \/ \E v \in Relays \ {w} : i \in Done(v)
      BY <3>2 DEF RelayInv, CopiesBounded, Done
    <3> QED
      BY <1>1, <1>3, <3>3 DEF Done
  <2> QED
    BY <2>1, <2>2 DEF CopiesBounded
<1>11. ErrorsSeen'
  <2>1. ASSUME NEW i \in Rows, errors'[i] > 0
        PROVE  i \in dead' \/ rollbacks'[i] > 0 \/ \E v \in Relays : i \in raised'[v]
    <3>1. CASE i \in claim[w]
      BY <1>9, <3>1
    <3>2. CASE i \notin claim[w]
      <4>1. i \notin raised[w]
        BY <3>2 DEF RelayInv, BatchSound
      <4>2. i \in dead \/ rollbacks[i] > 0 \/ \E v \in Relays \ {w} : i \in raised[v]
        BY <1>1, <2>1, <4>1 DEF RelayInv, ErrorsSeen
      <4> QED
        BY <1>1, <1>3, <1>4, <4>2
    <3> QED
      BY <3>1, <3>2
  <2> QED
    BY <2>1 DEF ErrorsSeen
<1>12. EarlierTouched'
  <2>1. ASSUME NEW i \in Rows, Touched(i)
        PROVE  Touched(i)'
    BY <1>1, <1>3, <1>4, <1>9, <2>1 DEF Touched
  <2>2. \A v \in Relays : \A j \in claim'[v] : j \in claim[v]
    BY <1>3
  <2> QED
    BY <2>1, <2>2 DEF RelayInv, EarlierTouched
<1> QED
  BY <1>6, <1>7, <1>8, <1>10, <1>11, <1>12 DEF RelayInv

LEMMA RelayStepPreserves == RelayInv /\ [Next]_relayVars => RelayInv'
<1> SUFFICES ASSUME RelayInv, [Next]_relayVars
             PROVE  RelayInv'
  OBVIOUS
<1>1. CASE UNCHANGED relayVars
  BY <1>1 DEF RelayInv, RelayTypeOK, ClaimsExclusive, BatchSound, MarksSound,
     CopiesBounded, Done, ErrorsSeen, Together, EarlierTouched, Touched
<1>2. ASSUME NEW i \in Rows, TransactionCommits(i)
      PROVE  RelayInv'
  BY <1>2, CommitPreserves
<1>3. ASSUME NEW w \in Relays, RelayStep(w)
      PROVE  RelayInv'
  BY <1>3, FetchPreserves, CommitBatchPreserves, PublishPreserves,
     PublishFailsPreserves DEF RelayStep
<1>4. ASSUME NEW w \in Relays, BatchFails(w)
      PROVE  RelayInv'
  BY <1>4, BatchFailsPreserves
<1> QED
  BY <1>1, <1>2, <1>3, <1>4 DEF Next, Poll

LEMMA RelayInvHolds == Spec => []RelayInv
<1>1. RelayInv /\ [Next]_relayVars => RelayInv'
  BY RelayStepPreserves
<1> QED
  BY RelayInit, <1>1, PTL DEF Spec

-----------------------------------------------------------------------------
\* The tables, the topic and the open transactions keep their shape.
THEOREM RelayTypeCorrect == Spec => []RelayTypeOK
<1>1. RelayInv => RelayTypeOK
  BY DEF RelayInv
<1> QED
  BY <1>1, RelayInvHolds, PTL

\* Any number of relays duplicate an event only after a raised publish or a
\* rolled-back batch (FOR UPDATE SKIP LOCKED in _drain_batch).
THEOREM DuplicatesNeedFailures == Spec => []CopiesNeedFailures
<1>1. RelayInv => CopiesNeedFailures
  BY DEF RelayInv, CopiesBounded, CopiesNeedFailures
<1> QED
  BY <1>1, RelayInvHolds, PTL

\* A failed publication leaves a dead letter, or its batch was rolled back.
THEOREM FailuresStayVisible == Spec => []FailuresAreVisible
<1>1. RelayInv => FailuresAreVisible
  BY DEF RelayInv, RelayTypeOK, BatchSound, ErrorsSeen, FailuresAreVisible, Claimed
<1> QED
  BY <1>1, RelayInvHolds, PTL

\* What OvertakenForAReason says of a step.
OvertakesForAReason ==
    \A i, j \in Rows :
       /\ i < j
       /\ PaymentOf[i] = PaymentOf[j]
       /\ copies[i] = 0
       /\ copies[j] = 0 /\ copies'[j] > 0
       => \/ errors[i] > 0 \/ rollbacks[i] > 0
          \/ \E w \in Relays : i \in claim[w] /\ j \notin claim[w]

LEMMA StepOvertakes ==
  ASSUME RelayInv, [Next]_relayVars
  PROVE  OvertakesForAReason
<1> SUFFICES ASSUME NEW i \in Rows, NEW j \in Rows, i < j, PaymentOf[i] = PaymentOf[j],
                    copies[i] = 0, copies[j] = 0, copies'[j] > 0
             PROVE  \/ errors[i] > 0 \/ rollbacks[i] > 0
                    \/ \E w \in Relays : i \in claim[w] /\ j \notin claim[w]
  BY DEF OvertakesForAReason
<1>1. copies'[j] # copies[j]
  OBVIOUS
<1>2. PICK w \in Relays, k \in Rows : Publish(w, k) \/ PublishFails(w, k)
  BY <1>1 DEF Next, RelayStep, TransactionCommits, Fetch, CommitBatch, Poll, BatchFails
<1>3. /\ k \in todo[w] /\ \A l \in todo[w] : k <= l
      /\ copies' = copies \/ copies' = [copies EXCEPT ![k] = @ + 1]
  BY <1>2 DEF Publish, PublishFails, IsNext
<1>4. k = j
  BY <1>1, <1>3 DEF RelayInv, RelayTypeOK
<1>5. j \in claim[w] /\ i \notin todo[w]
  BY <1>3, <1>4, RelayAssumption DEF RelayInv, BatchSound
<1>6. Touched(i)
  BY <1>5 DEF RelayInv, EarlierTouched
<1>7. CASE i \in claim[w]
  BY <1>5, <1>7 DEF RelayInv, BatchSound, RelayTypeOK
<1>8. ASSUME NEW v \in Relays, v # w, i \in claim[v]
      PROVE  j \notin claim[v]
  BY <1>5, <1>8 DEF RelayInv, ClaimsExclusive
<1> QED
  BY <1>6, <1>7, <1>8 DEF Touched, RelayInv, RelayTypeOK

\* Events of one payment change their order on the topic only for a reason.
THEOREM OrderKeptOrExplained == Spec => OvertakenForAReason
<1>1. Spec => [][Next]_relayVars
  BY PTL DEF Spec
<1>2. RelayInv /\ [Next]_relayVars => [OvertakesForAReason]_relayVars
  BY StepOvertakes
<1>3. Spec => [][OvertakesForAReason]_relayVars
  BY <1>1, <1>2, RelayInvHolds, PTL
<1> QED
  BY <1>3 DEF OvertakenForAReason, OvertakesForAReason

\* The relays deliver at least once: only committed events, none marked before it
\* went out, none again after it was marked.
THEOREM RelaysDeliver == Spec => ImplementsEventDelivery
<1> DEFINE dVars == <<committed, copies, published>>
<1>1. Init => Delivery!DeliveryInit
  BY DEF Init, Delivery!DeliveryInit
<1>2. RelayInv /\ [Next]_relayVars => [Delivery!DeliveryNext]_(Delivery!deliveryVars)
  <2> SUFFICES ASSUME RelayInv, [Next]_relayVars
               PROVE  [Delivery!DeliveryNext]_(Delivery!deliveryVars)
    OBVIOUS
  <2> USE DEF Delivery!deliveryVars
  <2>1. CASE UNCHANGED relayVars
    BY <2>1
  <2>2. ASSUME NEW i \in Rows, TransactionCommits(i)
        PROVE  Delivery!RecordEvents
    <3>1. {j \in Rows : PaymentOf[j] = PaymentOf[i]} \in SUBSET Rows
      OBVIOUS
    <3> QED
      BY <2>2, <3>1 DEF TransactionCommits, Delivery!RecordEvents
  <2>3. ASSUME NEW w \in Relays, NEW i \in Rows, Publish(w, i) \/ PublishFails(w, i)
        PROVE  Delivery!Deliver \/ UNCHANGED Delivery!deliveryVars
    <3>1. i \in committed \ published
      BY <2>3 DEF Publish, PublishFails, IsNext, RelayInv, BatchSound
    <3> QED
      BY <2>3, <3>1 DEF Publish, PublishFails, Delivery!Deliver
  <2>4. ASSUME NEW w \in Relays, CommitBatch(w)
        PROVE  Delivery!Settle
    <3>1. claim[w] \ raised[w] \in SUBSET {e \in committed : copies[e] > 0}
      BY <2>4 DEF CommitBatch, RelayInv, BatchSound
    <3> QED
      BY <2>4, <3>1 DEF CommitBatch, Delivery!Settle
  <2>5. ASSUME NEW w \in Relays, Fetch(w) \/ Poll(w) \/ BatchFails(w)
        PROVE  UNCHANGED Delivery!deliveryVars
    BY <2>5 DEF Fetch, Poll, BatchFails
  <2> QED
    BY <2>1, <2>2, <2>3, <2>4, <2>5 DEF Next, RelayStep, Delivery!DeliveryNext
<1> QED
  BY <1>1, <1>2, RelayInvHolds, PTL DEF Spec, ImplementsEventDelivery, Delivery!DeliverySpec
=============================================================================
