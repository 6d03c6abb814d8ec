---------------------------- MODULE EventDelivery ----------------------------
(***************************************************************************)
(* At-least-once delivery, as the outbox promises it: only recorded events *)
(* are delivered, an event is settled only after it was delivered, and a   *)
(* settled event is not delivered again.                                   *)
(***************************************************************************)
EXTENDS Naturals

CONSTANT Events

VARIABLES recorded, \* the events a committed transaction has written
          copies,   \* copies[e]: how often e was delivered
          settled   \* the events that are done with

deliveryVars == <<recorded, copies, settled>>

DeliveryInit == /\ recorded = {}
                /\ copies = [e \in Events |-> 0]
                /\ settled = {}

RecordEvents == /\ \E S \in SUBSET Events : recorded' = recorded \cup S
                /\ UNCHANGED <<copies, settled>>

Deliver == /\ \E e \in recorded \ settled : copies' = [copies EXCEPT ![e] = @ + 1]
           /\ UNCHANGED <<recorded, settled>>

Settle == /\ \E S \in SUBSET {e \in recorded : copies[e] > 0} : settled' = settled \cup S
          /\ UNCHANGED <<recorded, copies>>

DeliveryNext == RecordEvents \/ Deliver \/ Settle

DeliverySpec == DeliveryInit /\ [][DeliveryNext]_deliveryVars
=============================================================================
