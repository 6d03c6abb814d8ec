------------------------------ MODULE KeyedOnce ------------------------------
(***************************************************************************)
(* What the payments table promises of idempotency keys: of all the        *)
(* requests that carry a key at most one ever gets a row, and a row that   *)
(* was written is not written again.                                       *)
(***************************************************************************)
CONSTANTS Requests,
          KeyOf,   \* the key of each request
          Values,  \* what a row may hold
          None     \* no row

VARIABLE rows

KeyedInit == rows = [r \in Requests |-> None]

Write(r) == /\ \A q \in Requests : KeyOf[q] = KeyOf[r] => rows[q] = None
            /\ \E v \in Values : rows' = [rows EXCEPT ![r] = v]

KeyedNext == \E r \in Requests : Write(r)

KeyedSpec == KeyedInit /\ [][KeyedNext]_rows
=============================================================================
