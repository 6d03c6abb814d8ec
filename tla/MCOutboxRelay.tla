---------------------------- MODULE MCOutboxRelay ----------------------------
(* Two payments with two events each, inserted side by side.                 *)
EXTENDS OutboxRelay

MCRows == 1 .. 4
MCPaymentOf == <<"a", "b", "b", "a">>

\* One raised publish and one rolled-back batch per row.
Once == [i \in MCRows |-> 1]
=============================================================================
