-------------------------------- MODULE Inbox --------------------------------
(***************************************************************************)
(* What webhook ingress promises of its table: a key, an instance and an   *)
(* external event id, is kept once, what is kept stays, and only what is   *)
(* kept is acknowledged.                                                   *)
(***************************************************************************)
CONSTANT Rows       \* records with an instance, an id and what else a row holds

VARIABLES kept,     \* the rows of the table
          acked     \* the keys a 200 was sent for

inboxVars == <<kept, acked>>

SameRowKey(a, b) == a.instance = b.instance /\ a.id = b.id

InboxInit == kept = {} /\ acked = {}

Keep == /\ \E row \in Rows : /\ \A old \in kept : ~SameRowKey(row, old)
                             /\ kept' = kept \cup {row}
        /\ UNCHANGED acked

Acknowledge ==
    /\ \E row \in kept : acked' = acked \cup {[instance |-> row.instance, id |-> row.id]}
    /\ UNCHANGED kept

InboxNext == Keep \/ Acknowledge

InboxSpec == InboxInit /\ [][InboxNext]_inboxVars
=============================================================================
