------------------------------ MODULE MoneyFlow ------------------------------
(***************************************************************************)
(* What a payment promises about money, without its statuses: the amount   *)
(* is taken at most once, only what was taken is given back, never more    *)
(* than the amount, giving all of it back closes the payment, and nothing  *)
(* moves once it is closed.                                                *)
(***************************************************************************)
EXTENDS Naturals

CONSTANT Amount     \* minor units

VARIABLES taken,    \* the money has been captured
          returned, \* minor units given back so far
          closed    \* no further movement

flowVars == <<taken, returned, closed>>

FlowInit == taken = FALSE /\ returned = 0 /\ closed = FALSE

Take == /\ ~closed /\ ~taken
        /\ taken' = TRUE
        /\ UNCHANGED <<returned, closed>>

GiveBack == /\ taken /\ ~closed
            /\ \E r \in returned .. Amount : /\ returned' = r
                                             /\ closed' = (r = Amount)
            /\ UNCHANGED taken

Close == /\ ~closed
         /\ closed' = TRUE
         /\ UNCHANGED <<taken, returned>>

FlowNext == Take \/ GiveBack \/ Close

FlowSpec == FlowInit /\ [][FlowNext]_flowVars
=============================================================================
