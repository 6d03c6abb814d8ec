--------------------------- MODULE MCCreatePayment ---------------------------
(* Requests that share one Idempotency-Key, and one request with its own.    *)
EXTENDS CreatePayment

CONSTANT Alone     \* the requests with a key of their own

MCKeyOf == [r \in Calls |-> IF r \in Alone THEN r ELSE "shared"]

\* As in manifests/stripe.yaml, with a status mapped to one the create flow has no
\* method for; "novel" passes success_when and has no mapping, "rejected" fails it.
AllStatuses    == {"succeeded", "processing", "paid_out", "novel", "rejected"}
AllStatusMap   == [succeeded |-> "CAPTURED", processing |-> "PENDING",
                   paid_out |-> "SETTLED"]
AllSuccess     == AllStatuses \ {"rejected"}
AllPaid        == {"succeeded", "paid_out", "novel"}

\* One status, mapped: enough where the question is who gets the key.
OneStatus      == {"succeeded"}
OneStatusMap   == [succeeded |-> "CAPTURED"]
=============================================================================
