---------------------------- MODULE PaymentStatus ----------------------------
(***************************************************************************)
(* The status machine of the Payment aggregate and the domain event each   *)
(* of its moves records (domain/status.py, domain/events.py).  The engine  *)
(* never consults this table; only the aggregate does.                     *)
(***************************************************************************)

PaymentStatuses ==
    {"PENDING", "ACTION_REQUIRED", "AUTHORIZED", "CAPTURED", "SETTLED",
     "FAILED", "REFUNDED", "VOIDED", "CHARGEBACK"}

\* A mutant of Allowed: a captured payment may no longer become REFUNDED.
AllowedNoFullRefund(src) ==
    CASE src = "PENDING"         -> {"ACTION_REQUIRED", "AUTHORIZED",
                                     "CAPTURED", "FAILED"}
      [] src = "ACTION_REQUIRED" -> {"AUTHORIZED", "CAPTURED", "FAILED"}
      [] src = "AUTHORIZED"      -> {"CAPTURED", "VOIDED", "FAILED"}
      [] src = "CAPTURED"        -> {"SETTLED", "CHARGEBACK"}
      [] src = "SETTLED"         -> {"REFUNDED", "CHARGEBACK"}
      [] OTHER                   -> {}

\* A mutant of Allowed: a late capture is accepted after a failure.
AllowedLateCapture(src) ==
    CASE src = "PENDING"         -> {"ACTION_REQUIRED", "AUTHORIZED",
                                     "CAPTURED", "FAILED"}
      [] src = "ACTION_REQUIRED" -> {"AUTHORIZED", "CAPTURED", "FAILED"}
      [] src = "AUTHORIZED"      -> {"CAPTURED", "VOIDED", "FAILED"}
      [] src = "CAPTURED"        -> {"SETTLED", "REFUNDED", "CHARGEBACK"}
      [] src = "SETTLED"         -> {"REFUNDED", "CHARGEBACK"}
      [] src = "FAILED"          -> {"CAPTURED"}
      [] OTHER                   -> {}

\* _ALLOWED: the statuses a payment in status src may move to.
Allowed(src) ==
    CASE src = "PENDING"         -> {"ACTION_REQUIRED", "AUTHORIZED",
                                     "CAPTURED", "FAILED"}
      [] src = "ACTION_REQUIRED" -> {"AUTHORIZED", "CAPTURED", "FAILED"}
      [] src = "AUTHORIZED"      -> {"CAPTURED", "VOIDED", "FAILED"}
      [] src = "CAPTURED"        -> {"SETTLED", "REFUNDED", "CHARGEBACK"}
      [] src = "SETTLED"         -> {"REFUNDED", "CHARGEBACK"}
      [] OTHER                   -> {}

CanTransition(src, dst) == dst \in Allowed(src)

\* The statuses that no move leaves.
Terminal == {"FAILED", "REFUNDED", "VOIDED", "CHARGEBACK"}

\* The type of the event recorded by the method that moves a payment to dst.
EventOf(dst) ==
    CASE dst = "ACTION_REQUIRED" -> "payment.action_required"
      [] dst = "AUTHORIZED"      -> "payment.authorized"
      [] dst = "CAPTURED"        -> "payment.captured"
      [] dst = "FAILED"          -> "payment.failed"
      [] dst = "VOIDED"          -> "payment.voided"
      [] dst = "REFUNDED"        -> "payment.refunded"
      [] dst = "CHARGEBACK"      -> "payment.chargeback"
      [] OTHER                   -> "payment.created"

EventTypes ==
    {"payment.created", "payment.action_required", "payment.authorized",
     "payment.captured", "payment.failed", "payment.voided",
     "payment.refunded", "payment.chargeback"}
=============================================================================
