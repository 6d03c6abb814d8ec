------------------------------- MODULE Backoff -------------------------------
(***************************************************************************)
(* How long HttpEgress sleeps between two attempts                         *)
(* (http_egress.py, _backoff_seconds), in milliseconds, for a retry policy *)
(* as the manifest schema admits it.                                       *)
(***************************************************************************)
EXTENDS Integers

MostAttempts == 20        \* RetryPolicy.max_attempts <= 20

Policies(bases, caps) ==
    [backoff : {"fixed", "linear", "exponential"}, base : bases, cap : caps,
     jitter : {"full", "none"}]

Uncapped(attempt, retry) ==
    CASE retry.backoff = "fixed" -> retry.base
      [] retry.backoff = "linear" -> retry.base * attempt
      [] OTHER -> retry.base * 2 ^ (attempt - 1)

Least(a, b) == IF a <= b THEN a ELSE b

\* Mutant: the cap bounds the base and not the delay.
DelayCapFirst(attempt, retry) ==
    Uncapped(attempt, [retry EXCEPT !.base = Least(retry.base, retry.cap)])
Delay(attempt, retry) == Least(Uncapped(attempt, retry), retry.cap)

\* random.uniform(0, delay), by its two ends.
Sleeps(attempt, retry) ==
    IF retry.jitter = "full" THEN {0, Delay(attempt, retry)} ELSE {Delay(attempt, retry)}
=============================================================================
