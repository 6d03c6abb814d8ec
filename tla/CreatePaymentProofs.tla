------------------------- MODULE CreatePaymentProofs -------------------------
(***************************************************************************)
(* Proofs about the use case and the retry loop it calls, for any number   *)
(* of requests, keys, statuses, attempts and retry categories.             *)
(*                                                                         *)
(* The first half is about HttpEgress: send keeps its type, retries what   *)
(* the manifest lists until its attempts are spent, and when the outbound  *)
(* key reaches the PSP a call is charged at most once and a refusal is     *)
(* final.  The PSP's part is what HttpEgress says of it: it acts once per  *)
(* key.                                                                    *)
(*                                                                         *)
(* The second half is about CreatePayment: one request at a time holds an  *)
(* idempotency key, the committed rows are those of KeyedOnce, and two     *)
(* charges under one key need a rollback.  What is proved of send holds of *)
(* the calls the requests make.  What is committed is whole, what it calls *)
(* a success was one, and what a client was told of it stays true.         *)
(***************************************************************************)
EXTENDS CreatePayment, FiniteSetTheorems, SequenceTheorems, TLAPS

-----------------------------------------------------------------------------
(* Part one: send, whoever calls it. *)

\* A call that sleeps has an attempt left; one that has failed says in what.
LoopState ==
    \A c \in Calls :
        /\ st[c] = "backoff" => attempt[c] < MaxAttempts
        /\ st[c] \in {"judging", "raised"} =>
               category[c] \in Categories \cup {"circuit_open", "oversize"}

EgressTyped == EgressTypeOK /\ LoopState

LEMMA KeyTyped ==
  ASSUME NEW c \in Calls, NEW n \in 1 .. MaxAttempts
  PROVE  OutboundKey(c, n) \in Calls \X (1 .. MaxAttempts)
  BY EgressAssumption DEF OutboundKey

LEMMA AnswersTyped ==
    /\ \A o \in Outcomes : AnswerOf(o) \in Replies
    /\ {Garbled, Failing, Busy} \subseteq Replies
  BY DEF AnswerOf, Outcomes, Replies, HttpCategories, Garbled, Failing, Busy

LEMMA EgressInitTyped == EgressInit => EgressTyped
  BY EgressAssumption
  DEF EgressInit, EgressTyped, EgressTypeOK, LoopState, Stages

\* The steps of one call, by what they do to it.
LEMMA SendAttemptTyped ==
  ASSUME EgressTyped, NEW c \in Calls, NEW n \in 1 .. MaxAttempts,
         SendAttempt(c, n), UNCHANGED <<category, decided, breaker>>
  PROVE  EgressTyped'
<1>1. <<c, n>> \in Calls \X (1 .. MaxAttempts) /\ n \in 0 .. MaxAttempts
  BY EgressAssumption
<1>2. EgressTypeOK'
  BY <1>1 DEF EgressTyped, EgressTypeOK, SendAttempt, Stages
<1>3. LoopState'
  BY DEF EgressTyped, EgressTypeOK, LoopState, SendAttempt
<1> QED
  BY <1>2, <1>3 DEF EgressTyped

LEMMA AttemptFailedTyped ==
  ASSUME EgressTyped, NEW c \in Calls, NEW cat \in Categories, AttemptFailed(c, cat)
  PROVE  EgressTyped'
  BY DEF EgressTyped, EgressTypeOK, LoopState, AttemptFailed, Stages

LEMMA SendStepTyped ==
  ASSUME EgressTyped, NEW c \in Calls, SendStep(c)
  PROVE  EgressTyped'
<1> USE DEF EgressTyped, EgressTypeOK, LoopState, Stages
<1>1. CASE Receive2xx(c)
  BY <1>1 DEF Receive2xx
<1>2. CASE ReceiveError(c)
  <2>1. reply[c].code \in Categories
    BY <1>2 DEF ReceiveError, Replies, HttpCategories, Categories
  <2> QED
    BY <1>2, <2>1, AttemptFailedTyped DEF ReceiveError
<1>3. CASE Oversize(c)
  BY <1>3 DEF Oversize
<1>4. ASSUME NEW cat \in {"timeout", "network_error"}, LoseAttempt(c, cat)
      PROVE  EgressTyped'
  BY <1>4, AttemptFailedTyped DEF LoseAttempt, Categories
<1>5. CASE GiveUp(c)
  BY <1>5 DEF GiveUp
<1>6. CASE Backoff(c)
  BY <1>6 DEF Backoff
<1>7. CASE Retry(c)
  <2>1. attempt[c] + 1 \in 1 .. MaxAttempts
    BY <1>7, EgressAssumption DEF Retry
  <2> QED
    BY <1>7, <2>1, SendAttemptTyped DEF Retry
<1> QED
  BY <1>1, <1>2, <1>3, <1>4, <1>5, <1>6, <1>7 DEF SendStep

LEMMA StopTyped ==
  ASSUME EgressTyped, NEW c \in Calls, Stop(c)
  PROVE  EgressTyped'
  BY DEF EgressTyped, EgressTypeOK, LoopState, Stages, Stop

LEMMA PspTyped == EgressTyped /\ Psp => EgressTyped'
<1> SUFFICES ASSUME EgressTyped, NEW m \in wire,
                    PspActs(m[1], m[2]) \/ PspTurnsAway(m[1], m[2]),
                    wire' = wire \ {m}, UNCHANGED <<st, attempt, category, breaker>>
             PROVE  EgressTyped'
  BY DEF Psp
<1> DEFINE c == m[1]
           n == m[2]
           key == OutboundKey(c, n)
<1>1. c \in Calls /\ n \in 1 .. MaxAttempts
  BY DEF EgressTyped, EgressTypeOK
<1>2. ASSUME NEW r \in Replies, Answer(c, n, r)
      PROVE  reply' \in [Calls -> Replies \cup {None}]
  BY <1>1, <1>2 DEF Answer, EgressTyped, EgressTypeOK
<1>3. reply' \in [Calls -> Replies \cup {None}]
  <2>1. CASE PspActs(c, n)
    <3>1. PICK outcome : /\ outcome \in Outcomes \cup {d.outcome : d \in decided}
                         /\ \E r \in {AnswerOf(outcome), Garbled, Failing} : Answer(c, n, r)
      BY <2>1 DEF PspActs
    <3>2. outcome \in Outcomes
      BY <3>1 DEF EgressTyped, EgressTypeOK
    <3> QED
      BY <1>2, <3>1, <3>2, AnswersTyped
  <2>2. CASE PspTurnsAway(c, n)
    BY <1>2, <2>2, AnswersTyped DEF PspTurnsAway
  <2> QED
    BY <2>1, <2>2
<1>4. decided' \subseteq [key: Calls \X (1 .. MaxAttempts), outcome: Outcomes]
  <2>1. CASE PspActs(c, n)
    <3>1. PICK outcome : /\ outcome \in Outcomes \cup {d.outcome : d \in decided}
                         /\ decided' = decided \cup {[key |-> key, outcome |-> outcome]}
      BY <2>1 DEF PspActs
    <3>2. outcome \in Outcomes
      BY <3>1 DEF EgressTyped, EgressTypeOK
    <3>3. key \in Calls \X (1 .. MaxAttempts)
      BY <1>1, KeyTyped
    <3> HIDE DEF key
    <3> QED
      BY <3>1, <3>2, <3>3 DEF EgressTyped, EgressTypeOK
  <2>2. CASE PspTurnsAway(c, n)
    BY <2>2 DEF PspTurnsAway, EgressTyped, EgressTypeOK
  <2> QED
    BY <2>1, <2>2
<1> QED
  BY <1>3, <1>4 DEF EgressTyped, EgressTypeOK, LoopState

LEMMA EgressNextTyped == EgressTyped /\ [EgressNext]_egressVars => EgressTyped'
<1> SUFFICES ASSUME EgressTyped, [EgressNext]_egressVars PROVE EgressTyped'
  OBVIOUS
<1>1. ASSUME NEW c \in Calls, SendAllowed(c) PROVE EgressTyped'
  BY <1>1, SendAttemptTyped, EgressAssumption DEF SendAllowed
<1>2. ASSUME NEW c \in Calls, SendCircuitOpen(c) PROVE EgressTyped'
  BY <1>2 DEF SendCircuitOpen, EgressTyped, EgressTypeOK, LoopState, Stages
<1>3. ASSUME NEW c \in Calls, SendStep(c) PROVE EgressTyped'
  BY <1>3, SendStepTyped
<1>4. ASSUME NEW c \in Calls, Stop(c) PROVE EgressTyped'
  BY <1>4, StopTyped
<1>5. CASE Psp
  BY <1>5, PspTyped
<1>6. CASE UNCHANGED egressVars
  BY <1>6 DEF egressVars, EgressTyped, EgressTypeOK, LoopState
<1> QED
  BY <1>1, <1>2, <1>3, <1>4, <1>5, <1>6 DEF EgressNext, AllFinished

\* send keeps its type: no call makes more attempts than max_attempts, whatever
\* order timeouts, answers and deaths come in.
THEOREM EgressTypeCorrect == EgressSafety => []EgressTypeOK
<1>1. EgressTyped => EgressTypeOK
  BY DEF EgressTyped
<1> QED
  BY <1>1, EgressInitTyped, EgressNextTyped, PTL DEF EgressSafety

-----------------------------------------------------------------------------
(* The outbound key.  The PSP never has two outcomes under one key, and when   *)
(* the key is sent all the attempts of a call carry the same one; so whatever  *)
(* the PSP decided first is all it ever decides for the call.                  *)

ActedOncePerKey == \A d, e \in decided : d.key = e.key => d = e

KeyPerCall == KeySent => \A d \in decided : d.key = <<d.key[1], 1>>

Declined(c) == [key |-> <<c, 1>>, outcome |-> "declined"]

\* A refusal that is on its way to send, or that send remembers, is the PSP's
\* decision on that call.
RefusalHeard ==
    KeySent => \A c \in Calls :
        /\ reply[c] # None /\ reply[c].code = "http_402" => Declined(c) \in decided
        /\ category[c] = "http_402" => Declined(c) \in decided

EgressSafe == EgressTyped /\ ActedOncePerKey /\ KeyPerCall /\ RefusalHeard

LEMMA EgressInitSafe == EgressInit => EgressSafe
<1>1. None # "http_402"
  BY EgressAssumption DEF Categories, HttpCategories
<1> QED
  BY <1>1, EgressInitTyped
  DEF EgressInit, EgressSafe, ActedOncePerKey, KeyPerCall, RefusalHeard

\* A step that leaves the PSP alone, forgets answers and takes a category only from
\* an answer or from the network keeps what is known of refusals.
LEMMA CallStepSafe ==
  ASSUME EgressSafe, EgressTyped', UNCHANGED decided,
         \A c \in Calls : reply'[c] \in {reply[c], None},
         \A c \in Calls : \/ category'[c] # "http_402"
                          \/ category'[c] = category[c]
                          \/ reply[c] # None /\ reply[c].code = category'[c]
  PROVE  EgressSafe'
  BY DEF EgressSafe, ActedOncePerKey, KeyPerCall, RefusalHeard, Declined

LEMMA SendStepSafe ==
  ASSUME EgressSafe, NEW c \in Calls, SendStep(c)
  PROVE  EgressSafe'
<1>1. EgressTyped /\ EgressTyped'
  BY SendStepTyped DEF EgressSafe
<1> USE <1>1 DEF EgressTyped, EgressTypeOK
<1>2. CASE Receive2xx(c)
  BY <1>2, CallStepSafe DEF Receive2xx
<1>3. CASE ReceiveError(c)
  BY <1>3, CallStepSafe DEF ReceiveError, AttemptFailed
<1>4. CASE Oversize(c)
  BY <1>4, CallStepSafe DEF Oversize
<1>5. ASSUME NEW cat \in {"timeout", "network_error"}, LoseAttempt(c, cat)
      PROVE  EgressSafe'
  BY <1>5, CallStepSafe DEF LoseAttempt, AttemptFailed
<1>6. CASE GiveUp(c)
  BY <1>6, CallStepSafe DEF GiveUp
<1>7. CASE Backoff(c)
  BY <1>7, CallStepSafe DEF Backoff
<1>8. CASE Retry(c)
  BY <1>8, CallStepSafe DEF Retry, SendAttempt
<1> QED
  BY <1>2, <1>3, <1>4, <1>5, <1>6, <1>7, <1>8 DEF SendStep

\* The PSP's step: nothing new under a key it has acted on; a refusal is answered
\* only where it was decided.
LEMMA PspSafe == EgressSafe /\ Psp => EgressSafe'
<1> SUFFICES ASSUME EgressSafe, NEW m \in wire,
                    PspActs(m[1], m[2]) \/ PspTurnsAway(m[1], m[2]),
                    UNCHANGED <<st, attempt, category, breaker>>, EgressTyped'
             PROVE  EgressSafe'
  BY PspTyped DEF Psp, EgressSafe
<1> DEFINE c == m[1]
           n == m[2]
           key == OutboundKey(c, n)
<1>1. c \in Calls
  BY DEF EgressSafe, EgressTyped, EgressTypeOK
<1>2. CASE PspTurnsAway(c, n)
  <2>1. PICK r \in {Busy, Failing} : Answer(c, n, r)
    BY <1>2 DEF PspTurnsAway
  <2>2. r.code # "http_402"
    BY <2>1 DEF Busy, Failing
  <2>3. \A q \in Calls : reply'[q] = reply[q] \/ reply'[q] = r
    BY <1>1, <2>1 DEF Answer, EgressSafe, EgressTyped, EgressTypeOK
  <2>4. UNCHANGED decided
    BY <1>2 DEF PspTurnsAway
  <2> QED
    BY <2>2, <2>3, <2>4
    DEF EgressSafe, ActedOncePerKey, KeyPerCall, RefusalHeard, Declined
<1>3. CASE PspActs(c, n)
  <2> DEFINE old == {d \in decided : d.key = key}
  <2>1. PICK outcome \in IF old = {} THEN Outcomes ELSE {d.outcome : d \in old} :
            /\ decided' = decided \cup {[key |-> key, outcome |-> outcome]}
            /\ \E r \in {AnswerOf(outcome), Garbled, Failing} : Answer(c, n, r)
    BY <1>3 DEF PspActs
  <2>2. PICK r \in {AnswerOf(outcome), Garbled, Failing} : Answer(c, n, r)
    BY <2>1
  <2> DEFINE new == [key |-> key, outcome |-> outcome]
  <2>3. new.key = key /\ new.outcome = outcome
    OBVIOUS
  <2>4. \A d \in decided : d.key = key => d = new
    <3> SUFFICES ASSUME NEW d \in decided, d.key = key PROVE d = new
      OBVIOUS
    <3>1. outcome = d.outcome
      <4>1. d \in old
        OBVIOUS
      <4>2. PICK e \in old : outcome = e.outcome
        BY <2>1, <4>1
      <4> QED
        BY <4>2 DEF EgressSafe, ActedOncePerKey
    <3>2. d = [key |-> d.key, outcome |-> d.outcome]
      BY DEF EgressSafe, EgressTyped, EgressTypeOK
    <3> QED
      BY <3>1, <3>2
  <2>5. ActedOncePerKey'
    BY <2>1, <2>3, <2>4 DEF EgressSafe, ActedOncePerKey
  <2>6. KeySent => key = <<c, 1>>
    BY DEF OutboundKey
  <2>7. KeyPerCall'
    BY <2>1, <2>3, <2>6 DEF EgressSafe, KeyPerCall
  <2>8. r.code = "http_402" => outcome = "declined"
    BY <2>2 DEF AnswerOf, Garbled, Failing
  <2>9. \A q \in Calls : reply'[q] = reply[q] \/ (q = c /\ reply'[q] = r)
    BY <1>1, <2>2 DEF Answer, EgressSafe, EgressTyped, EgressTypeOK
  <2>10. RefusalHeard'
    <3> SUFFICES ASSUME KeySent, NEW q \in Calls
                 PROVE  /\ reply'[q] # None /\ reply'[q].code = "http_402"
                             => Declined(q) \in decided'
                        /\ category'[q] = "http_402" => Declined(q) \in decided'
      BY DEF RefusalHeard, Declined
    <3>1. category'[q] = "http_402" => Declined(q) \in decided'
      BY <2>1 DEF EgressSafe, RefusalHeard
    <3>2. CASE reply'[q] = reply[q]
      BY <2>1, <3>1, <3>2 DEF EgressSafe, RefusalHeard
    <3>3. CASE q = c /\ reply'[q] = r
      BY <2>1, <2>6, <2>8, <3>1, <3>3 DEF Declined
    <3> QED
      BY <2>9, <3>2, <3>3
  <2> QED
    BY <2>5, <2>7, <2>10 DEF EgressSafe
<1> QED
  BY <1>2, <1>3

LEMMA EgressNextSafe == EgressSafe /\ [EgressNext]_egressVars => EgressSafe'
<1> SUFFICES ASSUME EgressSafe, [EgressNext]_egressVars PROVE EgressSafe'
  OBVIOUS
<1>1. EgressTyped /\ EgressTyped'
  BY EgressNextTyped DEF EgressSafe
<1>2. ASSUME NEW c \in Calls, SendAllowed(c) PROVE EgressSafe'
  BY <1>1, <1>2, CallStepSafe DEF SendAllowed, SendAttempt, EgressTyped, EgressTypeOK
<1>3. ASSUME NEW c \in Calls, SendCircuitOpen(c) PROVE EgressSafe'
  BY <1>1, <1>3, CallStepSafe DEF SendCircuitOpen, EgressTyped, EgressTypeOK
<1>4. ASSUME NEW c \in Calls, SendStep(c) PROVE EgressSafe'
  BY <1>4, SendStepSafe
<1>5. ASSUME NEW c \in Calls, Stop(c) PROVE EgressSafe'
  BY <1>1, <1>5, CallStepSafe DEF Stop, EgressTyped, EgressTypeOK
<1>6. CASE Psp
  BY <1>6, PspSafe
<1>7. CASE UNCHANGED egressVars
  BY <1>1, <1>7, CallStepSafe DEF egressVars
<1> QED
  BY <1>2, <1>3, <1>4, <1>5, <1>6, <1>7 DEF EgressNext, AllFinished

LEMMA EgressAlwaysSafe == EgressSafety => []EgressSafe
  BY EgressInitSafe, EgressNextSafe, PTL DEF EgressSafety

\* All the charges of a call are one charge.
LEMMA ChargesAreOne ==
  ASSUME EgressSafe, KeySent, NEW c \in Calls
  PROVE  \A d, e \in ChargesOf(c) : d = e
  BY DEF EgressSafe, KeyPerCall, ActedOncePerKey, ChargesOf

\* A call is charged at most once, however often it is retried and however late its
\* attempts reach the PSP, provided its outbound key is in the request.
THEOREM ChargedAtMostOnce == KeySent => (EgressSafety => []OneChargePerCall)
<1> SUFFICES ASSUME KeySent PROVE EgressSafety => []OneChargePerCall
  OBVIOUS
<1>1. EgressSafe => OneChargePerCall
  <2> SUFFICES ASSUME EgressSafe, NEW c \in Calls
               PROVE  Cardinality(ChargesOf(c)) <= 1
    BY DEF OneChargePerCall
  <2>1. CASE ChargesOf(c) = {}
    BY <2>1, FS_EmptySet
  <2>2. CASE ChargesOf(c) # {}
    <3>1. PICK d : d \in ChargesOf(c)
      BY <2>2
    <3>2. ChargesOf(c) = {d}
      BY <3>1, ChargesAreOne
    <3>3. Cardinality({d}) = 1
      BY FS_Singleton
    <3> QED
      BY <3>2, <3>3
  <2> QED
    BY <2>1, <2>2
<1> QED
  BY <1>1, EgressAlwaysSafe, PTL

\* A call that ended in a refusal is never charged, not even by an attempt that is
\* still under way, provided its outbound key is in the request.
THEOREM RefusalStands == KeySent => (EgressSafety => []RefusalIsFinal)
<1> SUFFICES ASSUME KeySent PROVE EgressSafety => []RefusalIsFinal
  OBVIOUS
<1>1. EgressSafe => RefusalIsFinal
  <2> SUFFICES ASSUME EgressSafe, NEW c \in Calls, category[c] = "http_402",
                      NEW d \in ChargesOf(c)
               PROVE  FALSE
    BY DEF RefusalIsFinal
  <2>1. Declined(c) \in decided
    BY DEF EgressSafe, RefusalHeard
  <2>2. d.key = Declined(c).key
    BY DEF EgressSafe, KeyPerCall, ChargesOf, Declined
  <2>3. d = Declined(c)
    BY <2>1, <2>2 DEF EgressSafe, ActedOncePerKey, ChargesOf
  <2> QED
    BY <2>3 DEF ChargesOf, Declined
<1> QED
  BY <1>1, EgressAlwaysSafe, PTL

-----------------------------------------------------------------------------
(* The retry policy.  A call sleeps only for a category it may retry, and ends *)
(* in one only when its attempts are spent; a call that has not begun has made *)
(* none.                                                                       *)

PolicyKept ==
    \A c \in Calls :
        /\ st[c] = "idle" => attempt[c] = 0
        /\ st[c] = "backoff" => ShouldRetry(category[c])
        /\ st[c] = "raised" /\ category[c] \in Categories =>
               ~ShouldRetry(category[c]) \/ attempt[c] = MaxAttempts

LEMMA SendStepKeepsPolicy ==
  ASSUME EgressTyped, PolicyKept, NEW c \in Calls, SendStep(c)
  PROVE  PolicyKept'
<1> USE DEF EgressTyped, EgressTypeOK, PolicyKept, ShouldRetry
<1>1. CASE Receive2xx(c)
  BY <1>1 DEF Receive2xx
<1>2. CASE ReceiveError(c)
  BY <1>2 DEF ReceiveError, AttemptFailed
<1>3. CASE Oversize(c)
  BY <1>3 DEF Oversize, Categories, HttpCategories
<1>4. ASSUME NEW cat \in {"timeout", "network_error"}, LoseAttempt(c, cat)
      PROVE  PolicyKept'
  BY <1>4 DEF LoseAttempt, AttemptFailed
<1>5. CASE GiveUp(c)
  <2>1. attempt[c] \in 0 .. MaxAttempts /\ MaxAttempts \in Nat
    BY EgressAssumption
  <2>2. ~ShouldRetry(category[c]) \/ attempt[c] = MaxAttempts
    BY <1>5, <2>1 DEF GiveUp
  <2> QED
    BY <1>5, <2>2 DEF GiveUp
<1>6. CASE Backoff(c)
  BY <1>6 DEF Backoff
<1>7. CASE Retry(c)
  BY <1>7 DEF Retry, SendAttempt
<1> QED
  BY <1>1, <1>2, <1>3, <1>4, <1>5, <1>6, <1>7 DEF SendStep

LEMMA EgressNextKeepsPolicy ==
  EgressTyped /\ PolicyKept /\ [EgressNext]_egressVars => PolicyKept'
<1> SUFFICES ASSUME EgressTyped, PolicyKept, [EgressNext]_egressVars PROVE PolicyKept'
  OBVIOUS
<1> USE DEF EgressTyped, EgressTypeOK, PolicyKept, ShouldRetry
<1>1. ASSUME NEW c \in Calls, SendAllowed(c) PROVE PolicyKept'
  BY <1>1 DEF SendAllowed, SendAttempt
<1>2. ASSUME NEW c \in Calls, SendCircuitOpen(c) PROVE PolicyKept'
  BY <1>2 DEF SendCircuitOpen, Categories, HttpCategories
<1>3. ASSUME NEW c \in Calls, SendStep(c) PROVE PolicyKept'
  BY <1>3, SendStepKeepsPolicy
<1>4. ASSUME NEW c \in Calls, Stop(c) PROVE PolicyKept'
  BY <1>4 DEF Stop
<1>5. CASE Psp
  BY <1>5 DEF Psp
<1>6. CASE UNCHANGED egressVars
  BY <1>6 DEF egressVars
<1> QED
  BY <1>1, <1>2, <1>3, <1>4, <1>5, <1>6 DEF EgressNext, AllFinished

LEMMA EgressAlwaysByPolicy == EgressSafety => [](EgressTyped /\ PolicyKept)
<1>1. EgressInit => PolicyKept
  BY DEF EgressInit, PolicyKept
<1> QED
  BY <1>1, EgressInitTyped, EgressNextTyped, EgressNextKeepsPolicy, PTL DEF EgressSafety

\* send gives up on a category the manifest retries only after max_attempts attempts,
\* however its failures are mixed (the loop's two exits).
THEOREM AttemptsAreSpent == EgressSafety => []GivesUpOnlyWhenSpent
<1>1. PolicyKept => GivesUpOnlyWhenSpent
  BY DEF PolicyKept, GivesUpOnlyWhenSpent
<1> QED
  BY <1>1, EgressAlwaysByPolicy, PTL

\* send never makes another attempt after a category that the manifest does not retry
\* or that it forbids to retry.
THEOREM RetriesFollowThePolicy == EgressSafety => RetriesAreListed
<1> DEFINE Listed == \A c \in Calls : attempt[c] > 0 /\ attempt'[c] > attempt[c] =>
                                         category[c] \in RetryOn \ DoNotRetryOn
<1>1. ASSUME EgressTyped, PolicyKept, EgressNext PROVE Listed
  <2> USE <1>1
  <2>1. \A c \in Calls : attempt[c] \in Nat
    BY EgressAssumption DEF EgressTyped, EgressTypeOK
  <2>2. ASSUME NEW c \in Calls, SendAllowed(c) PROVE Listed
    <3>1. attempt[c] = 0
      BY <2>2 DEF SendAllowed, PolicyKept
    <3>2. \A q \in Calls : q # c => attempt'[q] = attempt[q]
      BY <2>2 DEF SendAllowed, SendAttempt
    <3> QED
      BY <2>1, <3>1, <3>2
  <2>3. ASSUME NEW c \in Calls, SendStep(c), ~Retry(c) PROVE Listed
    BY <2>1, <2>3 DEF SendStep, Receive2xx, ReceiveError, Oversize, LoseAttempt, GiveUp,
       Backoff, AttemptFailed
  <2>4. ASSUME NEW c \in Calls, Retry(c) PROVE Listed
    <3>1. ShouldRetry(category[c])
      BY <2>4 DEF Retry, PolicyKept
    <3>2. \A q \in Calls : q # c => attempt'[q] = attempt[q]
      BY <2>4 DEF Retry, SendAttempt
    <3> QED
      BY <2>1, <3>1, <3>2 DEF ShouldRetry
  <2>5. CASE UNCHANGED attempt
    BY <2>1, <2>5
  <2> QED
    BY <2>2, <2>3, <2>4, <2>5 DEF EgressNext, SendCircuitOpen, Stop, Psp,
       AllFinished, egressVars
<1>2. EgressTyped /\ PolicyKept /\ [EgressNext]_egressVars => [Listed]_egressVars
  BY <1>1
<1> QED
  BY <1>2, EgressAlwaysByPolicy, PTL DEF EgressSafety, RetriesAreListed

-----------------------------------------------------------------------------
(* What the PSP says.  An answer with a status tells of a charge that was made *)
(* for this very call, and what was decided stays decided.                     *)

ReplyTrue ==
    \A c \in Calls :
        /\ st[c] = "returned" => reply[c] # None /\ reply[c].code = "2xx"
        /\ reply[c] # None /\ reply[c].code = "2xx" =>
               reply[c].body = "garbled"
               \/ \E d \in ChargesOf(c) : d.outcome = reply[c].body

LEMMA DecisionsStand == [EgressNext]_egressVars => decided \subseteq decided'
  BY DEF EgressNext, SendAllowed, SendCircuitOpen, SendStep, Receive2xx, ReceiveError,
     Oversize, LoseAttempt, GiveUp, Backoff, Retry, AttemptFailed, Stop, Psp, PspActs,
     PspTurnsAway, AllFinished, egressVars

\* A step that keeps what was decided, forgets answers at most, and returns only what
\* it has heard.
LEMMA CallKeepsReplyTrue ==
  ASSUME ReplyTrue, decided \subseteq decided',
         \A c \in Calls : reply'[c] \in {reply[c], None},
         \A c \in Calls : st'[c] = "returned" =>
             /\ reply'[c] = reply[c] /\ reply[c] # None
             /\ reply[c].code = "2xx"
  PROVE  ReplyTrue'
<1>1. \A c \in Calls : ChargesOf(c) \subseteq ChargesOf(c)'
  BY DEF ChargesOf
<1> QED
  BY <1>1 DEF ReplyTrue

LEMMA PspKeepsReplyTrue == EgressTyped /\ ReplyTrue /\ Psp => ReplyTrue'
<1> SUFFICES ASSUME EgressTyped, ReplyTrue, Psp PROVE ReplyTrue'
  OBVIOUS
<1>1. PICK m \in wire : /\ PspActs(m[1], m[2]) \/ PspTurnsAway(m[1], m[2])
                        /\ UNCHANGED <<st, attempt, category, breaker>>
  BY DEF Psp
<1> DEFINE c == m[1]
           n == m[2]
           key == OutboundKey(c, n)
<1>2. c \in Calls /\ key[1] = c
  BY DEF EgressTyped, EgressTypeOK, OutboundKey
<1>3. decided \subseteq decided'
  BY <1>1 DEF PspActs, PspTurnsAway
<1>4. \A q \in Calls : ChargesOf(q) \subseteq ChargesOf(q)'
  BY <1>3 DEF ChargesOf
\* An answer to c that is true, if it is a 2xx with a status.
<1>5. ASSUME NEW r, Answer(c, n, r),
             r.code = "2xx" => \/ r.body = "garbled"
                               \/ \E d \in ChargesOf(c)' : d.outcome = r.body
      PROVE  ReplyTrue'
  <2>1. \A q \in Calls : \/ reply'[q] = reply[q]
                         \/ q = c /\ reply'[q] = r /\ st[q] = "awaiting"
    BY <1>2, <1>5 DEF Answer, EgressTyped, EgressTypeOK
  <2>2. UNCHANGED st
    BY <1>1
  <2> SUFFICES ASSUME NEW q \in Calls
               PROVE  /\ st'[q] = "returned" => reply'[q] # None /\ reply'[q].code = "2xx"
                      /\ reply'[q] # None /\ reply'[q].code = "2xx" =>
                            \/ reply'[q].body = "garbled"
                            \/ \E d \in ChargesOf(q)' : d.outcome = reply'[q].body
    BY DEF ReplyTrue
  <2>3. CASE reply'[q] = reply[q]
    BY <1>4, <2>2, <2>3 DEF ReplyTrue
  <2>4. CASE q = c /\ reply'[q] = r /\ st[q] = "awaiting"
    BY <1>5, <2>2, <2>4
  <2> QED
    BY <2>1, <2>3, <2>4
<1>6. CASE PspTurnsAway(c, n)
  BY <1>5, <1>6 DEF PspTurnsAway, Busy, Failing
<1>7. CASE PspActs(c, n)
  <2>1. PICK outcome :
            /\ decided' = decided \cup {[key |-> key, outcome |-> outcome]}
            /\ \E r \in {AnswerOf(outcome), Garbled, Failing} : Answer(c, n, r)
    BY <1>7 DEF PspActs
  <2>2. outcome # "declined" => \E d \in ChargesOf(c)' : d.outcome = outcome
    <3> DEFINE new == [key |-> key, outcome |-> outcome]
    <3>1. new.key = key /\ new.outcome = outcome
      OBVIOUS
    <3> HIDE DEF new
    <3>2. new \in decided'
      BY <2>1 DEF new
    <3> QED
      BY <1>2, <3>1, <3>2 DEF ChargesOf
  <2>3. AnswerOf(outcome).code = "2xx" =>
            outcome # "declined" /\ AnswerOf(outcome).body = outcome
    BY DEF AnswerOf
  <2>4. Garbled.body = "garbled" /\ Failing.code # "2xx"
    BY DEF Garbled, Failing
  <2> QED
    BY <1>5, <2>1, <2>2, <2>3, <2>4
<1> QED
  BY <1>1, <1>6, <1>7

LEMMA EgressNextKeepsReplyTrue ==
  EgressTyped /\ ReplyTrue /\ [EgressNext]_egressVars => ReplyTrue'
<1> SUFFICES ASSUME EgressTyped, ReplyTrue, [EgressNext]_egressVars PROVE ReplyTrue'
  OBVIOUS
<1> USE DecisionsStand, CallKeepsReplyTrue DEF EgressTyped, EgressTypeOK, ReplyTrue
<1>1. ASSUME NEW c \in Calls, SendAllowed(c) PROVE ReplyTrue'
  BY <1>1 DEF SendAllowed, SendAttempt
<1>2. ASSUME NEW c \in Calls, SendCircuitOpen(c) PROVE ReplyTrue'
  BY <1>2 DEF SendCircuitOpen
<1>3. ASSUME NEW c \in Calls, SendStep(c) PROVE ReplyTrue'
  <2>1. CASE Receive2xx(c)
    BY <2>1 DEF Receive2xx
  <2>2. CASE ReceiveError(c)
    BY <2>2 DEF ReceiveError, AttemptFailed
  <2>3. CASE Oversize(c)
    BY <2>3 DEF Oversize
  <2>4. ASSUME NEW cat \in {"timeout", "network_error"}, LoseAttempt(c, cat)
        PROVE  ReplyTrue'
    BY <2>4 DEF LoseAttempt, AttemptFailed
  <2>5. CASE GiveUp(c)
    BY <2>5 DEF GiveUp
  <2>6. CASE Backoff(c)
    BY <2>6 DEF Backoff
  <2>7. CASE Retry(c)
    BY <2>7 DEF Retry, SendAttempt
  <2> QED
    BY <1>3, <2>1, <2>2, <2>3, <2>4, <2>5, <2>6, <2>7 DEF SendStep
<1>4. ASSUME NEW c \in Calls, Stop(c) PROVE ReplyTrue'
  BY <1>4 DEF Stop
<1>5. CASE Psp
  BY <1>5, PspKeepsReplyTrue
<1>6. CASE UNCHANGED egressVars
  BY <1>6 DEF egressVars
<1> QED
  BY <1>1, <1>2, <1>3, <1>4, <1>5, <1>6 DEF EgressNext, AllFinished

\* send returns nothing but what the PSP did for this call (or an unreadable body).
LEMMA RepliesAreTrue == EgressSafety => []ReplyTrue
<1>1. EgressInit => ReplyTrue
  BY EgressAssumption DEF EgressInit, ReplyTrue
<1> QED
  BY <1>1, EgressInitTyped, EgressNextTyped, EgressNextKeepsReplyTrue, PTL DEF EgressSafety

-----------------------------------------------------------------------------
(* Part two: the use case. *)

\* Where a request is says what it has written.
PhaseTyped ==
    \A r \in Requests :
        /\ uow[r] # None <=> pc[r] \in {"executing", "staged"}
        /\ pc[r] = "staged" => uow[r].txStatus \in {"SUCCESS", "FAILED"}
        /\ payments[r] # None => pc[r] \in {"committed", "ended", "crashed"}
        /\ pc[r] = "committed" => payments[r] # None

Typed == TypeOK /\ LoopState /\ PhaseTyped

\* The database and the answer, as one state function.
clientVars == <<pc, uow, answer, dbVars>>

LEMMA TypedEgress == Typed <=> EgressTyped /\ TypeOK /\ PhaseTyped
  BY DEF Typed, EgressTyped, TypeOK

LEMMA InitTyped == Init => Typed
<1> SUFFICES ASSUME Init PROVE Typed
  OBVIOUS
<1>1. EgressTyped
  BY EgressInitTyped DEF Init
<1>2. TypeOK
  BY <1>1 DEF Init, EgressTyped, TypeOK, Phases
<1>3. PhaseTyped
  BY DEF Init, PhaseTyped
<1> QED
  BY <1>1, <1>2, <1>3, TypedEgress

\* Steps of the engine and of the PSP do not touch the database or the client.
LEMMA EngineStepTyped ==
  ASSUME Typed, EgressTyped', UNCHANGED clientVars
  PROVE  Typed'
<1>1. TypeOK'
  BY DEF Typed, TypeOK, EgressTyped, clientVars, dbVars
<1>2. PhaseTyped'
  BY DEF Typed, PhaseTyped, clientVars, dbVars
<1> QED
  BY <1>1, <1>2 DEF Typed, EgressTyped

\* Steps of the handler do not touch the engine.
LEMMA EgressKept ==
  ASSUME EgressTyped, UNCHANGED egressVars
  PROVE  EgressTyped'
  BY DEF egressVars, EgressTyped, EgressTypeOK, LoopState

LEMMA RollBackTyped ==
  ASSUME Typed, NEW r \in Requests, NEW code \in ErrorAnswers, RollBack(r, code),
         pc[r] \in {"new", "inserting", "executing", "staged"}
  PROVE  Typed'
<1>1. EgressTyped'
  BY TypedEgress, EgressKept DEF RollBack
<1>2. TypeOK'
  BY <1>1 DEF RollBack, Typed, TypeOK, EgressTyped, Phases, dbVars
<1>3. PhaseTyped'
  BY DEF RollBack, Typed, TypeOK, PhaseTyped, dbVars
<1> QED
  BY <1>1, <1>2, <1>3 DEF Typed, EgressTyped

LEMMA StageTyped ==
  ASSUME Typed, NEW r \in Requests, pc[r] = "executing", NEW dst \in PaymentStatuses,
         NEW txStatus \in {"SUCCESS", "FAILED"}, NEW code \in Codes,
         Stage(r, dst, txStatus, code)
  PROVE  Typed'
<1> DEFINE events == IF dst = uow[r].status THEN uow[r].events
                     ELSE Append(uow[r].events, EventOf(dst))
           work == [status |-> dst, events |-> events, txStatus |-> txStatus,
                    code |-> code]
<1>1. EgressTyped'
  BY TypedEgress, EgressKept DEF Stage
<1>2. uow[r] \in Work
  BY DEF Typed, TypeOK, PhaseTyped
<1>3. EventOf(dst) \in EventTypes
  BY DEF EventOf, EventTypes
<1>4. events \in Seq(EventTypes)
  BY <1>2, <1>3 DEF Work
<1>5. work \in Work
  BY <1>4 DEF Work
<1>6. uow' = [uow EXCEPT ![r] = work]
  BY DEF Stage
<1>7. work # None /\ work.txStatus = txStatus
  BY <1>5, CreateAssumption
<1> HIDE DEF work
<1>8. TypeOK'
  BY <1>1, <1>5, <1>6 DEF Stage, Typed, TypeOK, EgressTyped, Phases, dbVars
<1>9. PhaseTyped'
  BY <1>6, <1>7 DEF Stage, Typed, TypeOK, PhaseTyped, dbVars
<1> QED
  BY <1>1, <1>8, <1>9 DEF Typed, EgressTyped

LEMMA InsertTyped ==
  ASSUME Typed, NEW r \in Requests, Insert(r)
  PROVE  Typed'
<1> DEFINE work == [status |-> "PENDING", events |-> <<"payment.created">>,
                    txStatus |-> "PENDING", code |-> "none"]
<1>1. EgressTyped'
  BY TypedEgress, EgressKept DEF Insert
<1>2. work \in Work
  <2>1. <<"payment.created">> \in Seq(EventTypes)
    BY DEF EventTypes
  <2>2. "PENDING" \in PaymentStatuses /\ "none" \in Codes
    BY DEF PaymentStatuses, Codes
  <2> QED
    BY <2>1, <2>2 DEF Work
<1>3. work # None
  BY <1>2, CreateAssumption
<1>4. uow' = [uow EXCEPT ![r] = work]
  BY DEF Insert
<1> HIDE DEF work
<1>5. TypeOK'
  BY <1>1, <1>2, <1>4 DEF Insert, Typed, TypeOK, EgressTyped, Phases, dbVars
<1>6. PhaseTyped'
  BY <1>3, <1>4 DEF Insert, Typed, TypeOK, PhaseTyped, dbVars
<1> QED
  BY <1>1, <1>5, <1>6 DEF Typed, EgressTyped

LEMMA CommitTyped ==
  ASSUME Typed, NEW r \in Requests, Commit(r)
  PROVE  Typed'
<1>1. EgressTyped'
  BY TypedEgress, EgressKept DEF Commit
<1>2. uow[r] \in Work /\ uow[r].txStatus \in {"SUCCESS", "FAILED"}
  BY DEF Commit, Typed, TypeOK, PhaseTyped
<1>3. LedgerRow(r) \in [payment: Requests, status: {"SUCCESS", "FAILED"}, code: Codes]
  BY <1>2 DEF LedgerRow, Work
<1>4. OutboxRows(r) \in Seq([payment: Requests, type: EventTypes])
  <2>1. /\ uow[r].events \in Seq(EventTypes)
        /\ Len(uow[r].events) \in Nat
        /\ \A i \in 1 .. Len(uow[r].events) : uow[r].events[i] \in EventTypes
    BY <1>2 DEF Work
  <2> DEFINE n == Len(uow[r].events)
             Row == [payment: Requests, type: EventTypes]
  <2>2. OutboxRows(r) \in [1 .. n -> Row]
    BY <2>1 DEF OutboxRows
  <2> HIDE DEF n, Row
  <2>3. n \in Nat
    BY <2>1 DEF n
  <2>4. OutboxRows(r) \in Seq(Row)
    BY <2>2, <2>3, SeqDef
  <2> QED
    BY <2>4 DEF Row
<1>5. uow[r].status \in PaymentStatuses /\ None \notin PaymentStatuses
  BY <1>2, CreateAssumption DEF Work
<1>6. TypeOK'
  BY <1>1, <1>3, <1>4, <1>5 DEF Commit, Typed, TypeOK, EgressTyped, Phases
<1>7. PhaseTyped'
  BY <1>5 DEF Commit, Typed, TypeOK, PhaseTyped
<1> QED
  BY <1>1, <1>6, <1>7 DEF Typed, EgressTyped

LEMMA ReplyTyped ==
  ASSUME Typed, NEW r \in Requests, Reply(r)
  PROVE  Typed'
<1>1. EgressTyped'
  BY TypedEgress, EgressKept DEF Reply
<1>2. TypeOK'
  <2>1. PICK a \in {payments[r], "500"} : answer' = [answer EXCEPT ![r] = a]
    BY DEF Reply
  <2>2. a \in PaymentStatuses \cup ErrorAnswers \cup {None}
    BY DEF Typed, TypeOK, ErrorAnswers
  <2> QED
    BY <1>1, <2>1, <2>2 DEF Reply, Typed, TypeOK, EgressTyped, Phases, dbVars
<1>3. PhaseTyped'
  BY DEF Reply, Typed, TypeOK, PhaseTyped, dbVars
<1> QED
  BY <1>1, <1>2, <1>3 DEF Typed, EgressTyped

LEMMA CrashTyped ==
  ASSUME Typed, NEW r \in Requests, Crash(r)
  PROVE  Typed'
<1>1. EgressTyped'
  BY TypedEgress, StopTyped DEF Crash, Requests
<1>2. TypeOK'
  BY <1>1 DEF Crash, Typed, TypeOK, EgressTyped, Phases, dbVars
<1>3. PhaseTyped'
  BY DEF Crash, Typed, TypeOK, PhaseTyped, dbVars
<1> QED
  BY <1>1, <1>2, <1>3 DEF Typed, EgressTyped

LEMMA AppliedTyped == \A mapped : Applied(mapped) \in PaymentStatuses
  BY DEF Applied, PaymentStatuses

LEMMA ApplyTyped ==
  ASSUME Typed, NEW r \in Requests,
         \/ ApplyEgressError(r) \/ ApplyProtocolError(r)
         \/ ApplyUnsuccess(r) \/ ApplySuccess(r)
  PROVE  Typed'
<1>1. "FAILED" \in PaymentStatuses /\ {"engine_error", "provider_error", "none"} \subseteq Codes
  BY DEF PaymentStatuses, Codes
<1>2. CASE ApplyEgressError(r)
  <2>1. category[r] \in Codes
    BY <1>2 DEF ApplyEgressError, Typed, LoopState, Requests, Codes
  <2> QED
    BY <1>1, <1>2, <2>1, StageTyped DEF ApplyEgressError
<1>3. CASE ApplyProtocolError(r)
  BY <1>1, <1>3, StageTyped DEF ApplyProtocolError
<1>4. CASE ApplyUnsuccess(r)
  BY <1>1, <1>4, StageTyped DEF ApplyUnsuccess
<1>5. CASE ApplySuccess(r)
  BY <1>1, <1>5, AppliedTyped, StageTyped DEF ApplySuccess
<1> QED
  BY <1>2, <1>3, <1>4, <1>5

\* What the engine does while the handler awaits it.
LEMMA ExecuteEgress ==
  ASSUME EgressTyped, NEW r \in Requests,
         SendAllowed(r) \/ SendCircuitOpen(r) \/ SendStep(r)
  PROVE  EgressTyped'
<1>1. r \in Calls
  BY DEF Requests
<1>2. CASE SendAllowed(r)
  BY <1>1, <1>2, SendAttemptTyped, EgressAssumption DEF SendAllowed
<1>3. CASE SendCircuitOpen(r)
  BY <1>1, <1>3 DEF SendCircuitOpen, EgressTyped, EgressTypeOK, LoopState, Stages
<1>4. CASE SendStep(r)
  BY <1>1, <1>4, SendStepTyped
<1> QED
  BY <1>2, <1>3, <1>4

LEMMA NextTyped == Typed /\ [Next]_vars => Typed'
<1> SUFFICES ASSUME Typed, [Next]_vars PROVE Typed'
  OBVIOUS
<1>1. {"409", "500"} \subseteq ErrorAnswers
  BY DEF ErrorAnswers
<1>2. ASSUME NEW r \in Requests, Refuse(r) PROVE Typed'
  BY <1>2, RollBackTyped DEF Refuse
<1>3. ASSUME NEW r \in Requests, Begin(r) PROVE Typed'
  <2>1. EgressTyped'
    BY <1>3, TypedEgress, EgressKept DEF Begin
  <2>2. TypeOK'
    BY <1>3, <2>1 DEF Begin, Typed, TypeOK, EgressTyped, Phases, dbVars
  <2>3. PhaseTyped'
    BY <1>3 DEF Begin, Typed, TypeOK, PhaseTyped, dbVars
  <2> QED
    BY <2>1, <2>2, <2>3 DEF Typed, EgressTyped
<1>4. ASSUME NEW r \in Requests, HandlerStep(r) PROVE Typed'
  <2>1. CASE Insert(r)
    BY <2>1, InsertTyped
  <2>2. CASE DuplicateKey(r)
    BY <1>1, <2>2, RollBackTyped DEF DuplicateKey
  <2>3. CASE Execute(r)
    BY <2>3, TypedEgress, ExecuteEgress, EngineStepTyped DEF Execute, clientVars
  <2>4. CASE \/ ApplyEgressError(r) \/ ApplyProtocolError(r)
             \/ ApplyUnsuccess(r) \/ ApplySuccess(r)
    BY <2>4, ApplyTyped
  <2>5. CASE EngineEscapes(r)
    BY <1>1, <2>5, RollBackTyped DEF EngineEscapes
  <2>6. CASE WriteFails(r)
    BY <1>1, <2>6, RollBackTyped DEF WriteFails
  <2>7. CASE Commit(r)
    BY <2>7, CommitTyped
  <2>8. CASE Reply(r)
    BY <2>8, ReplyTyped
  <2> QED
    BY <1>4, <2>1, <2>2, <2>3, <2>4, <2>5, <2>6, <2>7, <2>8 DEF HandlerStep
<1>5. ASSUME NEW r \in Requests, Crash(r) PROVE Typed'
  BY <1>5, CrashTyped
<1>6. CASE PspStep
  BY <1>6, TypedEgress, PspTyped, EngineStepTyped DEF PspStep, clientVars
<1>7. CASE UNCHANGED vars
  BY <1>7, TypedEgress, EgressKept, EngineStepTyped DEF vars, clientVars, dbVars
<1> QED
  BY <1>2, <1>3, <1>4, <1>5, <1>6, <1>7 DEF Next, AllOver

\* The use case keeps its type: every row and event it leaves is well formed, and a
\* 201 carries the status of a row.
THEOREM CreateTypeCorrect == Spec => []TypeOK
<1>1. Typed => TypeOK
  BY DEF Typed
<1> QED
  BY <1>1, InitTyped, NextTyped, PTL DEF Spec

-----------------------------------------------------------------------------
(* The key.  Only Insert makes a request a holder of its key, and Insert asks  *)
(* for a key that no other request has, committed or not; so there is never a  *)
(* second holder.                                                              *)

\* A step other than Insert makes nobody a holder, and the rows it commits are one
\* row, of a request whose transaction was open.
LEMMA OnlyInsertHolds ==
  ASSUME Typed, [Next]_vars
  PROVE  \/ \A q \in Requests : Holds(q)' => Holds(q)
         \/ \E r \in Requests : /\ Insert(r)
                               /\ \A q \in Requests : q # r => (Holds(q)' <=> Holds(q))
<1> USE DEF Holds, Requests
<1>1. ASSUME NEW r \in Requests, NEW code, RollBack(r, code)
      PROVE  \A q \in Requests : Holds(q)' => Holds(q)
  BY <1>1 DEF RollBack, Typed, TypeOK, dbVars
<1>2. ASSUME NEW r \in Requests, NEW dst, NEW txStatus, NEW code, pc[r] = "executing",
             Stage(r, dst, txStatus, code)
      PROVE  \A q \in Requests : Holds(q)' => Holds(q)
  BY <1>2 DEF Stage, Typed, TypeOK, PhaseTyped, dbVars
<1>3. ASSUME NEW r \in Requests, Refuse(r)
      PROVE  \A q \in Requests : Holds(q)' => Holds(q)
  BY <1>1, <1>3 DEF Refuse
<1>4. ASSUME NEW r \in Requests, Begin(r)
      PROVE  \A q \in Requests : Holds(q)' => Holds(q)
  BY <1>4 DEF Begin, dbVars
<1>5. ASSUME NEW r \in Requests, Insert(r)
      PROVE  \A q \in Requests : q # r => (Holds(q)' <=> Holds(q))
  BY <1>5 DEF Insert, Typed, TypeOK, dbVars
<1>6. ASSUME NEW r \in Requests, HandlerStep(r), ~Insert(r)
      PROVE  \A q \in Requests : Holds(q)' => Holds(q)
  <2>1. CASE DuplicateKey(r)
    BY <1>1, <2>1 DEF DuplicateKey
  <2>2. CASE Execute(r)
    BY <2>2 DEF Execute, dbVars
  <2>3. CASE ApplyEgressError(r)
    BY <1>2, <2>3 DEF ApplyEgressError
  <2>4. CASE ApplyProtocolError(r)
    BY <1>2, <2>4 DEF ApplyProtocolError
  <2>5. CASE ApplyUnsuccess(r)
    BY <1>2, <2>5 DEF ApplyUnsuccess
  <2>6. CASE ApplySuccess(r)
    BY <1>2, <2>6 DEF ApplySuccess
  <2>7. CASE EngineEscapes(r)
    BY <1>1, <2>7 DEF EngineEscapes
  <2>8. CASE WriteFails(r)
    BY <1>1, <2>8 DEF WriteFails
  <2>9. CASE Commit(r)
    BY <2>9 DEF Commit, Typed, TypeOK, PhaseTyped
  <2>10. CASE Reply(r)
    BY <2>10 DEF Reply, dbVars
  <2> QED
    BY <1>6, <2>1, <2>2, <2>3, <2>4, <2>5, <2>6, <2>7, <2>8, <2>9, <2>10
    DEF HandlerStep
<1>7. ASSUME NEW r \in Requests, Crash(r)
      PROVE  \A q \in Requests : Holds(q)' => Holds(q)
  BY <1>7 DEF Crash, Typed, TypeOK, dbVars
<1>8. CASE PspStep
  BY <1>8 DEF PspStep, dbVars
<1>9. CASE UNCHANGED vars
  BY <1>9 DEF vars
<1> QED
  BY <1>3, <1>4, <1>5, <1>6, <1>7, <1>8, <1>9 DEF Next, AllOver

LEMMA NextOneHolder == Typed /\ OneHolderPerKey /\ [Next]_vars => OneHolderPerKey'
<1> SUFFICES ASSUME Typed, OneHolderPerKey, [Next]_vars PROVE OneHolderPerKey'
  OBVIOUS
<1>1. CASE \A q \in Requests : Holds(q)' => Holds(q)
  BY <1>1 DEF OneHolderPerKey, SameKey
<1>2. CASE \E r \in Requests : /\ Insert(r)
                             /\ \A q \in Requests : q # r => (Holds(q)' <=> Holds(q))
  <2>1. PICK r \in Requests : /\ Insert(r)
                             /\ \A q \in Requests : q # r => (Holds(q)' <=> Holds(q))
    BY <1>2
  <2>2. \A q \in Requests : SameKey(r, q) => ~Holds(q)
    BY <2>1 DEF Insert, KeyCommitted, KeyLocked, Holds
  <2>3. \A p, q \in Requests : SameKey(p, q) => SameKey(q, p) /\ p # q
    BY DEF SameKey
  <2> QED
    BY <2>1, <2>2, <2>3 DEF OneHolderPerKey, SameKey
<1> QED
  BY <1>1, <1>2, OnlyInsertHolds

\* At any time one request at most holds a key, over any number of concurrent
\* submissions, crashes and rollbacks.
THEOREM KeyHeldOnce == Spec => []OneHolderPerKey
<1>1. Init => OneHolderPerKey
  BY DEF Init, OneHolderPerKey, Holds
<1> QED
  BY <1>1, InitTyped, NextTyped, NextOneHolder, PTL DEF Spec

-----------------------------------------------------------------------------
(* The committed rows.  They change in Commit only, for a request that holds   *)
(* its key and has no row yet.                                                 *)

LEMMA CommitWritesKey ==
  ASSUME Typed, OneHolderPerKey, NEW r \in Requests, Commit(r)
  PROVE  Keyed!Write(r)
<1>1. /\ uow[r] # None /\ uow[r] \in Work /\ payments[r] = None
      /\ payments' = [payments EXCEPT ![r] = uow[r].status]
  BY DEF Commit, Typed, TypeOK, PhaseTyped
<1>2. uow[r].status \in PaymentStatuses
  BY <1>1 DEF Work
<1>3. \A q \in Requests : KeyOf[q] = KeyOf[r] => payments[q] = None
  BY <1>1 DEF OneHolderPerKey, SameKey, Holds
<1> QED
  BY <1>1, <1>2, <1>3 DEF Keyed!Write

LEMMA OnlyCommitWrites ==
  ASSUME [Next]_vars, payments' # payments
  PROVE  \E r \in Requests : Commit(r)
<1>1. ASSUME NEW r \in Requests, HandlerStep(r) PROVE Commit(r)
  BY <1>1 DEF HandlerStep, Insert, DuplicateKey, Execute, ApplyEgressError,
     ApplyProtocolError, ApplyUnsuccess, ApplySuccess, EngineEscapes, WriteFails,
     Reply, Stage, RollBack, dbVars
<1> QED
  BY <1>1 DEF Next, Refuse, Begin, Crash, PspStep, AllOver, RollBack, vars, dbVars

\* The payments table never has two rows for a key, and never rewrites a row of the
\* create flow.
THEOREM RowsImplementKeyedOnce == Spec => ImplementsKeyedOnce
<1>1. Init => Keyed!KeyedInit
  BY DEF Init, Keyed!KeyedInit
<1>2. Init => OneHolderPerKey
  BY DEF Init, OneHolderPerKey, Holds
<1>3. Typed /\ OneHolderPerKey /\ [Next]_vars => [Keyed!KeyedNext]_payments
  BY OnlyCommitWrites, CommitWritesKey DEF Keyed!KeyedNext
<1> QED
  BY <1>1, <1>2, <1>3, InitTyped, NextTyped, NextOneHolder, PTL
  DEF Spec, ImplementsKeyedOnce, Keyed!KeyedSpec

-----------------------------------------------------------------------------
(* Duplicates.  A request reaches the PSP only while it holds its key, and it  *)
(* lets go of the key without a row only by ending in a rollback; of two       *)
(* charged requests with one key, the one that is not the holder has ended.    *)

\* Something of request r is at the PSP or on its way there.
Sent(r) == \/ \E m \in wire : m[1] = r
           \/ \E d \in decided : d.key[1] = r

SentHeld == \A r \in Requests : Sent(r) => Holds(r) \/ Over(r)

\* The engine of r sends attempts of r only.
LEMMA ExecuteSends ==
  ASSUME NEW r \in Requests, SendAllowed(r) \/ SendCircuitOpen(r) \/ SendStep(r)
  PROVE  \A q \in Requests : q # r => (Sent(q)' => Sent(q))
<1>1. decided' = decided
  BY DEF SendAllowed, SendCircuitOpen, SendStep, Receive2xx, ReceiveError, Oversize,
     LoseAttempt, GiveUp, Backoff, Retry, SendAttempt, AttemptFailed
<1>2. wire' = wire \/ \E n : wire' = wire \cup {<<r, n>>}
  BY DEF SendAllowed, SendCircuitOpen, SendStep, Receive2xx, ReceiveError, Oversize,
     LoseAttempt, GiveUp, Backoff, Retry, SendAttempt, AttemptFailed
<1> QED
  BY <1>1, <1>2 DEF Sent

\* The PSP acts on what was sent.
LEMMA PspSends ==
  ASSUME Typed, Psp
  PROVE  \A q \in Requests : Sent(q)' => Sent(q)
<1> SUFFICES ASSUME NEW m \in wire, PspActs(m[1], m[2]) \/ PspTurnsAway(m[1], m[2]),
                    wire' = wire \ {m}
             PROVE  \A q \in Requests : Sent(q)' => Sent(q)
  BY DEF Psp
<1>1. \A d \in decided' : d \in decided \/ d.key = OutboundKey(m[1], m[2])
  BY DEF PspActs, PspTurnsAway
<1>2. OutboundKey(m[1], m[2])[1] = m[1]
  BY DEF OutboundKey
<1> QED
  BY <1>1, <1>2 DEF Sent

\* The handler's own steps: they leave the PSP alone, and who has reached it goes on
\* holding its key until it is over.
LEMMA HandlerKeepsHeld ==
  ASSUME Typed, NEW r \in Requests,
         \/ Refuse(r) \/ Begin(r) \/ Crash(r)
         \/ HandlerStep(r) /\ ~Execute(r)
  PROVE  /\ UNCHANGED <<wire, decided>>
         /\ \A q \in Requests : Holds(q) \/ Over(q) => Holds(q)' \/ Over(q)'
<1> USE DEF Holds, Over, Typed, TypeOK, PhaseTyped, dbVars, egressVars
<1>1. CASE Refuse(r) \/ DuplicateKey(r) \/ EngineEscapes(r) \/ WriteFails(r)
  BY <1>1 DEF Refuse, DuplicateKey, EngineEscapes, WriteFails, RollBack
<1>2. CASE Begin(r)
  BY <1>2 DEF Begin
<1>3. CASE Crash(r)
  BY <1>3 DEF Crash, Stop
<1>4. CASE Insert(r)
  BY <1>4, InsertTyped DEF Insert
<1>5. CASE \/ ApplyEgressError(r) \/ ApplyProtocolError(r)
           \/ ApplyUnsuccess(r) \/ ApplySuccess(r)
  <2>1. Typed'
    BY <1>5, ApplyTyped
  <2>2. pc' = [pc EXCEPT ![r] = "staged"] /\ UNCHANGED <<payments, egressVars>>
    BY <1>5 DEF ApplyEgressError, ApplyProtocolError, ApplyUnsuccess, ApplySuccess, Stage
  <2>3. \A q \in Requests : q # r => uow'[q] = uow[q]
    BY <1>5 DEF ApplyEgressError, ApplyProtocolError, ApplyUnsuccess, ApplySuccess, Stage
  <2> QED
    BY <2>1, <2>2, <2>3
<1>6. CASE Commit(r)
  BY <1>6, CommitTyped DEF Commit
<1>7. CASE Reply(r)
  BY <1>7 DEF Reply
<1> QED
  BY <1>1, <1>2, <1>3, <1>4, <1>5, <1>6, <1>7 DEF HandlerStep

LEMMA NextSentHeld == Typed /\ SentHeld /\ [Next]_vars => SentHeld'
<1> SUFFICES ASSUME Typed, SentHeld, [Next]_vars PROVE SentHeld'
  OBVIOUS
<1>1. ASSUME NEW r \in Requests,
             \/ Refuse(r) \/ Begin(r) \/ Crash(r) \/ (HandlerStep(r) /\ ~Execute(r))
      PROVE  SentHeld'
  BY <1>1, HandlerKeepsHeld DEF SentHeld, Sent
<1>2. ASSUME NEW r \in Requests, Execute(r) PROVE SentHeld'
  <2>1. uow[r] # None
    BY <1>2 DEF Execute, Typed, PhaseTyped
  <2>2. UNCHANGED <<pc, uow, payments>>
    BY <1>2 DEF Execute, dbVars
  <2>3. \A q \in Requests : q # r => (Sent(q)' => Sent(q))
    BY <1>2, ExecuteSends DEF Execute
  <2> QED
    BY <2>1, <2>2, <2>3 DEF SentHeld, Holds, Over
<1>3. CASE PspStep
  BY <1>3, PspSends DEF PspStep, SentHeld, Holds, Over, dbVars
<1>4. CASE UNCHANGED vars
  BY <1>4 DEF vars, egressVars, SentHeld, Sent, Holds, Over
<1> QED
  BY <1>1, <1>2, <1>3, <1>4 DEF Next, AllOver

\* Two charges under one Idempotency-Key are possible only if one of the requests
\* was rolled back: while transactions commit, a key is charged once.
THEOREM DuplicatesNeedRollback == Spec => []DuplicateNeedsRollback
<1>1. Init => OneHolderPerKey /\ SentHeld
  BY DEF Init, EgressInit, OneHolderPerKey, Holds, SentHeld, Sent
<1>2. OneHolderPerKey /\ SentHeld => DuplicateNeedsRollback
  <2> SUFFICES ASSUME OneHolderPerKey, SentHeld, NEW r \in Requests, NEW q \in Requests,
                      SameKey(r, q), PaidFor(r) # {}, PaidFor(q) # {}
               PROVE  \E x \in {r, q} : ~Holds(x) /\ Over(x)
    BY DEF DuplicateNeedsRollback
  <2>1. Sent(r) /\ Sent(q)
    BY DEF PaidFor, ChargesOf, Sent
  <2>2. ~(Holds(r) /\ Holds(q))
    BY DEF OneHolderPerKey
  <2> QED
    BY <2>1, <2>2 DEF SentHeld
<1> QED
  BY <1>1, <1>2, InitTyped, NextTyped, NextOneHolder, NextSentHeld, PTL DEF Spec

-----------------------------------------------------------------------------
(* What the ledger says of a refusal.  A category stays true of its call once  *)
(* it is known: "http_402" because the PSP acts once per key, "circuit_open"   *)
(* because the call has not sent and will not send anything.                   *)

\* Everything the code says is true of payment r at the PSP.
CodeTrue(r, code) ==
    /\ code = "circuit_open" => ~Sent(r)
    /\ code = "http_402" => Declined(r) \in decided

NothingSentYet ==
    \A r \in Requests :
        /\ st[r] = "idle" => ~Sent(r)
        /\ category[r] = "circuit_open" => ~Sent(r) /\ st[r] \in {"raised", "dead"}

CodesTrue ==
    /\ \A r \in Requests :
           /\ pc[r] = "executing" => uow[r].code = "none"
           /\ uow[r] # None => CodeTrue(r, uow[r].code)
    /\ \A row \in ledger : /\ payments[row.payment] # None
                           /\ CodeTrue(row.payment, row.code)

LedgerSafe == Typed /\ EgressSafe /\ NothingSentYet /\ CodesTrue

LEMMA InitLedgerSafe == Init => LedgerSafe
<1> SUFFICES ASSUME Init PROVE LedgerSafe
  OBVIOUS
<1>1. None # "circuit_open"
  BY EgressAssumption
<1>2. NothingSentYet /\ CodesTrue
  BY <1>1 DEF Init, EgressInit, NothingSentYet, CodesTrue, Sent, Requests
<1> QED
  BY <1>2, InitTyped, EgressInitSafe DEF LedgerSafe, Init

\* Steps of the engine and of the PSP after which no request but the sender of the
\* step has sent more, and the PSP has forgotten nothing.
LEMMA EngineKeepsCodes ==
  ASSUME LedgerSafe, UNCHANGED clientVars, decided \subseteq decided',
         \A q \in Requests : pc[q] # "executing" => (Sent(q)' => Sent(q))
  PROVE  CodesTrue'
<1>1. ASSUME NEW q \in Requests, NEW code, pc[q] # "executing", CodeTrue(q, code)
      PROVE  CodeTrue(q, code)'
  BY <1>1 DEF CodeTrue, Declined
<1>2. \A row \in ledger : row.payment \in Requests /\ pc[row.payment] # "executing"
  BY DEF LedgerSafe, CodesTrue, Typed, TypeOK, PhaseTyped
<1>3. \A row \in ledger' : payments'[row.payment] # None /\ CodeTrue(row.payment, row.code)'
  BY <1>1, <1>2 DEF LedgerSafe, CodesTrue, clientVars, dbVars
<1>4. ASSUME NEW q \in Requests, uow[q] # None PROVE CodeTrue(q, uow[q].code)'
  <2>1. CASE pc[q] = "executing"
    BY <2>1 DEF LedgerSafe, CodesTrue, CodeTrue, clientVars
  <2>2. CASE pc[q] # "executing"
    BY <1>1, <1>4, <2>2 DEF LedgerSafe, CodesTrue, CodeTrue, clientVars
  <2> QED
    BY <2>1, <2>2
<1> QED
  BY <1>3, <1>4 DEF LedgerSafe, CodesTrue, clientVars, CodeTrue

\* The handler's own steps stage and commit true codes.
LEMMA HandlerKeepsCodes ==
  ASSUME LedgerSafe, KeySent, NEW r \in Requests,
         \/ Refuse(r) \/ Begin(r) \/ Crash(r)
         \/ HandlerStep(r) /\ ~Execute(r)
  PROVE  CodesTrue'
<1>1. Typed /\ CodesTrue /\ UNCHANGED <<wire, decided>>
  BY HandlerKeepsHeld DEF LedgerSafe
<1>2. \A q, code : CodeTrue(q, code)' <=> CodeTrue(q, code)
  BY <1>1 DEF CodeTrue, Sent, Declined
<1> USE DEF Typed, TypeOK, PhaseTyped, dbVars
<1>3. ASSUME NEW code, RollBack(r, code) PROVE CodesTrue'
  BY <1>1, <1>2, <1>3 DEF RollBack, CodesTrue
<1>4. ASSUME NEW dst, NEW txStatus, NEW code, CodeTrue(r, code),
             Stage(r, dst, txStatus, code)
      PROVE  CodesTrue'
  <2>1. /\ uow'[r].code = code
        /\ \A q \in Requests : q # r => uow'[q] = uow[q] /\ pc'[q] = pc[q]
        /\ pc'[r] = "staged"
        /\ UNCHANGED <<payments, ledger>>
    BY <1>1, <1>4 DEF Stage
  <2> QED
    BY <1>1, <1>2, <1>4, <2>1 DEF CodesTrue
<1>5. CASE Refuse(r) \/ DuplicateKey(r) \/ EngineEscapes(r) \/ WriteFails(r)
  BY <1>3, <1>5 DEF Refuse, DuplicateKey, EngineEscapes, WriteFails
<1>6. CASE Begin(r)
  BY <1>1, <1>2, <1>6 DEF Begin, CodesTrue
<1>7. CASE Crash(r)
  BY <1>1, <1>2, <1>7 DEF Crash, CodesTrue
<1>8. CASE Insert(r)
  <2>1. uow'[r].code = "none" /\ \A q \in Requests : q # r => uow'[q] = uow[q]
    BY <1>1, <1>8 DEF Insert
  <2>2. CodeTrue(r, "none")
    BY DEF CodeTrue
  <2> QED
    BY <1>1, <1>2, <1>8, <2>1, <2>2 DEF Insert, CodesTrue
<1>9. CASE ApplyEgressError(r)
  <2>1. CodeTrue(r, category[r])
    BY DEF CodeTrue, LedgerSafe, NothingSentYet, EgressSafe, RefusalHeard, Requests
  <2> QED
    BY <1>4, <1>9, <2>1 DEF ApplyEgressError
<1>10. CASE ApplyProtocolError(r) \/ ApplyUnsuccess(r) \/ ApplySuccess(r)
  <2>1. \A code \in {"engine_error", "provider_error", "none"} : CodeTrue(r, code)
    BY DEF CodeTrue
  <2> QED
    BY <1>4, <1>10, <2>1 DEF ApplyProtocolError, ApplyUnsuccess, ApplySuccess
<1>11. CASE Commit(r)
  <2>1. /\ CodeTrue(r, uow[r].code)
        /\ payments' = [payments EXCEPT ![r] = uow[r].status]
        /\ uow[r].status # None
    BY <1>1, <1>11, CreateAssumption DEF Commit, CodesTrue, Work
  <2>2. /\ ledger' = ledger \cup {LedgerRow(r)}
        /\ LedgerRow(r).payment = r /\ LedgerRow(r).code = uow[r].code
    BY <1>11 DEF Commit, LedgerRow
  <2>3. \A row \in ledger' : payments'[row.payment] # None /\ CodeTrue(row.payment, row.code)'
    BY <1>1, <1>2, <2>1, <2>2 DEF CodesTrue
  <2>4. /\ uow'[r] = None /\ pc'[r] = "committed"
        /\ \A q \in Requests : q # r => uow'[q] = uow[q] /\ pc'[q] = pc[q]
    BY <1>1, <1>11 DEF Commit
  <2> QED
    BY <1>1, <1>2, <2>3, <2>4 DEF CodesTrue
<1>12. CASE Reply(r)
  BY <1>1, <1>2, <1>12 DEF Reply, CodesTrue
<1> QED
  BY <1>5, <1>6, <1>7, <1>8, <1>9, <1>10, <1>11, <1>12 DEF HandlerStep

\* Only a call that is awaited sends, and it has not met an open circuit.
LEMMA ExecuteKeepsNothingSent ==
  ASSUME LedgerSafe, NEW r \in Requests,
         SendAllowed(r) \/ SendCircuitOpen(r) \/ SendStep(r)
  PROVE  NothingSentYet'
<1>1. \A q \in Requests : q # r => (Sent(q)' => Sent(q))
  BY ExecuteSends
<1> USE DEF LedgerSafe, Typed, TypeOK, EgressTypeOK, Requests
<1>2. \A q \in Requests : q # r => st'[q] = st[q] /\ category'[q] = category[q]
  BY DEF SendAllowed, SendCircuitOpen, SendStep, Receive2xx, ReceiveError, Oversize,
     LoseAttempt, GiveUp, Backoff, Retry, SendAttempt, AttemptFailed
<1>3. CASE SendAllowed(r)
  <2>1. st'[r] = "awaiting" /\ category'[r] = category[r] /\ category[r] # "circuit_open"
    BY <1>3 DEF SendAllowed, SendAttempt, NothingSentYet
  <2> QED
    BY <1>1, <1>2, <2>1 DEF NothingSentYet
<1>4. CASE SendCircuitOpen(r)
  <2>1. st'[r] = "raised" /\ ~Sent(r)'
    BY <1>4 DEF SendCircuitOpen, NothingSentYet, Sent
  <2> QED
    BY <1>1, <1>2, <2>1 DEF NothingSentYet
<1>5. CASE SendStep(r)
  <2>1. st[r] \in {"awaiting", "judging", "backoff"}
    BY <1>5 DEF SendStep, Receive2xx, ReceiveError, Oversize, LoseAttempt, GiveUp,
       Backoff, Retry
  <2>2. category[r] # "circuit_open"
    BY <2>1 DEF NothingSentYet
  <2>3. st'[r] # "idle"
    BY <1>5 DEF SendStep, Receive2xx, ReceiveError, Oversize, LoseAttempt, GiveUp,
       Backoff, Retry, SendAttempt, AttemptFailed
  <2>4. reply[r] # None => reply[r].code # "circuit_open"
    BY DEF Replies, HttpCategories
  <2>5. category'[r] # "circuit_open"
    BY <1>5, <2>2, <2>4 DEF SendStep, Receive2xx, ReceiveError, Oversize, LoseAttempt,
       GiveUp, Backoff, Retry, SendAttempt, AttemptFailed
  <2> QED
    BY <1>1, <1>2, <2>3, <2>5 DEF NothingSentYet
<1> QED
  BY <1>3, <1>4, <1>5

LEMMA ExecuteKeepsSafe ==
  ASSUME EgressSafe, NEW r \in Requests,
         SendAllowed(r) \/ SendCircuitOpen(r) \/ SendStep(r)
  PROVE  EgressSafe' /\ UNCHANGED decided
<1>1. EgressTyped /\ EgressTyped' /\ r \in Calls
  BY ExecuteEgress DEF EgressSafe, Requests
<1>2. CASE SendAllowed(r)
  BY <1>1, <1>2, CallStepSafe DEF SendAllowed, SendAttempt, EgressTyped, EgressTypeOK
<1>3. CASE SendCircuitOpen(r)
  BY <1>1, <1>3, CallStepSafe DEF SendCircuitOpen, EgressTyped, EgressTypeOK
<1>4. CASE SendStep(r)
  BY <1>1, <1>4, SendStepSafe DEF SendStep, Receive2xx, ReceiveError, Oversize,
     LoseAttempt, GiveUp, Backoff, Retry, SendAttempt, AttemptFailed
<1> QED
  BY <1>2, <1>3, <1>4

LEMMA NextLedgerSafe == KeySent /\ LedgerSafe /\ [Next]_vars => LedgerSafe'
<1> SUFFICES ASSUME KeySent, LedgerSafe, [Next]_vars PROVE LedgerSafe'
  OBVIOUS
<1>1. Typed'
  BY NextTyped DEF LedgerSafe
<1>2. ASSUME NEW r \in Requests,
             \/ Refuse(r) \/ Begin(r) \/ Crash(r) \/ (HandlerStep(r) /\ ~Execute(r))
      PROVE  LedgerSafe'
  <2>1. CodesTrue'
    BY <1>2, HandlerKeepsCodes
  <2>2. UNCHANGED <<category, wire, decided>>
    BY <1>2 DEF Refuse, Begin, Crash, HandlerStep, Insert, DuplicateKey, ApplyEgressError,
       ApplyProtocolError, ApplyUnsuccess, ApplySuccess, EngineEscapes, WriteFails,
       Commit, Reply, Stage, RollBack, Stop, egressVars
  <2>3. \A q \in Requests : /\ st'[q] \in {st[q], "dead"}
                           /\ reply'[q] \in {reply[q], None}
    BY <1>2 DEF Refuse, Begin, Crash, HandlerStep, Insert, DuplicateKey, ApplyEgressError,
       ApplyProtocolError, ApplyUnsuccess, ApplySuccess, EngineEscapes, WriteFails,
       Commit, Reply, Stage, RollBack, Stop, egressVars, LedgerSafe, Typed, TypeOK,
       EgressTypeOK, Requests
  <2>4. NothingSentYet'
    BY <2>2, <2>3 DEF LedgerSafe, NothingSentYet, Sent
  <2>5. EgressSafe'
    BY <1>1, <2>2, <2>3, TypedEgress, CallStepSafe DEF LedgerSafe, Typed, EgressTyped,
       TypeOK, Requests
  <2> QED
    BY <1>1, <2>1, <2>4, <2>5 DEF LedgerSafe
<1>3. ASSUME NEW r \in Requests, Execute(r) PROVE LedgerSafe'
  <2>1. NothingSentYet' /\ EgressSafe' /\ UNCHANGED decided
    BY <1>3, ExecuteKeepsNothingSent, ExecuteKeepsSafe DEF Execute, LedgerSafe
  <2>2. \A q \in Requests : pc[q] # "executing" => (Sent(q)' => Sent(q))
    BY <1>3, ExecuteSends DEF Execute
  <2>3. UNCHANGED clientVars
    BY <1>3 DEF Execute, clientVars
  <2> QED
    BY <1>1, <2>1, <2>2, <2>3, EngineKeepsCodes DEF LedgerSafe
<1>4. CASE PspStep
  <2>1. EgressSafe'
    BY <1>4, PspSafe DEF PspStep, LedgerSafe
  <2>2. \A q \in Requests : Sent(q)' => Sent(q)
    BY <1>4, PspSends DEF PspStep, LedgerSafe
  <2>3. decided \subseteq decided' /\ UNCHANGED <<st, category>>
    BY <1>4 DEF PspStep, Psp, PspActs, PspTurnsAway
  <2>4. UNCHANGED clientVars
    BY <1>4 DEF PspStep, clientVars
  <2>5. NothingSentYet'
    BY <2>2, <2>3 DEF LedgerSafe, NothingSentYet
  <2> QED
    BY <1>1, <2>1, <2>2, <2>3, <2>4, <2>5, EngineKeepsCodes DEF LedgerSafe
<1>5. CASE UNCHANGED vars
  <2>1. UNCHANGED clientVars /\ UNCHANGED egressVars
    BY <1>5 DEF vars, clientVars, dbVars
  <2>2. \A q \in Requests : Sent(q)' => Sent(q)
    BY <2>1 DEF egressVars, Sent
  <2>3. NothingSentYet'
    BY <2>1, <2>2 DEF egressVars, LedgerSafe, NothingSentYet
  <2>4. EgressTyped'
    BY <2>1, EgressKept DEF LedgerSafe, EgressSafe
  <2>5. EgressSafe'
    BY <2>1, <2>4, CallStepSafe DEF LedgerSafe, egressVars
  <2> QED
    BY <1>1, <2>1, <2>2, <2>3, <2>5, EngineKeepsCodes DEF LedgerSafe, egressVars
<1> QED
  BY <1>2, <1>3, <1>4, <1>5 DEF Next, AllOver

\* A ledger row that records a refusal, by the PSP or by the breaker, is the last
\* word: that payment is never charged (the outbound key being in the request).
THEOREM RecordedRefusalsStand == KeySent => (Spec => []RecordedRefusalIsFinal)
<1> SUFFICES ASSUME KeySent PROVE Spec => []RecordedRefusalIsFinal
  OBVIOUS
<1>1. LedgerSafe => RecordedRefusalIsFinal
  <2> SUFFICES ASSUME LedgerSafe, NEW row \in ledger,
                      row.code \in {"http_402", "circuit_open"},
                      NEW d \in ChargesOf(row.payment)
               PROVE  FALSE
    BY DEF RecordedRefusalIsFinal
  <2>1. CodeTrue(row.payment, row.code) /\ row.payment \in Requests
    BY DEF LedgerSafe, CodesTrue, Typed, TypeOK
  <2>2. Sent(row.payment)
    BY DEF Sent, ChargesOf
  <2>3. Declined(row.payment) \in decided
    BY <2>1, <2>2 DEF CodeTrue
  <2>4. d.key = Declined(row.payment).key
    BY DEF LedgerSafe, EgressSafe, KeyPerCall, ChargesOf, Declined
  <2>5. d = Declined(row.payment)
    BY <2>3, <2>4 DEF LedgerSafe, EgressSafe, ActedOncePerKey, ChargesOf
  <2> QED
    BY <2>5 DEF ChargesOf, Declined
<1> QED
  BY <1>1, InitLedgerSafe, NextLedgerSafe, PTL DEF Spec

-----------------------------------------------------------------------------
(* The calls of the use case.  Whatever the handlers do, the engine's variables *)
(* move as HttpEgress says; so what is proved of send holds of every request.  *)

LEMMA StepsSend == [Next]_vars => [EgressNext]_egressVars
<1> SUFFICES ASSUME [Next]_vars PROVE [EgressNext]_egressVars
  OBVIOUS
<1> USE DEF Requests
<1>1. ASSUME NEW r \in Requests, HandlerStep(r) PROVE [EgressNext]_egressVars
  <2>1. CASE Execute(r)
    BY <2>1 DEF Execute, EgressNext
  <2>2. CASE ~Execute(r)
    BY <1>1, <2>2 DEF HandlerStep, Insert, DuplicateKey, ApplyEgressError,
       ApplyProtocolError, ApplyUnsuccess, ApplySuccess, EngineEscapes, WriteFails,
       Commit, Reply, Stage, RollBack
  <2> QED
    BY <2>1, <2>2
<1>2. ASSUME NEW r \in Requests, Refuse(r) \/ Begin(r) PROVE [EgressNext]_egressVars
  BY <1>2 DEF Refuse, Begin, RollBack
<1>3. ASSUME NEW r \in Requests, Crash(r) PROVE [EgressNext]_egressVars
  BY <1>3 DEF Crash, EgressNext
<1>4. CASE PspStep
  BY <1>4 DEF PspStep, EgressNext
<1>5. CASE UNCHANGED vars
  BY <1>5 DEF vars
<1> QED
  BY <1>1, <1>2, <1>3, <1>4, <1>5 DEF Next, AllOver

\* The use case calls send as HttpEgress has it called, crashes and rollbacks included.
THEOREM CreateSends == Spec => EgressSafety
<1>1. Init => EgressInit
  BY DEF Init
<1> QED
  BY <1>1, StepsSend, PTL DEF Spec, EgressSafety

\* A request is charged at most once, however often its call is retried.
THEOREM RequestsChargedOnce == KeySent => (Spec => []OneChargePerCall)
  BY CreateSends, ChargedAtMostOnce

\* Before a request fails on a category that is retried, it has had every attempt.
THEOREM RequestsUseTheirAttempts == Spec => []GivesUpOnlyWhenSpent
  BY CreateSends, AttemptsAreSpent

\* No request is retried in a category its manifest does not retry.
THEOREM RequestsRetryAsListed == Spec => RetriesAreListed
  BY CreateSends, RetriesFollowThePolicy

-----------------------------------------------------------------------------
(* What a transaction carries.  An open one holds the events of the status its *)
(* payment is in, and a status that means success was said by the PSP.         *)

Successes == {"CAPTURED", "AUTHORIZED", "ACTION_REQUIRED"}

BackedBy(r, status) ==
    \E d \in ChargesOf(r) : d.outcome \in DOMAIN StatusMap /\ StatusMap[d.outcome] = status

\* The events of a payment that was moved from PENDING to status.
EventsTo(status) == IF status = "PENDING" THEN <<"payment.created">>
                    ELSE <<"payment.created", EventOf(status)>>

SoundFor(r) ==
    uow[r] # None =>
        /\ pc[r] = "executing" => uow[r].status = "PENDING"
        /\ uow[r].status \in Successes \cup {"PENDING", "FAILED"}
        /\ uow[r].events = EventsTo(uow[r].status)
        /\ uow[r].status \in Successes => BackedBy(r, uow[r].status)

WorkSound == \A r \in Requests : SoundFor(r)

\* What is said of requests stays said when the PSP decides more.
LEMMA BackedStays ==
  ASSUME decided \subseteq decided', NEW r, NEW status, BackedBy(r, status)
  PROVE  BackedBy(r, status)'
  BY DEF BackedBy, ChargesOf

\* Appending to a sequence of one makes a pair.
LEMMA AppendToOne ==
  ASSUME NEW S, NEW a \in S, NEW b \in S
  PROVE  Append(<<a>>, b) = <<a, b>>
<1> DEFINE s == Append(<<a>>, b)
           t == <<a, b>>
<1>1. s \in Seq(S) /\ t \in Seq(S) /\ Len(s) = 2 /\ Len(t) = 2
  OBVIOUS
<1>2. s[1] = a /\ s[2] = b /\ t[1] = a /\ t[2] = b
  OBVIOUS
<1>3. \A i \in 1 .. 2 : i = 1 \/ i = 2
  OBVIOUS
<1> HIDE DEF s, t
<1>4. s = t
  BY <1>1, <1>2, <1>3, SeqEqual
<1> QED
  BY <1>4 DEF s, t

LEMMA StageSound ==
  ASSUME Typed, WorkSound, NEW r \in Requests, pc[r] = "executing",
         NEW dst \in Successes \cup {"PENDING", "FAILED"}, NEW txStatus, NEW code,
         dst \in Successes => BackedBy(r, dst), Stage(r, dst, txStatus, code)
  PROVE  WorkSound'
<1> DEFINE events == IF dst = uow[r].status THEN uow[r].events
                     ELSE Append(uow[r].events, EventOf(dst))
           work == [status |-> dst, events |-> events, txStatus |-> txStatus,
                    code |-> code]
<1>1. decided' = decided
  BY DEF Stage, egressVars
<1>2. uow[r].status = "PENDING" /\ uow[r].events = <<"payment.created">>
  BY DEF Typed, PhaseTyped, WorkSound, SoundFor, EventsTo
<1>3. events = EventsTo(dst)
  <2>1. EventOf(dst) \in EventTypes /\ "payment.created" \in EventTypes
    BY DEF EventOf, EventTypes
  <2>2. Append(<<"payment.created">>, EventOf(dst)) = <<"payment.created", EventOf(dst)>>
    BY <2>1, AppendToOne
  <2> QED
    BY <1>2, <2>2 DEF EventsTo
<1>4. work.status = dst /\ work.events = EventsTo(dst)
  BY <1>3
<1>5. uow' = [uow EXCEPT ![r] = work] /\ pc' = [pc EXCEPT ![r] = "staged"]
  BY DEF Stage
<1> HIDE DEF work, events
<1>6. uow'[r] = work /\ pc'[r] = "staged"
  BY <1>5 DEF Typed, TypeOK
<1>7. \A q \in Requests : q # r => uow'[q] = uow[q] /\ pc'[q] = pc[q]
  BY <1>5
<1>8. ASSUME NEW q \in Requests, q # r PROVE SoundFor(q)'
  BY <1>1, <1>7, <1>8, BackedStays DEF WorkSound, SoundFor
<1>9. dst \in Successes => BackedBy(r, dst)'
  BY <1>1, BackedStays
<1>10. SoundFor(r)'
  BY <1>4, <1>6, <1>9 DEF SoundFor, BackedBy, ChargesOf
<1> QED
  BY <1>8, <1>10 DEF WorkSound

\* Transactions that are left as they were, handed over to the next phase or gone.
LEMMA KeptSound ==
  ASSUME WorkSound, decided \subseteq decided',
         \A q \in Requests : \/ uow'[q] = None
                             \/ /\ uow'[q] = uow[q]
                                /\ pc'[q] = "executing" => pc[q] = "executing"
  PROVE  WorkSound'
<1> SUFFICES ASSUME NEW q \in Requests PROVE SoundFor(q)'
  BY DEF WorkSound
<1>1. CASE uow'[q] = None
  BY <1>1 DEF SoundFor
<1>2. CASE uow'[q] = uow[q] /\ (pc'[q] = "executing" => pc[q] = "executing")
  <2>1. SoundFor(q)
    BY DEF WorkSound
  <2>2. \A status : BackedBy(q, status) => BackedBy(q, status)'
    BY BackedStays
  <2> QED
    BY <1>2, <2>1, <2>2 DEF SoundFor, BackedBy, ChargesOf
<1> QED
  BY <1>1, <1>2

\* A mapping to a success the create flow knows is recorded as it is, any other as
\* a failure.
LEMMA AppliedSound ==
  ASSUME NEW mapped
  PROVE  /\ Applied(mapped) \in Successes \cup {"PENDING", "FAILED"}
         /\ Applied(mapped) \in Successes => Applied(mapped) = mapped
  BY DEF Applied, Successes

LEMMA ApplySound ==
  ASSUME Typed, ReplyTrue, WorkSound, NEW r \in Requests,
         \/ ApplyEgressError(r) \/ ApplyProtocolError(r)
         \/ ApplyUnsuccess(r) \/ ApplySuccess(r)
  PROVE  WorkSound'
<1>1. "FAILED" \notin Successes
  BY DEF Successes
<1>2. CASE ApplyEgressError(r)
  BY <1>1, <1>2, StageSound DEF ApplyEgressError
<1>3. CASE ApplyProtocolError(r)
  BY <1>1, <1>3, StageSound DEF ApplyProtocolError
<1>4. CASE ApplyUnsuccess(r)
  BY <1>1, <1>4, StageSound DEF ApplyUnsuccess
<1>5. CASE ApplySuccess(r)
  <2> DEFINE said == reply[r].body
  <2>1. said \in DOMAIN StatusMap /\ said # "garbled"
    BY <1>5, CreateAssumption, EgressAssumption DEF ApplySuccess
  <2>2. \E d \in ChargesOf(r) : d.outcome = said
    BY <1>5, <2>1 DEF ApplySuccess, ReplyTrue, Requests
  <2>3. BackedBy(r, StatusMap[said])
    BY <2>1, <2>2 DEF BackedBy
  <2>4. pc[r] = "executing" /\ Stage(r, Applied(StatusMap[said]), "SUCCESS", "none")
    BY <1>5 DEF ApplySuccess
  <2> HIDE DEF said
  <2> QED
    BY <2>3, <2>4, AppliedSound, StageSound
<1> QED
  BY <1>2, <1>3, <1>4, <1>5

LEMMA NextWorkSound == Typed /\ ReplyTrue /\ WorkSound /\ [Next]_vars => WorkSound'
<1> SUFFICES ASSUME Typed, ReplyTrue, WorkSound, [Next]_vars PROVE WorkSound'
  OBVIOUS
<1>1. decided \subseteq decided'
  BY StepsSend, DecisionsStand
<1> USE DEF Typed, TypeOK
<1>2. ASSUME NEW r \in Requests, NEW code, RollBack(r, code) PROVE WorkSound'
  BY <1>1, <1>2, KeptSound DEF RollBack
<1>3. ASSUME NEW r \in Requests, HandlerStep(r) PROVE WorkSound'
  <2>1. CASE Insert(r)
    <3>1. ASSUME NEW q \in Requests, q # r PROVE SoundFor(q)'
      <4>1. uow'[q] = uow[q] /\ pc'[q] = pc[q] /\ SoundFor(q)
        BY <2>1, <3>1 DEF Insert, WorkSound
      <4>2. \A status : BackedBy(q, status) => BackedBy(q, status)'
        BY <1>1, BackedStays
      <4> QED
        BY <4>1, <4>2 DEF SoundFor, BackedBy, ChargesOf
    <3>2. uow'[r].status = "PENDING" /\ uow'[r].events = <<"payment.created">>
      BY <2>1 DEF Insert
    <3>3. SoundFor(r)'
      BY <3>2 DEF SoundFor, EventsTo, Successes
    <3> QED
      BY <3>1, <3>3 DEF WorkSound
  <2>2. CASE DuplicateKey(r) \/ EngineEscapes(r) \/ WriteFails(r)
    BY <1>2, <2>2 DEF DuplicateKey, EngineEscapes, WriteFails
  <2>3. CASE Execute(r)
    BY <1>1, <2>3, KeptSound DEF Execute
  <2>4. CASE \/ ApplyEgressError(r) \/ ApplyProtocolError(r)
             \/ ApplyUnsuccess(r) \/ ApplySuccess(r)
    BY <2>4, ApplySound
  <2>5. CASE Commit(r)
    BY <1>1, <2>5, KeptSound DEF Commit
  <2>6. CASE Reply(r)
    BY <1>1, <2>6, KeptSound DEF Reply
  <2> QED
    BY <1>3, <2>1, <2>2, <2>3, <2>4, <2>5, <2>6 DEF HandlerStep
<1>4. ASSUME NEW r \in Requests, Refuse(r) PROVE WorkSound'
  BY <1>2, <1>4 DEF Refuse
<1>5. ASSUME NEW r \in Requests, Begin(r) \/ Crash(r) PROVE WorkSound'
  BY <1>1, <1>5, KeptSound DEF Begin, Crash
<1>6. CASE PspStep
  BY <1>1, <1>6, KeptSound DEF PspStep
<1>7. CASE UNCHANGED vars
  BY <1>1, <1>7, KeptSound DEF vars
<1> QED
  BY <1>3, <1>4, <1>5, <1>6, <1>7 DEF Next, AllOver

LEMMA InitWorkSound == Init => WorkSound
  BY DEF Init, WorkSound, SoundFor

LEMMA CreateAlwaysSound == Spec => [](Typed /\ WorkSound)
<1>1. Spec => []ReplyTrue
  BY CreateSends, RepliesAreTrue, PTL
<1> QED
  BY <1>1, InitTyped, NextTyped, InitWorkSound, NextWorkSound, PTL DEF Spec

-----------------------------------------------------------------------------
(* What a commit makes of it.  A committed row is what its transaction carried, *)
(* and no later step writes the row, its ledger entry or its events again.     *)

\* A step that commits nothing leaves the tables alone.
LEMMA OnlyCommitStores ==
  ASSUME [Next]_vars, ~UNCHANGED dbVars
  PROVE  \E r \in Requests : Commit(r)
<1>1. ASSUME NEW r \in Requests, HandlerStep(r) PROVE Commit(r)
  BY <1>1 DEF HandlerStep, Insert, DuplicateKey, Execute, ApplyEgressError,
     ApplyProtocolError, ApplyUnsuccess, ApplySuccess, EngineEscapes, WriteFails,
     Reply, Stage, RollBack
<1> QED
  BY <1>1 DEF Next, Refuse, Begin, Crash, PspStep, AllOver, RollBack, vars, dbVars

LEMMA NextNoInvented ==
  Typed /\ WorkSound /\ NoInventedSuccess /\ [Next]_vars => NoInventedSuccess'
<1> SUFFICES ASSUME Typed, WorkSound, NoInventedSuccess, [Next]_vars,
                    NEW q \in Requests, payments'[q] \in Successes
             PROVE  \E d \in ChargesOf(q)' : /\ d.outcome \in DOMAIN StatusMap
                                            /\ StatusMap[d.outcome] = payments'[q]
  BY DEF NoInventedSuccess, Successes, BackedBy
<1>1. decided \subseteq decided'
  BY StepsSend, DecisionsStand
<1>2. BackedBy(q, payments'[q])
  <2>1. CASE payments'[q] = payments[q]
    BY <2>1 DEF NoInventedSuccess, Successes, BackedBy
  <2>2. CASE payments'[q] # payments[q]
    <3>1. PICK r \in Requests : Commit(r)
      BY <2>2, OnlyCommitWrites
    <3>2. r = q /\ payments'[q] = uow[q].status /\ uow[q] # None
      BY <2>2, <3>1 DEF Commit, Typed, TypeOK, PhaseTyped
    <3> QED
      BY <3>2 DEF WorkSound, SoundFor
  <2> QED
    BY <2>1, <2>2
<1> QED
  BY <1>1, <1>2 DEF BackedBy, ChargesOf

\* A payment is committed as captured, authorised or waiting for its customer only if
\* the PSP said so of that very payment, whatever was lost, late, retried or crashed.
THEOREM SuccessIsNotInvented == Spec => []NoInventedSuccess
<1>1. Init => NoInventedSuccess
  BY CreateAssumption DEF Init, NoInventedSuccess, PaymentStatuses
<1> QED
  BY <1>1, CreateAlwaysSound, NextNoInvented, PTL DEF Spec

\* Who has an answer is at the end, and a 201 in it is the status of the row.
Answered(r) == /\ answer[r] # None => pc[r] = "ended"
               /\ answer[r] \in PaymentStatuses => payments[r] = answer[r]

AnswerKept == \A r \in Requests : Answered(r)

LEMMA NextAnswerKept == Typed /\ AnswerKept /\ [Next]_vars => AnswerKept'
<1> SUFFICES ASSUME Typed, AnswerKept, [Next]_vars PROVE AnswerKept'
  OBVIOUS
<1>1. None \notin PaymentStatuses
  BY CreateAssumption
<1> USE DEF Typed, TypeOK, PhaseTyped, AnswerKept, Answered, dbVars
<1>2. ASSUME NEW r \in Requests, NEW code \in ErrorAnswers, RollBack(r, code)
      PROVE  AnswerKept'
  <2>1. code \notin PaymentStatuses
    BY DEF ErrorAnswers, PaymentStatuses
  <2> QED
    BY <1>2, <2>1 DEF RollBack
<1>3. ASSUME NEW r \in Requests, HandlerStep(r) PROVE AnswerKept'
  <2>1. {"409", "500"} \subseteq ErrorAnswers /\ "500" \notin PaymentStatuses
    BY DEF ErrorAnswers, PaymentStatuses
  <2>2. CASE Insert(r)
    BY <2>2 DEF Insert
  <2>3. CASE DuplicateKey(r) \/ EngineEscapes(r) \/ WriteFails(r)
    BY <1>2, <2>1, <2>3 DEF DuplicateKey, EngineEscapes, WriteFails
  <2>4. CASE Execute(r)
    BY <2>4 DEF Execute
  <2>5. CASE \/ ApplyEgressError(r) \/ ApplyProtocolError(r)
             \/ ApplyUnsuccess(r) \/ ApplySuccess(r)
    BY <2>5 DEF ApplyEgressError, ApplyProtocolError, ApplyUnsuccess, ApplySuccess, Stage
  <2>6. CASE Commit(r)
    <3>1. answer[r] = None
      BY <2>6 DEF Commit
    <3>2. \A q \in Requests : /\ answer'[q] = answer[q]
                              /\ q # r => payments'[q] = payments[q] /\ pc'[q] = pc[q]
      BY <2>6 DEF Commit
    <3> QED
      BY <1>1, <3>1, <3>2
  <2>7. CASE Reply(r)
    <3>1. PICK a \in {payments[r], "500"} : answer' = [answer EXCEPT ![r] = a]
      BY <2>7 DEF Reply
    <3> QED
      BY <2>1, <2>7, <3>1 DEF Reply
  <2> QED
    BY <1>3, <2>2, <2>3, <2>4, <2>5, <2>6, <2>7 DEF HandlerStep
<1>4. ASSUME NEW r \in Requests, Refuse(r) PROVE AnswerKept'
  BY <1>2, <1>4 DEF Refuse
<1>5. ASSUME NEW r \in Requests, Begin(r) \/ Crash(r) PROVE AnswerKept'
  BY <1>5 DEF Begin, Crash
<1>6. CASE PspStep \/ UNCHANGED vars
  BY <1>6 DEF PspStep, vars
<1> QED
  BY <1>3, <1>4, <1>5, <1>6 DEF Next, AllOver

LEMMA AnswersAlwaysKept == Spec => []AnswerKept
<1>1. Init => AnswerKept
  BY CreateAssumption DEF Init, AnswerKept, Answered
<1> QED
  BY <1>1, InitTyped, NextTyped, NextAnswerKept, PTL DEF Spec

\* The status a client is told in a 201 is the status of its committed payment, and
\* stays it: no crash, lost acknowledgement or late answer of the PSP changes it.
THEOREM AnswersAreDurable == Spec => []AnswerIsDurable
<1>1. AnswerKept => AnswerIsDurable
  BY DEF AnswerKept, Answered, AnswerIsDurable
<1> QED
  BY <1>1, AnswersAlwaysKept, PTL

\* All of the payment, or nothing of it.
WholeFor(r) ==
    IF payments[r] = None
    THEN RowsFor(r) = {} /\ LedgerFor(r) = {}
    ELSE /\ Cardinality(LedgerFor(r)) = 1
         /\ \E first, last \in RowsFor(r) :
                /\ \A n \in RowsFor(r) : first <= n /\ n <= last
                /\ outbox[first].type = "payment.created"
                /\ outbox[last].type = EventOf(payments[r])
         /\ \A n \in RowsFor(r) :
                outbox[n].type \in {"payment.created", EventOf(payments[r])}
         /\ \A m, n \in RowsFor(r) : outbox[m].type = outbox[n].type => m = n

LEMMA WholeIsTransactional == TransactionalOutbox <=> \A r \in Requests : WholeFor(r)
  BY DEF TransactionalOutbox, WholeFor

\* What appending the rows of a transaction does to the outbox.
LEMMA RowsAppended ==
  ASSUME Typed, NEW r \in Requests, uow[r] \in Work, outbox' = outbox \o OutboxRows(r)
  PROVE  /\ DOMAIN outbox = 1 .. Len(outbox) /\ Len(outbox) \in Nat
         /\ DOMAIN outbox' = 1 .. Len(outbox) + Len(uow[r].events)
         /\ \A n \in DOMAIN outbox : outbox'[n] = outbox[n]
         /\ \A i \in 1 .. Len(uow[r].events) :
                /\ outbox'[Len(outbox) + i].payment = r
                /\ outbox'[Len(outbox) + i].type = uow[r].events[i]
<1> DEFINE k == Len(uow[r].events)
           Row == [payment: Requests, type: EventTypes]
<1>1. /\ uow[r].events \in Seq(EventTypes) /\ k \in Nat
      /\ \A i \in 1 .. k : uow[r].events[i] \in EventTypes
  BY DEF Work
<1>2. OutboxRows(r) \in [1 .. k -> Row]
  BY <1>1 DEF OutboxRows
<1>3. \A i \in 1 .. k : /\ OutboxRows(r)[i].payment = r
                        /\ OutboxRows(r)[i].type = uow[r].events[i]
  BY DEF OutboxRows
<1>4. outbox \in Seq(Row)
  BY DEF Typed, TypeOK
<1> HIDE DEF k, Row
<1>5. OutboxRows(r) \in Seq(Row) /\ Len(OutboxRows(r)) = k
  BY <1>1, <1>2, SeqDef, LenProperties
<1>6. /\ Len(outbox) \in Nat /\ DOMAIN outbox = 1 .. Len(outbox)
      /\ outbox' \in Seq(Row) /\ Len(outbox') = Len(outbox) + k
      /\ DOMAIN outbox' = 1 .. Len(outbox')
  BY <1>4, <1>5, ConcatProperties, LenProperties
<1>7. \A i \in 1 .. Len(outbox) + k :
          outbox'[i] = IF i <= Len(outbox) THEN outbox[i]
                       ELSE OutboxRows(r)[i - Len(outbox)]
  BY <1>1, <1>4, <1>5, ConcatProperties
<1>8. \A i \in 1 .. k : outbox'[Len(outbox) + i] = OutboxRows(r)[i]
  BY <1>1, <1>6, <1>7
<1> QED
  BY <1>1, <1>3, <1>6, <1>7, <1>8 DEF k

\* The rows of other payments stay where they are.
LEMMA CommitKeepsOthers ==
  ASSUME Typed, NEW r \in Requests, Commit(r), NEW q \in Requests, q # r, WholeFor(q)
  PROVE  WholeFor(q)'
<1>1. uow[r] \in Work
  BY DEF Commit, Typed, TypeOK, PhaseTyped
<1>2. /\ DOMAIN outbox = 1 .. Len(outbox) /\ Len(outbox) \in Nat
      /\ DOMAIN outbox' = 1 .. Len(outbox) + Len(uow[r].events)
      /\ \A n \in DOMAIN outbox : outbox'[n] = outbox[n]
      /\ \A i \in 1 .. Len(uow[r].events) : outbox'[Len(outbox) + i].payment = r
  BY <1>1, RowsAppended DEF Commit
<1>3. Len(uow[r].events) \in Nat
  BY <1>1 DEF Work
<1>4. \A n \in DOMAIN outbox' : n \notin DOMAIN outbox => outbox'[n].payment = r
  <2> SUFFICES ASSUME NEW n \in DOMAIN outbox', n \notin DOMAIN outbox
               PROVE  outbox'[n].payment = r
    OBVIOUS
  <2> DEFINE i == n - Len(outbox)
  <2>1. i \in 1 .. Len(uow[r].events) /\ n = Len(outbox) + i
    BY <1>2, <1>3
  <2> HIDE DEF i
  <2>2. outbox'[Len(outbox) + i].payment = r
    BY <1>2, <2>1
  <2> QED
    BY <2>1, <2>2
<1>5. DOMAIN outbox \subseteq DOMAIN outbox'
  BY <1>2, <1>3
<1>6. RowsFor(q)' = RowsFor(q) /\ \A n \in RowsFor(q) : outbox'[n] = outbox[n]
  BY <1>2, <1>4, <1>5 DEF RowsFor
<1>7. LedgerFor(q)' = LedgerFor(q)
  BY DEF Commit, LedgerRow, LedgerFor
<1>8. payments'[q] = payments[q]
  BY DEF Commit, Typed, TypeOK
<1> QED
  BY <1>6, <1>7, <1>8 DEF WholeFor

\* The rows of the committed payment are its first, and they are those of its status.
LEMMA CommitIsWhole ==
  ASSUME Typed, WorkSound, NEW r \in Requests, Commit(r), WholeFor(r)
  PROVE  WholeFor(r)'
<1> DEFINE status == uow[r].status
           events == uow[r].events
           l == Len(outbox)
<1>1. /\ uow[r] \in Work /\ payments[r] = None
      /\ payments'[r] = status /\ status # None
  BY CreateAssumption DEF Commit, Typed, TypeOK, PhaseTyped, Work
<1>2. /\ DOMAIN outbox = 1 .. l /\ l \in Nat
      /\ DOMAIN outbox' = 1 .. l + Len(events)
      /\ \A n \in DOMAIN outbox : outbox'[n] = outbox[n]
      /\ \A i \in 1 .. Len(events) : /\ outbox'[l + i].payment = r
                                     /\ outbox'[l + i].type = events[i]
  BY <1>1, RowsAppended DEF Commit
<1>3. events = EventsTo(status) /\ status \in Successes \cup {"PENDING", "FAILED"}
  BY <1>1, CreateAssumption DEF WorkSound, SoundFor, Commit, Typed, PhaseTyped
<1>4. RowsFor(r) = {} /\ LedgerFor(r) = {}
  BY <1>1 DEF WholeFor
<1>5. Cardinality(LedgerFor(r)') = 1
  <2>1. LedgerFor(r)' = {LedgerRow(r)}
    BY <1>4 DEF Commit, LedgerRow, LedgerFor
  <2> QED
    BY <2>1, FS_Singleton
<1>6. RowsFor(r)' = (l + 1) .. (l + Len(events))
  <2>1. Len(events) \in Nat
    BY <1>1 DEF Work
  <2>2. \A i \in 1 .. Len(events) : outbox'[l + i].payment = r
    BY <1>2
  <2>3. \A n \in (l + 1) .. (l + Len(events)) : outbox'[n].payment = r
    <3> SUFFICES ASSUME NEW n \in (l + 1) .. (l + Len(events))
                 PROVE  outbox'[n].payment = r
      OBVIOUS
    <3>1. PICK i \in 1 .. Len(events) : n = l + i
      <4>1. n - l \in 1 .. Len(events) /\ n = l + (n - l)
        BY <1>2, <2>1
      <4> QED
        BY <4>1
    <3> QED
      BY <2>2, <3>1
  <2>4. \A n \in DOMAIN outbox : outbox[n].payment # r
    BY <1>4 DEF RowsFor
  <2>5. \A n \in 1 .. l + Len(events) : n \in 1 .. l \/ n \in (l + 1) .. (l + Len(events))
    BY <1>2, <2>1
  <2>6. (l + 1) .. (l + Len(events)) \subseteq 1 .. l + Len(events)
    BY <1>2, <2>1
  <2> HIDE DEF l, events
  <2> QED
    BY <1>2, <2>3, <2>4, <2>5, <2>6 DEF RowsFor
<1>7. CASE status = "PENDING"
  <2>1. Len(events) = 1 /\ events[1] = "payment.created"
    BY <1>3, <1>7 DEF EventsTo
  <2>2. RowsFor(r)' = {l + 1} /\ outbox'[l + 1].type = "payment.created"
    BY <1>2, <1>6, <2>1
  <2>3. EventOf(status) = "payment.created"
    BY <1>7 DEF EventOf
  <2> HIDE DEF l, events, status
  <2> QED
    BY <1>1, <1>2, <1>5, <2>2, <2>3 DEF WholeFor
<1>8. CASE status # "PENDING"
  <2>1. /\ Len(events) = 2 /\ events[1] = "payment.created"
        /\ events[2] = EventOf(status)
    BY <1>3, <1>8 DEF EventsTo
  <2>2. RowsFor(r)' = {l + 1, l + 2}
    BY <1>2, <1>6, <2>1
  <2>3. outbox'[l + 1].type = "payment.created" /\ outbox'[l + 2].type = EventOf(status)
    BY <1>2, <2>1
  <2>4. EventOf(status) # "payment.created"
    BY <1>3, <1>8 DEF EventOf, Successes
  <2> HIDE DEF l, events, status
  <2> QED
    BY <1>1, <1>2, <1>5, <2>2, <2>3, <2>4 DEF WholeFor
<1> QED
  BY <1>7, <1>8

LEMMA NextWhole ==
  Typed /\ WorkSound /\ TransactionalOutbox /\ [Next]_vars => TransactionalOutbox'
<1> SUFFICES ASSUME Typed, WorkSound, \A q \in Requests : WholeFor(q), [Next]_vars,
                    NEW q \in Requests
             PROVE  WholeFor(q)'
  BY WholeIsTransactional DEF TransactionalOutbox, WholeFor
<1>1. CASE UNCHANGED dbVars
  BY <1>1 DEF dbVars, WholeFor, RowsFor, LedgerFor
<1>2. CASE ~UNCHANGED dbVars
  <2>1. PICK r \in Requests : Commit(r)
    BY <1>2, OnlyCommitStores
  <2> QED
    BY <2>1, CommitKeepsOthers, CommitIsWhole
<1> QED
  BY <1>1, <1>2

\* A payment, its ledger row and its events are committed together, exactly once, and
\* the last event of a payment is the one of its status: the outbox announces what
\* happened and nothing else, over any crashes, rollbacks and concurrent requests.
THEOREM OutboxIsTransactional == Spec => []TransactionalOutbox
<1>1. Init => TransactionalOutbox
  BY DEF Init, TransactionalOutbox, RowsFor, LedgerFor
<1> QED
  BY <1>1, CreateAlwaysSound, NextWhole, PTL DEF Spec
=============================================================================
