------------------------------ MODULE HttpEgress ------------------------------
(***************************************************************************)
(* HttpEgress.send (providers/engine/http_egress.py): the retry loop each  *)
(* PSP call runs, with the outbound idempotency key the executor rendered, *)
(* against a network that delays requests past the timeout and a PSP that  *)
(* acts once per key.  Several calls share one breaker and one PSP; any    *)
(* call's process may stop between two steps.                              *)
(***************************************************************************)
EXTENDS Naturals, FiniteSets

CONSTANTS Calls,            \* the calls of send, one per engine execution
          MaxAttempts,      \* retry_policy.max_attempts
          RetryOn,          \* retry_policy.retry_on
          DoNotRetryOn,     \* retry_policy.do_not_retry_on
          KeySent,          \* the manifest's templates put outbound_key in the request
          ProviderStatuses, \* what a PSP may say of a charge it made
          None

\* What _classify and the two except branches call a failed attempt.
HttpCategories == {"http_402", "http_429", "http_5xx"}
Categories == HttpCategories \cup {"timeout", "network_error"}

ASSUME EgressAssumption ==
    /\ MaxAttempts \in Nat \ {0}
    /\ KeySent \in BOOLEAN
    /\ "declined" \notin ProviderStatuses /\ "garbled" \notin ProviderStatuses
    /\ None \notin ProviderStatuses \cup Categories \cup {"circuit_open"}

VARIABLES st,       \* st[c]: where call c is in send
          attempt,  \* attempt[c]: the loop variable, 0 before the loop
          category, \* category[c]: last_category, or what was raised
          reply,    \* reply[c]: the PSP's answer to the current attempt, or None
          wire,     \* attempts <<c, n>> sent and not yet seen by the PSP
          decided,  \* what the PSP did, per outbound key
          breaker   \* breaker[c]: what the circuit breaker was told of call c

egressVars == <<st, attempt, category, reply, wire, decided, breaker>>

Stages == {"idle", "awaiting", "judging", "backoff", "returned", "raised", "dead"}

\* The body of a 2xx answer is the PSP's status of the charge or unreadable.
Replies == [code: {"2xx"}, body: ProviderStatuses \cup {"garbled"}]
             \cup [code: HttpCategories, body: {"none"}]

\* A mutant of OutboundKey: the retry loop's counter goes into the key.
OutboundKeyPerTry(c, n) == <<c, n>>

\* _render_outbound_key: execute() is always called with attempt=1, so the key is
\* the same for every try of a call; a manifest that declares a mechanism but
\* templates no outbound_key sends none, and the PSP sees unrelated requests.
OutboundKey(c, n) == IF KeySent THEN <<c, 1>> ELSE <<c, n>>

EgressInit == /\ st = [c \in Calls |-> "idle"]
              /\ attempt = [c \in Calls |-> 0]
              /\ category = [c \in Calls |-> None]
              /\ reply = [c \in Calls |-> None]
              /\ wire = {}
              /\ decided = {}
              /\ breaker = [c \in Calls |-> None]

\* A mutant of ShouldRetry: a category on both lists is retried.
ShouldRetryListed(cat) == cat \in RetryOn

\* _should_retry: do_not_retry_on wins over retry_on.
ShouldRetry(cat) == cat \notin DoNotRetryOn /\ cat \in RetryOn

\* _send_once for attempt n of call c.
SendAttempt(c, n) == /\ st' = [st EXCEPT ![c] = "awaiting"]
                     /\ attempt' = [attempt EXCEPT ![c] = n]
                     /\ wire' = wire \cup {<<c, n>>}
                     /\ reply' = [reply EXCEPT ![c] = None]

\* The breaker, if there is one, allows the call.
SendAllowed(c) == /\ st[c] = "idle"
                  /\ SendAttempt(c, 1)
                  /\ UNCHANGED <<category, decided, breaker>>

\* The breaker refuses: raised at once, whatever retry_on says of circuit_open.
SendCircuitOpen(c) == /\ st[c] = "idle"
                      /\ st' = [st EXCEPT ![c] = "raised"]
                      /\ category' = [category EXCEPT ![c] = "circuit_open"]
                      /\ UNCHANGED <<attempt, reply, wire, decided, breaker>>

\* A 2xx answer is returned as it is.
Receive2xx(c) == /\ st[c] = "awaiting"
                 /\ reply[c] # None
                 /\ reply[c].code = "2xx"
                 /\ st' = [st EXCEPT ![c] = "returned"]
                 /\ breaker' = [breaker EXCEPT ![c] = "success"]
                 /\ UNCHANGED <<attempt, category, reply, wire, decided>>

\* The attempt ended in cat; the loop now decides whether to go on.
AttemptFailed(c, cat) == /\ st' = [st EXCEPT ![c] = "judging"]
                         /\ category' = [category EXCEPT ![c] = cat]
                         /\ reply' = [reply EXCEPT ![c] = None]
                         /\ UNCHANGED <<attempt, wire, decided, breaker>>

ReceiveError(c) == /\ st[c] = "awaiting"
                   /\ reply[c] # None
                   /\ reply[c].code # "2xx"
                   /\ AttemptFailed(c, reply[c].code)

\* httpx.TimeoutException or TransportError, at any moment of the attempt: the
\* request may be lost, still under way, or already answered.
LoseAttempt(c, cat) == /\ st[c] = "awaiting"
                       /\ AttemptFailed(c, cat)

\* The answer exceeds max_response_bytes: HttpEgressError escapes the loop, so
\* there is no retry and the breaker is told nothing.
Oversize(c) == /\ st[c] = "awaiting"
               /\ reply[c] # None
               /\ st' = [st EXCEPT ![c] = "raised"]
               /\ category' = [category EXCEPT ![c] = "oversize"]
               /\ UNCHANGED <<attempt, reply, wire, decided, breaker>>

\* A mutant of GiveUp: the exhausted loop is tested one attempt too late.
GiveUpLate(c) == /\ st[c] = "judging"
                 /\ ~ShouldRetry(category[c]) \/ attempt[c] > MaxAttempts
                 /\ st' = [st EXCEPT ![c] = "raised"]
                 /\ breaker' = [breaker EXCEPT ![c] = "failure"]
                 /\ UNCHANGED <<attempt, category, reply, wire, decided>>

\* A mutant of GiveUp: the last attempt is never made.
GiveUpEarly(c) == /\ st[c] = "judging"
                  /\ ~ShouldRetry(category[c]) \/ attempt[c] + 1 >= MaxAttempts
                  /\ st' = [st EXCEPT ![c] = "raised"]
                  /\ breaker' = [breaker EXCEPT ![c] = "failure"]
                  /\ UNCHANGED <<attempt, category, reply, wire, decided>>

\* The loop ends without an answer worth returning.
GiveUp(c) == /\ st[c] = "judging"
             /\ ~ShouldRetry(category[c]) \/ attempt[c] >= MaxAttempts
             /\ st' = [st EXCEPT ![c] = "raised"]
             /\ breaker' = [breaker EXCEPT ![c] = "failure"]
             /\ UNCHANGED <<attempt, category, reply, wire, decided>>

\* A mutant of Backoff: one attempt more than max_attempts.
BackoffOnceMore(c) == /\ st[c] = "judging"
                      /\ ShouldRetry(category[c])
                      /\ attempt[c] <= MaxAttempts
                      /\ st' = [st EXCEPT ![c] = "backoff"]
                      /\ UNCHANGED <<attempt, category, reply, wire, decided, breaker>>

Backoff(c) == /\ st[c] = "judging"
              /\ ShouldRetry(category[c])
              /\ attempt[c] < MaxAttempts
              /\ st' = [st EXCEPT ![c] = "backoff"]
              /\ UNCHANGED <<attempt, category, reply, wire, decided, breaker>>

\* asyncio.sleep is over.
Retry(c) == /\ st[c] = "backoff"
            /\ SendAttempt(c, attempt[c] + 1)
            /\ UNCHANGED <<category, decided, breaker>>

\* The steps of a call once its send has started; the timeout bounds each attempt.
SendStep(c) == \/ Receive2xx(c) \/ ReceiveError(c) \/ Oversize(c)
               \/ \E cat \in {"timeout", "network_error"} : LoseAttempt(c, cat)
               \/ GiveUp(c) \/ Backoff(c) \/ Retry(c)

\* The process that is to run call c, runs it or has run it stops, or an exception
\* send does not catch ends it (httpx.DecodingError); nothing in memory survives.
Stop(c) == /\ st' = [st EXCEPT ![c] = "dead"]
           /\ reply' = [reply EXCEPT ![c] = None]
           /\ UNCHANGED <<attempt, category, wire, decided, breaker>>

-----------------------------------------------------------------------------
(* The PSP.  It is not in this repository; its part is what send and the    *)
(* manifests rely on: it acts once per key, answers a repeated key with what *)
(* it did before, and may fail to answer whatever it did.                    *)

\* What the PSP says when it has decided outcome.
AnswerOf(outcome) == IF outcome = "declined"
                     THEN [code |-> "http_402", body |-> "none"]
                     ELSE [code |-> "2xx", body |-> outcome]

Garbled == [code |-> "2xx", body |-> "garbled"]
Failing == [code |-> "http_5xx", body |-> "none"]
Busy    == [code |-> "http_429", body |-> "none"]

\* The answer reaches send only while it still waits for that attempt.
Answer(c, n, r) == reply' = IF st[c] = "awaiting" /\ attempt[c] = n
                            THEN [reply EXCEPT ![c] = r] ELSE reply

Outcomes == ProviderStatuses \cup {"declined"}

\* The PSP acts on attempt n of call c, or finds the key already acted on.
PspActs(c, n) ==
    LET key == OutboundKey(c, n)
        old == {d \in decided : d.key = key}
    IN  \E outcome \in IF old = {} THEN Outcomes ELSE {d.outcome : d \in old} :
            /\ decided' = decided \cup {[key |-> key, outcome |-> outcome]}
            /\ \E r \in {AnswerOf(outcome), Garbled, Failing} : Answer(c, n, r)

\* The PSP turns attempt n of call c away before acting on it.
PspTurnsAway(c, n) == /\ \E r \in {Busy, Failing} : Answer(c, n, r)
                      /\ UNCHANGED decided

Psp == \E m \in wire : /\ PspActs(m[1], m[2]) \/ PspTurnsAway(m[1], m[2])
                       /\ wire' = wire \ {m}
                       /\ UNCHANGED <<st, attempt, category, breaker>>

-----------------------------------------------------------------------------
Finished(c) == st[c] \in {"returned", "raised", "dead"}

\* Every call has ended and nothing more will be sent.
AllFinished == /\ \A c \in Calls : Finished(c)
               /\ wire = {}
               /\ UNCHANGED egressVars

EgressNext == \/ \E c \in Calls : \/ SendAllowed(c) \/ SendCircuitOpen(c)
                                  \/ SendStep(c) \/ Stop(c)
              \/ Psp
              \/ AllFinished

\* A started send is not abandoned by the event loop; the PSP owes nothing.
EgressFairness == \A c \in Calls : WF_egressVars(SendStep(c))

\* What send does, whoever calls it and however fairly it is run.
EgressSafety == EgressInit /\ [][EgressNext]_egressVars

EgressSpec == EgressSafety /\ EgressFairness

-----------------------------------------------------------------------------
\* The shape of send's state; no call ever makes more attempts than
\* max_attempts, and nothing beyond them is on the wire.
EgressTypeOK == /\ st \in [Calls -> Stages]
                /\ attempt \in [Calls -> 0 .. MaxAttempts]
                /\ category \in [Calls -> Categories \cup {"circuit_open", "oversize", None}]
                /\ reply \in [Calls -> Replies \cup {None}]
                /\ wire \subseteq Calls \X (1 .. MaxAttempts)
                /\ decided \subseteq [key: Calls \X (1 .. MaxAttempts), outcome: Outcomes]
                /\ breaker \in [Calls -> {"success", "failure", None}]

\* The charges the PSP made under the keys of call c.
ChargesOf(c) == {d \in decided : d.key[1] = c /\ d.outcome # "declined"}

\* However often a call is retried, and however late a timed-out attempt reaches
\* the PSP, the customer is charged at most once for it (send's loop together with
\* the key execute() renders once per call).
OneChargePerCall == \A c \in Calls : Cardinality(ChargesOf(c)) <= 1

\* A call that ended in a refusal by the PSP (http_402) was not charged by an
\* earlier attempt and will not be by one that is still under way: the refusal
\* may be reported to the merchant as final.
RefusalIsFinal ==
    \A c \in Calls : st[c] = "raised" /\ category[c] = "http_402" => ChargesOf(c) = {}

\* Only an attempt that ended in a category the manifest retries is followed by
\* another: a category on do_not_retry_on never is, even one on both lists.
RetriesAreListed ==
    [][\A c \in Calls : attempt[c] > 0 /\ attempt'[c] > attempt[c] =>
           category[c] \in RetryOn \ DoNotRetryOn]_egressVars

\* A call that gives up on a category the manifest retries has used every attempt
\* it was allowed.
GivesUpOnlyWhenSpent ==
    \A c \in Calls :
        st[c] = "raised" /\ category[c] \in Categories /\ ShouldRetry(category[c])
            => attempt[c] = MaxAttempts
=============================================================================
