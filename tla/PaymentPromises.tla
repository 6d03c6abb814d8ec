---------------------------- MODULE PaymentPromises ----------------------------
(***************************************************************************)
(* What the gateway promises of a payment to those who look at it from     *)
(* outside: the PSP that acts on it, the client that is answered, readers  *)
(* of the table and readers of the topic.  There are no transactions, no   *)
(* retries and no relays here; each of the four learns of a payment in one *)
(* step, and what one of them was told binds what the others are told.     *)
(***************************************************************************)
CONSTANTS Requests, KeyOf,
          Statuses,     \* the statuses a payment can be recorded in
          Successes,    \* those that need the PSP to have said so
          Errors,       \* the answers that tell of no payment
          EventTypes,
          EventOf(_),   \* the event that announces a status
          None

VARIABLES said,     \* said[r]: the statuses the PSP has given the payment of r
          rows,     \* rows[r]: the status recorded of it, or None
          answers,  \* answers[r]: what the client of r was answered, or None
          told     \* the messages on the topic

promiseVars == <<said, rows, answers, told>>

PromiseInit == /\ said = [r \in Requests |-> {}]
               /\ rows = [r \in Requests |-> None]
               /\ answers = [r \in Requests |-> None]
               /\ told = {}

\* The PSP acts on a payment, whether or not anybody listens still.
Say(r, s) == /\ said' = [said EXCEPT ![r] = @ \cup {s}]
             /\ UNCHANGED <<rows, answers, told>>

\* A payment is recorded once, under a key nobody else has, and as a success only if
\* the PSP has said so.
Record(r, s) == /\ \A q \in Requests : KeyOf[q] = KeyOf[r] => rows[q] = None
                /\ s \in Successes => s \in said[r]
                /\ rows' = [rows EXCEPT ![r] = s]
                /\ UNCHANGED <<said, answers, told>>

\* A client is answered once: with what is recorded, or with an error.
Answer(r, a) == /\ answers[r] = None
                /\ a \in Errors \/ (a = rows[r] /\ a # None)
                /\ answers' = [answers EXCEPT ![r] = a]
                /\ UNCHANGED <<said, rows, told>>

\* Of a recorded payment the topic tells that it was created and what it became.
Announce(r, e) == /\ rows[r] # None
                  /\ e \in {"payment.created", EventOf(rows[r])}
                  /\ told' = told \cup {[payment |-> r, type |-> e]}
                  /\ UNCHANGED <<said, rows, answers>>

PromiseNext ==
    \E r \in Requests :
        \/ \E s \in Statuses : Say(r, s) \/ Record(r, s)
        \/ \E a \in Statuses \cup Errors : Answer(r, a)
        \/ \E e \in EventTypes : Announce(r, e)

PromiseSpec == PromiseInit /\ [][PromiseNext]_promiseVars
=============================================================================
