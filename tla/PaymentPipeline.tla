--------------------------- MODULE PaymentPipeline ---------------------------
(***************************************************************************)
(* POST /payments together with the relays: what the use case commits is   *)
(* what the relays may claim.  The two meet in the outbox table only, so a *)
(* step is one of the use case and its PSP or one of a relay, and leaves   *)
(* the variables of the other part alone.  The relays are started before   *)
(* the first request and poll all the while.                               *)
(***************************************************************************)
EXTENDS CreatePayment

CONSTANTS FirstId,      \* FirstId[r]: the outbox id of the first event of request r
          Relays,
          Batch,        \* batch_size
          Poison,       \* the rows whose publication always raises
          MaxErrors,    \* BOUND: MaxErrors[i], how often the publication of row i raises
          MaxRollbacks  \* BOUND: MaxRollbacks[i], how often a claim on row i is rolled back

\* Of a payment the create flow records at most two events.
IdsOf(r) == FirstId[r] .. FirstId[r] + 1
OutboxIds == UNION {IdsOf(r) : r \in Requests}

ASSUME PipelineAssumption ==
    /\ FirstId \in [Requests -> Nat]
    /\ \A r, q \in Requests : r # q => IdsOf(r) \cap IdsOf(q) = {}
    /\ Batch \in Nat \ {0}
    /\ Poison \subseteq OutboxIds
    /\ MaxErrors \in [OutboxIds -> Nat] /\ \A i \in Poison : MaxErrors[i] > 0
    /\ MaxRollbacks \in [OutboxIds -> Nat]

VARIABLES published, claim, todo, raised, dead, copies, errors, rollbacks

relayOnlyVars == <<published, claim, todo, raised, dead, copies, errors, rollbacks>>
pipelineVars == <<vars, relayOnlyVars>>

\* The id of the n-th committed row: ids are given out when the events are added.
IdAt(n) == LET earlier == {m \in 1 .. n - 1 : outbox[m].payment = outbox[n].payment}
           IN  FirstId[outbox[n].payment] + Cardinality(earlier)

Visible == {IdAt(n) : n \in DOMAIN outbox}

Relay == INSTANCE OutboxRelay WITH
             Rows <- OutboxIds,
             PaymentOf <- [i \in OutboxIds |-> CHOOSE r \in Requests : i \in IdsOf(r)],
             committed <- Visible

PipelineInit == Init /\ Relay!Init

CreateMoves == Next /\ UNCHANGED relayOnlyVars
RelayMoves(w) == UNCHANGED vars /\ Relay!RelayStep(w)
RelayFails(w) == UNCHANGED vars /\ Relay!BatchFails(w)

PipelineNext == \/ CreateMoves
                \/ \E w \in Relays : RelayMoves(w) \/ RelayFails(w)

\* As in the two parts.
PipelineFairness == /\ Fairness
                    /\ \A w \in Relays : WF_pipelineVars(RelayMoves(w))

PipelineSpec == PipelineInit /\ [][PipelineNext]_pipelineVars /\ PipelineFairness

-----------------------------------------------------------------------------
\* The topic never says more than the database: a message tells of a committed payment
\* that it was created or that it is in the status it has, whatever was rolled back,
\* retried or sent twice (the outbox rows are written in the payment's transaction, and
\* the relays see committed rows).
AnnouncedIsCommitted ==
    \A i \in OutboxIds :
        copies[i] > 0 =>
            \E n \in DOMAIN outbox :
                /\ IdAt(n) = i
                /\ payments[outbox[n].payment] # None
                /\ outbox[n].type \in {"payment.created", EventOf(payments[outbox[n].payment])}

\* What the PSP has made of a payment, in the statuses of the domain.
said == [r \in Requests |-> {StatusMap[d.outcome] :
                               d \in {c \in ChargesOf(r) : c.outcome \in DOMAIN StatusMap}}]

\* What the topic tells: the rows that went out; a message of no row is no row.
Message(i) == IF i \in Visible
              THEN outbox[CHOOSE n \in DOMAIN outbox : IdAt(n) = i]
              ELSE None
told == {Message(i) : i \in {j \in OutboxIds : copies[j] > 0}}

Promise == INSTANCE PaymentPromises WITH
               Statuses <- PaymentStatuses,
               Successes <- {"CAPTURED", "AUTHORIZED", "ACTION_REQUIRED"},
               Errors <- ErrorAnswers,
               rows <- payments,
               answers <- answer

\* To the PSP, the client, the table's readers and the topic's readers together, the
\* transactions, attempts, crashes, batches and rollbacks look like the single steps of
\* PaymentPromises: nobody is told of a payment what another can never confirm.
KeepsPromises == Promise!PromiseSpec

\* The use case and the relays together deliver at least once what the use case
\* commits: a row keeps its id and stays, whatever else commits after it, none goes out
\* before its commit, and none is marked that did not go out.
Delivery == INSTANCE EventDelivery WITH
                Events <- OutboxIds, recorded <- Visible, settled <- published

CommittedIsDelivered == Delivery!DeliverySpec

\* Nor does it say less for good: the status a payment was committed with goes out, even
\* if its request was answered 500 or its process stopped right after the commit, and
\* whatever publishes raise and batches are rolled back on the way; except in a row that
\* cannot be published at all.
Announced(r) == \E n \in DOMAIN outbox : /\ outbox[n].payment = r
                                         /\ outbox[n].type = EventOf(payments[r])
                                         /\ IdAt(n) \in published \cup Poison

PaymentsAreAnnounced == \A r \in Requests : payments[r] # None ~> Announced(r)
=============================================================================
