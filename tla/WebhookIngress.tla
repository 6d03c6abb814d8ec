---------------------------- MODULE WebhookIngress ----------------------------
(***************************************************************************)
(* POST /webhooks/{provider_code} (api/v1/webhooks.py): one provider, any  *)
(* number of deliveries handled side by side, each in a transaction of its *)
(* own.  While a delivery awaits, registrations replace secrets and add    *)
(* instances, the active version changes, the clock goes on, and any       *)
(* statement may raise.                                                    *)
(*                                                                         *)
(* The repositories are external: the default instance is whichever active *)
(* one the query finds first, and INSERT ... ON CONFLICT DO NOTHING waits  *)
(* for an uncommitted row with its key and skips over a committed one      *)
(* (UNIQUE (provider_instance_id, external_event_id) of schema.sql).       *)
(***************************************************************************)
EXTENDS Signatures

CONSTANTS Deliveries, \* requests to the endpoint; one stands for the uuid4 it may make
          Instances,
          Versions,   \* the manifest versions of the provider
          Events,
          Unparsable, \* the events whose body is not JSON
          SchemeOf,   \* SchemeOf[v]: the webhook.signature of version v
          Named,      \* the versions whose signature names a secret
          IdOf,       \* IdOf[v][e]: what event_id_path of v finds in e, or None
          Requests,   \* what may be delivered: an event, a timestamp and signatures
          MaxTime,    \* BOUND: when the clock stops
          MaxSecrets  \* BOUND: MaxSecrets[i]: how often the secret of i is written

Stages == {"new", "resolving", "reading", "verifying", "adding", "added",
           "committed", "ended"}
Answers == {"200", "401", "404", "500"}

EventIds == {IdOf[v][e] : v \in Versions, e \in Events} \ {None}

ASSUME IngressAssumption ==
    /\ IdOf \in [Versions -> [Events -> EventIds \cup {None}]]
    /\ \A v \in Versions, e \in Unparsable : IdOf[v][e] = None
    /\ EventIds \cap Deliveries = {}
    /\ None \notin Versions \cup Instances \cup Deliveries \cup Answers
    /\ \A q \in Requests : q.event \in Events
    /\ SchemeOf \in [Versions -> Schemes(Nat)]
    /\ MaxTime \in Nat
    /\ MaxSecrets \in [Instances -> Nat]

ASSUME RequestAssumption ==
    \A q \in Requests : q.sigs \in Seq({q.sigs[k] : k \in DOMAIN q.sigs})

VARIABLES now,      \* time.time()
          active,   \* the registry's active version, or None
          live,     \* the active instances
          secrets,  \* secrets[i]: how often the webhook secret of i was written
          stage,    \* stage[d]: the place of delivery d in receive_webhook
          request,  \* request[d]: what was delivered
          version,  \* version[d]: the manifest d works with
          instance, \* instance[d]: the instance d was resolved to
          secret,   \* secret[d]: what get_many returned
          inserted, \* inserted[d]: the open transaction of d has inserted its row
          rows,     \* the committed rows of webhook_events
          answer    \* answer[d]: the status code, or what became of the request

envVars == <<now, active, live, secrets>>
handlerVars == <<stage, request, version, instance, secret, inserted, answer>>
vars == <<envVars, handlerVars, rows>>

Init == /\ now = 0
        /\ active = None
        /\ live = {}
        /\ secrets = [i \in Instances |-> 0]
        /\ stage = [d \in Deliveries |-> "new"]
        /\ request = [d \in Deliveries |-> None]
        /\ version = [d \in Deliveries |-> None]
        /\ instance = [d \in Deliveries |-> None]
        /\ secret = [d \in Deliveries |-> None]
        /\ inserted = [d \in Deliveries |-> FALSE]
        /\ rows = {}
        /\ answer = [d \in Deliveries |-> None]

-----------------------------------------------------------------------------
(* What goes on around the handlers.                                        *)

Tick == /\ now < MaxTime
        /\ now' = now + 1
        /\ UNCHANGED <<active, live, secrets, handlerVars, rows>>

\* A registration writes the secrets of an instance, which may be in use.
PutSecret(i) == /\ secrets[i] < MaxSecrets[i]
                /\ secrets' = [secrets EXCEPT ![i] = @ + 1]
                /\ UNCHANGED <<now, active, live, handlerVars, rows>>

\* And commits: secrets come before the instance is active.
Activate(i) == /\ secrets[i] > 0
               /\ i \notin live
               /\ live' = live \cup {i}
               /\ UNCHANGED <<now, active, secrets, handlerVars, rows>>

\* The registry's set_active, or the first load of a version.
SetActive(v) == /\ active # v
                /\ active' = v
                /\ UNCHANGED <<now, live, secrets, handlerVars, rows>>

-----------------------------------------------------------------------------
(* One delivery.                                                            *)

\* A mutant of RollBack: the transaction is left open.
RollBackLeaks(d, code) == /\ stage' = [stage EXCEPT ![d] = "ended"]
                          /\ answer' = [answer EXCEPT ![d] = code]
                          /\ UNCHANGED inserted

\* An exception leaves the unit of work, and the endpoint with this answer.
RollBack(d, code) == /\ stage' = [stage EXCEPT ![d] = "ended"]
                     /\ answer' = [answer EXCEPT ![d] = code]
                     /\ inserted' = [inserted EXCEPT ![d] = FALSE]

\* The body is read and the active version looked up; KeyError is 404.
Arrive(d) == /\ stage[d] = "new"
             /\ \E q \in Requests : request' = [request EXCEPT ![d] = q]
             /\ version' = [version EXCEPT ![d] = active]
             /\ IF active = None THEN RollBack(d, "404")
                ELSE /\ stage' = [stage EXCEPT ![d] = "resolving"]
                     /\ UNCHANGED <<inserted, answer>>
             /\ UNCHANGED <<envVars, instance, secret, rows>>

\* get_default_instance_for_code: an active instance of the provider, any.
Resolve(d) == /\ stage[d] = "resolving"
              /\ \/ /\ live = {}
                    /\ RollBack(d, "404")
                    /\ UNCHANGED instance
                 \/ /\ \E i \in live : instance' = [instance EXCEPT ![d] = i]
                    /\ stage' = [stage EXCEPT ![d] = "reading"]
                    /\ UNCHANGED <<inserted, answer>>
              /\ UNCHANGED <<envVars, request, version, secret, rows>>

\* get_many, as of when the store reads it; not called without a secret_name.  The n-th
\* secret of instance i is <<i, n>>.
ReadSecret(d) == /\ stage[d] = "reading"
                 /\ stage' = [stage EXCEPT ![d] = "verifying"]
                 /\ secret' = [secret EXCEPT ![d] =
                                  IF version[d] \in Named /\ secrets[instance[d]] > 0
                                  THEN <<instance[d], secrets[instance[d]]>> ELSE None]
                 /\ UNCHANGED <<envVars, request, version, instance, inserted, rows, answer>>

\* verify_signature: on, 401, or 500 for what it does not catch.
Verify(d) ==
    LET scheme == SchemeOf[version[d]]
    IN  /\ stage[d] = "verifying"
        /\ IF Accepts(scheme, request[d], secret[d], now)
           THEN /\ stage' = [stage EXCEPT ![d] = "adding"]
                /\ UNCHANGED <<inserted, answer>>
           ELSE RollBack(d, IF Raises(scheme, request[d], secret[d], now)
                            THEN "500" ELSE "401")
        /\ UNCHANGED <<envVars, request, version, instance, secret, rows>>

\* A mutant of ExternalId: an id is always made.
ExternalIdFresh(d) == d

\* event_id_path applied to the payload, {} if it does not parse, or uuid4.
ExternalId(d) == LET id == IdOf[version[d]][request[d].event]
                 IN  IF id = None THEN d ELSE id

Key(d) == [instance |-> instance[d], id |-> ExternalId(d)]

RowOf(d) == [instance |-> instance[d], id |-> ExternalId(d), by |-> d,
             event |-> IF request[d].event \in Unparsable THEN None ELSE request[d].event]

KeyCommitted(d) == \E row \in rows : row.instance = instance[d] /\ row.id = ExternalId(d)
KeyLocked(d) == \E c \in Deliveries : inserted[c] /\ Key(c) = Key(d)

\* A mutant of Add: the key is looked up, and the row added without a unique index.
AddAfterLookup(d) == /\ stage[d] = "adding"
                     /\ stage' = [stage EXCEPT ![d] = "added"]
                     /\ inserted' = [inserted EXCEPT ![d] = ~KeyCommitted(d)]
                     /\ UNCHANGED <<envVars, request, version, instance, secret, rows, answer>>

\* A mutant of Add: the default instance is resolved again.
AddResolvesAgain(d) ==
    /\ stage[d] = "adding"
    /\ \E i \in live : instance' = [instance EXCEPT ![d] = i]
    /\ inserted' = [inserted EXCEPT ![d] = TRUE]
    /\ stage' = [stage EXCEPT ![d] = "added"]
    /\ UNCHANGED <<envVars, request, version, secret, rows, answer>>

\* webhook_events.add: ON CONFLICT DO NOTHING.
Add(d) == /\ stage[d] = "adding"
          /\ ~KeyLocked(d)
          /\ stage' = [stage EXCEPT ![d] = "added"]
          /\ inserted' = [inserted EXCEPT ![d] = ~KeyCommitted(d)]
          /\ UNCHANGED <<envVars, request, version, instance, secret, rows, answer>>

\* Leaving the unit of work.
Commit(d) == /\ stage[d] = "added"
             /\ stage' = [stage EXCEPT ![d] = "committed"]
             /\ rows' = IF inserted[d] THEN rows \cup {RowOf(d)} ELSE rows
             /\ inserted' = [inserted EXCEPT ![d] = FALSE]
             /\ UNCHANGED <<envVars, request, version, instance, secret, answer>>

\* A mutant of Reply: 200 immediately, before the transaction ends.
ReplyEarly(d) == /\ stage[d] \in {"added", "committed"}
                 /\ RollBack(d, "200")
                 /\ UNCHANGED <<envVars, request, version, instance, secret, rows>>

Reply(d) == /\ stage[d] = "committed"
            /\ RollBack(d, "200")
            /\ UNCHANGED <<envVars, request, version, instance, secret, rows>>

\* Any await raises, also the one that commits after the commit: 500.  Or the process
\* stops, which the PSP and the database cannot tell from it.
Fails(d) == /\ stage[d] \notin {"new", "ended"}
            /\ \E code \in {"500"} : RollBack(d, code)
            /\ UNCHANGED <<envVars, request, version, instance, secret, rows>>

HandlerStep(d) == \/ Resolve(d) \/ ReadSecret(d) \/ Verify(d) \/ Add(d) \/ Commit(d)
                  \/ Reply(d)

Next == \/ Tick
        \/ \E i \in Instances : PutSecret(i) \/ Activate(i)
        \/ \E v \in Versions : SetActive(v)
        \/ \E d \in Deliveries : Arrive(d) \/ HandlerStep(d) \/ Fails(d)

\* The event loop runs every handler it has started, and a statement that waits for
\* no row lock returns or raises.
Fairness == \A d \in Deliveries : WF_vars(HandlerStep(d))

Spec == Init /\ [][Next]_vars /\ Fairness

-----------------------------------------------------------------------------
\* The shape of the handlers' locals and of the table.
Rows == [instance: Instances, id: EventIds \cup Deliveries, by: Deliveries,
         event: Events \cup {None}]

TypeOK == /\ now \in 0 .. MaxTime
          /\ active \in Versions \cup {None}
          /\ live \subseteq Instances
          /\ secrets \in [Instances -> Nat]
          /\ stage \in [Deliveries -> Stages]
          /\ request \in [Deliveries -> Requests \cup {None}]
          /\ version \in [Deliveries -> Versions \cup {None}]
          /\ instance \in [Deliveries -> Instances \cup {None}]
          /\ secret \in [Deliveries -> (Instances \X Nat) \cup {None}]
          /\ inserted \in [Deliveries -> BOOLEAN]
          /\ rows \subseteq Rows
          /\ answer \in [Deliveries -> Answers \cup {None}]

\* A row is stored under the instance whose secret its request was signed with,
\* whatever was registered, rotated or activated while it was handled; only a
\* manifest with scheme none stores what nobody signed (receive_webhook resolves the
\* instance once, for the secret and for the row).
RowsBelongToTheirSigner ==
    \A row \in rows :
        \/ SchemeOf[version[row.by]].kind = "none"
        \/ \E n \in 1 .. secrets[row.instance] :
               SignedWith(request[row.by], <<row.instance, n>>)

\* Redeliveries of an event, at once or after a 500, are stored twice only if they were
\* resolved to two instances, if the event has no id, or if the versions that were
\* active disagree about where its id is.
DuplicatesHaveACause ==
    \A a, b \in rows :
        /\ a.by # b.by
        /\ request[a.by].event = request[b.by].event
        => \/ a.instance # b.instance
           \/ IdOf[version[a.by]][request[a.by].event] = None
           \/ IdOf[version[a.by]][request[a.by].event]
                 # IdOf[version[b.by]][request[b.by].event]

\* An acknowledged event is in the table, with its payload, under the instance it was
\* resolved to, unless its body is not JSON or the row has another event with its id.
AcknowledgedIsStored ==
    \A d \in Deliveries :
        answer[d] = "200" =>
            \E row \in rows :
                /\ row.instance = instance[d]
                /\ row.id = ExternalId(d)
                /\ \/ row.event = request[d].event
                   \/ request[d].event \in Unparsable
                   \/ /\ request[row.by].event # request[d].event
                      /\ IdOf[version[row.by]][request[row.by].event] = ExternalId(d)

\* The table implements an inbox in which a key is kept once and only what is kept is
\* acknowledged.
Kept == INSTANCE Inbox WITH kept <- rows,
            acked <- {Key(d) : d \in {c \in Deliveries : answer[c] = "200"}}

ImplementsInbox == Kept!InboxSpec

\* Every delivery past the look-up is answered or cut off, also one that waits for
\* another with its key.
RequestsAnswered == \A d \in Deliveries : stage[d] = "resolving" ~> stage[d] = "ended"
=============================================================================
