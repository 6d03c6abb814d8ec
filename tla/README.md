# A TLA+ model of the payments gateway

The gateway takes payments through PSPs that are described by *manifests*: YAML
that says how to charge, which errors to retry and how to read the answers. This
directory models the parts of it that decide about money, messages and shared
state, checks them with TLC on small instances and proves the properties that
matter most with TLAPS for every instance.

Paths are relative to `src/payments/` of the repository unless they start with
`ARCHITECTURE.md`, `docs/` or `manifests/`.

## 1. The system

| component | state it keeps | operations | interacts with |
|---|---|---|---|
| **Payment aggregate** `domain/payment.py`, `status.py`, `events.py` | status, refunded total, provider id, pending events | `mark_action_required`, `authorize`, `capture`, `fail`, `void`, `refund`, `chargeback`, `drain_events` | created and driven by the use case; its events go to the outbox |
| **HTTP egress** `providers/engine/http_egress.py` | attempt counter, last category; an optional circuit breaker | `send`: retry loop with backoff, timeout, response cap | called by the executor; talks to the PSP |
| **Operation executor** `providers/engine/executor.py` | none | `execute`: render, send, parse, judge, map the status | called by the use case and by the health check |
| **Create-payment use case** `application/commands/create_payment.py`, `api/v1/payments.py`, `domain/transaction.py` | one database transaction per request | `POST /payments` | repositories behind `application/ports.py`, executor, secret store |
| **Outbox relay** `infrastructure/outbox/relay.py` | the `outbox` and `outbox_dead_letter` tables | `run`, `_drain_batch`, `_dead_letter` | reads what the use case committed, publishes to the broker |
| **Provider registry** `providers/engine/registry.py` | manifest cache, active versions, one `asyncio.Lock` | `get`, `get_active`, `set_active`, `_on_invalidate` | a loader over the `providers` table; webhooks call `get_active` |
| **Provider registration** `application/commands/register_provider.py`, `api/v1/providers.py` | rows of `providers` and `provider_instances` | `POST /providers` | secret store, executor (health check) |
| **Secret stores** `infrastructure/secrets/stores.py` | a bag of secrets per `secret_ref` | `put_many`, `get_many` | registration writes, use case and webhooks read |
| **Webhook ingress** `api/v1/webhooks.py`, `providers/webhook/verifier.py` | `webhook_events` | `POST /webhooks/{code}` | registry, secret store, database |
| **Manifest schema** `providers/manifest/schema.py` | none | validation and `_check_semantics` | registration |
| **Response transformer** `providers/transformers/response.py` | none | `success_when`, jsonpath extraction | executor |
| **Template renderer** `providers/transformers/templating.py` | none | sandboxed Jinja | executor, registration |
| **Money** `domain/money.py`, **ids** `domain/ids.py` | none | arithmetic, formatting, fresh ids | everywhere |
| **Database schema** `infrastructure/db/schema.sql` | the tables | unique indexes, foreign keys | everything that persists |
| **API wiring** `api/dependencies.py`, `api/main.py` | none | header checks, stubs for the wiring | every endpoint |

The parts meet in five places, and these are where it can go wrong.

* **A charge runs inside an open database transaction.** The use case inserts the
  payment, calls the PSP through executor and egress, applies the result, writes
  ledger row and events and commits. Concurrency comes from other requests with the
  same key; failure from a crash at any await, from an exception nobody catches and
  from a write or commit that fails after the PSP has acted.
* **The PSP is asynchronous to us.** A timed-out attempt may still be on its way
  when the next one is sent, when the call gives up, and when the process is gone.
* **Several relays share one table** and publish to a broker that takes no part in
  their transaction.
* **Registration writes to a database and to a secret store** that do not commit
  together, while registry and use case read both.
* **A webhook is handled while all of that changes.** The manifest, the default
  instance, its secret and the table are looked up one after the other, and the PSP
  delivers an event again until it is told 200.

What makes each of them correct: the aggregate's events tell its whole story and
money is never given back twice; a call charges at most once and a reported refusal
is final; a key is held by one request and a committed payment comes with its ledger
row and its events; every event goes out at least once, in order unless something
failed; a cache does not outlive its invalidation; an instance a payment can see has
its secrets; a webhook event that was acknowledged is stored, under the instance that
signed it, and once; an answer counts as a success only if the manifest says so.

## 2. The modules

Abstract specifications are small and say only what a component promises; the
detailed ones are shown to implement them. There are six: `MoneyFlow` (how money moves
in a payment), `KeyedOnce` (a table with one row per key), `EventDelivery` (at least
once), `Inbox` (an event is stored once, then acknowledged), `FreshReads` (a read is one
step and never returns an older revision than an earlier read or an ended invalidation
allows) and `PaymentPromises` (PSP, client, table and topic each learn of a payment in
one step, and what one was told binds what the others are told).

| module | models | implements |
|---|---|---|
| `PaymentStatus` | `PaymentStatus`, `_ALLOWED`, the event of each status | |
| `Payment` | the aggregate, every method, raising calls included | `MoneyFlow` |
| `HttpEgress` | `send` for any number of concurrent calls, with the PSP and the network | |
| `CreatePayment` | the use case for any number of requests; EXTENDS `HttpEgress` and `PaymentStatus`, so it runs the real retry loop | `KeyedOnce` |
| `OutboxRelay` | any number of relays over one outbox | `EventDelivery` |
| `ProviderRegistry` | any number of tasks on one registry | `FreshReads` |
| `PaymentPipeline` | `CreatePayment` together with `OutboxRelay` over the table they share | `PaymentPromises`; `EventDelivery`, of what is committed |
| `RegisterProvider` | any number of registrations, with the secret store | |
| `Signatures` | `verify_signature`, as an operator | |
| `WebhookIngress` | any number of deliveries to one provider, with the store, the registry and the clock changing around them; EXTENDS `Signatures` | `Inbox` |
| `SuccessWhen` | the evaluator of `success_when`, and what an expression means | |
| `ManifestAdmission` | what a registration admits and what the engine then does with it, as operators | |
| `Amounts`, `Backoff` | decimal amounts; the sleep before a retry | |
| `EngineCases` | the three pure modules above at work, one case per behaviour: an amount counted up, the sleeps of a call, a manifest submitted and used | |
| `MCCreatePayment`, `MCOutboxRelay`, `MCPaymentPipeline`, `MCRegisterProvider`, `MCWebhookIngress` | functions and sets given to TLC as constants | |
| `MCAlgorithms` | `EngineCases` with constants for TLC, and expressions of `SuccessWhen` that grow condition by condition | |
| `*Proofs` | the theorems about the module they extend, and about the modules that one extends: `CreatePaymentProofs` begins with those of `HttpEgress`, `EngineCasesProofs` with those of `Amounts`, `ManifestAdmission` and `Backoff` | |

### How state and actions correspond to the code

**Payment.** The variables are the attributes of the object; `emitted` is everything
`drain_events` has handed out and `outcome` what the last call did or raised. Each
action is one method with its status test, its `_transition` and its `_record`.
`Refund` keeps the order of the code: the total is assigned *before* `_transition` is
asked, so a status table that forbids the move would leave a half-done refund
(`RaiseLeavesPaymentAlone` shows that this table does not).

**HttpEgress.** `st[c]` is the place in `send`: before the loop, awaiting an attempt,
judging its failure, sleeping, and the ends. `wire` holds the attempts that are sent
and not yet seen by the PSP; an answer reaches `send` only while it awaits that
attempt. `LoseAttempt` is a timeout or transport error at any moment of an attempt.
The PSP is external: it acts once per outbound key, may answer anything it can
answer, and owes nothing. `OutboundKey` is what `_render_outbound_key` makes: the
executor is always called with `attempt=1`, so the retries of a call share the key.
`KeySent` is FALSE for a manifest whose idempotency block templates no key.

**CreatePayment.** A request makes a new payment and one call of `send`, so it stands
for both. `uow[r]` is what its open transaction has written; `payments`, `ledger` and
`outbox` are what is committed. `Insert` waits while another open transaction has the
key (`payments_merchant_idem_idx`) and `DuplicateKey` raises when it is committed.
`Execute` takes a step of `HttpEgress`; the `Apply...` actions are the outcomes of
`execute` and of `_apply_engine_result`; `EngineEscapes` are the exceptions the
use case does not catch; `Commit` writes all rows at once.

**OutboxRelay.** Rows become visible by the transaction that wrote them, in any order
of ids. `claim[w]` are the rows relay `w` has locked with SKIP LOCKED, `todo[w]` those
its loop has not reached, `raised[w]` the dead letters in its open transaction.
`Publish` and `PublishFails` take the rows in id order; `CommitBatch` and `BatchFails`
end the transaction. A publish that raises may have reached the broker.

**ProviderRegistry.** A manifest is its revision, counted by upserts, so that two
manifests of one code and version differ. `queue` is the lock with its waiters in the
order asyncio serves them. A load is two steps, the loader's read and the arrival of
the manifest, because an upsert and an invalidation fit between them. `floor` is not in
the code: it remembers the newest revision that was loaded, or stored when an
invalidation ended, and with it the registry is mapped to `FreshReads`: `result` is what
the call of a task has returned once it is idle again, a load that ends is a read, and
so is a hit.

**RegisterProvider.** `stage[r]` is the place in `execute`. The rows are in the
transaction until `Commit`; `WriteSecrets` takes effect at once. `RowFree` is the row
lock of the upsert, which lasts as long as the transaction. `StoreMerges` chooses
between the two stores: `InMemorySecretStore` updates the bag, `VaultSecretStore`
writes a new one. Secrets are identified by the registration that supplied them.

**PaymentPipeline.** `CreatePayment!outbox` lists the committed rows in the order of
their commits; `Visible` turns it into the ids a relay can see, and is what
`OutboxRelay` calls `committed`. Ids belong to a request before it commits, so a
request with smaller ids may become visible later, as with the sequence of the table.
To `PaymentPromises` it shows `said` (the charges of the PSP, in the words of the status
map), the committed `payments`, the answers, and `told`: the rows behind the ids that
went out, of which a rolled-back batch takes none back.

**WebhookIngress.** `stage[d]` is the await at which delivery `d` is; `version`,
`instance` and `secret` are its locals, read at three different moments. Around the
handlers `PutSecret`, `Activate`, `SetActive` and `Tick` change what they read. `Add`
waits while another open transaction has its key and inserts nothing if the key is
committed; `Fails` is an exception at any await, the one after the commit included. A
delivery that the PSP repeats is another delivery with the same request. A signature is
the record of what was signed, so equal signatures mean equal contents.

**SuccessWhen.** Each `_eval_...` function is an operator from the tokens left to a
value, the tokens left after it, and whether it raised. `Means` is the reference: it
works on the conditions and not on the text. `Text` writes an expression down as the
words of a manifest, `Tokens` drops those the tokenizer steps over.

**ManifestAdmission.** A context is the dict of dicts that is handed to Jinja. The sandbox
has no globals and its filters read nothing but their arguments, so whether a template
raises is a function of the values of the names it looks at: a template is those names
(`looks`) and the `View`s of them with which it raises. That covers every `{% if %}`, `and`
and `or`, index, method call, filter and division without writing them out; an unknown
name is seen as `None`, and a template that goes on from it has that view in `raises`.
`DryRunContext` is the synthetic context value by value, `EngineContext` what
`_build_context` makes of a payment, `or ""` and `or 0` included. `Admits` is what
`RegisterProvider` abstracts to a choice, `Execute` what `CreatePayment` abstracts to one.

**EngineCases.** `Register` is `Admits` of one manifest; `Healthcheck` and `Charge` are
`Execute` with what `_healthcheck` and the use case hand the engine: a payment of zero and
the secrets as supplied, or the client's payment and the declared secrets as the store has
them now. `Sleep` is the end of the loop body in `send`; nothing else keeps state. The
manifests, templates, secrets and charges are constants of any size, the retry policies
those the schema admits.

## 3. What the runs check

All runs check deadlock except those of `RegisterProvider`, where a registration is
made once and the system stops when all are answered, and `algorithms`,
where a case ends.

| run | instance | what it shows |
|---|---|---|
| `payment` | amount 3, two currencies, two provider ids, no refund once 7 events exist | events rebuild the aggregate; refunds add up; nothing after a closing event; a raising call changes nothing; implements `MoneyFlow` |
| `create_payment_retry` | 2 requests with one key, 2 attempts, five PSP statuses (mapped, mapped to a status the flow has no method for, unmapped, refused by `success_when`) | one holder per key; a duplicate charge needs a rollback; ledger row and events with the payment or not at all; no invented success; answers are durable; recorded refusals are final; one charge per call; attempts are spent, listed and bounded; implements `KeyedOnce` |
| `payment_pipeline` | 2 requests with one key, one attempt, one status; one relay, batches of 2; of the first request's two events one raises whenever it is published and the other once, a batch with an event of the second request is rolled back once | implements `PaymentPromises`: a row needs the key and the PSP's word, answers and messages need the row; in the end the topic says all the table does; a request that waits for the key ends |
| `outbox_relay` | 2 relays, 4 rows of 2 payments, batches of 2, row 2 poisonous, one raised publish and one rollback per row | duplicates and overtakings have a cause; failures are visible; implements `EventDelivery`; healthy rows go out |
| `provider_registry` | 3 tasks on two versions of a manifest, 2 upserts of each | single flight; implements `FreshReads`; every call ends |
| `register_provider` | 3 registrations, one account, 2 versions of which the second needs one secret more, merging store | active instances have their secrets; rotations of one version do not mix; accepted registrations are answered |
| `webhook_ingress` | 2 deliveries; 2 instances, 2 versions (a Stripe signature; a plain HMAC whose event ids collide); 6 requests, among them one body that is no JSON with two signatures, one timestamp that is no number and one signature that is not ASCII | rows belong to their signer; duplicates have a cause; an acknowledged event is stored; implements `Inbox`; deliveries are answered |
| `algorithms` | expressions of up to 4 of 9 conditions, with every operator of the grammar, over 25 payloads; amounts 0 to 2005 in every currency of the table; 20 attempts of 24 policies; manifests of one operation, the charge or the health check, with 11 templates for url and body, of which one is harmless, one is broken and nine raise with some values, 4 keys and 4 raw bodies or none, and manifests with one of 3 flaws; four sets of supplied secrets; a charge like the dry run's sample and one unlike it | `success_when` says what it means; amounts read back; sleeps stay within the cap; an admitted operation fails before the PSP only in what the dry run leaves out or on a value it did not have |
| `duplicate_charge` | 3 requests, two of them with one key, one attempt; the five statuses of `create_payment_retry` | **violated** (finding 1) |
| `unmapped_status` | 2 requests with a key each, 2 attempts; the same five statuses | **violated** (finding 2) |
| `dead_letter` | one relay, batch of 2, two poisonous rows | **violated** (finding 3) |
| `probe_after_commit` | as `register_provider` | **violated** (finding 4) |

### The bounds and why they are enough

* `MaxEvents` 7 with amount 3: room for created, action required, authorised,
  captured, three refunds of one unit, and refunds of zero in between; amount 3 is the
  smallest with partial refunds that add up and overshoot in different ways. The bound
  stops only refunds; all else is bounded by the status table.
* `MaxAttempts` 2: one retry is what sets two attempts of one call on the wire. More
  attempts repeat the case, and the theorems hold for any number.
* 2 requests per key: every property of `CreatePayment` speaks of one or two requests;
  the theorems hold for any number.
* 4 rows, 2 relays, batch 2: two full batches, interleaved payments, a poisonous row in
  the first. `MaxErrors` and `MaxRollbacks` give each row its number of raised publishes
  and rolled-back batches, which progress needs anyway; a poisonous row fails for ever.
  They are constants: the theorems hold for any numbers.
* `MaxRevision` 2: a load, an invalidation and a get can see two revisions in either
  order, and a third says nothing new of two reads. Two keys share the lock, the active
  version and nothing else; the theorems hold for any number.
* `payment_pipeline` is the smallest instance of both parts: the properties relate one
  payment and one relay. At most one of the two requests is committed, so the run has
  raised publishes and a poison row in the behaviours where it is the first, and a
  rolled-back batch where it is the second. Poison rows are fewer than a batch, without
  which `PaymentsAreAnnounced` would fail (finding 3); an event that is poison counts as
  announced. Retries and several relays have runs of their own.
* 2 deliveries are what a duplicate, an overtaking INSERT and a redelivery take; the
  theorems hold for any number. `MaxTime` 1 with tolerance 0 lets a timestamp be fresh
  and stale; a secret that is written twice is rolled once (`MaxSecrets`).
* 4 conditions put `and` and `or` around each other in every order, with some of them
  undecidable; 2005 passes every carry of three decimals; the bases 50 and 4000 ms keep
  `base * 2^19` within TLC's integers.
* 3 registrations: one that waits, one that writes between another's put and commit,
  and one of the other version.

### Fairness

Every fairness condition is weak and on steps of our own process, never on the PSP,
the broker, a client or a failure.

* `HttpEgress`, `CreatePayment`: a started handler is run on by the event loop. An
  attempt ends because httpx times out each read and the body is capped by
  `max_response_bytes`, so `LoseAttempt` is always possible while `send` awaits. A
  request that waits for a key is not assumed to be served: that the holder ends is
  what `RequestsEnd` shows.
* `OutboxRelay`: `run` is an endless loop that catches every exception, and a relay
  that was stopped is started again. `BatchFails` and `Poll` are not fair.
* `ProviderRegistry`: the task at the head of the lock runs on, and the loader answers
  or raises. A loader that did neither would hold up the whole registry.
* `PaymentPipeline`: what its two parts assume. A rolled-back batch is not fair.
* `WebhookIngress`: a handler runs on, and a statement that waits for no row lock
  returns or raises; the wait on another delivery's key has no fairness of its own.
* `RegisterProvider`: an await that waits for no row lock returns or raises; waiting for
  the lock gets no fairness of its own.

## 4. What is proved

`tlapm` checks every proof from nothing; each theorem holds for every value of the
constants that meets the module's named assumption.

| theorem | property | argument |
|---|---|---|
| `TypeCorrect`, `RaiseIsHarmless`, `ClosingIsFinal`, `PaymentImplementsMoneyFlow` (`PaymentProofs`) | `TypeOK`, `RaiseLeavesPaymentAlone`, `ClosingEventIsLast`, `ImplementsMoneyFlow` | types and the refund bound are inductive; `ClosedLog` strengthens the event property with "a log with a closing event belongs to a terminal status", since only the status stops the next event |
| `RefundsAddUp`, `EventsTellThePayment` (`PaymentProofs`) | `RefundLedger`, `EventsReplayPayment` | both say of each event what the events before it told, and of the last ones what the aggregate is; so appending an event disturbs only what is said of the last |
| `AttemptsAreSpent`, `RetriesFollowThePolicy` (`CreatePaymentProofs`) | `GivesUpOnlyWhenSpent`, `RetriesAreListed` | `LoopState` says what a call that sleeps or has failed has behind it; a decision, once made, keeps the category it was made on |
| `EgressTypeCorrect`, `ChargedAtMostOnce`, `RefusalStands` (`CreatePaymentProofs`) | `EgressTypeOK`, `OneChargePerCall`, `RefusalIsFinal` | `EgressSafe`: with one key per call the PSP has decided at most one outcome for it, and a 402 that was seen is that outcome, whatever is still on the wire |
| `CreateTypeCorrect`, `KeyHeldOnce`, `RowsImplementKeyedOnce`, `DuplicatesNeedRollback`, `RecordedRefusalsStand` (`CreatePaymentProofs`) | `TypeOK`, `OneHolderPerKey`, `ImplementsKeyedOnce`, `DuplicateNeedsRollback`, `RecordedRefusalIsFinal` | `PhaseTyped` ties a request's phase to its transaction; `SentHeld` says that a request whose charge is out holds its key or is over without a row; `LedgerSafe` carries the egress invariant into the ledger |
| `CreateSends`, and through it `RequestsChargedOnce`, `RequestsUseTheirAttempts`, `RequestsRetryAsListed` (`CreatePaymentProofs`) | `EgressSafety`; `OneChargePerCall`, `GivesUpOnlyWhenSpent`, `RetriesAreListed` | every step of the use case is a step of `send` or leaves its variables alone, so the theorems about `send` hold of the requests |
| `SuccessIsNotInvented`, `OutboxIsTransactional` (`CreatePaymentProofs`) | `NoInventedSuccess`, `TransactionalOutbox` | `WorkSound`: an open transaction has exactly the events its status calls for, and a status that means success is backed by a charge of the PSP, which nothing takes back; `Commit` is the only step that writes rows, and it writes after those of the others |
| `AnswersAreDurable` (`CreatePaymentProofs`) | `AnswerIsDurable` | an answer is given once, when the request ends, and a committed row is never written again |
| `RelayTypeCorrect`, `DuplicatesNeedFailures`, `FailuresStayVisible`, `OrderKeptOrExplained`, `RelaysDeliver` (`OutboxRelayProofs`) | `RelayTypeOK`, `CopiesNeedFailures`, `FailuresAreVisible`, `OvertakenForAReason`, `ImplementsEventDelivery` | one invariant: claims are disjoint, a batch is made of committed unpublished rows, what the loop has passed was published or raised, copies are counted by failures, and an earlier row of the payment that nobody holds has been touched |
| `PipelineCreates` (`PaymentPipelineProofs`) | `PipelineSpec => Spec` | a step of a relay leaves the use case alone; every theorem of `CreatePaymentProofs` holds in the pipeline |
| `PipelineKeepsPromises` (`PaymentPipelineProofs`) | `KeepsPromises` | every step of a request, of the PSP or of a relay is one of the four of `PaymentPromises` or none. A commit is `Record`: the key is free by `OneHolderPerKey`, a success was said by `WorkSound`; an answer is `Answer` by `AnswerIsDurable`; a publish is `Announce`, since only committed rows are claimed; and a committed row keeps its id and its type, so nothing that was told changes |
| `SuccessesHeardAreTrue` (`PaymentPipelineProofs`) | what `NoInventedSuccess` means to the client and to readers of the topic | an answer or a message repeats the row, the row repeats the PSP |
| `AnnouncementsAreTrue`, `PipelineDelivers`, `PipelineRelays`, `PipelineKeepsOrder` (`PaymentPipelineProofs`) | `AnnouncedIsCommitted`, `CommittedIsDelivered`; `CopiesNeedFailures`, `FailuresAreVisible` and `OvertakenForAReason` of the relays | the invariant of `OutboxRelayProofs` holds with `Visible` for its `committed`. It needs of the feed only that visible rows stay and that none of a payment is visible before an earlier one: `TransactionalOutbox` gives a payment at most two rows, of different types, so their ids are the two that were given out, in order, whatever commits later. Raised publishes, poison rows and rolled-back batches may come in any number: `PipelineSpec` has them all |
| `RegistryTyped`, `LoadsAreSingleFlight`, `GetsAreFreshReads` (`ProviderRegistryProofs`) | `RegistryTypeOK`, `SingleFlight`, `ImplementsFreshReads` | whoever loads holds the lock and finds no entry; an entry *is* `floor`, so a hit reads exactly that; what a load has read lies between `floor` and the table, and as no invalidation can end while it has the lock, it still does when it arrives |
| `RegisterTyped`, `ActiveInstancesHaveSecrets`, `RegistrationsDoNotMix` (`RegisterProviderProofs`) | `RegisterTypeOK`, `InstancesHaveSecrets`, `CommitsItsOwnSecrets` | what is written has its secrets, and a put takes none away; open transactions are about different versions, so only another version can write in between |
| `IngressTyped`, `RowsAreSigned`, `DuplicatesExplained`, `AcknowledgedStored`, `IngressImplementsInbox` (`WebhookIngressProofs`) | `TypeOK`, `RowsBelongToTheirSigner`, `DuplicatesHaveACause`, `AcknowledgedIsStored`, `ImplementsInbox` | one invariant: what a delivery past `Verify` holds was accepted with a secret of its instance; the locals behind a row never change again; an open INSERT and the table share no key, so a key is committed once |
| `AmountsAlwaysReadBack`, by `EveryAmountReadsBack` (`EngineCasesProofs`) | `AmountsReadBack`; `ReadsBack`, for every natural number and every currency of the table | the digits of a remainder, padded to the scale, add up to it |
| `SleepsStayBounded` (`EngineCasesProofs`) | `SleepsAreBounded` | no delay is above the cap, and none below the base unless the cap is: an exponential one multiplies the base by a power of two that is at least one, for the attempts there can be. One more sleep adds one more cap to the bound |
| `UsedFailOnlyUnrehearsed`, by `AdmittedFailOnlyUnrehearsed` (`EngineCasesProofs`) | `FailsOnlyUnrehearsed`; the same of the operators, for every manifest, whatever its templates compute, every set of secrets and every payment | a template that raises now and did not in the dry run saw another view, so it looks at a name whose value the two contexts differ on; name by name these are payment fields unlike the sample's, secrets that changed or were not declared, the two keys and the url, and never the attempt or a name nobody defines. A manifest is used only with the admission it got |

Some of these state a type invariant or a property of a part (`EgressTypeOK`,
`RefusalIsFinal`, `RelayTypeOK`, `RegistryTypeOK`, `RegisterTypeOK`, `TypeOK` of
`WebhookIngress`) that has no run of its own: the runs check the properties that rest on
them. Three theorems about the pipeline (`PipelineRelays`, `PipelineKeepsOrder`,
`PipelineDelivers` with `CommittedIsDelivered`) say of the relays fed by the use case what
the run `outbox_relay` checks of relays fed by any transactions. `AnnouncementsAreTrue` and
`SuccessesHeardAreTrue` are what a reader wants to know of `KeepsPromises`, spelled out;
the run `payment_pipeline` checks the refinement that holds them. The theorems of
`EngineCases` are about its cases; the run `algorithms` has those of `success_when` besides.

Assumptions: the constants' (`PaymentAssumption`, `EgressAssumption`,
`CreateAssumption`, `RelayAssumption`, `RegistryAssumption`,
`RegistrationAssumption`, `IngressAssumption`, `RequestAssumption`,
`PipelineAssumption`, `CasesAssumption`). Those of `HttpEgress` and `CreatePayment` keep the tags of the
models apart (`"declined"` and `"garbled"` are no provider statuses, `None` is no
value); that of the pipeline says that the ids of two requests differ, which the
sequence of the table sees to, and gives each row its bounds on failures, a poison row
at least one raise; that of the engine's cases gives the retry policies the
bounds of the manifest schema. `ChargedAtMostOnce`, `RefusalStands`,
`RequestsChargedOnce` and `RecordedRefusalsStand` assume `KeySent`. `ActiveInstancesHaveSecrets` assumes
`SecretsStay`: the store merges, or all versions need the same secrets.
`RegistrationsDoNotMix` assumes `StoreMerges`. These hypotheses are needed: with the
Vault store and a second version that needs other secrets, TLC finds
`InstancesHaveSecrets` violated.

Only model-checked:

* liveness (`RequestsEnd`, `PaymentsAreAnnounced`, `HealthyRowsGoOut`, `CallsEnd`,
  `RegistrationsEnd`, `RequestsAnswered`): out of the prover's reach;
* `SuccessMeansWhatItSays`: the evaluator is recursive, and what a recursive definition
  computes is an induction over data, which is out of reach too. It is the only safety
  property of a run that no theorem states.

## 5. Findings

Each is a run that TLC refutes, with the document it contradicts.

1. `duplicate_charge`: a request that rolls back after the PSP charged forgets the
   payment id the outbound key was made of; the client's retry with the same
   `Idempotency-Key` pays again (`docs/architecture.md:15`). `DuplicateNeedsRollback`
   is the part of the promise that does hold.
2. `unmapped_status`: a status outside `status_mapping` fails the payment instead of
   parking it (`ARCHITECTURE.md:506`).
3. `dead_letter`: a row is dead-lettered after its first failure, stays unpublished
   and is fetched again at once; a batch of such rows stops the outbox
   (`ARCHITECTURE.md:406`, `infrastructure/outbox/relay.py:89`).
4. `probe_after_commit`: the health check follows the commit, so a rejected
   registration leaves an active instance (`ARCHITECTURE.md:418`,
   `docs/manifest-spec.md:288`).

Other places where documents and code differ, met while modelling and part of the
models, but not runs of their own:

* an answer that is not UTF-8, or that a mapping cannot handle, raises past the use
  case's handler and rolls everything back (`EngineEscapes`), where
  `ARCHITECTURE.md:507` says the payment fails and an event is emitted;
* the dry run does not render `key_template` and `raw_template`, and what it renders it
  renders with one sample: a division by `refund_amount_minor`, which is 500 there and 0
  in a charge, or a method call on a customer the payment does not have, raises in the
  first charge (`FailsOnlyUnrehearsed`), where `ARCHITECTURE.md:505` says a template
  error is caught before persistence;
* `idempotency.mechanism` and `target` are validated and then never read: the outbound
  key reaches the PSP only if a header or field refers to it (`KeySent`), where
  `ARCHITECTURE.md:301` says it is injected;
* an open circuit is raised at once whatever `retry_on` says (`SendCircuitOpen`), where
  `docs/manifest-spec.md` section 8 lists it as a category to retry.

## 6. What is taken from outside the repository

* **The PSP** acts once per outbound key and answers a repeated key with what it did.
* **The repositories** are protocols in `application/ports.py`: leaving the unit of
  work commits, an exception rolls back. `schema.sql` declares the unique index on
  `(merchant_id, idempotency_key)`; Postgres wants the partition column in a unique
  index of a partitioned table, so whether that index can exist as written is a
  question for the schema, and the models take it as declared.
* **The broker** may take a message and still make the publish raise.
* **The default instance** of a provider is any active one (`webhooks.py:88` says
  `LIMIT 1` without an order), and **`webhook_events.add`** is `INSERT ... ON CONFLICT DO
  NOTHING` on the unique key of `schema.sql:126`: it waits for an uncommitted row with
  its key.
* **HMAC** is injective.
* **jsonpath** yields a value or nothing; a path that matches several times is left out.
* **asyncio.Lock** serves waiters in order.
* **The loader, the invalidation channel and the calls of `set_active`** are not in the
  repository: they may come at any time with any argument.
* **The upsert** keeps a row lock until its transaction ends; which instance id it
  keeps for a repeated registration is not modelled, because nothing says so.

## 7. What is not modelled

* The worker that would process `webhook_events`: it is not in the repository.
* jsonpath and JSON, and the template filters other than `from_minor_units`:
  `minor_units` rounds a binary float, the others are one library call each.
* The encoding of a body whose fields rendered: `json.dumps`, `urlencode` and `encode` are
  taken to accept it (a lone surrogate would make the last two raise).
* The field patterns of the manifest schema, which pydantic checks; `_schema.json`,
  which only a script reads. Auth types other than bearer have their required fields in
  `AuthFields` but no instance in a run: the engine reads nothing of `auth` but the
  names of the secrets.
* Which instance id a repeated registration's answer names: `upsert_instance` is
  declared in `ports.py` only.
* `idempotency_keys`, `merchants` and `hash_request_body`: no code uses them.
* Time: only that a timeout may come and a sleep ends; its length is `Backoff`, and the
  clock of the webhook window is `now` in `WebhookIngress`. Connection pools.
* Merchant authentication, ids, the app wiring, manifest files: no state.
* `Payment` reaching SETTLED or moving after the create flow: nothing in the repository
  calls those methods yet; the aggregate's module covers every order of calls.

## 8. Plan

Done: `Payment`, `HttpEgress`, `CreatePayment`, `OutboxRelay`, `ProviderRegistry`,
`RegisterProvider`, `WebhookIngress` and `PaymentPipeline`, each with its proofs; the pure
modules `Backoff`, `ManifestAdmission` and `Amounts`, with proofs, and `SuccessWhen`. Every
safety property of a run but one is proved, and every abstract specification is shown to
be implemented for all values of the constants. Left:

* `WebhookIngress` with the registry of `ProviderRegistry` in place of the version that
  `SetActive` changes, if the two state spaces can be kept small together.
* A worker for `webhook_events` and a relay's use of `max_attempts`, once the code has them.
