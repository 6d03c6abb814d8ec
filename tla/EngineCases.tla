------------------------------ MODULE EngineCases ------------------------------
(***************************************************************************)
(* The pure parts of the engine at work, one case per behaviour: an amount *)
(* that is counted up and written down, the sleeps of one call, or a       *)
(* manifest that is submitted to a registration and then used for the      *)
(* healthcheck or a charge.                                                *)
(***************************************************************************)
EXTENDS Amounts, Backoff, ManifestAdmission

CONSTANTS MaxAmount,      \* minor units
          Bases, Caps,    \* base_ms and cap_ms of the retry policies
          Manifests,
          Supplies,       \* the secrets a registration may come with, as mappings
          Charges         \* payments, with the secrets and settings they may meet

\* Every name a template looks at is a pair.
TemplateTyped(t) == t.looks \subseteq STRING \X STRING
OperationTyped(op) == TemplateTyped(op.target) /\ (op.fields # None => TemplateTyped(op.fields))

\* The bounds of the retry policy are those of the manifest schema.
ASSUME CasesAssumption ==
    /\ MaxAmount \in Nat
    /\ \A b \in Bases : b \in Nat /\ 50 <= b /\ b <= 60000
    /\ \A c \in Caps : c \in Nat /\ 50 <= c /\ c <= 600000
    /\ \A m \in Manifests : \A name \in DOMAIN m.operations : OperationTyped(m.operations[name])
    /\ \A c \in Charges :
          DOMAIN c = {"payment", "secrets", "client_key", "outbound_key", "base_url"}

VARIABLE case

-----------------------------------------------------------------------------
StartAmount ==
    \E c \in IsoCurrencies : case = [kind |-> "amount", currency |-> c, amount |-> 0]

\* BOUND: MaxAmount.
CountUp ==
    /\ case.kind = "amount" /\ case.amount < MaxAmount
    /\ case' = [case EXCEPT !.amount = @ + 1]

-----------------------------------------------------------------------------
\* A call: the attempt it is at, and how long it has slept so far.
StartCall ==
    \E p \in Policies(Bases, Caps) :
        case = [kind |-> "call", policy |-> p, attempt |-> 1, slept |-> 0]

Sleep ==
    /\ case.kind = "call" /\ case.attempt < MostAttempts
    /\ \E s \in Sleeps(case.attempt, case.policy) :
          case' = [case EXCEPT !.attempt = @ + 1, !.slept = @ + s]

-----------------------------------------------------------------------------
StartManifest ==
    \E m \in Manifests, supplied \in Supplies :
        case = [kind |-> "manifest", stage |-> "submitted", supplied |-> supplied,
                manifest |-> m]

Register ==
    /\ case.kind = "manifest" /\ case.stage = "submitted"
    /\ case' = [case EXCEPT !.stage = IF Admits(case.manifest, case.supplied)
                                      THEN "admitted" ELSE "rejected"]

\* The engine at work for an operation of the manifest.
Used(name, use) ==
    case' = [kind |-> "use", manifest |-> case.manifest, supplied |-> case.supplied,
             operation |-> name, use |-> use, outcome |-> Execute(case.manifest, name, use)]

\* _healthcheck: the engine gets the secrets as they were supplied.
HealthcheckPayment ==
    [id |-> "00000000", amount_minor |-> 0, currency |-> "USD", method_token |-> "",
     customer_ref |-> None, metadata |-> {}, provider_payment_id |-> None,
     provider_capture_id |-> None, refund_amount_minor |-> None]
Healthcheck ==
    /\ case.kind = "manifest" /\ case.stage = "admitted"
    /\ "healthcheck" \in DOMAIN case.manifest.operations
    /\ \E charge \in Charges :
          Used("healthcheck",
               [payment |-> HealthcheckPayment, secrets |-> case.supplied, client_key |-> "hc",
                outbound_key |-> charge.outbound_key, base_url |-> charge.base_url])

\* The engine gets the declared secrets as the store has them now.
Charge ==
    /\ case.kind = "manifest" /\ case.stage = "admitted"
    /\ "charge" \in case.manifest.capabilities
    /\ \E charge \in Charges :
          /\ case.manifest.secrets \subseteq DOMAIN charge.secrets
          /\ Used("charge",
                  [charge EXCEPT !.secrets = [s \in case.manifest.secrets |-> charge.secrets[s]]])

-----------------------------------------------------------------------------
Init == StartAmount \/ StartCall \/ StartManifest
Next == CountUp \/ Sleep \/ Register \/ Healthcheck \/ Charge
Spec == Init /\ [][Next]_case

-----------------------------------------------------------------------------
\* The decimal amount sent to the PSP is the amount of the payment, for every
\* number of decimals (money.py, as_major_string; templating.py,
\* from_minor_units).
AmountsReadBack == case.kind = "amount" => ReadsBack(case.amount, case.currency)

\* The sleeps of a call stay within one cap each, however many attempts the
\* manifest allows, and without jitter every one of them lasts at least the
\* base or the cap (http_egress.py, _backoff_seconds).
SleepsAreBounded ==
    case.kind = "call" =>
        LET retries == case.attempt - 1
        IN  /\ case.slept <= retries * case.policy.cap
            /\ case.policy.jitter = "none" =>
                  case.slept >= retries * Least(case.policy.base, case.policy.cap)

\* An operation of an admitted manifest fails before the PSP is called only
\* in its outbound key or its raw xml body, which the dry run does not render,
\* or in a part that looks at a value the dry run did not have: a field of the
\* payment, a key or a url unlike the sample's, a secret that changed since or
\* was supplied without being declared.  It never fails on a name that nobody
\* defines (register_provider.py, _dry_run_templates; executor.py, execute).
FailsOnlyUnrehearsed ==
    case.kind = "use" /\ case.outcome # "called" =>
        /\ case.operation \in DOMAIN case.manifest.operations
        /\ Unrehearsed(case.manifest.operations[case.operation], case.supplied, case.use)
=============================================================================
