-------------------------- MODULE ManifestAdmission --------------------------
(***************************************************************************)
(* Which manifests a registration admits, and what the engine can then do  *)
(* with them before it calls the PSP: the semantic checks of               *)
(* manifest/schema.py, the two checks of register_provider.py, and the     *)
(* rendering steps of OperationExecutor.execute.                           *)
(*                                                                         *)
(* A context is the mapping of mappings the program hands to Jinja, and a  *)
(* name a pair such as <<"secrets", "api_key">>.  The sandbox has no       *)
(* globals and no filter that reads anything else, so what a template does *)
(* is a function of the values of the names it looks at.  A template is    *)
(* therefore: whether it is broken in itself (a syntax error, a filter     *)
(* that is not on the allow-list), the names it looks at, and the views -  *)
(* values of those names - with which its conditions, indexing, method     *)
(* calls, arithmetic or filters raise.  A name nobody defined is seen as   *)
(* None: printing it is harmless, going on from it raises.                 *)
(***************************************************************************)
EXTENDS Naturals

CONSTANTS None          \* a part of the manifest, a field or a name that is not there

MoneyOperations == {"charge", "capture", "refund", "payout"}

AuthFields(type) ==
    CASE type = "bearer" -> {"token_secret"}
      [] type = "basic" -> {"username_secret", "password_secret"}
      [] type \in {"api_key_header", "api_key_query"} ->
             {"secret", IF type = "api_key_header" THEN "header" ELSE "param"}
      [] type = "hmac_request" -> {"algorithm", "header", "secret", "payload"}
      [] type = "oauth2_cc" -> {"token_url", "client_id_secret", "client_secret_secret"}
      [] type = "mtls" -> {"client_cert_secret", "client_key_secret"}
AuthTypes == {"bearer", "basic", "api_key_header", "api_key_query", "hmac_request",
              "oauth2_cc", "mtls"}

Value(context, name) ==
    IF name[1] \in DOMAIN context /\ name[2] \in DOMAIN context[name[1]]
    THEN context[name[1]][name[2]] ELSE None

View(template, context) == [name \in template.looks |-> Value(context, name)]

Renders(template, context) ==
    ~template.broken /\ View(template, context) \notin template.raises

-----------------------------------------------------------------------------
(* The three contexts.  A payment's metadata is any value; a "use" of the  *)
(* engine is what its caller hands it for one operation.                   *)

PaymentFields == {"id", "amount_minor", "currency", "method_token", "customer_ref", "metadata",
                  "provider_payment_id", "provider_capture_id", "refund_amount_minor"}

\* The payment of the dry run.
Sample == [id |-> "00000000", amount_minor |-> 1000, currency |-> "USD",
           method_token |-> "tok_synth", customer_ref |-> "cust_synth", metadata |-> {},
           provider_payment_id |-> "ext_synth", provider_capture_id |-> "cap_synth",
           refund_amount_minor |-> 500]

DryRunContext(supplied) ==
    [payment |-> Sample, secrets |-> supplied,
     idempotency |-> [client_key |-> "k", outbound_key |-> "k", attempt |-> 1],
     env |-> [gateway_base_url |-> "https://gateway.test"]]

\* What _build_context writes for an optional field that is None.
WhenMissing == [customer_ref |-> "", provider_payment_id |-> "", provider_capture_id |-> "",
                refund_amount_minor |-> 0]
PaymentContext(payment) ==
    [f \in PaymentFields |->
        IF f \in DOMAIN WhenMissing /\ payment[f] = None THEN WhenMissing[f] ELSE payment[f]]

EngineContext(op, use) ==
    [payment |-> PaymentContext(use.payment), secrets |-> use.secrets,
     idempotency |-> [client_key |-> use.client_key,
                      outbound_key |-> IF op.mechanism = "none" THEN "" ELSE use.outbound_key,
                      attempt |-> 1],
     env |-> [gateway_base_url |-> use.base_url]]

\* The minimal context in which the outbound key is rendered.
KeyContext(use) ==
    [payment |-> [id |-> use.payment.id], idempotency |-> [attempt |-> 1]]

-----------------------------------------------------------------------------
(* The checks of a registration.                                           *)

\* _check_type_fields and _check_semantics
Validates(m) ==
    /\ AuthFields(m.auth.type) \subseteq m.auth.fields
    /\ m.capabilities \ {"webhook"} \subseteq DOMAIN m.operations
    /\ ~(m.mode = "production" /\ m.scheme = "none")
    /\ \A name \in MoneyOperations \cap DOMAIN m.operations :
          m.operations[name].mechanism # "none" \/ m.operations[name].enforced

\* supplied is the mapping of secret names to values that came with the manifest.
SecretsSupplied(m, supplied) == m.secrets \subseteq DOMAIN supplied

\* Mutant: only the url is rehearsed.
DryRunTargetOnly(m, supplied) ==
    \A name \in DOMAIN m.operations :
        Renders(m.operations[name].target, DryRunContext(supplied))

\* _dry_run_templates: url, headers (here with the url) and the fields of the body.
DryRun(m, supplied) ==
    \A name \in DOMAIN m.operations :
        LET op == m.operations[name]
        IN  /\ Renders(op.target, DryRunContext(supplied))
            /\ op.fields # None => Renders(op.fields, DryRunContext(supplied))

Admits(m, supplied) ==
    /\ Validates(m)
    /\ SecretsSupplied(m, supplied)
    /\ DryRun(m, supplied)

-----------------------------------------------------------------------------
(* What OperationExecutor.execute does up to the call of the PSP.          *)

KeyRenders(op, use) ==
    op.mechanism # "none" /\ op.key # None => Renders(op.key, KeyContext(use))

\* _build_body: what it raises, or "built".
BuildBody(op, context) ==
    CASE op.encoding = "none" -> "built"
      [] op.encoding # "none" /\ op.fields # None /\ ~Renders(op.fields, context) ->
             "TemplateSecurityError"
      [] op.encoding = "xml" /\ op.raw = None -> "ProviderProtocolError"
      [] op.encoding = "xml" /\ op.raw # None /\ ~Renders(op.raw, context) ->
             "TemplateSecurityError"
      [] OTHER -> "built"

Execute(m, name, use) ==
    IF name \notin DOMAIN m.operations THEN "ProviderProtocolError"
    ELSE LET op == m.operations[name]
             context == EngineContext(op, use)
         IN  IF ~KeyRenders(op, use) \/ ~Renders(op.target, context) THEN "TemplateSecurityError"
             ELSE IF BuildBody(op, context) # "built" THEN BuildBody(op, context)
             ELSE "called"

-----------------------------------------------------------------------------
\* The names whose value in the engine is not the one the dry run saw.  The
\* attempt is never among them, nor a name that neither context has.
Unlike(op, supplied, use) ==
    LET payment == PaymentContext(use.payment)
        context == EngineContext(op, use)
    IN  {<<"payment", f>> : f \in {f \in PaymentFields : payment[f] # Sample[f]}}
        \cup {<<"secrets", s>> : s \in DOMAIN supplied \ DOMAIN use.secrets}
        \cup {<<"secrets", s>> : s \in {s \in DOMAIN use.secrets : use.secrets[s] # supplied[s]}}
        \cup {<<"idempotency", k>> :
                 k \in {k \in {"client_key", "outbound_key"} : context.idempotency[k] # "k"}}
        \cup {n \in {<<"env", "gateway_base_url">>} : use.base_url # "https://gateway.test"}

\* A part the dry run renders fails in the engine, and looks at such a name.
MeetsUnlike(part, op, supplied, use) ==
    /\ ~Renders(part, EngineContext(op, use))
    /\ part.looks \cap Unlike(op, supplied, use) # {}

\* What the dry run cannot tell of an operation: the parts it does not render,
\* and those that fail on values it does not have.
Unrehearsed(op, supplied, use) ==
    \/ ~KeyRenders(op, use)
    \/ op.encoding = "xml" /\ (op.raw = None \/ ~Renders(op.raw, EngineContext(op, use)))
    \/ MeetsUnlike(op.target, op, supplied, use)
    \/ op.encoding # "none" /\ op.fields # None /\ MeetsUnlike(op.fields, op, supplied, use)
=============================================================================
