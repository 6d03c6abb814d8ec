----------------------------- MODULE MCAlgorithms -----------------------------
(***************************************************************************)
(* The pure parts of the engine over bounded inputs: the cases of          *)
(* EngineCases for some policies and for manifests of one operation, and   *)
(* one kind of case more, an expression of success_when that grows         *)
(* condition by condition.                                                 *)
(***************************************************************************)
EXTENDS EngineCases, SuccessWhen

CONSTANTS MaxConditions      \* conditions of an expression

-----------------------------------------------------------------------------
(* Policies and manifests.  One secret is declared, another one may be     *)
(* supplied with it or instead of it.  A manifest may have one flaw that   *)
(* the semantic checks look for.                                           *)

\* The largest base keeps base * 2^19 within the integers of TLC.
MCBases == {50, 4000}
MCCaps == {50, 3000}

MCSupplies == {<<>>, "api_key" :> "sk_1", "extra" :> "x",
               "api_key" :> "sk_1" @@ "extra" :> "x"}

\* A charge that is like the dry run wherever it can be, and one that is not:
\* no customer, metadata, a rotated secret, other keys and another url.
LikeSample ==
    [payment |-> [Sample EXCEPT !.provider_payment_id = None, !.provider_capture_id = None,
                                !.refund_amount_minor = None],
     secrets |-> "api_key" :> "sk_1",
     client_key |-> "k", outbound_key |-> "k", base_url |-> "https://gateway.test"]
UnlikeSample ==
    [payment |-> [LikeSample.payment EXCEPT !.id = "7f3a", !.customer_ref = None,
                                            !.metadata = {"order"}],
     secrets |-> "api_key" :> "sk_2" @@ "extra" :> "x",
     client_key |-> "c-1", outbound_key |-> "7f3a:1", base_url |-> "https://pay.example"]
MCCharges == {LikeSample, UnlikeSample}

Field(f) == <<"payment", f>>
Secret(s) == <<"secrets", s>>
RaisesWith(name, value) ==
    [broken |-> FALSE, looks |-> {name}, raises |-> {name :> value}]
GoesOn(name) == RaisesWith(name, None)

Plain == [broken |-> FALSE, looks |-> {Field("id")}, raises |-> {}]
Broken == [broken |-> TRUE, looks |-> {}, raises |-> {}]
Misspelt == GoesOn(<<"request", "body">>)

\* In this order: arithmetic on the refund, a method and an index on the
\* customer's name, an {% if %} on the metadata, on the value of the secret, on
\* the attempt, and an "or" of two names.
Templates ==
    {Plain, Broken, Misspelt, GoesOn(Secret("api_key")), GoesOn(Secret("extra")),
     RaisesWith(Field("refund_amount_minor"), 0),
     RaisesWith(Field("customer_ref"), ""),
     RaisesWith(Field("metadata"), {"order"}),
     RaisesWith(Secret("api_key"), "sk_2"),
     RaisesWith(<<"idempotency", "attempt">>, 1),
     [broken |-> FALSE, looks |-> {Field("method_token"), <<"idempotency", "client_key">>},
      raises |-> {Field("method_token") :> "" @@ <<"idempotency", "client_key">> :> "hc"}]}

\* A key is rendered only for a mechanism, a raw body only as xml.
KeyTemplates == {None, Plain, Misspelt, GoesOn(Field("customer_ref"))}
RawTemplates == {None, Plain, Misspelt, RaisesWith(Field("refund_amount_minor"), 0)}
Operations ==
    {op \in [target : Templates, fields : Templates \cup {None},
             encoding : {"json", "xml", "none"}, raw : RawTemplates,
             mechanism : {"header", "none"}, enforced : {FALSE}, key : KeyTemplates] :
        /\ op.mechanism = "none" => op.key = None
        /\ op.encoding # "xml" => op.raw = None}
PlainOperation ==
    [target |-> Plain, fields |-> None, encoding |-> "none", raw |-> None,
     mechanism |-> "header", enforced |-> FALSE, key |-> None]

Flaws == {"unsigned", "no token", "capability without operation"}

Manifest(name, op, flaw) ==
    [mode |-> "production",
     scheme |-> IF flaw = "unsigned" THEN "none" ELSE "stripe_v1",
     auth |-> [type |-> "bearer", fields |-> IF flaw = "no token" THEN {} ELSE {"token_secret"}],
     secrets |-> {"api_key"},
     capabilities |-> {name, "webhook"}
                      \cup (IF flaw = "capability without operation" THEN {"void"} ELSE {}),
     operations |-> name :> op]

MCManifests == {Manifest(name, op, "none") : name \in {"charge", "healthcheck"}, op \in Operations}
               \cup {Manifest("charge", PlainOperation, flaw) : flaw \in Flaws}

-----------------------------------------------------------------------------
(* success_when: two paths, of which status holds a string and code, as a  *)
(* rule, a number.                                                         *)

Payloads == [status : {Absent, Str(0), Str(1), Str(2), Num(1)},
             code : {Absent, Num(0), Num(1), Num(2), Str(1)}]

Conditions == {Condition("status", "==", <<Str(1)>>),
               Condition("status", "!=", <<Str(2)>>),
               Condition("status", "in", <<Str(1), Str(2)>>),
               Condition("status", "bare", <<>>),
               Condition("status", "==", <<Unreadable>>),
               Condition("code", ">=", <<Num(1)>>),
               Condition("code", "<", <<Num(2)>>),
               Condition("code", "<=", <<Num(1)>>),
               Condition("code", ">", <<Num(1)>>)}

StartExpression ==
    \E p \in Payloads, c \in Conditions :
        case = [kind |-> "expression", payload |-> p, expr |-> << <<c>> >>, conditions |-> 1]

AndCondition ==
    /\ case.kind = "expression" /\ case.conditions < MaxConditions
    /\ \E c \in Conditions :
          case' = [case EXCEPT !.expr[Len(case.expr)] = Append(@, c), !.conditions = @ + 1]

OrCondition ==
    /\ case.kind = "expression" /\ case.conditions < MaxConditions
    /\ \E c \in Conditions :
          case' = [case EXCEPT !.expr = Append(@, <<c>>), !.conditions = @ + 1]

-----------------------------------------------------------------------------
AlgorithmsInit == Init \/ StartExpression
AlgorithmsNext == Next \/ AndCondition \/ OrCondition
AlgorithmsSpec == AlgorithmsInit /\ [][AlgorithmsNext]_case

\* success_when says yes exactly when the expression does: `and' binds closer
\* than `or', a condition that cannot be decided is never a success, and an
\* operand the grammar does not know makes the whole expression a "no"
\* (response.py, evaluate_success_when; executor.py, _is_success).
SuccessMeansWhatItSays ==
    case.kind = "expression" =>
        (IsSuccess(Text(case.expr), case.payload) <=> Means(case.expr, case.payload))
=============================================================================
