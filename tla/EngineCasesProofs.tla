--------------------------- MODULE EngineCasesProofs ---------------------------
(***************************************************************************)
(* Proofs about the pure parts of the engine, for any amounts, policies,   *)
(* manifests, templates, secrets and payments: what a decimal amount is worth, how    *)
(* long a call may sleep and what an admitted manifest may still fail on.  *)
(* Each is a fact about the operators first, and then an invariant of      *)
(* EngineCases.                                                            *)
(***************************************************************************)
EXTENDS EngineCases, TLAPS

-----------------------------------------------------------------------------
(* Money.  The digits of a remainder, padded to the currency's scale, add up   *)
(* to it; so a decimal text is worth the amount it was written from.           *)

\* Two digits, padded, are worth the number they write.
LEMMA TwoDigits ==
  ASSUME NEW n \in 0 .. 99
  PROVE  /\ Padded(n, 2)[1] * 10 + Padded(n, 2)[2] = n
         /\ DOMAIN Padded(n, 2) = 1 .. 2
<1>1. /\ Padded(n, 2)[1] = (n \div 10) % 10
      /\ Padded(n, 2)[2] = n % 10
      /\ DOMAIN Padded(n, 2) = 1 .. 2
  <2>1. Padded(n, 2)[1] = (n \div Unit(1)) % 10 /\ Padded(n, 2)[2] = (n \div Unit(0)) % 10
    BY DEF Padded, Digits
  <2>2. Unit(0) = 1 /\ Unit(1) = 10
    BY DEF Unit
  <2>3. n \div 1 = n
    OBVIOUS
  <2>4. DOMAIN Padded(n, 2) = 1 .. 2
    BY DEF Padded, Digits
  <2> QED BY <2>1, <2>2, <2>3, <2>4
<1>2. ((n \div 10) % 10) * 10 + (n % 10) = n
  OBVIOUS
<1> QED BY <1>1, <1>2

\* Three digits, padded, are worth the number they write.
LEMMA ThreeDigits ==
  ASSUME NEW n \in 0 .. 999
  PROVE  /\ Padded(n, 3)[1] * 100 + Padded(n, 3)[2] * 10 + Padded(n, 3)[3] = n
         /\ DOMAIN Padded(n, 3) = 1 .. 3
<1>1. /\ Padded(n, 3)[1] = (n \div 100) % 10
      /\ Padded(n, 3)[2] = (n \div 10) % 10
      /\ Padded(n, 3)[3] = n % 10
      /\ DOMAIN Padded(n, 3) = 1 .. 3
  <2>1. /\ Padded(n, 3)[1] = (n \div Unit(2)) % 10
        /\ Padded(n, 3)[2] = (n \div Unit(1)) % 10
        /\ Padded(n, 3)[3] = (n \div Unit(0)) % 10
    BY DEF Padded, Digits
  <2>2. Unit(0) = 1 /\ Unit(1) = 10 /\ Unit(2) = 100
    BY DEF Unit
  <2>3. n \div 1 = n
    OBVIOUS
  <2>4. DOMAIN Padded(n, 3) = 1 .. 3
    BY DEF Padded, Digits
  <2> QED BY <2>1, <2>2, <2>3, <2>4
<1>2. ((n \div 100) % 10) * 100 + ((n \div 10) % 10) * 10 + (n % 10) = n
  OBVIOUS
<1> DEFINE a == (n \div 100) % 10
           b == (n \div 10) % 10
           c == n % 10
<1>3. a * 100 + b * 10 + c = n
  BY <1>2
<1>4. Padded(n, 3)[1] = a /\ Padded(n, 3)[2] = b /\ Padded(n, 3)[3] = c
  BY <1>1
<1> HIDE DEF a, b, c
<1> QED BY <1>1, <1>3, <1>4

\* Whatever the amount and the currency, the decimal text that as_major_string
\* and from_minor_units write reads back as that amount, to the last unit.
THEOREM EveryAmountReadsBack ==
  ASSUME NEW amount \in Nat, NEW currency \in IsoCurrencies
  PROVE  ReadsBack(amount, currency)
<1>0. /\ Unit(0) = 1 /\ Unit(1) = 10 /\ Unit(2) = 100 /\ Unit(3) = 1000
  BY DEF Unit
<1>1. CASE currency \in ZeroUnits
  <2>1. MinorUnitsFor(currency) = 0
    BY <1>1 DEF MinorUnitsFor, ZeroUnits, TwoUnits, ThreeUnits
  <2>2. AsMajorString(amount, currency) = [whole |-> amount, fraction |-> <<>>]
    BY <2>1 DEF AsMajorString
  <2>3. Thousandths(AsMajorString(amount, currency)) = 1000 * amount
    BY <2>2 DEF Thousandths, Digit
  <2> QED BY <1>0, <2>1, <2>3 DEF ReadsBack
<1>2. CASE currency \in TwoUnits
  <2>1. MinorUnitsFor(currency) = 2
    BY <1>2 DEF MinorUnitsFor, ZeroUnits, TwoUnits, ThreeUnits
  <2> DEFINE n == amount % 100
             text == AsMajorString(amount, currency)
  <2>2. /\ text.whole = amount \div 100
        /\ text.fraction = Padded(n, 2)
    BY <1>0, <2>1 DEF AsMajorString
  <2>3. n \in 0 .. 99 /\ amount = 100 * (amount \div 100) + n
    OBVIOUS
  <2>4. /\ Padded(n, 2)[1] * 10 + Padded(n, 2)[2] = n
        /\ DOMAIN Padded(n, 2) = 1 .. 2
    BY <2>3, TwoDigits
  <2>5. Padded(n, 2)[1] \in Int /\ Padded(n, 2)[2] \in Int
    <3>1. Padded(n, 2)[1] = (n \div Unit(1)) % 10 /\ Padded(n, 2)[2] = (n \div Unit(0)) % 10
      BY DEF Padded, Digits
    <3> HIDE DEF n
    <3> QED BY <1>0, <2>3, <3>1
  <2>6. Digit(text, 1) = Padded(n, 2)[1] /\ Digit(text, 2) = Padded(n, 2)[2] /\ Digit(text, 3) = 0
    BY <2>2, <2>4 DEF Digit
  <2>7. Thousandths(text) = 1000 * (amount \div 100) + 100 * Padded(n, 2)[1] + 10 * Padded(n, 2)[2]
    <3> HIDE DEF n, text
    <3> QED BY <2>2, <2>5, <2>6 DEF Thousandths
  <2>8. Thousandths(text) = 10 * amount
    <3> DEFINE a == Padded(n, 2)[1]
               b == Padded(n, 2)[2]
               w == amount \div 100
    <3>1. a \in Int /\ b \in Int /\ a * 10 + b = n
      BY <2>4, <2>5
    <3>2. w \in Int /\ amount = 100 * w + n /\ n \in Int
      BY <2>3
    <3>3. Thousandths(text) = 1000 * w + 100 * a + 10 * b
      BY <2>7
    <3> HIDE DEF n, text, a, b, w
    <3> QED BY <3>1, <3>2, <3>3
  <2> QED BY <1>0, <2>1, <2>8 DEF ReadsBack
<1>3. CASE currency \in ThreeUnits
  <2>1. MinorUnitsFor(currency) = 3
    BY <1>3 DEF MinorUnitsFor, ZeroUnits, TwoUnits, ThreeUnits
  <2> DEFINE n == amount % 1000
             text == AsMajorString(amount, currency)
  <2>2. /\ text.whole = amount \div 1000
        /\ text.fraction = Padded(n, 3)
    BY <1>0, <2>1 DEF AsMajorString
  <2>3. n \in 0 .. 999 /\ amount = 1000 * (amount \div 1000) + n
    OBVIOUS
  <2>4. /\ Padded(n, 3)[1] * 100 + Padded(n, 3)[2] * 10 + Padded(n, 3)[3] = n
        /\ DOMAIN Padded(n, 3) = 1 .. 3
    <3> HIDE DEF n, text
    <3>1. n \in 0 .. 999
      BY <2>3
    <3> QED BY <3>1, ThreeDigits, Zenon
  <2>5. /\ Digit(text, 1) = Padded(n, 3)[1]
        /\ Digit(text, 2) = Padded(n, 3)[2]
        /\ Digit(text, 3) = Padded(n, 3)[3]
    BY <2>2, <2>4 DEF Digit
  <2>6. Thousandths(text) = amount
    <3> DEFINE a == Padded(n, 3)[1]
               b == Padded(n, 3)[2]
               c == Padded(n, 3)[3]
               w == amount \div 1000
    <3>1. Thousandths(text) = 1000 * w + 100 * a + 10 * b + c
      BY <2>2, <2>5 DEF Thousandths
    <3>2. a * 100 + b * 10 + c = n
      BY <2>4
    <3>3. w \in Int /\ amount = 1000 * w + n /\ n \in Int
      BY <2>3
    <3>4. a \in Int /\ b \in Int /\ c \in Int
      <4>1. /\ a = (n \div Unit(2)) % 10
            /\ b = (n \div Unit(1)) % 10
            /\ c = (n \div Unit(0)) % 10
        BY DEF Padded, Digits
      <4> HIDE DEF n, a, b, c
      <4> QED BY <1>0, <3>3, <4>1
    <3> HIDE DEF n, text, a, b, c, w
    <3> QED BY <3>1, <3>2, <3>3, <3>4
  <2> QED BY <1>0, <2>1, <2>6 DEF ReadsBack
<1> QED BY <1>1, <1>2, <1>3 DEF IsoCurrencies

-----------------------------------------------------------------------------
(* What an admitted manifest may still fail on.  A template that raises in the *)
(* engine and not in the dry run saw another view; so it looks at a name whose *)
(* value the two contexts differ on, and these are the names of Unlike.        *)

LEMMA SameUnlessUnlike ==
  ASSUME NEW op, NEW supplied, NEW use, NEW n \in STRING \X STRING,
         DOMAIN use.secrets \subseteq DOMAIN supplied,
         n \notin Unlike(op, supplied, use)
  PROVE  Value(EngineContext(op, use), n) = Value(DryRunContext(supplied), n)
<1> DEFINE engine == EngineContext(op, use)
           dry == DryRunContext(supplied)
<1>1. n = <<n[1], n[2]>>
  OBVIOUS
<1>2. /\ DOMAIN engine = {"payment", "secrets", "idempotency", "env"}
      /\ DOMAIN dry = {"payment", "secrets", "idempotency", "env"}
  BY DEF EngineContext, DryRunContext
<1>3. CASE n[1] = "payment"
  <2>1. engine.payment = PaymentContext(use.payment) /\ dry.payment = Sample
    BY DEF EngineContext, DryRunContext
  <2>2. DOMAIN Sample = PaymentFields /\ DOMAIN PaymentContext(use.payment) = PaymentFields
    BY DEF Sample, PaymentContext, PaymentFields
  <2>3. n[2] \in PaymentFields => PaymentContext(use.payment)[n[2]] = Sample[n[2]]
    BY <1>1, <1>3 DEF Unlike
  <2> HIDE DEF engine, dry
  <2>4. engine["payment"] = PaymentContext(use.payment) /\ dry["payment"] = Sample
    BY <2>1
  <2>5. Value(engine, n) = Value(dry, n)
    BY <1>2, <1>3, <2>2, <2>3, <2>4 DEF Value
  <2> QED
    BY <2>5 DEF engine, dry
<1>4. CASE n[1] = "secrets"
  <2>1. engine["secrets"] = use.secrets /\ dry["secrets"] = supplied
    BY DEF EngineContext, DryRunContext
  <2>2. n[2] \in DOMAIN supplied => n[2] \in DOMAIN use.secrets
    BY <1>1, <1>4 DEF Unlike
  <2>3. n[2] \in DOMAIN use.secrets => use.secrets[n[2]] = supplied[n[2]]
    BY <1>1, <1>4 DEF Unlike
  <2> HIDE DEF engine, dry
  <2>4. Value(engine, n) = Value(dry, n)
    BY <1>2, <1>4, <2>1, <2>2, <2>3 DEF Value
  <2> QED
    BY <2>4 DEF engine, dry
<1>5. CASE n[1] = "idempotency"
  <2> DEFINE mine == engine["idempotency"]
             samples == dry["idempotency"]
  <2>1. /\ DOMAIN mine = {"client_key", "outbound_key", "attempt"}
        /\ DOMAIN samples = {"client_key", "outbound_key", "attempt"}
    BY DEF EngineContext, DryRunContext
  <2>2. mine["attempt"] = samples["attempt"]
    BY DEF EngineContext, DryRunContext
  <2>3. /\ samples["client_key"] = "k" /\ samples["outbound_key"] = "k"
        /\ mine = engine.idempotency
    BY DEF DryRunContext
  <2>4. n[2] \in {"client_key", "outbound_key"} => mine[n[2]] = "k"
    <3>1. ASSUME n[2] \in {"client_key", "outbound_key"}, mine[n[2]] # "k"
          PROVE  n \in Unlike(op, supplied, use)
      BY <1>1, <1>5, <3>1 DEF Unlike
    <3> QED
      BY <3>1
  <2>5. n[2] \in DOMAIN mine => mine[n[2]] = samples[n[2]]
    <3> HIDE DEF mine, samples
    <3> QED
      BY <2>1, <2>2, <2>3, <2>4
  <2> HIDE DEF engine, dry
  <2>6. Value(engine, n) = Value(dry, n)
    BY <1>2, <1>5, <2>1, <2>5 DEF Value
  <2> QED
    BY <2>6 DEF engine, dry
<1>6. CASE n[1] = "env"
  <2>1. /\ engine["env"] = [gateway_base_url |-> use.base_url]
        /\ dry["env"] = [gateway_base_url |-> "https://gateway.test"]
    BY DEF EngineContext, DryRunContext
  <2>2. n[2] = "gateway_base_url" => use.base_url = "https://gateway.test"
    BY <1>1, <1>6 DEF Unlike
  <2> HIDE DEF engine, dry
  <2>3. Value(engine, n) = Value(dry, n)
    BY <1>2, <1>6, <2>1, <2>2 DEF Value
  <2> QED
    BY <2>3 DEF engine, dry
<1>7. CASE n[1] \notin {"payment", "secrets", "idempotency", "env"}
  <2> HIDE DEF engine, dry
  <2>1. Value(engine, n) = Value(dry, n)
    BY <1>2, <1>7 DEF Value
  <2> QED
    BY <2>1 DEF engine, dry
<1> QED
  BY <1>3, <1>4, <1>5, <1>6, <1>7

\* A template that is rendered in the dry run and not by the engine looks at a name
\* whose value changed.
LEMMA RehearsedButFails ==
  ASSUME NEW op, NEW supplied, NEW use, NEW template,
         TemplateTyped(template),
         DOMAIN use.secrets \subseteq DOMAIN supplied,
         Renders(template, DryRunContext(supplied)),
         ~Renders(template, EngineContext(op, use))
  PROVE  MeetsUnlike(template, op, supplied, use)
<1> DEFINE engine == EngineContext(op, use)
           dry == DryRunContext(supplied)
<1>1. View(template, engine) # View(template, dry)
  BY DEF Renders
<1>2. PICK n \in template.looks : Value(engine, n) # Value(dry, n)
  <2> HIDE DEF engine, dry
  <2> QED
    BY <1>1 DEF View
<1>3. n \in Unlike(op, supplied, use)
  BY <1>2, SameUnlessUnlike DEF TemplateTyped
<1> QED
  BY <1>3 DEF MeetsUnlike

\* Whatever the manifest, the templates in it, its secrets and what the engine is
\* handed: an operation of an admitted manifest is turned into a call of the PSP,
\* unless it fails in a part that the dry run does not render or in one that looks
\* at a value the dry run did not have (register_provider.py, _dry_run_templates;
\* executor.py, execute).
THEOREM AdmittedFailOnlyUnrehearsed ==
  ASSUME NEW m, NEW supplied, NEW use, NEW name \in DOMAIN m.operations,
         \A n \in DOMAIN m.operations : OperationTyped(m.operations[n]),
         DOMAIN use.secrets \subseteq DOMAIN supplied,
         DryRun(m, supplied),
         Execute(m, name, use) # "called"
  PROVE  Unrehearsed(m.operations[name], supplied, use)
<1> DEFINE op == m.operations[name]
           context == EngineContext(op, use)
<1>1. OperationTyped(op)
  OBVIOUS
<1>2. /\ Renders(op.target, DryRunContext(supplied))
      /\ op.fields # None => Renders(op.fields, DryRunContext(supplied))
  BY DEF DryRun
<1>3. \/ ~KeyRenders(op, use)
      \/ ~Renders(op.target, context)
      \/ BuildBody(op, context) # "built"
  BY DEF Execute
<1> SUFFICES Unrehearsed(op, supplied, use)
  OBVIOUS
<1> HIDE DEF op
<1>4. CASE ~KeyRenders(op, use)
  BY <1>4 DEF Unrehearsed
<1>5. CASE ~Renders(op.target, context)
  BY <1>1, <1>2, <1>5, RehearsedButFails DEF OperationTyped, Unrehearsed
<1>6. CASE BuildBody(op, context) # "built"
  <2>1. \/ op.encoding # "none" /\ op.fields # None /\ ~Renders(op.fields, context)
        \/ op.encoding = "xml" /\ op.raw = None
        \/ op.encoding = "xml" /\ ~Renders(op.raw, context)
    BY <1>6 DEF BuildBody
  <2>2. CASE op.encoding # "none" /\ op.fields # None /\ ~Renders(op.fields, context)
    BY <1>1, <1>2, <2>2, RehearsedButFails DEF OperationTyped, Unrehearsed
  <2>3. CASE op.encoding = "xml" /\ op.raw = None
    BY <2>3 DEF Unrehearsed
  <2>4. CASE op.encoding = "xml" /\ ~Renders(op.raw, context)
    BY <2>4 DEF Unrehearsed
  <2> QED
    BY <2>1, <2>2, <2>3, <2>4
<1> QED
  BY <1>3, <1>4, <1>5, <1>6

-----------------------------------------------------------------------------
(* How long a call sleeps.  A delay is the smaller of the cap and of something *)
(* that is never below the base.                                               *)

\* The attempts before which a call sleeps: the powers of two are few enough to be
\* taken one at a time.
LEMMA PowersOfTwo ==
  ASSUME NEW n \in 0 .. MostAttempts - 2
  PROVE  2 ^ n \in Nat /\ 2 ^ n >= 1
<1> DEFINE Power(k) == 2 ^ k
<1>1. /\ Power(0) = 1 /\ Power(1) = 2 /\ Power(2) = 4 /\ Power(3) = 8 /\ Power(4) = 16
      /\ Power(5) = 32 /\ Power(6) = 64 /\ Power(7) = 128 /\ Power(8) = 256 /\ Power(9) = 512
      /\ Power(10) = 1024 /\ Power(11) = 2048 /\ Power(12) = 4096 /\ Power(13) = 8192
      /\ Power(14) = 16384 /\ Power(15) = 32768 /\ Power(16) = 65536
      /\ Power(17) = 131072 /\ Power(18) = 262144
  OBVIOUS
<1>2. n \in 0 .. 18
  BY DEF MostAttempts
<1> HIDE DEF Power
<1>3. Power(n) \in Nat /\ Power(n) >= 1
  BY <1>1, <1>2
<1> QED
  BY <1>3 DEF Power

LEMMA PolicyNumbers ==
  ASSUME NEW retry \in Policies(Bases, Caps)
  PROVE  /\ retry.base \in Nat /\ retry.cap \in Nat
         /\ Least(retry.base, retry.cap) \in Nat
<1>1. retry.base \in Nat /\ retry.cap \in Nat
  BY CasesAssumption DEF Policies
<1> QED
  BY <1>1 DEF Least

\* What any policy waits for is never shorter than its base.
LEMMA NeverBelowBase ==
  ASSUME NEW retry \in Policies(Bases, Caps), NEW attempt \in 1 .. MostAttempts - 1
  PROVE  Uncapped(attempt, retry) \in Nat /\ Uncapped(attempt, retry) >= retry.base
<1>1. retry.base \in Nat /\ attempt \in Nat /\ attempt >= 1
  BY PolicyNumbers DEF MostAttempts
<1>2. CASE retry.backoff = "fixed"
  BY <1>1, <1>2 DEF Uncapped
<1>3. CASE retry.backoff = "linear"
  <2>1. Uncapped(attempt, retry) = retry.base * attempt
    BY <1>3 DEF Uncapped
  <2> QED
    BY <1>1, <2>1
<1>4. CASE retry.backoff \notin {"fixed", "linear"}
  <2> DEFINE power == 2 ^ (attempt - 1)
  <2>1. Uncapped(attempt, retry) = retry.base * power
    BY <1>4 DEF Uncapped
  <2>2. power \in Nat /\ power >= 1
    <3>1. attempt - 1 \in 0 .. MostAttempts - 2
      BY DEF MostAttempts
    <3> QED
      BY <3>1, PowersOfTwo
  <2> HIDE DEF power
  <2> QED
    BY <1>1, <2>1, <2>2
<1> QED
  BY <1>2, <1>3, <1>4

\* One sleep: at most the cap, and without jitter at least the base or the cap.
LEMMA SleepBounded ==
  ASSUME NEW retry \in Policies(Bases, Caps), NEW attempt \in 1 .. MostAttempts - 1,
         NEW s \in Sleeps(attempt, retry)
  PROVE  /\ s \in Nat /\ s <= retry.cap
         /\ retry.jitter = "none" => s >= Least(retry.base, retry.cap)
<1>1. retry.cap \in Nat /\ retry.base \in Nat
  BY PolicyNumbers
<1> DEFINE uncapped == Uncapped(attempt, retry)
           delay == Delay(attempt, retry)
<1>2. uncapped \in Nat /\ uncapped >= retry.base
  BY NeverBelowBase
<1>3. delay = Least(uncapped, retry.cap)
  BY DEF Delay
<1>4. s = delay \/ (s = 0 /\ retry.jitter = "full")
  BY DEF Sleeps
<1> HIDE DEF uncapped, delay
<1>5. delay \in Nat /\ delay <= retry.cap /\ delay >= Least(retry.base, retry.cap)
  BY <1>1, <1>2, <1>3 DEF Least
<1> QED
  BY <1>1, <1>4, <1>5

-----------------------------------------------------------------------------
(* The invariants of EngineCases. *)

AmountCases == [kind : {"amount"}, currency : IsoCurrencies, amount : Nat]

CallCases == [kind : {"call"}, policy : Policies(Bases, Caps), attempt : 1 .. MostAttempts,
              slept : Nat]

ManifestCases == [kind : {"manifest"}, stage : {"submitted", "admitted", "rejected"},
                  supplied : Supplies, manifest : Manifests]

\* Every case is one of four; a manifest that is about to be used was admitted, with
\* the secrets it came with.
CasesTyped == case \in AmountCases \cup CallCases \cup ManifestCases \/ case.kind = "use"
UsedIsAdmitted == case.kind = "manifest" /\ case.stage = "admitted" =>
                      Admits(case.manifest, case.supplied)

CasesInv == CasesTyped /\ UsedIsAdmitted /\ SleepsAreBounded /\ FailsOnlyUnrehearsed

LEMMA CasesStart == Init => CasesInv
<1>1. ASSUME StartAmount PROVE CasesInv
  BY <1>1 DEF StartAmount, CasesInv, CasesTyped, AmountCases, UsedIsAdmitted,
              SleepsAreBounded, FailsOnlyUnrehearsed
<1>2. ASSUME StartCall PROVE CasesInv
  <2>1. PICK p \in Policies(Bases, Caps) :
            case = [kind |-> "call", policy |-> p, attempt |-> 1, slept |-> 0]
    BY <1>2 DEF StartCall
  <2>2. case \in CallCases
    BY <2>1 DEF CallCases, MostAttempts
  <2>3. p.cap \in Nat /\ p.base \in Nat /\ Least(p.base, p.cap) \in Nat
    BY PolicyNumbers
  <2>4. SleepsAreBounded
    BY <2>1, <2>3 DEF SleepsAreBounded
  <2> QED
    BY <2>1, <2>2, <2>4 DEF CasesInv, CasesTyped, UsedIsAdmitted, FailsOnlyUnrehearsed
<1>3. ASSUME StartManifest PROVE CasesInv
  BY <1>3 DEF StartManifest, CasesInv, CasesTyped, ManifestCases, UsedIsAdmitted,
              SleepsAreBounded, FailsOnlyUnrehearsed
<1> QED
  BY <1>1, <1>2, <1>3 DEF Init

LEMMA CountUpKeeps == CasesInv /\ CountUp => CasesInv'
<1> SUFFICES ASSUME CasesInv, CountUp PROVE CasesInv'
  OBVIOUS
<1>1. case \in AmountCases
  BY DEF CasesInv, CasesTyped, CountUp, AmountCases, CallCases, ManifestCases
<1>2. case' \in AmountCases
  BY <1>1 DEF CountUp, AmountCases
<1> QED
  BY <1>2 DEF CasesInv, CasesTyped, AmountCases, UsedIsAdmitted, SleepsAreBounded,
              FailsOnlyUnrehearsed

\* A sleep adds one delay, and one to the retries that have slept.
LEMMA SleepKeeps == CasesInv /\ Sleep => CasesInv'
<1> SUFFICES ASSUME CasesInv, Sleep PROVE CasesInv'
  OBVIOUS
<1>1. case \in CallCases /\ case.attempt < MostAttempts
  BY DEF CasesInv, CasesTyped, Sleep, AmountCases, CallCases, ManifestCases
<1>2. PICK s \in Sleeps(case.attempt, case.policy) :
          case' = [case EXCEPT !.attempt = @ + 1, !.slept = @ + s]
  BY DEF Sleep
<1>3. /\ case.policy \in Policies(Bases, Caps)
      /\ case.attempt \in 1 .. MostAttempts - 1
      /\ case.slept \in Nat
  BY <1>1 DEF CallCases, MostAttempts
<1>4. /\ s \in Nat /\ s <= case.policy.cap
      /\ case.policy.jitter = "none" => s >= Least(case.policy.base, case.policy.cap)
  BY <1>3, SleepBounded
<1>5. /\ case'.kind = "call"
      /\ case'.policy = case.policy
      /\ case'.attempt = case.attempt + 1
      /\ case'.slept = case.slept + s
  BY <1>1, <1>2 DEF CallCases
<1>6. case' \in CallCases
  <2>1. case.attempt + 1 \in 1 .. MostAttempts /\ case.slept + s \in Nat
    BY <1>3, <1>4 DEF MostAttempts
  <2> QED
    BY <1>1, <1>2, <2>1 DEF CallCases
<1>7. SleepsAreBounded'
  <2> DEFINE retries == case.attempt - 1
             cap == case.policy.cap
             least == Least(case.policy.base, case.policy.cap)
  <2>1. /\ case.slept <= retries * cap
        /\ case.policy.jitter = "none" => case.slept >= retries * least
    BY <1>1 DEF CasesInv, SleepsAreBounded, CallCases
  <2>2. retries \in Nat /\ cap \in Nat /\ least \in Nat
    BY <1>3, PolicyNumbers
  <2> SUFFICES /\ case.slept + s <= (retries + 1) * cap
               /\ case.policy.jitter = "none" => case.slept + s >= (retries + 1) * least
    <3>1. case'.attempt - 1 = retries + 1
      <4>1. case'.attempt = case.attempt + 1 /\ case.attempt \in Nat
        BY <1>3, <1>5 DEF MostAttempts
      <4> QED
        BY <4>1
    <3>2. /\ case'.policy.cap = cap
          /\ Least(case'.policy.base, case'.policy.cap) = least
          /\ case'.policy.jitter = case.policy.jitter
      BY <1>5, Zenon
    <3> HIDE DEF retries, cap, least
    <3> QED
      BY <1>5, <3>1, <3>2 DEF SleepsAreBounded
  <2>4. s <= cap /\ (case.policy.jitter = "none" => s >= least)
    BY <1>4
  <2> HIDE DEF retries, cap, least
  <2>5. /\ retries * cap \in Nat /\ (retries + 1) * cap = retries * cap + cap
        /\ retries * least \in Nat /\ (retries + 1) * least = retries * least + least
    BY <2>2
  <2> QED
    BY <1>3, <1>4, <2>1, <2>2, <2>4, <2>5
<1> QED
  BY <1>5, <1>6, <1>7 DEF CasesInv, CasesTyped, UsedIsAdmitted, FailsOnlyUnrehearsed

LEMMA RegisterKeeps == CasesInv /\ Register => CasesInv'
<1> SUFFICES ASSUME CasesInv, Register PROVE CasesInv'
  OBVIOUS
<1>1. case \in ManifestCases
  BY DEF CasesInv, CasesTyped, Register, AmountCases, CallCases, ManifestCases
<1>2. /\ case'.kind = "manifest"
      /\ case'.manifest = case.manifest /\ case'.supplied = case.supplied
      /\ case'.stage = IF Admits(case.manifest, case.supplied) THEN "admitted" ELSE "rejected"
  BY <1>1 DEF Register, ManifestCases
<1>3. case' \in ManifestCases
  BY <1>1 DEF Register, ManifestCases
<1> QED
  BY <1>2, <1>3 DEF CasesInv, CasesTyped, UsedIsAdmitted, SleepsAreBounded,
                    FailsOnlyUnrehearsed

\* The steps that may fail, by AdmittedFailOnlyUnrehearsed.
LEMMA UsedKeeps ==
  ASSUME CasesInv, case \in ManifestCases, case.stage = "admitted",
         NEW name \in DOMAIN case.manifest.operations, NEW use,
         DOMAIN use.secrets \subseteq DOMAIN case.supplied,
         Used(name, use)
  PROVE  CasesInv'
<1> DEFINE m == case.manifest
<1>1. /\ case'.kind = "use"
      /\ case'.manifest = m /\ case'.supplied = case.supplied
      /\ case'.operation = name /\ case'.use = use
      /\ case'.outcome = Execute(m, name, use)
  BY DEF Used
<1>2. DryRun(m, case.supplied)
  BY DEF CasesInv, UsedIsAdmitted, Admits, ManifestCases
<1>3. \A n \in DOMAIN m.operations : OperationTyped(m.operations[n])
  <2>1. m \in Manifests
    BY DEF ManifestCases
  <2> QED
    BY <2>1, CasesAssumption
<1>4. Execute(m, name, use) # "called" =>
          Unrehearsed(m.operations[name], case.supplied, use)
  BY <1>2, <1>3, AdmittedFailOnlyUnrehearsed
<1>5. FailsOnlyUnrehearsed'
  BY <1>1, <1>4 DEF FailsOnlyUnrehearsed
<1> QED
  BY <1>1, <1>5 DEF CasesInv, CasesTyped, UsedIsAdmitted, SleepsAreBounded

LEMMA HealthcheckKeeps == CasesInv /\ Healthcheck => CasesInv'
<1> SUFFICES ASSUME CasesInv, Healthcheck PROVE CasesInv'
  OBVIOUS
<1>1. case \in ManifestCases /\ case.stage = "admitted"
  BY DEF CasesInv, CasesTyped, Healthcheck, AmountCases, CallCases, ManifestCases
<1>2. PICK charge \in Charges :
          Used("healthcheck",
               [payment |-> HealthcheckPayment, secrets |-> case.supplied, client_key |-> "hc",
                outbound_key |-> charge.outbound_key, base_url |-> charge.base_url])
  BY DEF Healthcheck
<1>3. "healthcheck" \in DOMAIN case.manifest.operations
  BY DEF Healthcheck
<1> QED
  BY <1>1, <1>2, <1>3, UsedKeeps

LEMMA ChargeKeeps == CasesInv /\ Charge => CasesInv'
<1> SUFFICES ASSUME CasesInv, Charge PROVE CasesInv'
  OBVIOUS
<1> DEFINE m == case.manifest
<1>1. case \in ManifestCases /\ case.stage = "admitted"
  BY DEF CasesInv, CasesTyped, Charge, AmountCases, CallCases, ManifestCases
<1>2. PICK charge \in Charges :
          Used("charge", [charge EXCEPT !.secrets = [s \in m.secrets |-> charge.secrets[s]]])
  BY DEF Charge
<1>3. Admits(m, case.supplied)
  BY <1>1 DEF CasesInv, UsedIsAdmitted, ManifestCases
<1>4. "charge" \in DOMAIN m.operations
  BY <1>3 DEF Charge, Admits, Validates
<1> DEFINE use == [charge EXCEPT !.secrets = [s \in m.secrets |-> charge.secrets[s]]]
<1>5. DOMAIN use.secrets \subseteq DOMAIN case.supplied
  <2>1. use.secrets = [s \in m.secrets |-> charge.secrets[s]]
    BY CasesAssumption
  <2> QED
    BY <1>3, <2>1 DEF Admits, SecretsSupplied
<1>6. Used("charge", use)
  BY <1>2
<1> HIDE DEF use
<1> QED
  BY <1>1, <1>4, <1>5, <1>6, UsedKeeps

LEMMA CasesStay == CasesInv /\ [Next]_case => CasesInv'
<1>1. CasesInv /\ UNCHANGED case => CasesInv'
  BY DEF CasesInv, CasesTyped, UsedIsAdmitted, SleepsAreBounded, FailsOnlyUnrehearsed
<1> QED
  BY <1>1, CountUpKeeps, SleepKeeps, RegisterKeeps, HealthcheckKeeps, ChargeKeeps DEF Next

\* However far an amount is counted, in every currency of the table, the text the PSP
\* is sent is worth it.
THEOREM AmountsAlwaysReadBack == Spec => []AmountsReadBack
<1>1. CasesInv => AmountsReadBack
  BY EveryAmountReadsBack DEF CasesInv, CasesTyped, AmountCases, CallCases, ManifestCases,
                              AmountsReadBack
<1> QED
  BY <1>1, CasesStart, CasesStay, PTL DEF Spec

\* For every retry policy the schema admits, through all of its attempts: the sleeps of
\* a call stay within one cap each, and without jitter none is shorter than the base or
\* the cap (http_egress.py, _backoff_seconds).
THEOREM SleepsStayBounded == Spec => []SleepsAreBounded
<1>1. CasesInv => SleepsAreBounded
  BY DEF CasesInv
<1> QED
  BY <1>1, CasesStart, CasesStay, PTL DEF Spec

\* Whatever manifests are submitted, with whatever templates and secrets: one that was
\* admitted fails before the PSP is called only in what the dry run does not render or
\* on a value the dry run did not have (register_provider.py; executor.py, execute).
THEOREM UsedFailOnlyUnrehearsed == Spec => []FailsOnlyUnrehearsed
<1>1. CasesInv => FailsOnlyUnrehearsed
  BY DEF CasesInv
<1> QED
  BY <1>1, CasesStart, CasesStay, PTL DEF Spec
================================================================================
