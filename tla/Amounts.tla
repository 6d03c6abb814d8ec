------------------------------- MODULE Amounts -------------------------------
(***************************************************************************)
(* Minor units written as a decimal amount: Money.as_major_string          *)
(* (domain/money.py) and the template filter from_minor_units              *)
(* (transformers/templating.py), which a PSP reads back as a number.  A    *)
(* decimal text is its whole part and the sequence of the digits after the *)
(* point.                                                                  *)
(***************************************************************************)
EXTENDS Integers, Sequences

ZeroUnits == {"JPY", "KRW", "VND"}
TwoUnits == {"USD", "EUR", "GBP", "PLN", "RUB", "BYN"}
ThreeUnits == {"BHD", "KWD", "OMR", "JOD"}
IsoCurrencies == ZeroUnits \cup TwoUnits \cup ThreeUnits

MinorUnitsFor(currency) ==
    CASE currency \in ZeroUnits -> 0
      [] currency \in TwoUnits -> 2
      [] currency \in ThreeUnits -> 3

\* 10 ** scale, for the scales there are.
Unit(scale) == CASE scale = 0 -> 1 [] scale = 1 -> 10 [] scale = 2 -> 100 [] scale = 3 -> 1000

Digits(n, width) == [i \in 1 .. width |-> (n \div Unit(width - i)) % 10]

\* Mutant: the format without its leading zeros.
PaddedUnpadded(n, width) == Digits(n, IF n < 10 THEN 1 ELSE IF n < 100 THEN 2 ELSE 3)

\* {frac:0{scale}d}
Padded(n, width) == Digits(n, width)

AsMajorString(amount, currency) ==
    LET scale == MinorUnitsFor(currency)
    IN  IF scale = 0
        THEN [whole |-> amount, fraction |-> <<>>]
        ELSE [whole |-> amount \div Unit(scale),
              fraction |-> Padded(amount % Unit(scale), scale)]

-----------------------------------------------------------------------------
\* The value of a decimal text in thousandths: no currency has smaller units.
Digit(text, i) == IF i \in DOMAIN text.fraction THEN text.fraction[i] ELSE 0
Thousandths(text) ==
    1000 * text.whole + 100 * Digit(text, 1) + 10 * Digit(text, 2) + Digit(text, 3)

\* The decimal amount a PSP reads is the amount of the payment, to the last unit.
ReadsBack(amount, currency) ==
    Thousandths(AsMajorString(amount, currency)) = amount * Unit(3 - MinorUnitsFor(currency))
=============================================================================
