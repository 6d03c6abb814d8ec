----------------------------- MODULE SuccessWhen -----------------------------
(***************************************************************************)
(* The success_when expressions of a manifest (transformers/response.py):  *)
(* a recursive-descent evaluator over a list of tokens.  It consumes the   *)
(* list as it goes, evaluates both sides of every `and' and `or', raises   *)
(* on what it cannot read or compare, and ignores whatever is left at the  *)
(* end.  The executor takes a raise for "no success".                      *)
(*                                                                         *)
(* A token is a pair of its kind and its argument, a Python value a record *)
(* of its type and a number: a string stands for its rank, the empty one   *)
(* for 0, and a JSON true compares as the number 1, as it does in Python.  *)
(***************************************************************************)
EXTENDS Integers, SequencesExt

Str(n) == [type |-> "str", n |-> n]
Num(n) == [type |-> "num", n |-> n]
Absent == [type |-> "none", n |-> 0]      \* what a path without a match yields

Truthy(v) == v.n # 0

Path(p)   == <<"path", p>>
Lit(v)    == <<"lit", v>>
Op(o)     == <<"op", o>>
Word(w)   == <<"word", w>>                \* and, or, in, [, ] and ,
Foreign(w) == <<"foreign", w>>            \* true, null: nothing of the grammar

\* finditer steps over what matches no token.
Tokens(words) == SelectSeq(words, LAMBDA w : w[1] # "foreign")

-----------------------------------------------------------------------------
\* What an evaluator returns: a value and the tokens left, or a raise.
Got(v, rest) == [raised |-> FALSE, value |-> v, rest |-> rest]
Raised == [raised |-> TRUE, value |-> FALSE, rest |-> <<>>]

NextIs(tokens, token) == tokens # <<>> /\ Head(tokens) = token

EvalAtom(tokens, payload) ==
    CASE tokens = <<>> -> Raised
      [] tokens # <<>> /\ Head(tokens)[1] = "path" ->
             Got(payload[Head(tokens)[2]], Tail(tokens))
      [] tokens # <<>> /\ Head(tokens)[1] = "lit" ->
             Got(Head(tokens)[2], Tail(tokens))
      [] OTHER -> Raised

RECURSIVE EvalItems(_, _, _)
EvalItems(tokens, payload, items) ==
    IF tokens = <<>> THEN Raised
    ELSE IF NextIs(tokens, Word("]")) THEN Got(items, Tail(tokens))
    ELSE LET item  == EvalAtom(tokens, payload)
             after == IF NextIs(item.rest, Word(",")) THEN Tail(item.rest) ELSE item.rest
         IN  IF item.raised THEN Raised
             ELSE EvalItems(after, payload, items \cup {item.value})

EvalList(tokens, payload) ==
    IF NextIs(tokens, Word("[")) THEN EvalItems(Tail(tokens), payload, {}) ELSE Raised

\* Python orders numbers with numbers and strings with strings, and nothing else.
Ordered(a, b) == a.type = b.type /\ a.type # "none"
Orderings == {"<", "<=", ">", ">="}
Relates(op, a, b) ==
    CASE op = "==" -> a = b
      [] op = "!=" -> a # b
      [] op = "<"  -> a.n < b.n
      [] op = "<=" -> a.n <= b.n
      [] op = ">"  -> a.n > b.n
      [] op = ">=" -> a.n >= b.n
BinOp(op, a, b, rest) ==
    IF op \in Orderings => Ordered(a, b) THEN Got(Relates(op, a, b), rest) ELSE Raised

EvalComparison(tokens, payload) ==
    LET lhs == EvalAtom(tokens, payload)
        rhs == EvalAtom(Tail(lhs.rest), payload)
        list == EvalList(Tail(lhs.rest), payload)
    IN  IF lhs.raised THEN Raised
        ELSE IF lhs.rest # <<>> /\ Head(lhs.rest)[1] = "op"
             THEN IF rhs.raised THEN Raised
                  ELSE BinOp(Head(lhs.rest)[2], lhs.value, rhs.value, rhs.rest)
        ELSE IF NextIs(lhs.rest, Word("in"))
             THEN IF list.raised THEN Raised ELSE Got(lhs.value \in list.value, list.rest)
        ELSE Got(Truthy(lhs.value), lhs.rest)

\* `while tokens[0] == "and"', from the result of what was read so far.
RECURSIVE AndFrom(_, _)
AndFrom(left, payload) ==
    IF NextIs(left.rest, Word("and"))
    THEN LET right == EvalComparison(Tail(left.rest), payload)
         IN  AndFrom([right EXCEPT !.value = left.value /\ right.value], payload)
    ELSE left

\* Mutant: `if' instead of `while'.
EvalAndOnce(tokens, payload) ==
    LET left  == EvalComparison(tokens, payload)
        right == EvalComparison(Tail(left.rest), payload)
    IN  IF NextIs(left.rest, Word("and"))
        THEN [right EXCEPT !.value = left.value /\ right.value]
        ELSE left
EvalAnd(tokens, payload) == AndFrom(EvalComparison(tokens, payload), payload)

RECURSIVE OrFrom(_, _)
OrFrom(left, payload) ==
    IF NextIs(left.rest, Word("or"))
    THEN LET right == EvalAnd(Tail(left.rest), payload)
         IN  OrFrom([right EXCEPT !.value = left.value \/ right.value], payload)
    ELSE left

EvalOr(tokens, payload) == OrFrom(EvalAnd(tokens, payload), payload)

\* _is_success: an expression without tokens and every other raise mean "no".
IsSuccess(words, payload) ==
    LET result == EvalOr(Tokens(words), payload)
    IN  ~result.raised /\ result.value

-----------------------------------------------------------------------------
(***************************************************************************)
(* What an expression means: it is a sequence of alternatives, each one a  *)
(* sequence of conditions, and a condition is a path with an operator and  *)
(* its operand.                                                            *)
(***************************************************************************)
Condition(path, op, operand) == [path |-> path, op |-> op, operand |-> operand]
Unreadable == [type |-> "foreign", n |-> 1]     \* an operand outside the grammar

CannotTell(c, payload) ==
    \/ c.operand = <<Unreadable>>
    \/ c.op \in Orderings /\ ~Ordered(payload[c.path], c.operand[1])

Holds(c, payload) ==
    CASE c.op = "bare" -> Truthy(payload[c.path])
      [] c.op = "in"   -> \E i \in DOMAIN c.operand : payload[c.path] = c.operand[i]
      [] OTHER         -> Relates(c.op, payload[c.path], c.operand[1])

\* Success needs every condition to be decidable and one alternative to hold.
Means(expr, payload) ==
    /\ \A g \in DOMAIN expr : \A i \in DOMAIN expr[g] : ~CannotTell(expr[g][i], payload)
    /\ \E g \in DOMAIN expr : \A i \in DOMAIN expr[g] : Holds(expr[g][i], payload)

\* How the expression is written down.
Join(parts, word) ==
    FoldLeft(LAMBDA text, part : IF text = <<>> THEN part ELSE text \o <<Word(word)>> \o part,
             <<>>, parts)
Written(c) ==
    CASE c.op = "bare" -> <<Path(c.path)>>
      [] c.op = "in" ->
             <<Path(c.path), Word("in"), Word("[")>>
             \o Join([i \in DOMAIN c.operand |-> <<Lit(c.operand[i])>>], ",")
             \o <<Word("]")>>
      [] c.operand = <<Unreadable>> -> <<Path(c.path), Op(c.op), Foreign("true")>>
      [] OTHER -> <<Path(c.path), Op(c.op), Lit(c.operand[1])>>
Text(expr) ==
    Join([g \in DOMAIN expr |-> Join([i \in DOMAIN expr[g] |-> Written(expr[g][i])], "and")], "or")
=============================================================================
