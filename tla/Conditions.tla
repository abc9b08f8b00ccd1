------------------------------- MODULE Conditions ------------------------------
(***************************************************************************)
(* The conditions of load-test steps: tokens, after the placeholders are       *)
(* replaced: words, comparisons, "and", "or" and parentheses.  The code         *)
(* evaluates a condition by rewriting its text from the innermost parentheses    *)
(* outwards; the reference, Meaning, reads it by its structure.  The state is a   *)
(* condition that grows token by token, so every one up to the bound is met.    *)
(***************************************************************************)
EXTENDS Integers, Sequences, SequencesExt

CONSTANTS
    Words,     \* the words of conditions, in the order of strings: "", "true", "false" and more
    Comparisons, \* the operators that conditions use
    MaxTokens  \* bound on the length

VARIABLE condition

WordSet == {Words[i] : i \in DOMAIN Words}
Tokens  == WordSet \cup Comparisons \cup {"(", ")", "&&", "||"}

-------------------------------------------------------------------------------
(* As the code evaluates them. *)

Value(b)  == [error |-> FALSE, holds |-> b]
Malformed == [error |-> TRUE, holds |-> FALSE]

\* The words that Sscanf reads as a number.
Numbers == [w \in {"0", "5", "10"} |-> CASE w = "0" -> 0 [] w = "5" -> 5 [] OTHER -> 10]

Rank(w) == CHOOSE i \in DOMAIN Words : Words[i] = w

Ordered(op, a, b) == CASE op = "<"  -> a < b
                       [] op = ">"  -> a > b
                       [] op = "<=" -> a <= b
                       [] op = ">=" -> a >= b

CompareValues(left, right, op) ==
    CASE op = "==" -> left = right
      [] op = "!=" -> left # right
      [] OTHER     -> IF {left, right} \subseteq DOMAIN Numbers
                      THEN Ordered(op, Numbers[left], Numbers[right])
                      ELSE Ordered(op, Rank(left), Rank(right))

Truthy(word) == word \notin {"", "false", "0"}

\* The operators in the order in which they are looked for.
Operators == <<"==", "!=", ">=", "<=", ">", "<">>

IndexOf(text, token)     == SelectInSeq(text, LAMBDA t : t = token)
LastIndexOf_First(text, token) == SelectInSeq(text, LAMBDA t : t = token)
LastIndexOf(text, token) == SelectLastInSeq(text, LAMBDA t : t = token)

\* The one word of a text; the empty text is the empty word.
TheWord(text) == IF text = <<>> THEN "" ELSE Head(text)

EvaluateSimpleCondition(text) ==
    LET found == SelectInSeq(Operators, LAMBDA op : Contains(text, op)) IN
    IF found = 0 THEN Truthy(TheWord(text))
    ELSE LET at == IndexOf(text, Operators[found]) IN
         CompareValues(TheWord(SubSeq(text, 1, at - 1)),
                       TheWord(SubSeq(text, at + 1, Len(text))), Operators[found])

RECURSIVE Split(_, _)
Split(text, token) ==
    IF ~Contains(text, token) THEN <<text>>
    ELSE LET at == IndexOf(text, token) IN
         <<SubSeq(text, 1, at - 1)>> \o Split(SubSeq(text, at + 1, Len(text)), token)

\* The parts are evaluated in order up to the first one that errs or has the value stop.
Decide(results, stop) ==
    LET first == SelectInSeq(results, LAMBDA r : r.error \/ r.holds = stop) IN
    CASE first = 0              -> Value(~stop)
      [] results[first].error   -> Malformed
      [] OTHER                  -> Value(stop)

Bool(b) == IF b THEN "true" ELSE "false"

\* The innermost parentheses are replaced by "true" or "false", their error ignored; then
\* || is split before &&.
RECURSIVE EvaluateBooleanExpression(_)
EvaluateBooleanExpression(text) ==
    LET Parts(token) == [i \in DOMAIN Split(text, token) |->
                            EvaluateBooleanExpression(Split(text, token)[i])]
        start == LastIndexOf(text, "(")
        end   == start + IndexOf(SubSeq(text, start + 1, Len(text)), ")") IN
    IF start > 0
    THEN IF end = start THEN Malformed
         ELSE EvaluateBooleanExpression(
                  SubSeq(text, 1, start - 1)
                  \o <<Bool(EvaluateBooleanExpression(SubSeq(text, start + 1, end - 1)).holds)>>
                  \o SubSeq(text, end + 1, Len(text)))
    ELSE CASE Contains(text, "||") -> Decide(Parts("||"), TRUE)
           [] Contains(text, "&&") -> Decide(Parts("&&"), FALSE)
           [] OTHER                -> Value(EvaluateSimpleCondition(text))

\* An empty condition holds.
EvaluateCondition(text) ==
    IF text = <<>> THEN Value(TRUE) ELSE EvaluateBooleanExpression(text)
-------------------------------------------------------------------------------
(* Conditions, by their structure: || binds weaker than &&, both weaker than comparisons. *)

Ill == "ill-formed"

Depth(text, i) == Len(SelectSeq(SubSeq(text, 1, i), LAMBDA t : t = "("))
                  - Len(SelectSeq(SubSeq(text, 1, i), LAMBDA t : t = ")"))

Unclosed(text) == \E i \in DOMAIN text :
    text[i] = "(" /\ \A j \in i..Len(text) : Depth(text, j) >= Depth(text, i)

Outside(text, tokens) == {i \in DOMAIN text : text[i] \in tokens /\ Depth(text, i) = 0}

\* The word that a text means; a bracketed text and one with operators mean true or false.
RECURSIVE Meaning(_)
Meaning(text) ==
    LET Left(i)  == Meaning(SubSeq(text, 1, i - 1))
        Right(i) == Meaning(SubSeq(text, i + 1, Len(text)))
        Joined(i, Op(_, _)) == IF Ill \in {Left(i), Right(i)} THEN Ill
                               ELSE Bool(Op(Left(i), Right(i)))
        ors  == Outside(text, {"||"})
        ands == Outside(text, {"&&"})
        cmps == Outside(text, Comparisons) IN
    CASE ors # {}  -> Joined(CHOOSE i \in ors : TRUE, LAMBDA l, r : Truthy(l) \/ Truthy(r))
      [] ors = {} /\ ands # {} -> Joined(CHOOSE i \in ands : TRUE, LAMBDA l, r : Truthy(l) /\ Truthy(r))
      [] ors \cup ands = {} /\ cmps # {} ->
             LET i == CHOOSE i \in cmps : TRUE IN
             IF cmps # {i} THEN Ill ELSE Joined(i, LAMBDA l, r : CompareValues(l, r, text[i]))
      [] ors \cup ands \cup cmps = {} ->
             CASE Len(text) = 1 /\ text[1] \in WordSet -> text[1]
               [] Len(text) > 2 /\ text[1] = "(" /\ text[Len(text)] = ")" ->
                      LET inner == Meaning(SubSeq(text, 2, Len(text) - 1)) IN
                      IF inner = Ill THEN Ill ELSE Bool(Truthy(inner))
               [] OTHER -> Ill

-------------------------------------------------------------------------------
Init == condition = <<>>

\* An operand stands at the beginning, behind an operator and behind a bracket.
WantsOperand == condition = <<>> \/ condition[Len(condition)] \notin WordSet \cup {")"}

AddToken ==
    /\ Len(condition) < MaxTokens
    /\ \E t \in IF WantsOperand THEN WordSet \cup {"("} ELSE Tokens \ (WordSet \cup {"("}) :
           condition' = Append(condition, t)

Next == AddToken

Spec == Init /\ [][Next]_condition

-------------------------------------------------------------------------------
\* A condition is evaluated to the value its structure gives it, and is an error exactly
\* when a bracket is never closed, although the code rewrites the text from the inside,
\* ignores the errors it meets there and never looks at the depth of an operator.
ConditionsAreStandard ==
    /\ Meaning(condition) # Ill =>
           EvaluateCondition(condition) = Value(Truthy(Meaning(condition)))
    /\ EvaluateCondition(condition).error <=> Unclosed(condition)
===============================================================================
