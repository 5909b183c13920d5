---------------------------- MODULE ExprProperties ----------------------------
(***************************************************************************)
(* The properties of the expression validator.                             *)
(***************************************************************************)
EXTENDS Expressions, ExprGrammar

TypeOK ==
  /\ text \in Seq(1..255)
  /\ index \in 1..(Len(text) + 1)
  /\ stack \in Seq(Frames)
  /\ mode \in {"operand", "after", "accepted", "refused", "nested"}
  /\ validated \subseteq 1..Len(text)

\* The descent through twelve levels accepts what the grammar without levels
\* derives, and refuses the rest: no operator is taken for the beginning of
\* another one, and no level forgets an operator or what may follow it.  (A
\* refused script in brackets is the validator's affair.)
AcceptsGrammar ==
  /\ mode = "accepted" => IsExpression(text)
  /\ mode = "refused" => ~IsExpression(text)

\* Calls are nested only as deep as characters were read for it: a descent
\* through all levels costs a character, and no call calls itself without one.
DepthFollowsText == Len(stack) <= Len(Expression) + (Len(Expression) + 1) * (index - 1)

\* Where a text in quotes, braces or brackets, or a variable, may hide a [.
Hidden(i, openers) == \E j \in 1..(i - 1) : text[j] \in openers

Checked(i) ==
  \E k \in validated : /\ k <= i
                       /\ i < BracketEnd(text, k + 1)

\* Every script in brackets of an accepted expression was validated, in every
\* operand: behind a number's prefix, in quotes, in arguments, in both branches
\* of a condition.  (Braces hide brackets, and a variable may be written with
\* brackets in it.)
SubstitutionsAreValidated ==
  mode = "accepted" =>
    \A i \in 1..Len(text) :
      text[i] = OpenBracket /\ ~Hidden(i, {OpenBrace, Dollar, Backslash}) => Checked(i)

\* README.md:30 and :52: command substitutions are validated as nested scripts,
\* recursively - also the one in the index of an array variable.
IndexesAreValidated ==
  mode = "accepted" =>
    \A i \in 1..Len(text) :
      text[i] = OpenBracket /\ ~Hidden(i, {OpenBrace, Backslash}) => Checked(i)

\* Every expression is decided.
ExpressionIsDecided == <>Decided

==============================================================================
