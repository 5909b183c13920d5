----------------------------- MODULE ExprGrammar -----------------------------
(***************************************************************************)
(* What an expression is, without levels of precedence: an operand, or     *)
(* expressions joined by any operator.  The validator only accepts or      *)
(* refuses, so precedence must not matter to it.                           *)
(*                                                                         *)
(*   E ::= blank E | E blank | operand | unary E | E binary E              *)
(*       | E ? E : E | ( E ) | name ( ) | name ( A )                       *)
(*   A ::= E | E , A                                                       *)
(***************************************************************************)
EXTENDS ExprTokens

\* The end of the operand at i that is not made of expressions.
OperandEnd(text, i) ==
  LET prefixed == /\ text[i] = Zero /\ i + 2 <= Len(text)
                  /\ PrefixDigits(text[i + 1]) # {}
                  /\ text[i + 2] \in {Dollar, OpenBracket}
      k == IF prefixed THEN i + 2 ELSE i
      name == RunEnd(text, i, NameChars)
  IN CASE text[k] = Dollar -> VariableEnd(text, k)
       [] text[k] = OpenBracket -> BracketEnd(text, k + 1)
       [] text[k] = Quote -> QuotedEnd(text, k + 1)
       [] text[k] = OpenBrace -> NestedEnd(text, k + 1, OpenBrace, CloseBrace)
       [] text[k] \in Digits -> NumberEnd(text, k)
       [] text[k] = Dot /\ Has(text, k + 1, Digits) -> NumberEnd(text, k)
       [] text[k] \in NameStart ->
                 IF IsConstant(SubSeq(text, i, name - 1)) THEN name ELSE 0
       [] OTHER -> 0

\* A binary operator from i to j.
Symbols ==
  {<<Bar, Bar>>, <<Ampersand, Ampersand>>, <<Bar>>, <<Caret>>, <<Ampersand>>,
   <<Equals, Equals>>, <<Not, Equals>>, <<Less, Equals>>, <<Greater, Equals>>, <<Less>>,
   <<Greater>>, <<Less, Less>>, <<Greater, Greater>>, <<Plus>>, <<Minus>>, <<Star>>,
   <<Slash>>, <<Percent>>, <<Star, Star>>}
Words == {<<101, 113>>, <<110, 101>>, <<105, 110>>, <<110, 105>>}
IsBinary(text, i, j) ==
  \/ SubSeq(text, i, j - 1) \in Symbols
  \/ SubSeq(text, i, j - 1) \in Words /\ ~Has(text, j, NameChars)

\* From i to j: a piece of the text.
Span(i, j) == <<i, j>>

\* A name with arguments in parentheses, or with nothing in them.
Applies(text, A, i, j) ==
  LET open == SkipBlanks(text, RunEnd(text, i, NameChars))
  IN /\ text[i] \in NameStart
     /\ open < j - 1 /\ text[open] = OpenParen /\ text[j - 1] = CloseParen
     /\ SkipBlanks(text, open + 1) = j - 1 \/ Span(open + 1, j - 1) \in A

\* The rules of E and of A, for the span from i to j: E and A are the shorter ones.
MakesExpression(text, operands, E, A, i, j) ==
  \/ operands[i] = j
  \/ text[i] \in Blanks /\ Span(i + 1, j) \in E
  \/ text[j - 1] \in Blanks /\ Span(i, j - 1) \in E
  \/ text[i] \in UnaryOperators /\ Span(i + 1, j) \in E
  \/ \E k \in (i + 1)..(j - 1), l \in 1..2 :
        Span(i, k) \in E /\ Span(k + l, j) \in E /\ IsBinary(text, k, k + l)
  \/ \E k \in (i + 1)..(j - 1) :
        /\ text[k] = Question /\ Span(i, k) \in E
        /\ \E m \in (k + 2)..(j - 2) :
              text[m] = Colon /\ Span(k + 1, m) \in E /\ Span(m + 1, j) \in E
  \/ text[i] = OpenParen /\ text[j - 1] = CloseParen /\ Span(i + 1, j - 1) \in E
  \/ Applies(text, A, i, j)

MakesArguments(text, E, A, i, j) ==
  \/ Span(i, j) \in E
  \/ \E k \in (i + 1)..(j - 1) :
        text[k] = Comma /\ Span(i, k) \in E /\ Span(k + 1, j) \in A

\* One more derivation step: the spans of n characters.
Step(text, operands, n, d) ==
  LET spans == {Span(i, i + n) : i \in 1..(Len(text) + 1 - n)}
      E == d.E \union {s \in spans : MakesExpression(text, operands, d.E, d.A, s[1], s[2])}
      A == d.A \union {s \in spans : MakesArguments(text, E, d.A, s[1], s[2])}
  IN [E |-> E, A |-> A]

\* All spans of at most n characters that E and A derive.
Derived(text, n) ==
  LET operands == [i \in 1..Len(text) |-> OperandEnd(text, i)]
      upTo[m \in 0..Len(text)] ==
        IF m = 0 THEN [E |-> {}, A |-> {}] ELSE Step(text, operands, m, upTo[m - 1])
  IN upTo[n]

\* The whole text is an expression.
IsExpression(text) == Span(1, Len(text) + 1) \in Derived(text, Len(text)).E

==============================================================================
