------------------------------ MODULE ExprTokens ------------------------------
(***************************************************************************)
(* The operands and operators of an expression, as the expression          *)
(* validator reads them character by character (expr.c).  Positions are    *)
(* those of a text; an end is the position behind the last character, and  *)
(* 0 when there is no valid end.                                           *)
(***************************************************************************)
EXTENDS Scanning, Characters

Blanks == 9..13 \union {32}
Digits == 48..57
Letters == 65..90 \union 97..122
Underscore == 95
NameStart == Letters \union {Underscore}
NameChars == NameStart \union Digits
HexDigits == Digits \union 65..70 \union 97..102

Not == 33
Quote == 34
Dollar == 36
Percent == 37
Ampersand == 38
OpenParen == 40
CloseParen == 41
Star == 42
Plus == 43
Comma == 44
Minus == 45
Dot == 46
Slash == 47
Zero == 48
Colon == 58
Less == 60
Equals == 61
Greater == 62
Question == 63
OpenBracket == 91
CloseBracket == 93
Caret == 94
Bar == 124
Tilde == 126

------------------------------------------------------------------------------
SkipBlanks(text, i) == RunEnd(text, i, Blanks)

------------------------------------------------------------------------------
\* An operator: its characters, and those that may not follow it.
Op(spelling, apart) == [spelling |-> spelling, apart |-> apart]

\* The binary operators of each level, in the order in which they are tried.
\* A single &, | or * is none if it is doubled; a word is none within a name.
Operators ==
  [logical_or |-> <<Op(<<Bar, Bar>>, {})>>,
   logical_and |-> <<Op(<<Ampersand, Ampersand>>, {})>>,
   bitwise_or |-> <<Op(<<Bar>>, {Bar})>>,
   bitwise_xor |-> <<Op(<<Caret>>, {})>>,
   bitwise_and |-> <<Op(<<Ampersand>>, {Ampersand})>>,
   equality |-> <<Op(<<Equals, Equals>>, {}), Op(<<Not, Equals>>, {}),
                  Op(<<101, 113>>, NameChars), Op(<<110, 101>>, NameChars)>>,
   relational |-> <<Op(<<Less, Equals>>, {}), Op(<<Greater, Equals>>, {}),
                    Op(<<Less>>, {}), Op(<<Greater>>, {}),
                    Op(<<105, 110>>, NameChars), Op(<<110, 105>>, NameChars)>>,
   shift |-> <<Op(<<Less, Less>>, {}), Op(<<Greater, Greater>>, {})>>,
   additive |-> <<Op(<<Plus>>, {}), Op(<<Minus>>, {})>>,
   multiplicative |-> <<Op(<<Star>>, {Star}), Op(<<Slash>>, {}), Op(<<Percent>>, {})>>,
   power |-> <<Op(<<Star, Star>>, {})>>]

\* A mutant of OpMatches: what follows the characters does not matter.
OpMatchesGreedily(text, i, op) ==
  LET end == i + Len(op.spelling)
  IN end <= Len(text) + 1 /\ SubSeq(text, i, end - 1) = op.spelling

OpMatches(text, i, op) ==
  LET end == i + Len(op.spelling)
  IN /\ end <= Len(text) + 1
     /\ SubSeq(text, i, end - 1) = op.spelling
     /\ ~Has(text, end, op.apart)

\* The operator n of a level is the first one that stands at i.
FirstMatches(text, i, level, n) ==
  /\ OpMatches(text, i, Operators[level][n])
  /\ \A m \in 1..(n - 1) : ~OpMatches(text, i, Operators[level][m])

UnaryOperators == {Not, Tilde, Minus, Plus}

------------------------------------------------------------------------------
\* A name with namespace separators: a single colon ends it.
NamespaceEnd(text, i) ==
  LET Doubled(k) == /\ text[k] = Colon
                    /\ \/ k > i /\ text[k - 1] = Colon
                       \/ Has(text, k + 1, {Colon})
  IN FirstIn(text, i, {k \in i..Len(text) : text[k] \notin NameChars /\ ~Doubled(k)})

\* How many are open behind position k when the first, before i, is.
OpenAt(text, i, k, open, close) ==
  1 + Cardinality({j \in i..k : text[j] = open}) - Cardinality({j \in i..k : text[j] = close})

\* The end of a text in parentheses or braces whose contents start at i.
NestedEnd(text, i, open, close) ==
  LET last == FirstIn(text, i, {k \in i..Len(text) : OpenAt(text, i, k, open, close) = 0})
  IN IF last > Len(text) THEN 0 ELSE last + 1

\* expr_parse_variable, for a $ at i.
VariableEnd(text, i) ==
  IF Has(text, i + 1, {OpenBrace})
  THEN LET last == FirstIn(text, i + 2, {k \in (i + 2)..Len(text) : text[k] = CloseBrace})
       IN IF last > Len(text) \/ last = i + 2 THEN 0 ELSE last + 1
  ELSE LET name == NamespaceEnd(text, i + 1)
       IN IF Has(text, name, {OpenParen})
          THEN NestedEnd(text, name + 1, OpenParen, CloseParen)
          ELSE IF name = i + 1 THEN 0 ELSE name

\* expr_parse_number: the prefixes, legacy octal, and decimal numbers.
PrefixDigits(c) ==
  CASE c \in {120, 88} -> HexDigits [] c \in {98, 66} -> 48..49 [] c \in {111, 79} -> 48..55
    [] OTHER -> {}

DecimalEnd(text, i) ==
  LET whole == RunEnd(text, i, Digits)
      point == IF Has(text, whole, {Dot}) THEN RunEnd(text, whole + 1, Digits) ELSE whole
      signed == IF Has(text, point + 1, {Plus, Minus}) THEN point + 2 ELSE point + 1
      exponent == RunEnd(text, signed, Digits)
  IN IF ~Has(text, point, {101, 69}) THEN point
     ELSE IF exponent = signed THEN 0 ELSE exponent

NumberEnd(text, i) ==
  LET zero == text[i] = Zero /\ i < Len(text)
      digits == IF zero THEN PrefixDigits(text[i + 1]) ELSE {}
      prefixed == RunEnd(text, i + 2, digits)
      octal == RunEnd(text, i + 1, Digits)
  IN IF digits # {} THEN IF prefixed = i + 2 THEN 0 ELSE prefixed
     ELSE IF zero /\ octal > i + 1 /\ ~Has(text, octal, {Dot, 101, 69})
     THEN IF \E k \in (i + 1)..(octal - 1) : text[k] >= 56 THEN 0 ELSE octal
     ELSE DecimalEnd(text, i)

------------------------------------------------------------------------------
\* An odd number of backslashes stands before position k.
Escaped(text, i, k) ==
  Cardinality({j \in i..(k - 1) : \A m \in j..(k - 1) : text[m] = Backslash}) % 2 = 1

\* A mutant of QuotedEnd: the end of the text closes it.
QuotedEndUnclosed(text, i) ==
  1 + FirstIn(text, i, {k \in i..Len(text) : text[k] = Quote /\ ~Escaped(text, i, k)})

\* The closing quote of a text in quotes whose contents start at i: the first
\* one that no backslash escapes.
QuotedEnd(text, i) ==
  LET last == FirstIn(text, i, {k \in i..Len(text) : text[k] = Quote /\ ~Escaped(text, i, k)})
  IN IF last > Len(text) THEN 0 ELSE last + 1

\* validator_find_matching_bracket: the scanner's state after each character of
\* the contents, which start at i.
Scanner == [brackets |-> 1, braces |-> 0, quoted |-> FALSE, escaped |-> FALSE]

Scan(s, c) ==
  IF s.escaped THEN [s EXCEPT !.escaped = FALSE]
  ELSE IF c = Backslash THEN [s EXCEPT !.escaped = TRUE]
  ELSE IF c = OpenBrace /\ ~s.quoted THEN [s EXCEPT !.braces = @ + 1]
  ELSE IF c = CloseBrace /\ ~s.quoted /\ s.braces > 0 THEN [s EXCEPT !.braces = @ - 1]
  ELSE IF s.braces > 0 THEN s
  ELSE CASE c = Quote -> [s EXCEPT !.quoted = ~@]
         [] c = OpenBracket -> [s EXCEPT !.brackets = @ + 1]
         [] c = CloseBracket -> [s EXCEPT !.brackets = @ - 1]
         [] OTHER -> s

BracketEnd(text, i) ==
  LET after[k \in (i - 1)..Len(text)] ==
        IF k < i THEN Scanner ELSE Scan(after[k - 1], text[k])
      last == FirstIn(text, i, {k \in i..Len(text) : after[k].brackets = 0})
  IN IF last > Len(text) THEN 0 ELSE last + 1

\* validator_validate_command_substitutions_in_text on the contents from i to
\* last: where the brackets begin that it validates, and whether one is not
\* closed.
QuotedBrackets(text, i, last) ==
  LET contents == SubSeq(text, 1, last)
      from[k \in i..(last + 2)] ==
        IF k > last THEN [starts |-> {}, closed |-> TRUE]
        ELSE IF text[k] = Backslash THEN from[k + 2]
        ELSE IF text[k] # OpenBracket THEN from[k + 1]
        ELSE LET end == BracketEnd(contents, k + 1)
             IN IF end = 0 THEN [starts |-> {}, closed |-> FALSE]
                ELSE [from[end] EXCEPT !.starts = @ \union {k}]
  IN from[i]

------------------------------------------------------------------------------
\* inf, infinity, nan and cmdsubst, and what starts exactly one of the words
\* true, false, yes, no, on and off, in any case.
Constants ==
  {<<105, 110, 102>>, <<105, 110, 102, 105, 110, 105, 116, 121>>, <<110, 97, 110>>,
   <<99, 109, 100, 115, 117, 98, 115, 116>>}
Booleans ==
  {<<116, 114, 117, 101>>, <<102, 97, 108, 115, 101>>, <<121, 101, 115>>, <<110, 111>>,
   <<111, 110>>, <<111, 102, 102>>}

IsConstant(word) ==
  LET lower == [k \in 1..Len(word) |-> IF word[k] \in 65..90 THEN word[k] + 32 ELSE word[k]]
  IN \/ lower \in Constants
     \/ Cardinality({b \in Booleans : Len(b) >= Len(lower)
                                      /\ SubSeq(b, 1, Len(lower)) = lower}) = 1

==============================================================================
