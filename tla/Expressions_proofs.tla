-------------------------- MODULE Expressions_proofs --------------------------
(***************************************************************************)
(* Theorems about the expression validator, for expressions of every       *)
(* length: it reads no character behind the text, its calls are nested no  *)
(* deeper than the text is long, every script in brackets was validated    *)
(* when an expression is accepted, exactly what the grammar without levels *)
(* derives is accepted, and every step reads a character.                  *)
(*                                                                         *)
(* That scripts are validated rests on an invariant of the position: the   *)
(* brackets before it lie in scripts that were validated (Behind).  Three  *)
(* lemmas say what a step may pass: text without a bracket, a script, and  *)
(* a text in quotes whose scripts were all found (QuotedBracketsAre).      *)
(*                                                                         *)
(* The grammar's theorem has two halves.  What was read is the beginning   *)
(* of an expression (Sound), and if the text is an expression its rest can *)
(* be read (Completable).  Both give every call in progress a position:    *)
(* where its expression began, and where it ends (Reaches).  The calls are *)
(* a path down the levels (Chained): a level that can read an operator is  *)
(* always in progress.                                                     *)
(***************************************************************************)
EXTENDS ExprProperties, Texts_proofs

Text == Seq(1..255)

\* A search ends where it begins or behind it, at most behind the last character.
LEMMA FirstInBounds ==
  ASSUME NEW t \in Text, NEW i \in 1..(Len(t) + 1), NEW stops
  PROVE  FirstIn(t, i, stops) \in i..(Len(t) + 1)
BY FirstInIs DEF Text

\* The same for the characters of a class.
LEMMA RunEndBounds ==
  ASSUME NEW t \in Text, NEW i \in 1..(Len(t) + 1), NEW class
  PROVE  RunEnd(t, i, class) \in i..(Len(t) + 1)
BY FirstInBounds DEF RunEnd

\* The end of a text in parentheses or braces.
LEMMA NestedEndBounds ==
  ASSUME NEW t \in Text, NEW i \in 1..(Len(t) + 1), NEW open, NEW close
  PROVE  NestedEnd(t, i, open, close) \in {0} \union (i..(Len(t) + 1))
<1> DEFINE last == FirstIn(t, i, {k \in i..Len(t) : OpenAt(t, i, k, open, close) = 0})
<1>1. last \in i..(Len(t) + 1) /\ Len(t) \in Nat
  BY FirstInBounds DEF Text
<1>2. NestedEnd(t, i, open, close) = IF last > Len(t) THEN 0 ELSE last + 1
  BY DEF NestedEnd
<1> HIDE DEF last
<1> QED
  BY <1>1, <1>2

\* The end of a variable.
LEMMA VariableEndBounds ==
  ASSUME NEW t \in Text, NEW i \in 1..Len(t)
  PROVE  VariableEnd(t, i) \in {0} \union (i..(Len(t) + 1))
<1>1. Len(t) \in Nat
  BY DEF Text
<1>2. CASE Has(t, i + 1, {OpenBrace})
  <2> DEFINE last == FirstIn(t, i + 2, {k \in (i + 2)..Len(t) : t[k] = CloseBrace})
  <2>1. i + 2 \in 1..(Len(t) + 1)
    BY <1>1, <1>2 DEF Has
  <2>2. last \in (i + 2)..(Len(t) + 1)
    BY <2>1, FirstInBounds
  <2>3. VariableEnd(t, i) = IF last > Len(t) \/ last = i + 2 THEN 0 ELSE last + 1
    BY <1>2 DEF VariableEnd
  <2> HIDE DEF last
  <2> QED
    BY <1>1, <2>2, <2>3
<1>3. CASE ~Has(t, i + 1, {OpenBrace})
  <2> DEFINE name == NamespaceEnd(t, i + 1)
             nested == NestedEnd(t, name + 1, OpenParen, CloseParen)
  <2>1. name \in (i + 1)..(Len(t) + 1)
    BY <1>1, FirstInBounds DEF NamespaceEnd
  <2>2. VariableEnd(t, i) = IF Has(t, name, {OpenParen}) THEN nested
                            ELSE IF name = i + 1 THEN 0 ELSE name
    BY <1>3 DEF VariableEnd
  <2>3. Has(t, name, {OpenParen}) => nested \in {0} \union ((name + 1)..(Len(t) + 1))
    <3> SUFFICES ASSUME Has(t, name, {OpenParen})
                 PROVE  nested \in {0} \union ((name + 1)..(Len(t) + 1))
      OBVIOUS
    <3>1. name + 1 \in 1..(Len(t) + 1)
      BY <1>1, <2>1 DEF Has
    <3> QED
      BY <3>1, NestedEndBounds
  <2> HIDE DEF name, nested
  <2> QED
    BY <1>1, <2>1, <2>2, <2>3
<1> QED
  BY <1>2, <1>3

\* The end of a decimal number.
LEMMA DecimalEndBounds ==
  ASSUME NEW t \in Text, NEW i \in 1..Len(t)
  PROVE  DecimalEnd(t, i) \in {0} \union (i..(Len(t) + 1))
<1> DEFINE whole == RunEnd(t, i, Digits)
           point == IF Has(t, whole, {Dot}) THEN RunEnd(t, whole + 1, Digits) ELSE whole
           signed == IF Has(t, point + 1, {Plus, Minus}) THEN point + 2 ELSE point + 1
           exponent == RunEnd(t, signed, Digits)
<1>1. Len(t) \in Nat
  BY DEF Text
<1>2. whole \in i..(Len(t) + 1)
  BY <1>1, RunEndBounds
<1>3. point \in i..(Len(t) + 1)
  <2>1. ASSUME Has(t, whole, {Dot})
        PROVE  RunEnd(t, whole + 1, Digits) \in i..(Len(t) + 1)
    <3>1. whole + 1 \in 1..(Len(t) + 1)
      BY <1>1, <1>2, <2>1 DEF Has
    <3>2. RunEnd(t, whole + 1, Digits) \in (whole + 1)..(Len(t) + 1)
      BY <3>1, RunEndBounds
    <3> QED
      BY <1>1, <1>2, <3>2
  <2> QED
    BY <1>2, <2>1
<1>4. DecimalEnd(t, i) = IF ~Has(t, point, {101, 69}) THEN point
                         ELSE IF exponent = signed THEN 0 ELSE exponent
  BY DEF DecimalEnd
<1>5. ASSUME Has(t, point, {101, 69})
      PROVE  exponent \in i..(Len(t) + 1)
  <2>1. signed \in i..(Len(t) + 1)
    BY <1>1, <1>3, <1>5 DEF Has
  <2>2. signed \in 1..(Len(t) + 1)
    BY <1>1, <2>1
  <2>3. exponent \in signed..(Len(t) + 1)
    BY <2>2, RunEndBounds
  <2> HIDE DEF signed, exponent
  <2> QED
    BY <1>1, <2>1, <2>3
<1> HIDE DEF point, exponent, signed
<1> QED
  BY <1>1, <1>3, <1>4, <1>5

\* The end of a number.
LEMMA NumberEndBounds ==
  ASSUME NEW t \in Text, NEW i \in 1..Len(t)
  PROVE  NumberEnd(t, i) \in {0} \union (i..(Len(t) + 1))
<1> DEFINE zero == t[i] = Zero /\ i < Len(t)
           digits == IF zero THEN PrefixDigits(t[i + 1]) ELSE {}
           prefixed == RunEnd(t, i + 2, digits)
           octal == RunEnd(t, i + 1, Digits)
           legacy == zero /\ octal > i + 1 /\ ~Has(t, octal, {Dot, 101, 69})
           wrong == \E k \in (i + 1)..(octal - 1) : t[k] >= 56
<1>1. Len(t) \in Nat
  BY DEF Text
<1>2. octal \in i..(Len(t) + 1)
  <2>1. i + 1 \in 1..(Len(t) + 1)
    BY <1>1
  <2>2. octal \in (i + 1)..(Len(t) + 1)
    BY <2>1, RunEndBounds
  <2> HIDE DEF octal
  <2> QED
    BY <1>1, <2>2
<1>3. ASSUME digits # {}
      PROVE  prefixed \in i..(Len(t) + 1)
  <2>1. i + 2 \in 1..(Len(t) + 1)
    BY <1>1, <1>3
  <2>2. prefixed \in (i + 2)..(Len(t) + 1)
    BY <2>1, RunEndBounds
  <2> HIDE DEF prefixed
  <2> QED
    BY <1>1, <2>2
<1>4. NumberEnd(t, i) = IF digits # {} THEN IF prefixed = i + 2 THEN 0 ELSE prefixed
                        ELSE IF legacy THEN IF wrong THEN 0 ELSE octal
                        ELSE DecimalEnd(t, i)
  BY DEF NumberEnd
<1>5. DecimalEnd(t, i) \in {0} \union (i..(Len(t) + 1))
  BY DecimalEndBounds
<1> HIDE DEF digits, prefixed, octal, legacy, wrong
<1> QED
  BY <1>2, <1>3, <1>4, <1>5

\* The end of a text in quotes, or in brackets.
LEMMA QuotedEndBounds ==
  ASSUME NEW t \in Text, NEW i \in 1..(Len(t) + 1)
  PROVE  QuotedEnd(t, i) \in {0} \union (i..(Len(t) + 1))
<1> DEFINE last == FirstIn(t, i, {k \in i..Len(t) : t[k] = Quote /\ ~Escaped(t, i, k)})
<1>1. last \in i..(Len(t) + 1) /\ Len(t) \in Nat
  BY FirstInBounds DEF Text
<1>2. QuotedEnd(t, i) = IF last > Len(t) THEN 0 ELSE last + 1
  BY DEF QuotedEnd
<1> HIDE DEF last
<1> QED
  BY <1>1, <1>2

\* The same in brackets, whatever the scanner makes of the text.
LEMMA BracketEndBounds ==
  ASSUME NEW t \in Text, NEW i \in 1..(Len(t) + 1)
  PROVE  BracketEnd(t, i) \in {0} \union (i..(Len(t) + 1))
<1> DEFINE after == CHOOSE f : f = [k \in (i - 1)..Len(t) |->
                                      IF k < i THEN Scanner ELSE Scan(f[k - 1], t[k])]
           last == FirstIn(t, i, {k \in i..Len(t) : after[k].brackets = 0})
<1>1. last \in i..(Len(t) + 1) /\ Len(t) \in Nat
  BY FirstInBounds DEF Text
<1>2. BracketEnd(t, i) = IF last > Len(t) THEN 0 ELSE last + 1
  BY Zenon DEF BracketEnd
<1> HIDE DEF last
<1> QED
  BY <1>1, <1>2

------------------------------------------------------------------------------
\* The levels are frames, and there are eleven of them below the conditional.
LEMMA LevelsAreFrames ==
  /\ Levels \in Seq(Frames) /\ Len(Levels) = 11
  /\ Expression \in Seq(Frames) /\ Len(Expression) = 12
  /\ {"then", "else", "unary", "power_rest", "paren", "call", "ternary", "power"} \subseteq Frames
<1>1. Levels \in Seq(Frames) /\ Len(Levels) = 11
  BY DEF Levels, Frames
<1> DEFINE first == <<"ternary">>
<1>2. first \in Seq(Frames) /\ Len(first) = 1
  BY DEF Frames
<1>3. Expression = first \o Levels
  BY DEF Expression
<1> HIDE DEF first
<1>4. first \o Levels \in Seq(Frames) /\ Len(first \o Levels) = Len(first) + Len(Levels)
  BY Zenon, <1>1, <1>2, ConcatProperties
<1>5. Expression \in Seq(Frames) /\ Len(Expression) = 12
  BY <1>1, <1>2, <1>3, <1>4
<1> QED
  BY <1>1, <1>5 DEF Frames

\* A level calls fewer than eleven others for its operand.
LEMMA BelowIsShort ==
  ASSUME NEW k \in 1..Len(Levels)
  PROVE  Below(Levels[k]) \in Seq(Frames) /\ Len(Below(Levels[k])) <= 10
<1> DEFINE c == CHOOSE n \in 1..Len(Levels) : Levels[n] = Levels[k]
<1>1. c \in 1..11
  BY LevelsAreFrames
<1>2. Below(Levels[k]) = SubSeq(Levels, 1 + c, 11)
  BY LevelsAreFrames DEF Below
<1> HIDE DEF c
<1>3. \A i \in 1..Len(Levels) : Levels[i] \in Frames
  BY LevelsAreFrames, ElementOfSeq
<1>4. \A i \in (1 + c)..11 : Levels[i] \in Frames
  BY <1>1, <1>3, LevelsAreFrames
<1> QED
  BY <1>1, <1>2, <1>4, SubSeqProperties

\* Every operator has characters.
LEMMA OperatorsAreSpelled ==
  ASSUME NEW n \in 1..Len(Levels), NEW k \in 1..Len(Operators[Levels[n]])
  PROVE  Len(Operators[Levels[n]][k].spelling) \in 1..2
<1> DEFINE level == Levels[n]
<1>1. level \in Frames /\ level \notin {"ternary", "then", "else", "power_rest", "unary", "paren", "call"}
  BY DEF Levels, Frames
<1>2. CASE level = "logical_or"
  BY <1>2 DEF Operators, Op
<1>3. CASE level = "logical_and"
  BY <1>3 DEF Operators, Op
<1>4. CASE level = "bitwise_or"
  BY <1>4 DEF Operators, Op
<1>5. CASE level = "bitwise_xor"
  BY <1>5 DEF Operators, Op
<1>6. CASE level = "bitwise_and"
  BY <1>6 DEF Operators, Op
<1>7. CASE level = "equality"
  BY <1>7 DEF Operators, Op
<1>8. CASE level = "relational"
  BY <1>8 DEF Operators, Op
<1>9. CASE level = "shift"
  BY <1>9 DEF Operators, Op
<1>10. CASE level = "additive"
  BY <1>10 DEF Operators, Op
<1>11. CASE level = "multiplicative"
  BY <1>11 DEF Operators, Op
<1>12. CASE level = "power"
  BY <1>12 DEF Operators, Op
<1> QED
  BY <1>1, <1>2, <1>3, <1>4, <1>5, <1>6, <1>7, <1>8, <1>9, <1>10, <1>11, <1>12 DEF Frames

------------------------------------------------------------------------------
\* The inductive invariant: the position is in the text, and every call in
\* progress beyond the first descent was paid for with a character.
IInv ==
  /\ text \in Text
  /\ index \in 1..(Len(text) + 1)
  /\ stack \in Seq(Frames)
  /\ DepthFollowsText

\* A step that reads up to a later position and leaves at most a descent more
\* per character keeps it.
LEMMA GoOnKeeps ==
  ASSUME IInv, NEW position, NEW calls \in Seq(Frames), NEW newMode,
         GoOn(position, calls, newMode),
         position \in index..(Len(text) + 1),
         Len(calls) <= Len(stack) + 13 * (position - index)
  PROVE  IInv'
<1>1. text' = text /\ index' = position /\ stack' = calls
  BY DEF GoOn
<1>2. Len(text) \in Nat /\ index \in 1..(Len(text) + 1) /\ Len(stack) \in Nat /\ Len(calls) \in Nat
  BY DEF IInv, Text
<1>3. Len(Expression) = 12
  BY LevelsAreFrames
<1>4. Len(stack) <= 12 + 13 * (index - 1)
  BY <1>3 DEF IInv, DepthFollowsText
<1>5. Len(calls) <= 12 + 13 * (position - 1) /\ position \in 1..(Len(text) + 1)
  BY <1>2, <1>4
<1>6. DepthFollowsText'
  BY <1>1, <1>3, <1>5 DEF DepthFollowsText, Expression, Levels
<1> QED
  BY <1>1, <1>5, <1>6 DEF IInv

\* Where the step looks: at or behind the position.
LEMMA HereBounds ==
  ASSUME IInv
  PROVE  /\ Here \in index..(Len(text) + 1)
         /\ Here \in 1..(Len(text) + 1)
         /\ \A class : At(class) => Here \in 1..Len(text)
<1>1. Here \in index..(Len(text) + 1)
  BY RunEndBounds DEF IInv, Here, SkipBlanks
<1> QED
  BY <1>1 DEF IInv, Text, At, Has

\* Reading a literal keeps the invariant.
LEMMA LiteralKeeps ==
  ASSUME IInv, NEW end, end \in {0} \union (index..(Len(text) + 1)), Literal(end)
  PROVE  IInv'
<1>1. Len(stack) \in Nat /\ stack \in Seq(Frames) /\ index \in Int /\ Len(text) \in Nat
  BY DEF IInv, Text
<1>2. CASE end = 0
  <2>1. GoOn(Here, stack, "refused")
    BY <1>2 DEF Literal
  <2>2. Here \in index..(Len(text) + 1)
    BY HereBounds
  <2>3. Len(stack) <= Len(stack) + 13 * (Here - index)
    BY <1>1, <2>2
  <2> QED
    BY Zenon, <1>1, <2>1, <2>2, <2>3, GoOnKeeps
<1>3. CASE end # 0
  <2>1. GoOn(end, stack, "after")
    BY <1>3 DEF Literal
  <2>2. end \in index..(Len(text) + 1)
    BY <1>3
  <2>3. Len(stack) <= Len(stack) + 13 * (end - index)
    BY <1>1, <2>2
  <2> QED
    BY Zenon, <1>1, <2>1, <2>2, <2>3, GoOnKeeps
<1> QED
  BY <1>2, <1>3

\* The calls around call n, and those with a call added.
LEMMA AroundShortens ==
  ASSUME IInv, NEW n \in 1..Len(stack)
  PROVE  Around(n) \in Seq(Frames) /\ Len(Around(n)) = n - 1
<1>1. Len(stack) \in Nat /\ stack \in Seq(Frames)
  BY DEF IInv
<1>2. \A i \in 1..Len(stack) : stack[i] \in Frames
  BY <1>1, ElementOfSeq
<1>3. \A i \in 1..(n - 1) : stack[i] \in Frames
  BY <1>1, <1>2
<1> QED
  BY <1>1, <1>3, SubSeqProperties DEF Around

\* A whole descent in a new call.
LEMMA NewDescent ==
  ASSUME NEW calls \in Seq(Frames), NEW call \in Frames
  PROVE  /\ Append(calls, call) \in Seq(Frames)
         /\ Append(calls, call) \o Expression \in Seq(Frames)
         /\ Len(Append(calls, call)) = Len(calls) + 1
         /\ Len(Append(calls, call) \o Expression) = Len(calls) + 13
<1>1. Append(calls, call) \in Seq(Frames) /\ Len(Append(calls, call)) = Len(calls) + 1
  BY AppendProperties
<1>2. /\ Append(calls, call) \o Expression \in Seq(Frames)
      /\ Len(Append(calls, call) \o Expression) = Len(Append(calls, call)) + Len(Expression)
  BY Zenon, <1>1, LevelsAreFrames, ConcatProperties
<1> QED
  BY <1>1, <1>2, LevelsAreFrames

------------------------------------------------------------------------------
\* The invariant holds at the start.
LEMMA InitIInv == Init => IInv
<1> SUFFICES ASSUME Init PROVE IInv
  OBVIOUS
<1>1. text \in Text /\ Len(text) \in Nat
  BY TextsAssumption DEF Init, Text
<1>2. stack \in Seq(Frames) /\ Len(stack) = Len(Expression) /\ index = 1
  BY LevelsAreFrames DEF Init
<1>3. DepthFollowsText
  BY <1>2, LevelsAreFrames DEF DepthFollowsText
<1> QED
  BY <1>1, <1>2, <1>3 DEF IInv

\* One step of the descent: one character, and at most one new descent.
LEMMA DescendKeeps ==
  ASSUME IInv, At({Question, OpenParen, CloseParen, Colon, Comma} \union UnaryOperators),
         NEW calls \in Seq(Frames), Len(calls) <= Len(stack) + 13,
         NEW newMode, GoOn(Here + 1, calls, newMode)
  PROVE  IInv'
<1>1. Here \in 1..Len(text) /\ Here \in index..(Len(text) + 1)
  BY HereBounds
<1>2. index \in Int /\ Len(text) \in Nat /\ Len(stack) \in Nat /\ Len(calls) \in Nat
  BY DEF IInv, Text
<1> DEFINE next == Here + 1
<1>3. next \in index..(Len(text) + 1) /\ Len(calls) <= Len(stack) + 13 * (next - index)
  BY <1>1, <1>2
<1>4. GoOn(next, calls, newMode)
  OBVIOUS
<1> HIDE DEF next
<1> QED
  BY Zenon, <1>3, <1>4, GoOnKeeps

\* The operands.
LEMMA OperandKeeps ==
  ASSUME IInv,
         Unary \/ Parenthesis \/ Variable \/ Braced \/ Number \/ Bracket \/ Quoted
         \/ Constant \/ Call \/ NoOperand
  PROVE  IInv'
<1>1. /\ text \in Text /\ Len(text) \in Nat /\ index \in 1..(Len(text) + 1)
      /\ stack \in Seq(Frames) /\ Len(stack) \in Nat
  BY DEF IInv, Text
<1>2. /\ Here \in index..(Len(text) + 1)
      /\ Here \in 1..(Len(text) + 1)
      /\ \A class : At(class) => Here \in 1..Len(text)
  BY HereBounds
<1>3. \A class : Starts(class) => OperandAt \in 1..Len(text) /\ OperandAt \in Here..Len(text)
  BY <1>1, <1>2 DEF Starts, OperandAt, Has, Prefixed
<1>4. 0 \in {0} \union (index..(Len(text) + 1))
  OBVIOUS
<1>5. \A e, i : i \in index..(Len(text) + 1) /\ e \in {0} \union (i..(Len(text) + 1))
                => e \in {0} \union (index..(Len(text) + 1))
  BY <1>1
<1>6. ASSUME Unary PROVE IInv'
  <2>1. /\ Append(stack, "unary") \in Seq(Frames)
        /\ Len(Append(stack, "unary")) = Len(stack) + 1
    BY <1>1, LevelsAreFrames, NewDescent
  <2>2. Len(Append(stack, "unary")) <= Len(stack) + 13
    BY <1>1, <2>1
  <2>3. At({Question, OpenParen, CloseParen, Colon, Comma} \union UnaryOperators)
    BY <1>6 DEF Unary, At, Has
  <2> QED
    BY Zenon, <1>6, <2>1, <2>2, <2>3, DescendKeeps DEF Unary
<1>7. ASSUME Parenthesis PROVE IInv'
  <2> DEFINE calls == Append(stack, "paren") \o Expression
  <2>1. calls \in Seq(Frames) /\ Len(calls) = Len(stack) + 13
    BY <1>1, LevelsAreFrames, NewDescent
  <2>2. GoOn(Here + 1, calls, "operand")
    BY <1>7 DEF Parenthesis
  <2> HIDE DEF calls
  <2>3. Len(calls) <= Len(stack) + 13
    BY <1>1, <2>1
  <2>4. At({Question, OpenParen, CloseParen, Colon, Comma} \union UnaryOperators)
    BY <1>7 DEF Parenthesis, At, Has
  <2> QED
    BY Zenon, <2>1, <2>2, <2>3, <2>4, DescendKeeps
<1>8. ASSUME Variable PROVE IInv'
  <2> DEFINE end == VariableEnd(text, OperandAt)
  <2>1. OperandAt \in 1..Len(text) /\ OperandAt \in index..(Len(text) + 1)
    BY <1>1, <1>2, <1>3, <1>8 DEF Variable
  <2>2. end \in {0} \union (OperandAt..(Len(text) + 1))
    BY <1>1, <2>1, VariableEndBounds
  <2>3. Literal(end)
    BY <1>8 DEF Variable
  <2> HIDE DEF end
  <2> QED
    BY Zenon, <1>5, <2>1, <2>2, <2>3, LiteralKeeps
<1>9. ASSUME Braced PROVE IInv'
  <2> DEFINE end == NestedEnd(text, Here + 1, OpenBrace, CloseBrace)
  <2>1. Here + 1 \in 1..(Len(text) + 1) /\ Here + 1 \in index..(Len(text) + 1)
    BY <1>1, <1>2, <1>9 DEF Braced
  <2>2. end \in {0} \union ((Here + 1)..(Len(text) + 1))
    BY <1>1, <2>1, NestedEndBounds
  <2>3. Literal(end)
    BY <1>9 DEF Braced
  <2> HIDE DEF end
  <2> QED
    BY Zenon, <1>5, <2>1, <2>2, <2>3, LiteralKeeps
<1>10. ASSUME Number PROVE IInv'
  <2> DEFINE end == NumberEnd(text, Here)
  <2>1. Here \in 1..Len(text)
    BY <1>2, <1>10 DEF Number
  <2>2. end \in {0} \union (Here..(Len(text) + 1))
    BY <1>1, <2>1, NumberEndBounds
  <2>3. Literal(end)
    BY <1>10 DEF Number
  <2> HIDE DEF end
  <2> QED
    BY Zenon, <1>2, <1>5, <2>1, <2>2, <2>3, LiteralKeeps
<1>11. ASSUME Bracket PROVE IInv'
  <2> DEFINE end == BracketEnd(text, OperandAt + 1)
  <2>1. OperandAt + 1 \in 1..(Len(text) + 1) /\ OperandAt + 1 \in index..(Len(text) + 1)
    BY <1>1, <1>2, <1>3, <1>11 DEF Bracket
  <2>2. end \in {0} \union ((OperandAt + 1)..(Len(text) + 1))
    BY <1>1, <2>1, BracketEndBounds
  <2>3. Literal(0) \/ (end # 0 /\ GoOn(end, stack, "after")) \/ GoOn(Here, stack, "nested")
    BY <1>11 DEF Bracket
  <2> HIDE DEF end
  <2>4. end # 0 => end \in index..(Len(text) + 1)
    BY <1>5, <2>1, <2>2
  <2>5. \A e \in index..(Len(text) + 1) : Len(stack) <= Len(stack) + 13 * (e - index)
    BY <1>1
  <2> QED
    BY Zenon, <1>1, <1>2, <1>4, <2>3, <2>4, <2>5, LiteralKeeps, GoOnKeeps
<1>12. ASSUME Quoted PROVE IInv'
  <2> DEFINE end == QuotedEnd(text, Here + 1)
  <2>1. Here + 1 \in 1..(Len(text) + 1) /\ Here + 1 \in index..(Len(text) + 1)
    BY <1>1, <1>2, <1>12 DEF Quoted
  <2>2. end \in {0} \union ((Here + 1)..(Len(text) + 1))
    BY <1>1, <2>1, QuotedEndBounds
  <2>3. Literal(0) \/ (end # 0 /\ GoOn(end, stack, "after")) \/ GoOn(Here, stack, "nested")
    BY <1>12 DEF Quoted
  <2> HIDE DEF end
  <2>4. end # 0 => end \in index..(Len(text) + 1)
    BY <1>5, <2>1, <2>2
  <2>5. \A e \in index..(Len(text) + 1) : Len(stack) <= Len(stack) + 13 * (e - index)
    BY <1>1
  <2> QED
    BY Zenon, <1>1, <1>2, <1>4, <2>3, <2>4, <2>5, LiteralKeeps, GoOnKeeps
<1>13. ASSUME Constant PROVE IInv'
  <2> DEFINE end == IF IsConstant(SubSeq(text, Here, NameEnd - 1)) THEN NameEnd ELSE 0
  <2>1. NameEnd \in Here..(Len(text) + 1)
    BY <1>1, <1>2, RunEndBounds DEF NameEnd
  <2>2. end \in {0} \union (Here..(Len(text) + 1))
    BY <2>1
  <2>3. Literal(end)
    BY <1>13 DEF Constant
  <2> HIDE DEF end
  <2> QED
    BY Zenon, <1>2, <1>5, <2>2, <2>3, LiteralKeeps
<1>14. ASSUME Call PROVE IInv'
  <2> DEFINE open == SkipBlanks(text, NameEnd)
             arguments == SkipBlanks(text, open + 1)
             calls == Append(stack, "call") \o Expression
  <2>1. NameEnd \in Here..(Len(text) + 1)
    BY <1>1, <1>2, RunEndBounds DEF NameEnd
  <2>2. open \in NameEnd..(Len(text) + 1)
    BY <1>1, <1>2, <2>1, RunEndBounds DEF SkipBlanks
  <2>3. open <= Len(text)
    BY <1>14 DEF Call, Calls, Has
  <2>4. open + 1 \in 1..(Len(text) + 1)
    BY <1>1, <1>2, <2>1, <2>2, <2>3
  <2>5. arguments \in (open + 1)..(Len(text) + 1)
    BY <1>1, <2>4, RunEndBounds DEF SkipBlanks
  <2>6. calls \in Seq(Frames) /\ Len(calls) = Len(stack) + 13
    BY <1>1, LevelsAreFrames, NewDescent
  <2>7. \/ Has(text, arguments, {CloseParen}) /\ GoOn(arguments + 1, stack, "after")
        \/ GoOn(arguments, calls, "operand")
    BY Zenon, <1>14 DEF Call
  <2> HIDE DEF open, arguments, calls
  <2>8. arguments \in index..(Len(text) + 1) /\ Len(calls) <= Len(stack) + 13 * (arguments - index)
    BY <1>1, <1>2, <2>1, <2>2, <2>5, <2>6
  <2> DEFINE behind == arguments + 1
  <2>9. ASSUME Has(text, arguments, {CloseParen})
        PROVE  behind \in index..(Len(text) + 1) /\ Len(stack) <= Len(stack) + 13 * (behind - index)
    BY <1>1, <2>8, <2>9 DEF Has
  <2>10. \/ Has(text, arguments, {CloseParen}) /\ GoOn(behind, stack, "after")
         \/ GoOn(arguments, calls, "operand")
    BY <2>7
  <2> HIDE DEF behind
  <2> QED
    BY Zenon, <1>1, <2>6, <2>8, <2>9, <2>10, GoOnKeeps
<1>15. ASSUME NoOperand PROVE IInv'
  <2>1. Literal(0)
    BY <1>15 DEF NoOperand
  <2> QED
    BY Zenon, <1>4, <2>1, LiteralKeeps
<1> QED
  BY Zenon, <1>6, <1>7, <1>8, <1>9, <1>10, <1>11, <1>12, <1>13, <1>14, <1>15

\* Behind an operand.
LEMMA ReturnKeeps ==
  ASSUME IInv, NEW n \in 1..Len(stack),
         \/ \E k \in 1..Len(Levels) : Operator(Levels[k], n)
         \/ Condition(n) \/ Otherwise(n) \/ CloseParenthesis(n) \/ Argument(n) \/ Expected(n)
  PROVE  IInv'
<1>1. /\ text \in Text /\ Len(text) \in Nat /\ index \in 1..(Len(text) + 1)
      /\ stack \in Seq(Frames) /\ Len(stack) \in Nat
  BY DEF IInv, Text
<1>2. /\ Here \in index..(Len(text) + 1)
      /\ Here \in 1..(Len(text) + 1)
  BY HereBounds
<1>3. Around(n) \in Seq(Frames) /\ Len(Around(n)) = n - 1
  BY AroundShortens
<1>4. ASSUME NEW call \in {"then", "else", "call"}
      PROVE  /\ Append(Around(n), call) \o Expression \in Seq(Frames)
             /\ Len(Append(Around(n), call) \o Expression) <= Len(stack) + 13
  <2>1. call \in Frames
    BY LevelsAreFrames
  <2>2. /\ Append(Around(n), call) \o Expression \in Seq(Frames)
        /\ Len(Append(Around(n), call) \o Expression) = Len(Around(n)) + 13
    BY Zenon, <1>3, <2>1, NewDescent
  <2> QED
    BY <1>1, <1>3, <2>2
<1>5. ASSUME NEW k \in 1..Len(Levels), Operator(Levels[k], n) PROVE IInv'
  <2> DEFINE level == Levels[k]
             rest == IF level = "power" THEN <<"power_rest", "power">>
                     ELSE <<level>> \o Below(level)
             calls == Around(n) \o rest
  <2>1. PICK o \in 1..Len(Operators[level]) :
               /\ FirstMatches(text, Here, level, o)
               /\ GoOn(Here + Len(Operators[level][o].spelling), calls, "operand")
    BY Zenon, <1>5 DEF Operator
  <2> DEFINE size == Len(Operators[level][o].spelling)
             end == Here + size
  <2>2. size \in 1..2
    BY OperatorsAreSpelled
  <2>3. end <= Len(text) + 1
    BY <2>1 DEF FirstMatches, OpMatches
  <2>4. end \in (index + 1)..(Len(text) + 1)
    <3> HIDE DEF size
    <3> QED
      BY <1>1, <1>2, <2>2, <2>3
  <2>5. rest \in Seq(Frames) /\ Len(rest) <= 11
    <3>1. CASE level = "power"
      BY <3>1, LevelsAreFrames
    <3>2. CASE level # "power"
      <4> DEFINE below == Below(level)
                 own == <<level>>
      <4>1. below \in Seq(Frames) /\ Len(below) <= 10 /\ Len(below) \in Nat
        BY BelowIsShort
      <4>2. level \in Frames
        BY LevelsAreFrames, ElementOfSeq
      <4>3. own \in Seq(Frames) /\ Len(own) = 1
        BY <4>2
      <4>4. rest = own \o below
        BY <3>2
      <4> HIDE DEF below, own, rest
      <4>5. own \o below \in Seq(Frames) /\ Len(own \o below) = Len(own) + Len(below)
        BY Zenon, <4>1, <4>3, ConcatProperties
      <4> QED
        BY <4>1, <4>3, <4>4, <4>5
    <3> QED
      BY <3>1, <3>2
  <2>6. GoOn(end, calls, "operand")
    BY <2>1
  <2> HIDE DEF rest, end
  <2>7. calls \in Seq(Frames) /\ Len(calls) = Len(Around(n)) + Len(rest)
    BY Zenon, <1>3, <2>5, ConcatProperties
  <2>8. end \in index..(Len(text) + 1) /\ Len(calls) <= Len(stack) + 13 * (end - index)
    <3>1. Len(rest) \in Nat
      BY <2>5
    <3> HIDE DEF calls
    <3> QED
      BY <1>1, <1>3, <2>4, <2>5, <2>7, <3>1
  <2> HIDE DEF calls
  <2> QED
    BY Zenon, <2>6, <2>7, <2>8, GoOnKeeps
<1>6. At({Question}) \/ At({Colon}) \/ At({CloseParen}) \/ At({Comma})
      => At({Question, OpenParen, CloseParen, Colon, Comma} \union UnaryOperators)
  BY DEF At, Has
<1>7. ASSUME Condition(n) PROVE IInv'
  <2>1. At({Question})
    BY <1>7 DEF Condition, Resumes, GoesOn
  <2> QED
    BY Zenon, <1>4, <1>6, <1>7, <2>1, DescendKeeps DEF Condition
<1>8. ASSUME Otherwise(n) PROVE IInv'
  BY Zenon, <1>4, <1>6, <1>8, DescendKeeps DEF Otherwise
<1>9. ASSUME CloseParenthesis(n) PROVE IInv'
  <2>1. Len(Around(n)) <= Len(stack) + 13
    BY <1>1, <1>3
  <2> QED
    BY Zenon, <1>3, <1>6, <1>9, <2>1, DescendKeeps DEF CloseParenthesis
<1>10. ASSUME Argument(n) PROVE IInv'
  BY Zenon, <1>4, <1>6, <1>10, DescendKeeps DEF Argument
<1>11. ASSUME Expected(n) PROVE IInv'
  <2>1. Len(stack) <= Len(stack) + 13 * (Here - index)
    BY <1>1, <1>2
  <2> QED
    BY Zenon, <1>1, <1>2, <1>11, <2>1, GoOnKeeps DEF Expected
<1> QED
  BY Zenon, <1>5, <1>7, <1>8, <1>9, <1>10, <1>11

\* The descent is over: nothing waits any more.
LEMMA EndKeeps ==
  ASSUME IInv, Ends
  PROVE  IInv'
<1> DEFINE none == <<>>
           outcome == IF Here > Len(text) THEN "accepted" ELSE "refused"
<1>1. none \in Seq(Frames) /\ Len(none) = 0
  BY DEF Frames
<1>2. Here \in index..(Len(text) + 1)
  BY HereBounds
<1>3. Len(stack) \in Nat /\ index \in Int /\ Len(text) \in Nat
  BY DEF IInv, Text
<1>4. GoOn(Here, none, outcome)
  BY DEF Ends
<1> HIDE DEF none, outcome
<1>5. Len(none) <= Len(stack) + 13 * (Here - index)
  BY <1>1, <1>2, <1>3
<1> QED
  BY Zenon, <1>1, <1>2, <1>4, <1>5, GoOnKeeps

\* Every step keeps the invariant.
LEMMA StepKeepsIInv == IInv /\ [Next]_vars => IInv'
<1> SUFFICES ASSUME IInv, [Next]_vars PROVE IInv'
  OBVIOUS
<1>1. ASSUME UNCHANGED vars PROVE IInv'
  BY <1>1 DEF vars, IInv, DepthFollowsText
<1>2. ASSUME Next PROVE IInv'
  <2>1. Done => IInv'
    BY <1>1 DEF Done
  <2> QED
    BY Zenon, <1>2, <2>1, OperandKeeps, ReturnKeeps, EndKeeps DEF Next
<1> QED
  BY <1>1, <1>2

------------------------------------------------------------------------------
\* The validator never reads a character behind the end of an expression: its
\* position is always in the text or directly behind it (expr.c:18-542).
THEOREM PositionIsInText == Spec => [](index \in 1..(Len(text) + 1))
<1>1. IInv => index \in 1..(Len(text) + 1)
  BY DEF IInv
<1> QED
  BY <1>1, InitIInv, StepKeepsIInv, PTL DEF Spec

\* The C calls in progress are bounded by the characters read: recursion
\* without end is impossible, whatever the expression (expr.c:545-873).
THEOREM DepthIsBounded == Spec => []DepthFollowsText
<1>1. IInv => DepthFollowsText
  BY DEF IInv
<1> QED
  BY <1>1, InitIInv, StepKeepsIInv, PTL DEF Spec

------------------------------------------------------------------------------
\* The states of the scanner for brackets, with counters in A and marks in B.
StatesOver(A, B) == [brackets : A, braces : A, quoted : B, escaped : B]
ScanStates == StatesOver(Int, BOOLEAN)

\* One field of the state may change.
LEMMA FieldsChange ==
  ASSUME NEW A, NEW B, NEW s \in StatesOver(A, B), NEW x \in A, NEW y \in B
  PROVE  /\ s.brackets \in A /\ s.braces \in A /\ s.quoted \in B
         /\ [s EXCEPT !.brackets = x] \in StatesOver(A, B)
         /\ [s EXCEPT !.braces = x] \in StatesOver(A, B)
         /\ [s EXCEPT !.quoted = y] \in StatesOver(A, B)
         /\ [s EXCEPT !.escaped = y] \in StatesOver(A, B)
BY DEF StatesOver

\* The state before the first character is one of them.
LEMMA ScannerType == Scanner \in ScanStates
<1>1. \A B : \A y \in B : [brackets |-> 1, braces |-> 0, quoted |-> y, escaped |-> y] \in StatesOver(Int, B)
  BY DEF StatesOver
<1> QED
  BY Zenon, <1>1 DEF Scanner, ScanStates

\* The scanner stays in them.
LEMMA ScanType ==
  ASSUME NEW s \in ScanStates, NEW c
  PROVE  Scan(s, c) \in ScanStates
<1>0. 0 \in Int /\ TRUE \in BOOLEAN /\ FALSE \in BOOLEAN
  OBVIOUS
<1>1. s.brackets \in Int /\ s.braces \in Int /\ s.quoted \in BOOLEAN
  BY Zenon, <1>0, FieldsChange DEF ScanStates
<1>2. \A x \in Int, y \in BOOLEAN :
         /\ [s EXCEPT !.brackets = x] \in ScanStates
         /\ [s EXCEPT !.braces = x] \in ScanStates
         /\ [s EXCEPT !.quoted = y] \in ScanStates
         /\ [s EXCEPT !.escaped = y] \in ScanStates
  BY Zenon, FieldsChange DEF ScanStates
<1>3. /\ s.brackets + 1 \in Int /\ s.brackets - 1 \in Int
      /\ s.braces + 1 \in Int /\ s.braces - 1 \in Int
  BY <1>1
<1>4. (~s.quoted) \in BOOLEAN
  OBVIOUS
<1> DEFINE quote == [s EXCEPT !.quoted = ~s.quoted]
           opened == [s EXCEPT !.brackets = s.brackets + 1]
           closed == [s EXCEPT !.brackets = s.brackets - 1]
           deeper == [s EXCEPT !.braces = s.braces + 1]
           higher == [s EXCEPT !.braces = s.braces - 1]
           apart == [s EXCEPT !.escaped = TRUE]
           over == [s EXCEPT !.escaped = FALSE]
<1>5. /\ quote \in ScanStates /\ opened \in ScanStates /\ closed \in ScanStates
      /\ deeper \in ScanStates /\ higher \in ScanStates
      /\ apart \in ScanStates /\ over \in ScanStates
  BY Zenon, <1>0, <1>2, <1>3, <1>4
<1> DEFINE other == CASE c = Quote -> quote
                      [] c = OpenBracket -> opened
                      [] c = CloseBracket -> closed
                      [] OTHER -> s
<1>6. Scan(s, c) = IF s.escaped THEN over
                   ELSE IF c = Backslash THEN apart
                   ELSE IF c = OpenBrace /\ ~s.quoted THEN deeper
                   ELSE IF c = CloseBrace /\ ~s.quoted /\ s.braces > 0 THEN higher
                   ELSE IF s.braces > 0 THEN s
                   ELSE other
  BY Zenon DEF Scan
<1> HIDE DEF quote, opened, closed, deeper, higher, apart, over
<1>7. other \in ScanStates
  BY <1>5 DEF Quote, OpenBracket, CloseBracket
<1> HIDE DEF other
<1> QED
  BY Zenon, <1>5, <1>6, <1>7

\* The scanner's states over a text whose contents start at i.
Scans(f, t, i) ==
  /\ f \in [(i - 1)..Len(t) -> ScanStates]
  /\ f[i - 1] = Scanner
  /\ \A k \in i..Len(t) : f[k] = Scan(f[k - 1], t[k])

\* The end of a text in brackets is where the scanner has closed the last one.
LEMMA BracketEndIs ==
  ASSUME NEW t \in Text, NEW i \in 1..(Len(t) + 1)
  PROVE  \E f : /\ Scans(f, t, i)
                /\ \/ BracketEnd(t, i) = 0
                   \/ \E e \in i..Len(t) : /\ BracketEnd(t, i) = e + 1 /\ f[e].brackets = 0
                                           /\ \A k \in i..(e - 1) : f[k].brackets # 0
                /\ BracketEnd(t, i) = 0 => \A k \in i..Len(t) : f[k].brackets # 0
<1> DEFINE n == Len(t)
           State(f) == [k \in (i - 1)..n |-> IF k < i THEN Scanner ELSE Scan(f[k - 1], t[k])]
           state == CHOOSE f : f = State(f)
           step == [p \in ScanStates \X (i..n) |-> Scan(p[1], t[p[2]])]
           stops == {k \in i..n : state[k].brackets = 0}
           last == FirstIn(t, i, stops)
<1>1. BracketEnd(t, i) = IF last > n THEN 0 ELSE last + 1
  BY Zenon DEF BracketEnd
<1>2. n \in Nat /\ i \in Int /\ i >= 1 /\ i <= n + 1
  BY DEF Text
<1>3. ASSUME NEW g
      PROVE  /\ State(g)[i - 1] = Scanner
             /\ \A k \in i..n : State(g)[k] = Scan(g[k - 1], t[k])
             /\ State(g) = [k \in (i - 1)..n |-> State(g)[k]]
  <2> HIDE DEF n
  <2>1. i - 1 \in (i - 1)..n /\ i - 1 < i
    BY <1>2
  <2>2. \A k \in i..n : k \in (i - 1)..n /\ ~(k < i)
    BY <1>2
  <2>3. State(g)[i - 1] = Scanner
    BY <2>1
  <2>4. \A k \in i..n : State(g)[k] = Scan(g[k - 1], t[k])
    BY Zenon, <2>2
  <2> QED
    BY <2>3, <2>4
<1>4. last \in i..(n + 1) /\ (\A k \in i..(last - 1) : k \notin stops) /\ (last <= n => last \in stops)
  <2>1. i \in Nat \ {0} /\ Len(t) \in Nat /\ i <= Len(t) + 1
    BY <1>2
  <2> QED
    BY <2>1, FirstInIs
<1> HIDE DEF n, State, last
<1>5. PICK g : GoesBy(g, i - 1, n, ScanStates, Scanner, step)
  <2>1. Scanner \in ScanStates /\ i - 1 \in Int /\ n \in Int /\ i - 1 <= n
    BY <1>2, ScannerType
  <2>2. ASSUME NEW s \in ScanStates, NEW k \in ((i - 1) + 1)..n
        PROVE  step[<<s, k>>] \in ScanStates
    <3>1. <<s, k>> \in ScanStates \X (i..n)
      BY <1>2
    <3>2. step[<<s, k>>] = Scan(s, t[k])
      BY <3>1
    <3> QED
      BY <3>2, ScanType
  <2> HIDE DEF step
  <2> QED
    BY Zenon, <2>1, <2>2, Recursion
<1>6. g \in [(i - 1)..n -> ScanStates] /\ g = State(g)
  <2>1. g \in [(i - 1)..n -> ScanStates] /\ g[i - 1] = Scanner
    BY <1>5 DEF GoesBy
  <2>2. ASSUME NEW k \in i..n PROVE g[k] = State(g)[k]
    <3>1. k \in ((i - 1) + 1)..n
      BY <1>2
    <3>2. <<g[k - 1], k>> \in ScanStates \X (i..n)
      BY <1>2, <2>1
    <3>3. step[<<g[k - 1], k>>] = Scan(g[k - 1], t[k])
      BY <3>2
    <3> HIDE DEF step
    <3>4. g[k] = step[<<g[k - 1], k>>]
      BY Zenon, <1>5, <3>1 DEF GoesBy
    <3> QED
      BY <1>3, <3>3, <3>4
  <2>3. \A k \in (i - 1)..n : k = i - 1 \/ k \in i..n
    BY <1>2
  <2>4. \A k \in (i - 1)..n : g[k] = State(g)[k]
    BY <1>3, <2>1, <2>2, <2>3
  <2> QED
    BY <1>3, <2>1, <2>4
<1> HIDE DEF step
<1>7. state = State(state)
  BY ONLY <1>6
<1> HIDE DEF state
<1>8. /\ state[i - 1] = Scanner /\ (\A k \in i..n : state[k] = Scan(state[k - 1], t[k]))
      /\ state = [k \in (i - 1)..n |-> state[k]]
  BY <1>3, <1>7
<1>9. \A k \in (i - 1)..n : state[k] \in ScanStates
  <2> DEFINE S == {k \in (i - 1)..n : state[k] \in ScanStates}
  <2>1. i - 1 \in S
    BY <1>2, <1>8, ScannerType
  <2>2. ASSUME NEW k \in ((i - 1) + 1)..n, k - 1 \in S PROVE k \in S
    <3>1. k \in i..n /\ k \in (i - 1)..n
      BY <1>2
    <3> QED
      BY <1>8, <2>2, <3>1, ScanType
  <2>3. i - 1 \in Int /\ n \in Int
    BY <1>2
  <2> HIDE DEF S
  <2>4. \A k \in (i - 1)..n : k \in S
    BY <2>1, <2>2, <2>3, BoundedInduction
  <2> QED
    BY <2>4 DEF S
<1>10. Scans(state, t, i)
  BY <1>8, <1>9 DEF Scans, n
<1>11. CASE last > n
  BY <1>1, <1>2, <1>4, <1>10, <1>11 DEF n
<1>12. CASE last <= n
  <2>1. last \in i..n /\ state[last].brackets = 0 /\ \A k \in i..(last - 1) : state[k].brackets # 0
    BY <1>2, <1>4, <1>12
  <2>2. BracketEnd(t, i) = last + 1 /\ BracketEnd(t, i) # 0
    BY <1>1, <1>2, <1>12, <2>1
  <2> QED
    BY <1>10, <2>1, <2>2 DEF n
<1> QED
  BY <1>2, <1>4, <1>11, <1>12

\* A bracket that is closed in the beginning of a text is closed there in the
\* whole text.
LEMMA BracketEndInPrefix ==
  ASSUME NEW t \in Text, NEW c \in Text, Len(c) <= Len(t), \A k \in 1..Len(c) : c[k] = t[k],
         NEW i \in 1..(Len(c) + 1), BracketEnd(c, i) # 0
  PROVE  BracketEnd(t, i) = BracketEnd(c, i)
<1>1. Len(t) \in Nat /\ Len(c) \in Nat /\ i \in 1..(Len(t) + 1)
  BY DEF Text
<1>2. PICK f : /\ Scans(f, t, i)
               /\ \/ BracketEnd(t, i) = 0
                  \/ \E e \in i..Len(t) : /\ BracketEnd(t, i) = e + 1 /\ f[e].brackets = 0
                                          /\ \A k \in i..(e - 1) : f[k].brackets # 0
               /\ BracketEnd(t, i) = 0 => \A k \in i..Len(t) : f[k].brackets # 0
  BY <1>1, BracketEndIs
<1>3. PICK g : /\ Scans(g, c, i)
               /\ \E e \in i..Len(c) : /\ BracketEnd(c, i) = e + 1 /\ g[e].brackets = 0
                                       /\ \A k \in i..(e - 1) : g[k].brackets # 0
  BY BracketEndIs
<1>4. \A k \in (i - 1)..Len(c) : f[k] = g[k]
  <2> DEFINE S == {k \in (i - 1)..Len(c) : f[k] = g[k]}
  <2>1. i - 1 \in S
    BY <1>1, <1>2, <1>3 DEF Scans
  <2>2. ASSUME NEW k \in ((i - 1) + 1)..Len(c), k - 1 \in S PROVE k \in S
    <3>1. k \in i..Len(c) /\ k \in i..Len(t) /\ k \in (i - 1)..Len(c) /\ k \in 1..Len(c)
      BY <1>1
    <3> QED
      BY <1>2, <1>3, <2>2, <3>1 DEF Scans
  <2>3. i - 1 \in Int /\ Len(c) \in Int
    BY <1>1
  <2> HIDE DEF S
  <2>4. \A k \in (i - 1)..Len(c) : k \in S
    BY <2>1, <2>2, <2>3, BoundedInduction
  <2> QED
    BY <2>4 DEF S
<1>5. PICK e \in i..Len(c) : /\ BracketEnd(c, i) = e + 1 /\ g[e].brackets = 0
                             /\ \A k \in i..(e - 1) : g[k].brackets # 0
  BY <1>3
<1>6. /\ e \in i..Len(t) /\ f[e].brackets = 0
      /\ \A k \in i..(e - 1) : f[k].brackets # 0
  BY <1>1, <1>4, <1>5
<1>7. PICK d \in i..Len(t) : /\ BracketEnd(t, i) = d + 1 /\ f[d].brackets = 0
                             /\ \A k \in i..(d - 1) : f[k].brackets # 0
  BY <1>2, <1>6
<1>8. d = e
  BY <1>1, <1>6, <1>7
<1> QED
  BY <1>5, <1>7, <1>8

------------------------------------------------------------------------------
\* What the search for scripts in quotes knows at a position, from the positions
\* behind it; c is the text up to n.
Found(A, B) == [starts : SUBSET A, closed : B]
FoundAt(t, c, n, f, k) ==
  IF k > n THEN [starts |-> {}, closed |-> TRUE]
  ELSE IF t[k] = Backslash THEN f[k + 2]
  ELSE IF t[k] # OpenBracket THEN f[k + 1]
  ELSE IF BracketEnd(c, k + 1) = 0 THEN [starts |-> {}, closed |-> FALSE]
  ELSE [f[BracketEnd(c, k + 1)] EXCEPT !.starts = @ \union {k}]

\* What is known of nothing, and with one more script.
LEMMA FoundTypes ==
  ASSUME NEW A, NEW B, NEW y \in B
  PROVE  /\ [starts |-> {}, closed |-> y] \in Found(A, B)
         /\ \A r \in Found(A, B) : /\ r.starts \in SUBSET A /\ r.closed \in B
                                   /\ \A k \in A : [r EXCEPT !.starts = @ \union {k}] \in Found(A, B)
BY DEF Found

\* How far it looks: a bracket ends behind the next character.
LEMMA Ahead1 ==
  ASSUME NEW c \in Text, NEW k \in 1..Len(c), BracketEnd(c, k + 1) # 0
  PROVE  BracketEnd(c, k + 1) \in (k + 2)..(Len(c) + 1)
<1>1. Len(c) \in Nat /\ k + 1 \in 1..(Len(c) + 1)
  BY DEF Text
<1>2. PICK f : \E e \in (k + 1)..Len(c) : BracketEnd(c, k + 1) = e + 1
  BY <1>1, BracketEndIs
<1> QED
  BY <1>1, <1>2

\* The entry of a position, from those behind it.
LEMMA FoundAtType ==
  ASSUME NEW t \in Text, NEW c \in Text, NEW n \in Nat, n = Len(c), NEW i \in 1..(n + 1),
         NEW f \in [i..(n + 2) -> Found(i..n, BOOLEAN)], NEW k \in i..(n + 2)
  PROVE  FoundAt(t, c, n, f, k) \in Found(i..n, BOOLEAN)
<1> DEFINE R == Found(i..n, BOOLEAN)
           nothing == [starts |-> {}, closed |-> TRUE]
           torn == [starts |-> {}, closed |-> FALSE]
           end == BracketEnd(c, k + 1)
           more == [f[end] EXCEPT !.starts = @ \union {k}]
<1>1. TRUE \in BOOLEAN /\ FALSE \in BOOLEAN
  OBVIOUS
<1>2. nothing \in R /\ torn \in R
  BY Zenon, <1>1, FoundTypes
<1>3. CASE k > n
  BY Zenon, <1>2, <1>3 DEF FoundAt
<1>4. CASE ~(k > n)
  <2>1. k \in i..n /\ k + 1 \in i..(n + 2) /\ k + 2 \in i..(n + 2) /\ k \in 1..Len(c)
    BY <1>4
  <2>2. f[k + 1] \in R /\ f[k + 2] \in R
    BY Zenon, <2>1
  <2>3. end # 0 => more \in R
    <3>1. end # 0 => end \in (k + 2)..(n + 1)
      BY Zenon, <2>1, Ahead1
    <3>2. end # 0 => end \in i..(n + 2)
      <4> HIDE DEF end
      <4> QED
        BY <2>1, <3>1
    <3>3. end # 0 => f[end] \in R
      BY Zenon, <3>2
    <3> QED
      BY Zenon, <1>1, <2>1, <3>3, FoundTypes
  <2>4. FoundAt(t, c, n, f, k) = IF t[k] = Backslash THEN f[k + 2]
                                 ELSE IF t[k] # OpenBracket THEN f[k + 1]
                                 ELSE IF end = 0 THEN torn ELSE more
    BY Zenon, <1>4 DEF FoundAt
  <2> HIDE DEF nothing, torn, more, R
  <2>5. FoundAt(t, c, n, f, k) \in R
    BY Zenon, <1>2, <2>2, <2>3, <2>4
  <2> QED
    BY <2>5 DEF R
<1> QED
  BY <1>3, <1>4

Agree(f, g, a, b) == \A j \in a..b : f[j] = g[j]

\* It depends on the entries behind the position alone.
LEMMA FoundAtLooksAhead ==
  ASSUME NEW t \in Text, NEW c \in Text, NEW n \in Nat, n = Len(c), NEW i \in 1..(n + 1),
         NEW k \in i..(n + 2), NEW f, NEW g, Agree(f, g, k + 1, n + 2)
  PROVE  FoundAt(t, c, n, f, k) = FoundAt(t, c, n, g, k)
<1>1. CASE k > n
  BY Zenon, <1>1 DEF FoundAt
<1>2. CASE ~(k > n)
  <2>1. k + 1 \in (k + 1)..(n + 2) /\ k + 2 \in (k + 1)..(n + 2) /\ k \in 1..Len(c)
    BY <1>2
  <2>2. BracketEnd(c, k + 1) # 0 => BracketEnd(c, k + 1) \in (k + 1)..(n + 2)
    <3> DEFINE end == BracketEnd(c, k + 1)
    <3>1. end # 0 => end \in (k + 2)..(n + 1)
      BY Zenon, <2>1, Ahead1
    <3> HIDE DEF end
    <3>2. end # 0 => end \in (k + 1)..(n + 2)
      BY <2>1, <3>1
    <3> QED
      BY <3>2 DEF end
  <2> QED
    BY Zenon, <1>2, <2>1, <2>2 DEF FoundAt, Agree
<1> QED
  BY <1>1, <1>2

\* There is a table that has every position's entry: it is filled from the end.
LEMMA TableExists ==
  ASSUME NEW t \in Text, NEW c \in Text, NEW n \in Nat, n = Len(c), NEW i \in 1..(n + 1)
  PROVE  \E f \in [i..(n + 2) -> Found(i..n, BOOLEAN)] :
           \A k \in i..(n + 2) : f[k] = FoundAt(t, c, n, f, k)
<1> DEFINE R == Found(i..n, BOOLEAN)
           N == n + 2 - i
           Filled(f, m) == \A k \in (n + 2 - m)..(n + 2) : f[k] = FoundAt(t, c, n, f, k)
           S == {m \in 0..N : \E f \in [i..(n + 2) -> R] : Filled(f, m)}
           nothing == [starts |-> {}, closed |-> TRUE]
<1>1. N \in Nat /\ i \in Int /\ i >= 1
  OBVIOUS
<1>2. 0 \in S
  <2> DEFINE f == [k \in i..(n + 2) |-> nothing]
  <2>1. TRUE \in BOOLEAN
    OBVIOUS
  <2>2. nothing \in R
    BY Zenon, <2>1, FoundTypes
  <2> HIDE DEF nothing, R
  <2>3. f \in [i..(n + 2) -> R]
    BY <2>2
  <2>4. ASSUME NEW k \in (n + 2 - 0)..(n + 2) PROVE f[k] = FoundAt(t, c, n, f, k)
    <3>1. k = n + 2 /\ k > n /\ k \in i..(n + 2)
      BY <1>1
    <3>2. f[k] = nothing
      BY <3>1
    <3> HIDE DEF f
    <3>3. FoundAt(t, c, n, f, k) = nothing
      BY Zenon, <3>1 DEF FoundAt, nothing
    <3> QED
      BY <3>2, <3>3
  <2>5. 0 \in 0..N
    BY <1>1
  <2> HIDE DEF f, N
  <2>6. Filled(f, 0)
    BY <2>4
  <2> HIDE DEF Filled
  <2> QED
    BY Zenon, <2>3, <2>5, <2>6
<1>3. ASSUME NEW m \in (0 + 1)..N, m - 1 \in S PROVE m \in S
  <2>1. PICK f \in [i..(n + 2) -> R] : Filled(f, m - 1)
    BY Zenon, <1>3
  <2> DEFINE j == n + 2 - m
             entry == FoundAt(t, c, n, f, j)
             g == [f EXCEPT ![j] = entry]
  <2>2. j \in i..(n + 2) /\ n + 2 - (m - 1) = j + 1
    BY <1>1
  <2>3. entry \in R
    BY Zenon, <2>2, FoundAtType
  <2> HIDE DEF entry, R
  <2>4. g \in [i..(n + 2) -> R] /\ g[j] = entry /\ \A k \in (j + 1)..(n + 2) : g[k] = f[k]
    BY <2>2, <2>3
  <2> HIDE DEF g
  <2>5. ASSUME NEW k \in j..(n + 2) PROVE g[k] = FoundAt(t, c, n, g, k)
    <3>1. k \in i..(n + 2) /\ \A l \in (k + 1)..(n + 2) : l \in (j + 1)..(n + 2)
      BY <2>2
    <3>2. \A l \in (k + 1)..(n + 2) : f[l] = g[l]
      BY <2>4, <3>1
    <3>3. FoundAt(t, c, n, f, k) = FoundAt(t, c, n, g, k)
      <4>1. Agree(f, g, k + 1, n + 2) /\ k \in i..(n + 2)
        BY <3>1, <3>2 DEF Agree
      <4> QED
        BY <4>1, FoundAtLooksAhead
    <3>4. CASE k = j
      BY <2>4, <3>3, <3>4 DEF entry
    <3>5. CASE k # j
      <4>1. k \in (j + 1)..(n + 2)
        BY <2>2, <3>5
      <4>2. f[k] = FoundAt(t, c, n, f, k)
        BY <2>1, <2>2, <4>1
      <4> QED
        BY <2>4, <3>3, <4>1, <4>2
    <3> QED
      BY <3>4, <3>5
  <2>6. Filled(g, m)
    BY <2>5
  <2>7. m \in 0..N
    BY <1>1
  <2> HIDE DEF Filled, N
  <2> QED
    BY Zenon, <2>4, <2>6, <2>7
<1>4. \A m \in 0..N : m \in S
  <2>1. 0 \in Int /\ N \in Int
    BY <1>1
  <2> HIDE DEF S, N
  <2> QED
    BY <1>2, <1>3, <2>1, BoundedInduction
<1>5. N \in S
  <2>1. N \in 0..N
    BY <1>1
  <2> QED
    BY ONLY <1>4, <2>1
<1>6. PICK f \in [i..(n + 2) -> R] : Filled(f, N)
  BY Zenon, <1>5
<1>7. n + 2 - N = i
  BY <1>1
<1> HIDE DEF N
<1> QED
  BY <1>6, <1>7

\* The script in brackets at position s reaches over position p.
Covers(t, s, p) == s <= p /\ p < BracketEnd(t, s + 1)

\* Behind position k every bracket is in a script that was found, when none is
\* torn off.
AllFound(t, n, f, k) ==
  f[k].closed =>
    \A p \in k..n : t[p] = OpenBracket /\ (\A j \in k..(p - 1) : t[j] # Backslash)
                    => \E s \in f[k].starts : Covers(t, s, p)

\* The entry of a position has all scripts, if those behind it have.
LEMMA AllFoundStep ==
  ASSUME NEW t \in Text, NEW c \in Text, NEW n \in Nat, n = Len(c), n <= Len(t),
         \A j \in 1..n : c[j] = t[j], NEW i \in 1..(n + 1),
         NEW f \in [i..(n + 2) -> Found(i..n, BOOLEAN)], NEW k \in i..(n + 2),
         f[k] = FoundAt(t, c, n, f, k), \A l \in (k + 1)..(n + 2) : AllFound(t, n, f, l)
  PROVE  AllFound(t, n, f, k)
<1>1. Len(t) \in Nat
  BY DEF Text
<1> SUFFICES ASSUME f[k].closed, NEW p \in k..n, t[p] = OpenBracket,
                    \A j \in k..(p - 1) : t[j] # Backslash
             PROVE  \E s \in f[k].starts : Covers(t, s, p)
  BY DEF AllFound
<1>2. p = k \/ p \in (k + 1)..n
  OBVIOUS
<1>2a. k \in i..n /\ ~(k > n) /\ k \in 1..n
  OBVIOUS
<1>3. t[k] # Backslash
  BY <1>2 DEF Backslash, OpenBracket
<1> DEFINE end == BracketEnd(c, k + 1)
           more == [f[end] EXCEPT !.starts = @ \union {k}]
<1>4. CASE t[k] # OpenBracket
  <2>1. f[k] = f[k + 1]
    BY Zenon, <1>2a, <1>3, <1>4 DEF FoundAt
  <2>2. p \in (k + 1)..n /\ k + 1 \in (k + 1)..(n + 2) /\ \A j \in (k + 1)..(p - 1) : j \in k..(p - 1)
    BY <1>2, <1>2a, <1>4
  <2>3. AllFound(t, n, f, k + 1)
    BY Zenon, <2>2
  <2> QED
    BY Zenon, <2>1, <2>2, <2>3 DEF AllFound
<1>5. CASE t[k] = OpenBracket
  <2>1. end # 0 /\ f[k] = more
    <3>1. f[k] = IF end = 0 THEN [starts |-> {}, closed |-> FALSE] ELSE more
      BY Zenon, <1>2a, <1>3, <1>5 DEF FoundAt
    <3> HIDE DEF end, more
    <3>2. CASE end = 0
      BY <3>1, <3>2
    <3> QED
      BY <3>1, <3>2
  <2>2. end \in (k + 2)..(n + 1)
    <3>1. k \in 1..Len(c)
      BY <1>2a
    <3> QED
      BY Zenon, <2>1, <3>1, Ahead1
  <2>3. BracketEnd(t, k + 1) = end
    <3>1. k + 1 \in 1..(Len(c) + 1) /\ Len(c) <= Len(t) /\ \A j \in 1..Len(c) : c[j] = t[j]
      BY <1>2a
    <3> QED
      BY Zenon, <2>1, <3>1, BracketEndInPrefix
  <2> HIDE DEF end
  <2>4. end \in i..(n + 2) /\ end \in (k + 1)..(n + 2)
    BY <2>2, <1>2a
  <2>5. f[end] \in Found(i..n, BOOLEAN)
    BY Zenon, <2>4
  <2>6. f[k].starts = f[end].starts \union {k} /\ f[k].closed = f[end].closed
    BY <2>1, <2>5 DEF Found
  <2>7. CASE p < end
    <3>1. k <= p
      OBVIOUS
    <3> QED
      BY Zenon, <2>3, <2>6, <2>7, <3>1 DEF Covers
  <2>8. CASE ~(p < end)
    <3>1. p \in end..n /\ \A j \in end..(p - 1) : j \in k..(p - 1)
      BY <2>2, <2>8, <1>2a
    <3>2. AllFound(t, n, f, end)
      BY Zenon, <2>4
    <3>3. \E s \in f[end].starts : Covers(t, s, p)
      BY Zenon, <2>6, <3>1, <3>2 DEF AllFound
    <3> QED
      BY Zenon, <2>6, <3>3
  <2> QED
    BY <2>7, <2>8
<1> QED
  BY <1>4, <1>5

\* The scripts that are validated in a text in quotes reach over all its brackets
\* before the first backslash, if none is torn off.
LEMMA QuotedBracketsAre ==
  ASSUME NEW t \in Text, NEW n \in Nat, n <= Len(t), NEW i \in 1..(n + 1)
  PROVE  /\ QuotedBrackets(t, i, n) \in Found(i..n, BOOLEAN)
         /\ QuotedBrackets(t, i, n).closed =>
              \A p \in i..n : t[p] = OpenBracket /\ (\A j \in i..(p - 1) : t[j] # Backslash)
                              => \E s \in QuotedBrackets(t, i, n).starts : Covers(t, s, p)
<1> DEFINE c == SubSeq(t, 1, n)
           F(g) == [k \in i..(n + 2) |-> FoundAt(t, c, n, g, k)]
           f == CHOOSE g : g = F(g)
           R == Found(i..n, BOOLEAN)
<1>1. Len(t) \in Nat /\ i \in i..(n + 2) /\ i \in Int
  BY DEF Text
<1>2. QuotedBrackets(t, i, n) = f[i]
  BY Zenon DEF QuotedBrackets, FoundAt
<1>3. c \in Text /\ n = Len(c) /\ \A j \in 1..n : c[j] = t[j]
  <2>1. \A j \in 1..n : t[j] \in 1..255
    <3>1. \A j \in 1..n : j \in 1..Len(t)
      BY <1>1
    <3> QED
      BY Zenon, <3>1, ElementOfSeq DEF Text
  <2> QED
    BY <1>1, <2>1, SubSeqProperties DEF Text
<1> HIDE DEF c
<1>4. PICK g \in [i..(n + 2) -> R] : \A k \in i..(n + 2) : g[k] = FoundAt(t, c, n, g, k)
  BY <1>3, TableExists
<1> HIDE DEF R
<1>5. g = F(g)
  BY <1>4
<1>6. f = F(f)
  <2> HIDE DEF F
  <2> QED
    BY ONLY <1>5
<1> HIDE DEF f
<1>7. f = [k \in i..(n + 2) |-> f[k]] /\ \A k \in i..(n + 2) : f[k] = FoundAt(t, c, n, f, k)
  BY <1>6
<1> HIDE DEF F
<1>8. \A k \in i..(n + 2) : f[k] = g[k]
  <2> DEFINE S == {k \in i..(n + 2) : f[k] = g[k]}
  <2>1. ASSUME NEW k \in i..(n + 2), \A l \in (k + 1)..(n + 2) : l \in S PROVE k \in S
    <3>1. Agree(f, g, k + 1, n + 2) /\ k \in i..(n + 2)
      BY <2>1 DEF Agree
    <3>2. FoundAt(t, c, n, f, k) = FoundAt(t, c, n, g, k)
      BY <1>3, <3>1, FoundAtLooksAhead
    <3> QED
      BY Zenon, <1>4, <1>7, <3>2
  <2>2. i \in Nat /\ n + 2 \in Nat
    OBVIOUS
  <2> HIDE DEF S
  <2>3. \A k \in i..(n + 2) : k \in S
    BY <2>1, <2>2, Backwards
  <2> QED
    BY <2>3 DEF S
<1>9. f = g
  BY <1>4, <1>7, <1>8
<1>10. \A k \in i..(n + 2) : AllFound(t, n, g, k)
  <2> DEFINE S == {k \in i..(n + 2) : AllFound(t, n, g, k)}
  <2>1. ASSUME NEW k \in i..(n + 2), \A l \in (k + 1)..(n + 2) : l \in S PROVE k \in S
    <3>1. g \in [i..(n + 2) -> Found(i..n, BOOLEAN)]
      BY DEF R
    <3>2. g[k] = FoundAt(t, c, n, g, k) /\ \A l \in (k + 1)..(n + 2) : AllFound(t, n, g, l)
      BY <1>4, <2>1
    <3>3. AllFound(t, n, g, k)
      BY <1>3, <3>1, <3>2, AllFoundStep
    <3> QED
      BY <3>3
  <2>2. i \in Nat /\ n + 2 \in Nat
    OBVIOUS
  <2> HIDE DEF S
  <2>3. \A k \in i..(n + 2) : k \in S
    BY <2>1, <2>2, Backwards
  <2> QED
    BY <2>3 DEF S
<1>11. g[i] \in R /\ AllFound(t, n, g, i) /\ QuotedBrackets(t, i, n) = g[i]
  BY <1>1, <1>2, <1>4, <1>9, <1>10
<1> QED
  BY Zenon, <1>11 DEF AllFound, R

------------------------------------------------------------------------------
\* A bracket that no text in braces, no variable and no backslash stands before.
Sealed(t, i) == t[i] = OpenBracket /\ \A j \in 1..(i - 1) : t[j] \notin {OpenBrace, Dollar, Backslash}

\* The scripts in v reach over every such bracket from a to b.
Cleared(t, a, b, v) == \A i \in a..b : Sealed(t, i) => \E k \in v : Covers(t, k, i)

\* There is no bracket from a to b.
Plain(t, a, b) == \A i \in a..b : t[i] # OpenBracket

\* Where there is no bracket, none has to be reached over.
LEMMA PlainIsCleared ==
  ASSUME NEW t, NEW a, NEW b, NEW v, Plain(t, a, b)
  PROVE  Cleared(t, a, b, v)
BY DEF Plain, Cleared, Sealed

\* Two stretches of text, one behind the other.
LEMMA ClearedJoin ==
  ASSUME NEW t, NEW a \in Int, NEW b \in Int, NEW c \in Int, NEW v,
         Cleared(t, a, b - 1, v), Cleared(t, b, c, v)
  PROVE  Cleared(t, a, c, v)
<1>1. \A i \in a..c : i \in a..(b - 1) \/ i \in b..c
  OBVIOUS
<1> QED
  BY Zenon, <1>1 DEF Cleared

\* The same for text without a bracket.
LEMMA PlainJoin ==
  ASSUME NEW t, NEW a \in Int, NEW b \in Int, NEW c \in Int,
         Plain(t, a, b - 1), Plain(t, b, c)
  PROVE  Plain(t, a, c)
<1>1. \A i \in a..c : i \in a..(b - 1) \/ i \in b..c
  OBVIOUS
<1> QED
  BY Zenon, <1>1 DEF Plain

\* A run of characters has no bracket, if the class has none.
LEMMA RunIsPlain ==
  ASSUME NEW t \in Text, NEW i \in 1..(Len(t) + 1), NEW class, OpenBracket \notin class
  PROVE  Plain(t, i, RunEnd(t, i, class) - 1) /\ RunEnd(t, i, class) \in i..(Len(t) + 1)
<1>1. Len(t) \in Nat /\ i \in Nat \ {0} /\ i <= Len(t) + 1
  BY DEF Text
<1>2. RunEnd(t, i, class) \in i..(Len(t) + 1) /\ \A k \in i..(RunEnd(t, i, class) - 1) : t[k] \in class
  BY Zenon, <1>1, RunEndIs
<1> QED
  BY Zenon, <1>2 DEF Plain

\* The classes of characters have no bracket.
LEMMA ClassesArePlain ==
  /\ OpenBracket \notin Digits /\ OpenBracket \notin Blanks /\ OpenBracket \notin NameChars
  /\ \A c : OpenBracket \notin PrefixDigits(c)
  /\ PrefixDigits(OpenBracket) = {}
<1>1. /\ OpenBracket \notin Digits /\ OpenBracket \notin Blanks /\ OpenBracket \notin NameChars
      /\ OpenBracket \notin HexDigits /\ OpenBracket \notin 48..49 /\ OpenBracket \notin 48..55
  BY DEF OpenBracket, Digits, Blanks, NameChars, NameStart, Letters, Underscore, HexDigits
<1>2. \A c : PrefixDigits(c) \in {HexDigits, 48..49, 48..55, {}}
  BY DEF PrefixDigits
<1>3. PrefixDigits(OpenBracket) = {}
  BY DEF PrefixDigits, OpenBracket
<1> QED
  BY Zenon, <1>1, <1>2, <1>3

\* A character of a class without the bracket.
LEMMA OneIsPlain ==
  ASSUME NEW t \in Text, NEW i, NEW class, Has(t, i, class), OpenBracket \notin class
  PROVE  t[i] # OpenBracket
BY DEF Has

\* A decimal number that starts with a digit or a point has no bracket.
LEMMA DecimalIsPlain ==
  ASSUME NEW t \in Text, NEW i \in 1..Len(t), DecimalEnd(t, i) # 0
  PROVE  Plain(t, i, DecimalEnd(t, i) - 1)
<1> DEFINE whole == RunEnd(t, i, Digits)
           fraction == RunEnd(t, whole + 1, Digits)
           point == IF Has(t, whole, {Dot}) THEN fraction ELSE whole
           signed == IF Has(t, point + 1, {Plus, Minus}) THEN point + 2 ELSE point + 1
           exponent == RunEnd(t, signed, Digits)
<1>1. Len(t) \in Nat /\ i \in Int
  BY DEF Text
<1>2. whole \in i..(Len(t) + 1) /\ Plain(t, i, whole - 1)
  <2>1. i \in 1..(Len(t) + 1) /\ OpenBracket \notin Digits
    BY <1>1, ClassesArePlain
  <2> QED
    BY <2>1, RunIsPlain
<1>3. /\ OpenBracket \notin {Dot} /\ OpenBracket \notin {Plus, Minus} /\ OpenBracket \notin {101, 69}
  BY DEF OpenBracket, Dot, Plus, Minus
<1>4. point \in i..(Len(t) + 1) /\ Plain(t, i, point - 1)
  <2>1. CASE Has(t, whole, {Dot})
    <3>1. whole + 1 \in 1..(Len(t) + 1) /\ whole \in Int
      BY <1>1, <1>2, <2>1 DEF Has
    <3>2. Plain(t, whole + 1, fraction - 1) /\ fraction \in (whole + 1)..(Len(t) + 1)
      BY <3>1, RunIsPlain, ClassesArePlain
    <3>3. t[whole] # OpenBracket
      BY <1>3, <2>1, OneIsPlain
    <3> HIDE DEF whole, fraction
    <3>4. Plain(t, whole, (whole + 1) - 1)
      BY <3>1, <3>3 DEF Plain
    <3>5. Plain(t, i, whole)
      BY <1>1, <1>2, <3>1, <3>4, PlainJoin
    <3>6. Plain(t, i, (whole + 1) - 1)
      BY <3>1, <3>5
    <3>6a. whole + 1 \in Int /\ fraction - 1 \in Int
      BY <3>1, <3>2
    <3>7. Plain(t, i, fraction - 1)
      BY <1>1, <3>6a, <3>2, <3>6, PlainJoin
    <3>8. fraction \in i..(Len(t) + 1)
      BY <1>2, <3>1, <3>2
    <3> QED
      BY <2>1, <3>7, <3>8
  <2>2. CASE ~Has(t, whole, {Dot})
    BY <1>2, <2>2
  <2> QED
    BY <2>1, <2>2
<1>5. DecimalEnd(t, i) = IF ~Has(t, point, {101, 69}) THEN point
                         ELSE IF exponent = signed THEN 0 ELSE exponent
  BY DEF DecimalEnd
<1>6. CASE ~Has(t, point, {101, 69})
  BY <1>4, <1>5, <1>6
<1>7. CASE Has(t, point, {101, 69})
  <2> HIDE DEF whole, fraction, point
  <2>1. t[point] # OpenBracket /\ point \in Int /\ point <= Len(t)
    BY <1>1, <1>3, <1>4, <1>7, OneIsPlain DEF Has
  <2>2. signed \in (point + 1)..(Len(t) + 1) /\ Plain(t, point, signed - 1)
    <3>1. CASE Has(t, point + 1, {Plus, Minus})
      <4>1. t[point + 1] # OpenBracket /\ point + 1 <= Len(t)
        BY <1>1, <1>3, <2>1, <3>1, OneIsPlain DEF Has
      <4>2. \A k \in point..((point + 2) - 1) : k = point \/ k = point + 1
        BY <2>1
      <4>3. Plain(t, point, (point + 2) - 1)
        BY <2>1, <4>1, <4>2 DEF Plain
      <4> QED
        BY <1>1, <2>1, <3>1, <4>1, <4>3
    <3>2. CASE ~Has(t, point + 1, {Plus, Minus})
      <4>1. \A k \in point..((point + 1) - 1) : k = point
        BY <2>1
      <4>2. Plain(t, point, (point + 1) - 1)
        BY <2>1, <4>1 DEF Plain
      <4> QED
        BY <1>1, <2>1, <3>2, <4>2
    <3> QED
      BY <3>1, <3>2
  <2> HIDE DEF signed
  <2>3. signed \in 1..(Len(t) + 1)
    BY <1>1, <1>4, <2>1, <2>2
  <2>4. Plain(t, signed, exponent - 1) /\ exponent \in signed..(Len(t) + 1)
    BY <2>3, RunIsPlain, ClassesArePlain
  <2> HIDE DEF exponent
  <2>5. signed - 1 \in Int /\ signed \in Int /\ exponent - 1 \in Int
    BY <2>2, <2>3, <2>4
  <2>6. Plain(t, i, signed - 1)
    BY <1>1, <1>4, <2>1, <2>2, <2>5, PlainJoin
  <2>7. Plain(t, i, exponent - 1)
    BY <1>1, <2>4, <2>5, <2>6, PlainJoin
  <2> QED
    BY <1>5, <1>7, <2>7
<1> QED
  BY <1>6, <1>7

\* Nor has any number.
LEMMA NumberIsPlain ==
  ASSUME NEW t \in Text, NEW i \in 1..Len(t), t[i] # OpenBracket, NumberEnd(t, i) # 0
  PROVE  Plain(t, i, NumberEnd(t, i) - 1)
<1> DEFINE zero == t[i] = Zero /\ i < Len(t)
           digits == IF zero THEN PrefixDigits(t[i + 1]) ELSE {}
           prefixed == RunEnd(t, i + 2, digits)
           octal == RunEnd(t, i + 1, Digits)
           legacy == zero /\ octal > i + 1 /\ ~Has(t, octal, {Dot, 101, 69})
           wrong == \E k \in (i + 1)..(octal - 1) : t[k] >= 56
<1>1. Len(t) \in Nat /\ i \in Int /\ i + 1 \in 1..(Len(t) + 1) /\ i + 1 \in Int
  BY DEF Text
<1>2. NumberEnd(t, i) = IF digits # {} THEN IF prefixed = i + 2 THEN 0 ELSE prefixed
                        ELSE IF legacy THEN IF wrong THEN 0 ELSE octal
                        ELSE DecimalEnd(t, i)
  BY DEF NumberEnd
<1>3. Plain(t, i + 1, octal - 1) /\ octal \in (i + 1)..(Len(t) + 1)
  BY <1>1, RunIsPlain, ClassesArePlain
<1>4. Plain(t, i, (i + 1) - 1)
  <2>1. \A k \in i..((i + 1) - 1) : k = i
    BY <1>1
  <2> QED
    BY <2>1 DEF Plain
<1>5. ASSUME digits # {}
      PROVE  Plain(t, i, prefixed - 1)
  <2>1. zero /\ PrefixDigits(t[i + 1]) # {} /\ OpenBracket \notin digits
    BY <1>5, ClassesArePlain
  <2>2. t[i + 1] # OpenBracket /\ i + 2 \in 1..(Len(t) + 1) /\ i + 2 \in Int
    BY <1>1, <2>1, ClassesArePlain
  <2> HIDE DEF digits
  <2>3. Plain(t, i + 2, prefixed - 1) /\ prefixed \in (i + 2)..(Len(t) + 1)
    BY <2>1, <2>2, RunIsPlain
  <2> HIDE DEF prefixed
  <2>4. \A k \in i..((i + 2) - 1) : k = i \/ k = i + 1
    BY <1>1
  <2>5. Plain(t, i, (i + 2) - 1)
    BY <2>2, <2>4 DEF Plain
  <2>6. prefixed - 1 \in Int
    BY <2>3
  <2> QED
    BY <1>1, <2>2, <2>3, <2>5, <2>6, PlainJoin
<1>6. Plain(t, i, octal - 1)
  <2> HIDE DEF octal
  <2>1. octal - 1 \in Int
    BY <1>3
  <2> QED
    BY <1>1, <1>3, <1>4, <2>1, PlainJoin
<1>7. DecimalEnd(t, i) # 0 => Plain(t, i, DecimalEnd(t, i) - 1)
  BY DecimalIsPlain
<1> HIDE DEF digits, prefixed, octal, legacy, wrong
<1> QED
  BY <1>2, <1>5, <1>6, <1>7

\* An operator of one or two characters that are no brackets.
LEMMA SpellingIsPlain ==
  ASSUME NEW x, x # OpenBracket, NEW y, y # OpenBracket, NEW apart
  PROVE  /\ \A m \in 1..Len(Op(<<x>>, apart).spelling) : Op(<<x>>, apart).spelling[m] # OpenBracket
         /\ \A m \in 1..Len(Op(<<x, y>>, apart).spelling) : Op(<<x, y>>, apart).spelling[m] # OpenBracket
BY DEF Op

\* No operator is spelled with a bracket.
LEMMA OperatorsArePlain ==
  ASSUME NEW n \in 1..Len(Levels), NEW k \in 1..Len(Operators[Levels[n]])
  PROVE  \A m \in 1..Len(Operators[Levels[n]][k].spelling) : Operators[Levels[n]][k].spelling[m] # OpenBracket
<1> DEFINE level == Levels[n]
<1>1. level \in Frames /\ level \notin {"ternary", "then", "else", "power_rest", "unary", "paren", "call"}
  BY DEF Levels, Frames
<1>2. /\ Bar # OpenBracket /\ Ampersand # OpenBracket /\ Caret # OpenBracket /\ Equals # OpenBracket
      /\ Not # OpenBracket /\ Less # OpenBracket /\ Greater # OpenBracket /\ Plus # OpenBracket
      /\ Minus # OpenBracket /\ Star # OpenBracket /\ Slash # OpenBracket /\ Percent # OpenBracket
      /\ 101 # OpenBracket /\ 113 # OpenBracket /\ 110 # OpenBracket /\ 105 # OpenBracket
  BY DEF OpenBracket, Bar, Ampersand, Caret, Equals, Not, Less, Greater, Plus, Minus, Star, Slash, Percent
<1> DEFINE PlainOp(op) == \A m \in 1..Len(op.spelling) : op.spelling[m] # OpenBracket
<1>3. \A a : \A x : x # OpenBracket => PlainOp(Op(<<x>>, a))
  BY SpellingIsPlain
<1>4. \A a : \A x, y : x # OpenBracket /\ y # OpenBracket => PlainOp(Op(<<x, y>>, a))
  BY SpellingIsPlain
<1> HIDE DEF PlainOp
<1>5. level = "logical_or" => PlainOp(Operators[level][k])
  <2> DEFINE ops == <<Op(<<Bar, Bar>>, {})>>
  <2>1. Operators["logical_or"] = ops
    BY DEF Operators
  <2>2. Len(ops) = 1 /\ ops[1] = Op(<<Bar, Bar>>, {})
    OBVIOUS
  <2> HIDE DEF ops
  <2>3. PlainOp(ops[1])
    BY Zenon, <1>2, <1>3, <1>4, <2>2
  <2>4. level = "logical_or" => k \in 1..1
    BY <2>1, <2>2
  <2> QED
    BY <2>1, <2>3, <2>4
<1>6. level = "logical_and" => PlainOp(Operators[level][k])
  <2> DEFINE ops == <<Op(<<Ampersand, Ampersand>>, {})>>
  <2>1. Operators["logical_and"] = ops
    BY DEF Operators
  <2>2. Len(ops) = 1 /\ ops[1] = Op(<<Ampersand, Ampersand>>, {})
    OBVIOUS
  <2> HIDE DEF ops
  <2>3. PlainOp(ops[1])
    BY Zenon, <1>2, <1>3, <1>4, <2>2
  <2>4. level = "logical_and" => k \in 1..1
    BY <2>1, <2>2
  <2> QED
    BY <2>1, <2>3, <2>4
<1>7. level = "bitwise_or" => PlainOp(Operators[level][k])
  <2> DEFINE ops == <<Op(<<Bar>>, {Bar})>>
  <2>1. Operators["bitwise_or"] = ops
    BY DEF Operators
  <2>2. Len(ops) = 1 /\ ops[1] = Op(<<Bar>>, {Bar})
    OBVIOUS
  <2> HIDE DEF ops
  <2>3. PlainOp(ops[1])
    BY Zenon, <1>2, <1>3, <1>4, <2>2
  <2>4. level = "bitwise_or" => k \in 1..1
    BY <2>1, <2>2
  <2> QED
    BY <2>1, <2>3, <2>4
<1>8. level = "bitwise_xor" => PlainOp(Operators[level][k])
  <2> DEFINE ops == <<Op(<<Caret>>, {})>>
  <2>1. Operators["bitwise_xor"] = ops
    BY DEF Operators
  <2>2. Len(ops) = 1 /\ ops[1] = Op(<<Caret>>, {})
    OBVIOUS
  <2> HIDE DEF ops
  <2>3. PlainOp(ops[1])
    BY Zenon, <1>2, <1>3, <1>4, <2>2
  <2>4. level = "bitwise_xor" => k \in 1..1
    BY <2>1, <2>2
  <2> QED
    BY <2>1, <2>3, <2>4
<1>9. level = "bitwise_and" => PlainOp(Operators[level][k])
  <2> DEFINE ops == <<Op(<<Ampersand>>, {Ampersand})>>
  <2>1. Operators["bitwise_and"] = ops
    BY DEF Operators
  <2>2. Len(ops) = 1 /\ ops[1] = Op(<<Ampersand>>, {Ampersand})
    OBVIOUS
  <2> HIDE DEF ops
  <2>3. PlainOp(ops[1])
    BY Zenon, <1>2, <1>3, <1>4, <2>2
  <2>4. level = "bitwise_and" => k \in 1..1
    BY <2>1, <2>2
  <2> QED
    BY <2>1, <2>3, <2>4
<1>10. level = "equality" => PlainOp(Operators[level][k])
  <2> DEFINE ops == <<Op(<<Equals, Equals>>, {}), Op(<<Not, Equals>>, {}),
                     Op(<<101, 113>>, NameChars), Op(<<110, 101>>, NameChars)>>
  <2>1. Operators["equality"] = ops
    BY DEF Operators
  <2>2. /\ Len(ops) = 4
        /\ ops[1] = Op(<<Equals, Equals>>, {}) /\ ops[2] = Op(<<Not, Equals>>, {})
        /\ ops[3] = Op(<<101, 113>>, NameChars) /\ ops[4] = Op(<<110, 101>>, NameChars)
    OBVIOUS
  <2> HIDE DEF ops
  <2>3. PlainOp(ops[1]) /\ PlainOp(ops[2]) /\ PlainOp(ops[3]) /\ PlainOp(ops[4])
    BY <1>2, <1>3, <1>4, <2>2
  <2>4. level = "equality" => k \in 1..4
    BY <2>1, <2>2
  <2> QED
    BY <2>1, <2>3, <2>4
<1>11. level = "relational" => PlainOp(Operators[level][k])
  <2> DEFINE ops == <<Op(<<Less, Equals>>, {}), Op(<<Greater, Equals>>, {}),
                     Op(<<Less>>, {}), Op(<<Greater>>, {}),
                     Op(<<105, 110>>, NameChars), Op(<<110, 105>>, NameChars)>>
  <2>1. Operators["relational"] = ops
    BY DEF Operators
  <2>2. /\ Len(ops) = 6
        /\ ops[1] = Op(<<Less, Equals>>, {}) /\ ops[2] = Op(<<Greater, Equals>>, {})
        /\ ops[3] = Op(<<Less>>, {}) /\ ops[4] = Op(<<Greater>>, {})
        /\ ops[5] = Op(<<105, 110>>, NameChars) /\ ops[6] = Op(<<110, 105>>, NameChars)
    OBVIOUS
  <2> HIDE DEF ops
  <2>3. /\ PlainOp(ops[1]) /\ PlainOp(ops[2]) /\ PlainOp(ops[3]) /\ PlainOp(ops[4])
        /\ PlainOp(ops[5]) /\ PlainOp(ops[6])
    BY <1>2, <1>3, <1>4, <2>2
  <2>4. level = "relational" => k \in 1..6
    BY <2>1, <2>2
  <2> QED
    BY <2>1, <2>3, <2>4
<1>12. level = "shift" => PlainOp(Operators[level][k])
  <2> DEFINE ops == <<Op(<<Less, Less>>, {}), Op(<<Greater, Greater>>, {})>>
  <2>1. Operators["shift"] = ops
    BY DEF Operators
  <2>2. Len(ops) = 2 /\ ops[1] = Op(<<Less, Less>>, {}) /\ ops[2] = Op(<<Greater, Greater>>, {})
    OBVIOUS
  <2> HIDE DEF ops
  <2>3. PlainOp(ops[1]) /\ PlainOp(ops[2])
    BY Zenon, <1>2, <1>3, <1>4, <2>2
  <2>4. level = "shift" => k \in 1..2
    BY <2>1, <2>2
  <2> QED
    BY <2>1, <2>3, <2>4
<1>13. level = "additive" => PlainOp(Operators[level][k])
  <2> DEFINE ops == <<Op(<<Plus>>, {}), Op(<<Minus>>, {})>>
  <2>1. Operators["additive"] = ops
    BY DEF Operators
  <2>2. Len(ops) = 2 /\ ops[1] = Op(<<Plus>>, {}) /\ ops[2] = Op(<<Minus>>, {})
    OBVIOUS
  <2> HIDE DEF ops
  <2>3. PlainOp(ops[1]) /\ PlainOp(ops[2])
    BY Zenon, <1>2, <1>3, <1>4, <2>2
  <2>4. level = "additive" => k \in 1..2
    BY <2>1, <2>2
  <2> QED
    BY <2>1, <2>3, <2>4
<1>14. level = "multiplicative" => PlainOp(Operators[level][k])
  <2> DEFINE ops == <<Op(<<Star>>, {Star}), Op(<<Slash>>, {}),
                     Op(<<Percent>>, {})>>
  <2>1. Operators["multiplicative"] = ops
    BY DEF Operators
  <2>2. /\ Len(ops) = 3
        /\ ops[1] = Op(<<Star>>, {Star}) /\ ops[2] = Op(<<Slash>>, {})
        /\ ops[3] = Op(<<Percent>>, {})
    OBVIOUS
  <2> HIDE DEF ops
  <2>3. PlainOp(ops[1]) /\ PlainOp(ops[2]) /\ PlainOp(ops[3])
    BY Zenon, <1>2, <1>3, <1>4, <2>2
  <2>4. level = "multiplicative" => k \in 1..3
    BY <2>1, <2>2
  <2> QED
    BY <2>1, <2>3, <2>4
<1>15. level = "power" => PlainOp(Operators[level][k])
  <2> DEFINE ops == <<Op(<<Star, Star>>, {})>>
  <2>1. Operators["power"] = ops
    BY DEF Operators
  <2>2. Len(ops) = 1 /\ ops[1] = Op(<<Star, Star>>, {})
    OBVIOUS
  <2> HIDE DEF ops
  <2>3. PlainOp(ops[1])
    BY Zenon, <1>2, <1>3, <1>4, <2>2
  <2>4. level = "power" => k \in 1..1
    BY <2>1, <2>2
  <2> QED
    BY <2>1, <2>3, <2>4
<1>16. PlainOp(Operators[level][k])
  BY <1>1, <1>5, <1>6, <1>7, <1>8, <1>9, <1>10, <1>11, <1>12, <1>13, <1>14, <1>15 DEF Frames
<1> QED
  BY <1>16 DEF PlainOp

------------------------------------------------------------------------------
\* What is known behind the position: the scripts were validated.
Behind ==
  /\ mode \in {"operand", "after", "accepted", "refused", "nested"}
  /\ validated \subseteq 1..Len(text)
  /\ mode \in {"operand", "after", "accepted"} => Cleared(text, 1, index - 1, validated)
  /\ mode = "accepted" => index = Len(text) + 1

\* A step that reads on keeps it, if the scripts it passes are validated now.
LEMMA ReadsOn ==
  ASSUME IInv, Behind, mode \in {"operand", "after"},
         NEW position \in Int, NEW calls, NEW newMode \in {"operand", "after"},
         GoOn(position, calls, newMode), validated \subseteq validated',
         validated' \subseteq 1..Len(text),
         Cleared(text, index, position - 1, validated')
  PROVE  Behind'
<1>1. text' = text /\ index' = position /\ mode' = newMode
  BY DEF GoOn
<1>2. index \in Int /\ position - 1 \in Int /\ 1 \in Int
  BY DEF IInv
<1>3. Cleared(text, 1, index - 1, validated')
  <2>1. Cleared(text, 1, index - 1, validated)
    BY DEF Behind
  <2> QED
    BY Zenon, <2>1 DEF Cleared
<1>4. Cleared(text, 1, position - 1, validated')
  BY <1>2, <1>3, ClearedJoin
<1> QED
  BY <1>1, <1>4 DEF Behind

\* A step that ends the descent without a verdict on the rest keeps it.
LEMMA Stops ==
  ASSUME Behind, NEW position, NEW calls, NEW newMode \in {"refused", "nested"},
         GoOn(position, calls, newMode), validated' \subseteq 1..Len(text)
  PROVE  Behind'
BY DEF Behind, GoOn

\* Between the position and the next character there are blanks.
LEMMA HereIsPlain ==
  ASSUME IInv
  PROVE  Plain(text, index, Here - 1) /\ Here \in index..(Len(text) + 1) /\ Here \in Int /\ index \in Int
<1>1. text \in Text /\ index \in 1..(Len(text) + 1)
  BY DEF IInv
<1>2. Plain(text, index, Here - 1) /\ Here \in index..(Len(text) + 1)
  BY <1>1, RunIsPlain, ClassesArePlain DEF Here, SkipBlanks
<1> QED
  BY <1>1, <1>2

\* A step that passes characters without a bracket.
LEMMA PassesPlain ==
  ASSUME IInv, Behind, mode \in {"operand", "after"},
         NEW position \in Int, NEW calls, NEW newMode \in {"operand", "after"},
         GoOn(position, calls, newMode), validated' = validated,
         Plain(text, Here, position - 1)
  PROVE  Behind'
<1>1. position - 1 \in Int /\ Plain(text, index, Here - 1) /\ Here \in Int /\ index \in Int
  BY HereIsPlain
<1>2. Plain(text, index, position - 1)
  BY <1>1, PlainJoin
<1>3. Cleared(text, index, position - 1, validated')
  BY <1>2, PlainIsCleared
<1>4. validated \subseteq validated' /\ validated' \subseteq 1..Len(text)
  BY DEF Behind
<1> QED
  BY <1>3, <1>4, ReadsOn

\* One character that is no bracket.
LEMMA PassesOne ==
  ASSUME IInv, Behind, mode \in {"operand", "after"}, NEW class, At(class), OpenBracket \notin class,
         NEW calls, NEW newMode \in {"operand", "after"},
         GoOn(Here + 1, calls, newMode), validated' = validated
  PROVE  Behind'
<1>1. text \in Text
  BY DEF IInv
<1>2. Here \in Int
  BY HereIsPlain
<1>3. text[Here] # OpenBracket
  BY <1>1, OneIsPlain DEF At
<1> DEFINE h == Here
<1>4. h \in Int /\ \A k \in h..((h + 1) - 1) : k = h
  <2> HIDE DEF h
  <2>1. h \in Int
    BY <1>2 DEF h
  <2> QED
    BY <2>1
<1>5. Plain(text, Here, (Here + 1) - 1) /\ Here + 1 \in Int
  BY <1>3, <1>4 DEF Plain
<1> QED
  BY <1>5, PassesPlain

\* It holds at the start.
LEMMA InitBehind == Init => Behind
<1> SUFFICES ASSUME Init PROVE Behind
  OBVIOUS
<1>1. \A i \in 1..(index - 1) : FALSE
  BY DEF Init
<1> QED
  BY <1>1 DEF Init, Behind, Cleared

\* Where a substitution stands, what is before it has no bracket.
LEMMA OperandAtIs ==
  ASSUME IInv, NEW class, Starts(class)
  PROVE  /\ OperandAt \in 1..Len(text) /\ OperandAt \in Int /\ text[OperandAt] \in class
         /\ Plain(text, index, OperandAt - 1) /\ index <= OperandAt
<1>1. text \in Text /\ Len(text) \in Nat
  BY DEF IInv, Text
<1>2. /\ Plain(text, index, Here - 1) /\ Here \in index..(Len(text) + 1) /\ Here \in Int
      /\ index \in 1..(Len(text) + 1)
  BY HereIsPlain DEF IInv
<1>3. CASE Prefixed
  <2>1. /\ text[Here] = Zero /\ Here + 2 <= Len(text)
        /\ PrefixDigits(text[Here + 1]) # {} /\ OperandAt = Here + 2
    BY <1>3 DEF Prefixed, At, Has, OperandAt
  <2>2. text[Here] # OpenBracket /\ text[Here + 1] # OpenBracket
    BY <2>1, ClassesArePlain DEF Zero, OpenBracket
  <2> DEFINE h == Here
  <2>3. h \in Int /\ \A k \in h..((h + 2) - 1) : k = h \/ k = h + 1
    <3> HIDE DEF h
    <3>1. h \in Int
      BY <1>2 DEF h
    <3> QED
      BY <3>1
  <2>4. Plain(text, Here, (Here + 2) - 1) /\ index \in Int
    BY <1>2, <2>2, <2>3 DEF Plain
  <2>4a. (Here + 2) - 1 \in Int
    BY <1>2
  <2>5. Plain(text, index, (Here + 2) - 1)
    BY <1>2, <2>4, <2>4a, PlainJoin
  <2>6. text[OperandAt] \in class
    BY DEF Starts, Has
  <2> QED
    BY <1>1, <1>2, <2>1, <2>5, <2>6
<1>4. CASE ~Prefixed
  <2>1. OperandAt = Here /\ OperandAt <= Len(text) /\ text[OperandAt] \in class
    BY <1>4 DEF Starts, Has, OperandAt
  <2> QED
    BY <1>1, <1>2, <2>1
<1> QED
  BY <1>3, <1>4

\* A literal without a bracket in the open.
LEMMA LiteralBehind ==
  ASSUME IInv, Behind, mode \in {"operand", "after"}, NEW end \in Int, Literal(end),
         end # 0 => Cleared(text, Here, end - 1, validated)
  PROVE  Behind'
<1>1. validated' = validated /\ validated' \subseteq 1..Len(text)
  BY DEF Literal, Behind
<1>2. CASE end = 0
  <2>1. GoOn(Here, stack, "refused")
    BY <1>2 DEF Literal
  <2> QED
    BY Zenon, <1>1, <2>1, Stops
<1>3. CASE end # 0
  <2>1. GoOn(end, stack, "after")
    BY <1>3 DEF Literal
  <2>2. Plain(text, index, Here - 1) /\ Here \in Int /\ index \in Int /\ end - 1 \in Int
    BY HereIsPlain
  <2>3. Cleared(text, index, Here - 1, validated)
    BY <2>2, PlainIsCleared
  <2>4. Cleared(text, index, end - 1, validated)
    BY <1>3, <2>2, <2>3, ClearedJoin
  <2>5. Cleared(text, index, end - 1, validated') /\ validated \subseteq validated'
    BY <1>1, <2>4
  <2> QED
    BY <1>1, <2>1, <2>5, ReadsOn
<1> QED
  BY <1>2, <1>3

\* Behind a brace, a dollar or a backslash nothing is sealed.
LEMMA HiddenIsCleared ==
  ASSUME NEW t, NEW h \in Int, NEW b \in Int, NEW v, h >= 1, t[h] \in {OpenBrace, Dollar, Backslash}
  PROVE  Cleared(t, h, b, v)
<1> SUFFICES ASSUME NEW i \in h..b, Sealed(t, i) PROVE FALSE
  BY DEF Cleared
<1>1. t[i] = OpenBracket /\ \A j \in 1..(i - 1) : t[j] \notin {OpenBrace, Dollar, Backslash}
  BY DEF Sealed
<1>2. i # h
  BY <1>1 DEF OpenBracket, OpenBrace, Dollar, Backslash
<1>3. h \in 1..(i - 1)
  BY <1>2
<1> QED
  BY <1>1, <1>3

\* Behind a variable's $ nothing is sealed.
LEMMA VariableBehind ==
  ASSUME IInv, Behind, Variable
  PROVE  Behind'
<1>1. mode \in {"operand", "after"} /\ Starts({Dollar}) /\ Literal(VariableEnd(text, OperandAt))
  BY DEF Variable
<1>2. /\ OperandAt \in 1..Len(text) /\ OperandAt \in Int /\ text[OperandAt] \in {Dollar}
      /\ Plain(text, index, OperandAt - 1)
  BY Zenon, <1>1, OperandAtIs
<1> DEFINE end == VariableEnd(text, OperandAt)
<1>3. end \in Int
  BY <1>2, VariableEndBounds DEF IInv
<1>4. OperandAt >= 1 /\ end - 1 \in Int /\ text[OperandAt] \in {OpenBrace, Dollar, Backslash}
  BY <1>2, <1>3
<1>5. Cleared(text, OperandAt, end - 1, validated)
  BY <1>2, <1>4, HiddenIsCleared
<1>6. Cleared(text, index, OperandAt - 1, validated)
  BY <1>2, PlainIsCleared
<1>7. Here \in Int /\ index \in Int /\ Here \in index..(Len(text) + 1)
  BY HereIsPlain
<1>8. Cleared(text, index, end - 1, validated)
  BY <1>2, <1>4, <1>5, <1>6, <1>7, ClearedJoin
<1> HIDE DEF end
<1>9. Cleared(text, Here, end - 1, validated)
  <2>1. \A i \in Here..(end - 1) : i \in index..(end - 1)
    BY <1>3, <1>7
  <2> QED
    BY Zenon, <1>8, <2>1 DEF Cleared
<1>10. Literal(end)
  BY <1>1 DEF end
<1> QED
  BY <1>1, <1>3, <1>9, <1>10, LiteralBehind

\* Nor behind an opening brace.
LEMMA BracedBehind ==
  ASSUME IInv, Behind, Braced
  PROVE  Behind'
<1> DEFINE end == NestedEnd(text, Here + 1, OpenBrace, CloseBrace)
<1>1. mode \in {"operand", "after"} /\ At({OpenBrace}) /\ Literal(end)
  BY DEF Braced
<1>2. Here \in 1..Len(text) /\ Here \in Int /\ text[Here] \in {OpenBrace} /\ text \in Text /\ Len(text) \in Nat
  BY <1>1, HereBounds DEF At, Has, IInv, Text
<1>3. end \in Int
  <2>1. Here + 1 \in 1..(Len(text) + 1)
    BY <1>2
  <2> QED
    BY <1>2, <2>1, NestedEndBounds
<1> HIDE DEF end
<1>4. Here >= 1 /\ end - 1 \in Int /\ text[Here] \in {OpenBrace, Dollar, Backslash}
  BY <1>2, <1>3
<1>5. Cleared(text, Here, end - 1, validated)
  BY <1>2, <1>4, HiddenIsCleared
<1> QED
  BY <1>1, <1>3, <1>5, LiteralBehind

\* A number has no bracket.
LEMMA NumberBehind ==
  ASSUME IInv, Behind, Number
  PROVE  Behind'
<1>1. /\ mode \in {"operand", "after"} /\ Literal(NumberEnd(text, Here))
      /\ At(Digits) \/ At({Dot})
  BY DEF Number
<1>2. Here \in 1..Len(text) /\ text[Here] \in Digits \union {Dot} /\ text \in Text
  BY <1>1, HereBounds DEF At, Has, IInv
<1>3. text[Here] # OpenBracket
  BY <1>2 DEF Digits, Dot, OpenBracket
<1> DEFINE end == NumberEnd(text, Here)
<1>4. end \in Int
  BY <1>2, NumberEndBounds
<1>5. end # 0 => Plain(text, Here, end - 1)
  BY <1>2, <1>3, NumberIsPlain
<1> HIDE DEF end
<1>6. end # 0 => Cleared(text, Here, end - 1, validated)
  BY <1>5, PlainIsCleared
<1> QED
  BY <1>1, <1>4, <1>6, LiteralBehind DEF end

\* A script in brackets was validated itself.
LEMMA BracketBehind ==
  ASSUME IInv, Behind, Bracket
  PROVE  Behind'
<1> DEFINE end == BracketEnd(text, OperandAt + 1)
<1>1. /\ mode \in {"operand", "after"} /\ Starts({OpenBracket})
      /\ \/ end = 0 /\ Literal(0)
         \/ /\ end # 0
            /\ validated' = validated \union {OperandAt}
            /\ GoOn(end, stack, "after") \/ GoOn(Here, stack, "nested")
  BY Zenon DEF Bracket
<1>2. /\ OperandAt \in 1..Len(text) /\ OperandAt \in Int
      /\ Plain(text, index, OperandAt - 1)
  BY Zenon, <1>1, OperandAtIs
<1>3. CASE end = 0
  <2>1. Literal(0) /\ validated' = validated /\ GoOn(Here, stack, "refused")
    BY <1>1, <1>3 DEF Literal
  <2>2. validated' \subseteq 1..Len(text)
    BY <2>1 DEF Behind
  <2> QED
    BY <2>1, <2>2, Stops
<1>4. CASE end # 0
  <2>1. validated' = validated \union {OperandAt} /\ validated' \subseteq 1..Len(text)
    BY <1>1, <1>2, <1>4 DEF Behind
  <2>2. CASE GoOn(Here, stack, "nested")
    BY <2>1, <2>2, Stops
  <2>3. CASE GoOn(end, stack, "after")
    <3>1. end \in Int /\ index \in Int /\ text \in Text
      <4>1. OperandAt + 1 \in 1..(Len(text) + 1) /\ text \in Text
        BY <1>2 DEF IInv, Text
      <4> QED
        BY <4>1, BracketEndBounds, HereIsPlain
    <3>2. Cleared(text, index, OperandAt - 1, validated')
      BY <1>2, PlainIsCleared
    <3>3. Cleared(text, OperandAt, end - 1, validated')
      <4> SUFFICES ASSUME NEW i \in OperandAt..(end - 1) PROVE \E k \in validated' : Covers(text, k, i)
        BY DEF Cleared
      <4>0. \A a, e \in Int : \A j \in a..(e - 1) : a <= j /\ j < e
        OBVIOUS
      <4>1. OperandAt <= i /\ i < end
        BY Zenon, <1>2, <3>1, <4>0
      <4>2. Covers(text, OperandAt, i) /\ OperandAt \in validated'
        BY <2>1, <4>1 DEF Covers
      <4> QED
        BY <4>2
    <3> HIDE DEF end
    <3>4. end - 1 \in Int
      BY <3>1
    <3>5. Cleared(text, index, end - 1, validated')
      BY <1>2, <3>1, <3>2, <3>3, <3>4, ClearedJoin
    <3> QED
      BY <1>1, <2>1, <2>3, <3>1, <3>5, ReadsOn
  <2> QED
    BY <1>1, <1>4, <2>2, <2>3
<1> QED
  BY <1>3, <1>4

\* A quote that closes is behind the opening one.
LEMMA QuotedEndIs ==
  ASSUME NEW t \in Text, NEW i \in 1..(Len(t) + 1), QuotedEnd(t, i) # 0
  PROVE  QuotedEnd(t, i) \in (i + 1)..(Len(t) + 1) /\ t[QuotedEnd(t, i) - 1] = Quote
<1> DEFINE stops == {k \in i..Len(t) : t[k] = Quote /\ ~Escaped(t, i, k)}
           last == FirstIn(t, i, stops)
<1>1. Len(t) \in Nat /\ i \in Nat \ {0} /\ i <= Len(t) + 1
  BY DEF Text
<1>2. last \in i..(Len(t) + 1) /\ (last <= Len(t) => last \in stops)
  BY <1>1, FirstInIs
<1>3. QuotedEnd(t, i) = IF last > Len(t) THEN 0 ELSE last + 1
  BY DEF QuotedEnd
<1>4. last <= Len(t) => t[last] = Quote
  BY <1>2
<1> HIDE DEF last, stops
<1>5. last <= Len(t) /\ QuotedEnd(t, i) = last + 1 /\ (last + 1) - 1 = last
  BY <1>1, <1>2, <1>3
<1> QED
  BY <1>1, <1>2, <1>4, <1>5

\* In quotes, every script up to the first backslash was found.
LEMMA QuotedBehind ==
  ASSUME IInv, Behind, Quoted
  PROVE  Behind'
<1> DEFINE end == QuotedEnd(text, Here + 1)
           brackets == QuotedBrackets(text, Here + 1, end - 2)
<1>1. /\ mode \in {"operand", "after"} /\ At({Quote})
      /\ \/ end = 0 /\ Literal(0)
         \/ /\ end # 0
            /\ validated' = validated \union brackets.starts
            /\ (brackets.closed /\ GoOn(end, stack, "after")) \/ GoOn(Here, stack, "nested")
  BY Zenon DEF Quoted
<1>2. /\ Here \in 1..Len(text) /\ Here \in Int /\ text[Here] \in {Quote}
      /\ text \in Text /\ Len(text) \in Nat
  BY <1>1, HereBounds DEF At, Has, IInv, Text
<1>3. CASE end = 0
  <2>1. Literal(0) /\ validated' = validated /\ GoOn(Here, stack, "refused")
    BY <1>1, <1>3 DEF Literal
  <2>2. validated' \subseteq 1..Len(text)
    BY <2>1 DEF Behind
  <2> QED
    BY <2>1, <2>2, Stops
<1>4. CASE end # 0
  <2>1. end \in (Here + 2)..(Len(text) + 1) /\ text[end - 1] = Quote
    <3>1. Here + 1 \in 1..(Len(text) + 1)
      BY <1>2
    <3>2. end \in ((Here + 1) + 1)..(Len(text) + 1) /\ text[end - 1] = Quote
      BY <1>2, <1>4, <3>1, QuotedEndIs
    <3>3. (Here + 1) + 1 = Here + 2
      BY <1>2
    <3> HIDE DEF end
    <3> QED
      BY <3>2, <3>3
  <2> HIDE DEF end
  <2>2. end - 2 \in Nat /\ end - 2 <= Len(text) /\ Here + 1 \in 1..((end - 2) + 1)
    BY <1>2, <2>1
  <2> DEFINE i == Here + 1
             n == end - 2
  <2> HIDE DEF i, n
  <2>3. n \in Nat /\ n <= Len(text) /\ i \in 1..(n + 1) /\ brackets = QuotedBrackets(text, i, n)
    BY <2>2 DEF i, n
  <2> HIDE DEF brackets
  <2>4. /\ brackets \in Found(i..n, BOOLEAN)
        /\ brackets.closed =>
             \A p \in i..n : text[p] = OpenBracket /\ (\A j \in i..(p - 1) : text[j] # Backslash)
                             => \E s \in brackets.starts : Covers(text, s, p)
    BY <1>2, <2>3, QuotedBracketsAre
  <2>5. brackets.starts \in SUBSET (i..n)
    BY Zenon, <2>4, FoundTypes
  <2>6. \A s \in i..n : s \in 1..Len(text)
    BY <1>2, <2>3
  <2>7. validated' = validated \union brackets.starts /\ validated' \subseteq 1..Len(text)
    BY <1>1, <1>4, <2>5, <2>6 DEF Behind
  <2>8. CASE GoOn(Here, stack, "nested")
    BY <2>7, <2>8, Stops
  <2>9. CASE brackets.closed /\ GoOn(end, stack, "after")
    <3>1. end \in Int /\ end - 1 \in Int /\ index \in Int /\ Plain(text, index, Here - 1)
      BY <2>1, HereIsPlain
    <3>2. Cleared(text, index, Here - 1, validated')
      BY <3>1, PlainIsCleared
    <3>3. ASSUME NEW p \in Here..(end - 1), Sealed(text, p)
          PROVE  \E k \in validated' : Covers(text, k, p)
      <4>1. text[p] = OpenBracket /\ \A j \in 1..(p - 1) : text[j] # Backslash
        BY <3>3 DEF Sealed
      <4>2. p # Here /\ p # end - 1
        BY <1>2, <2>1, <4>1 DEF OpenBracket, Quote
      <4>3. p \in i..n /\ \A j \in i..(p - 1) : j \in 1..(p - 1)
        <5> DEFINE h == Here
        <5>1. h \in Int /\ h >= 1 /\ p \in h..(end - 1) /\ p # h /\ p # end - 1 /\ i = h + 1
          BY <1>2, <4>2 DEF i
        <5> HIDE DEF h
        <5> QED
          BY <2>1, <5>1, <3>1 DEF n
      <4>4. \E s \in brackets.starts : Covers(text, s, p)
        BY Zenon, <2>4, <2>9, <4>1, <4>3
      <4> QED
        BY Zenon, <2>7, <4>4
    <3>4. Cleared(text, Here, end - 1, validated')
      BY <3>3 DEF Cleared
    <3>5. Cleared(text, index, end - 1, validated')
      BY <1>2, <3>1, <3>2, <3>4, ClearedJoin
    <3> QED
      BY <1>1, <2>7, <2>9, <3>1, <3>5, ReadsOn
  <2> QED
    BY <1>1, <1>4, <2>8, <2>9
<1> QED
  BY <1>3, <1>4

\* A name has no bracket.
LEMMA NameIsPlain ==
  ASSUME IInv
  PROVE  Plain(text, Here, NameEnd - 1) /\ NameEnd \in Here..(Len(text) + 1) /\ NameEnd \in Int
         /\ Here \in 1..(Len(text) + 1) /\ NameEnd \in 1..(Len(text) + 1) /\ text \in Text /\ Len(text) \in Nat
<1>1. Here \in 1..(Len(text) + 1) /\ text \in Text /\ Len(text) \in Nat
  BY HereBounds DEF IInv, Text
<1>2. Plain(text, Here, NameEnd - 1) /\ NameEnd \in Here..(Len(text) + 1)
  BY <1>1, RunIsPlain, ClassesArePlain DEF NameEnd
<1> QED
  BY <1>1, <1>2

\* A constant is a name.
LEMMA ConstantBehind ==
  ASSUME IInv, Behind, Constant
  PROVE  Behind'
<1> DEFINE end == IF IsConstant(SubSeq(text, Here, NameEnd - 1)) THEN NameEnd ELSE 0
<1>1. mode \in {"operand", "after"} /\ Literal(end)
  BY DEF Constant
<1>2. NameEnd \in Int /\ Cleared(text, Here, NameEnd - 1, validated)
  BY NameIsPlain, PlainIsCleared
<1>3. end \in Int /\ (end # 0 => Cleared(text, Here, end - 1, validated))
  BY <1>2
<1> HIDE DEF end
<1> QED
  BY <1>1, <1>3, LiteralBehind

\* The name of a call, the blanks and the parentheses behind it have no bracket.
LEMMA CallBehind ==
  ASSUME IInv, Behind, Call
  PROVE  Behind'
<1> DEFINE paren == SkipBlanks(text, NameEnd)
           arguments == SkipBlanks(text, paren + 1)
<1>1. /\ mode \in {"operand", "after"} /\ Has(text, paren, {OpenParen}) /\ validated' = validated
      /\ \/ Has(text, arguments, {CloseParen}) /\ GoOn(arguments + 1, stack, "after")
         \/ GoOn(arguments, Append(stack, "call") \o Expression, "operand")
  BY Zenon DEF Call, Calls
<1>2. /\ Plain(text, Here, NameEnd - 1) /\ NameEnd \in 1..(Len(text) + 1) /\ NameEnd \in Int
      /\ Here \in Int /\ text \in Text /\ Len(text) \in Nat
  BY NameIsPlain, HereIsPlain
<1>3. OpenBracket \notin {OpenParen} /\ OpenBracket \notin {CloseParen}
  BY DEF OpenBracket, OpenParen, CloseParen
<1>4. Plain(text, NameEnd, paren - 1) /\ paren \in NameEnd..(Len(text) + 1)
  BY <1>2, RunIsPlain, ClassesArePlain DEF SkipBlanks
<1>5. paren \in 1..Len(text) /\ paren \in Int /\ text[paren] # OpenBracket
  <2>1. paren <= Len(text) /\ text[paren] # OpenBracket
    BY <1>1, <1>2, <1>3, OneIsPlain DEF Has
  <2> HIDE DEF paren
  <2> QED
    BY <1>2, <1>4, <2>1
<1>6. Plain(text, Here, paren)
  <2> HIDE DEF paren
  <2>1. paren - 1 \in Int
    BY <1>5
  <2>2. Plain(text, Here, paren - 1)
    BY <1>2, <1>4, <2>1, PlainJoin
  <2>3. Plain(text, paren, paren)
    BY <1>5 DEF Plain
  <2> QED
    BY <1>2, <1>5, <2>2, <2>3, PlainJoin
<1>7. Plain(text, paren + 1, arguments - 1) /\ arguments \in (paren + 1)..(Len(text) + 1)
  <2>1. paren + 1 \in 1..(Len(text) + 1)
    BY <1>2, <1>5
  <2> HIDE DEF paren
  <2> QED
    BY <1>2, <2>1, RunIsPlain, ClassesArePlain DEF SkipBlanks
<1> HIDE DEF paren, arguments
<1>8. arguments \in Int /\ paren + 1 \in Int /\ arguments - 1 \in Int /\ (paren + 1) - 1 = paren
  BY <1>5, <1>7
<1>9. Plain(text, Here, (paren + 1) - 1)
  BY <1>6, <1>8
<1>10. Plain(text, Here, arguments - 1)
  BY <1>2, <1>7, <1>8, <1>9, PlainJoin
<1>11. CASE GoOn(arguments, Append(stack, "call") \o Expression, "operand")
  BY <1>1, <1>8, <1>10, <1>11, PassesPlain
<1>12. CASE Has(text, arguments, {CloseParen}) /\ GoOn(arguments + 1, stack, "after")
  <2>1. text[arguments] # OpenBracket
    BY <1>2, <1>3, <1>12, OneIsPlain
  <2>2. \A k \in arguments..((arguments + 1) - 1) : k = arguments
    BY <1>8
  <2>3. Plain(text, arguments, (arguments + 1) - 1) /\ arguments + 1 \in Int /\ (arguments + 1) - 1 \in Int
    BY <1>8, <2>1, <2>2 DEF Plain
  <2>4. Plain(text, Here, (arguments + 1) - 1)
    BY <1>2, <1>8, <1>10, <2>3, PlainJoin
  <2> QED
    BY <1>1, <1>12, <2>3, <2>4, PassesPlain
<1> QED
  BY <1>1, <1>11, <1>12

\* The characters that stand alone.
LEMMA SingleIsPlain ==
  OpenBracket \notin {Question, OpenParen, CloseParen, Colon, Comma} \union UnaryOperators
BY DEF OpenBracket, Question, OpenParen, CloseParen, Colon, Comma, UnaryOperators, Not, Tilde, Minus, Plus

\* A binary operator is passed with all its characters.
LEMMA OperatorBehind ==
  ASSUME IInv, Behind, NEW l \in 1..Len(Levels), NEW n, Operator(Levels[l], n)
  PROVE  Behind'
<1>1. PICK k \in 1..Len(Operators[Levels[l]]) :
        /\ mode \in {"operand", "after"} /\ validated' = validated
        /\ OpMatches(text, Here, Operators[Levels[l]][k])
        /\ \E calls : GoOn(Here + Len(Operators[Levels[l]][k].spelling), calls, "operand")
  BY Zenon DEF Operator, FirstMatches
<1> DEFINE spelling == Operators[Levels[l]][k].spelling
           size == Len(spelling)
           end == Here + size
<1>2. size \in 1..2 /\ \A m \in 1..size : spelling[m] # OpenBracket
  BY OperatorsAreSpelled, OperatorsArePlain
<1>3. end <= Len(text) + 1 /\ SubSeq(text, Here, end - 1) = spelling
  BY Zenon, <1>1 DEF OpMatches
<1>4. PICK calls : GoOn(end, calls, "operand")
  BY <1>1
<1> HIDE DEF spelling
<1>5. Here \in Int /\ Here \in 1..(Len(text) + 1) /\ Len(text) \in Nat
  BY HereIsPlain, HereBounds DEF IInv, Text
<1>6. ASSUME NEW i \in Here..(end - 1) PROVE text[i] # OpenBracket
  <2> DEFINE h == Here
  <2>1. h \in 1..(Len(text) + 1)
    BY <1>5
  <2> HIDE DEF h
  <2>2. SubSeq(text, h, (h + size) - 1) = spelling /\ i \in h..((h + size) - 1) /\ h + size <= Len(text) + 1
    BY <1>3 DEF h
  <2> HIDE DEF size
  <2>3. SubSeq(text, h, (h + size) - 1)[i - h + 1] = text[i] /\ i - h + 1 \in 1..size
    BY <1>2, <1>5, <2>1, <2>2
  <2> QED
    BY <1>2, <2>2, <2>3
<1>7. Plain(text, Here, end - 1)
  BY <1>6 DEF Plain
<1>8. end \in Int
  <2> HIDE DEF size
  <2> QED
    BY <1>2, <1>5
<1> HIDE DEF end
<1> QED
  BY <1>1, <1>4, <1>7, <1>8, PassesPlain

\* The steps that read one character.
LEMMA SingleBehind ==
  ASSUME IInv, Behind, NEW n,
         \/ Unary \/ Parenthesis
         \/ Condition(n) \/ Otherwise(n) \/ CloseParenthesis(n) \/ Argument(n)
  PROVE  Behind'
<1> DEFINE single == {Question, OpenParen, CloseParen, Colon, Comma} \union UnaryOperators
<1>1. \A class : class \subseteq single => OpenBracket \notin class
  BY SingleIsPlain
<1>2. /\ UnaryOperators \subseteq single /\ {OpenParen} \subseteq single /\ {Question} \subseteq single
      /\ {Colon} \subseteq single /\ {CloseParen} \subseteq single /\ {Comma} \subseteq single
  OBVIOUS
<1>3. Condition(n) => At({Question})
  BY DEF Condition, Resumes, GoesOn
<1> DEFINE ReadsOne ==
             /\ mode \in {"operand", "after"} /\ validated' = validated
             /\ \E class \in SUBSET single : At(class)
             /\ \E calls : \E newMode \in {"operand", "after"} : GoOn(Here + 1, calls, newMode)
<1>4. ReadsOne
  <2> HIDE DEF single
  <2>1. ASSUME Unary PROVE ReadsOne
    BY Zenon, <1>2, <2>1 DEF Unary
  <2>2. ASSUME Parenthesis PROVE ReadsOne
    BY Zenon, <1>2, <2>2 DEF Parenthesis
  <2>3. ASSUME Condition(n) PROVE ReadsOne
    BY Zenon, <1>2, <1>3, <2>3 DEF Condition
  <2>4. ASSUME Otherwise(n) PROVE ReadsOne
    BY Zenon, <1>2, <2>4 DEF Otherwise
  <2>5. ASSUME CloseParenthesis(n) PROVE ReadsOne
    BY Zenon, <1>2, <2>5 DEF CloseParenthesis
  <2>6. ASSUME Argument(n) PROVE ReadsOne
    BY Zenon, <1>2, <2>6 DEF Argument
  <2> QED
    BY Zenon, <2>1, <2>2, <2>3, <2>4, <2>5, <2>6
<1> HIDE DEF single
<1>5. PICK class \in SUBSET single : At(class)
  BY <1>4
<1>6. PICK calls : \E newMode \in {"operand", "after"} : GoOn(Here + 1, calls, newMode)
  BY <1>4
<1>7. PICK newMode \in {"operand", "after"} : GoOn(Here + 1, calls, newMode)
  BY <1>6
<1> QED
  BY <1>1, <1>4, <1>5, <1>7, PassesOne

\* At the end of the descent the position is behind the text, or it is refused.
LEMMA EndBehind ==
  ASSUME IInv, Behind, Ends
  PROVE  Behind'
<1>1. /\ mode = "after" /\ validated' = validated /\ text' = text /\ index' = Here
      /\ mode' = IF Here > Len(text) THEN "accepted" ELSE "refused"
  BY Zenon DEF Ends, GoOn
<1>2. /\ Here \in index..(Len(text) + 1) /\ Here \in Int /\ index \in Int
      /\ Plain(text, index, Here - 1) /\ Len(text) \in Nat
  BY HereIsPlain DEF IInv, Text
<1>3. Cleared(text, 1, index - 1, validated) /\ validated \subseteq 1..Len(text)
  BY <1>1 DEF Behind
<1>4. Cleared(text, index, Here - 1, validated) /\ Here - 1 \in Int /\ 1 \in Int
  BY <1>2, PlainIsCleared
<1>5. Cleared(text, 1, Here - 1, validated)
  BY <1>2, <1>3, <1>4, ClearedJoin
<1>6. mode' \in {"accepted", "refused"} /\ (mode' = "accepted" => Here = Len(text) + 1)
  BY <1>1, <1>2
<1> QED
  BY <1>1, <1>3, <1>5, <1>6 DEF Behind

\* Every step keeps it.
LEMMA StepBehind == IInv /\ Behind /\ [Next]_vars => Behind'
<1> SUFFICES ASSUME IInv, Behind, [Next]_vars PROVE Behind'
  OBVIOUS
<1>1. ASSUME UNCHANGED vars PROVE Behind'
  BY <1>1 DEF vars, Behind
<1>2. validated \subseteq 1..Len(text)
  BY DEF Behind
<1>3. ASSUME NoOperand PROVE Behind'
  <2>1. GoOn(Here, stack, "refused") /\ validated' = validated
    BY <1>3 DEF NoOperand, Literal
  <2> QED
    BY <1>2, <2>1, Stops
<1>4. ASSUME NEW n, Expected(n) PROVE Behind'
  <2>1. GoOn(Here, stack, "refused") /\ validated' = validated
    BY <1>4 DEF Expected
  <2> QED
    BY <1>2, <2>1, Stops
<1>5. ASSUME Next PROVE Behind'
  <2>1. Done => Behind'
    BY <1>1 DEF Done
  <2> QED
    BY Zenon, <1>3, <1>4, <1>5, <2>1, VariableBehind, BracedBehind, NumberBehind, BracketBehind, QuotedBehind,
       ConstantBehind, CallBehind, OperatorBehind, SingleBehind, EndBehind DEF Next
<1> QED
  BY <1>1, <1>5

\* The two invariants hold together.
LEMMA BothHold == Spec => [](IInv /\ Behind)
<1>1. IInv /\ Behind /\ [Next]_vars => (IInv /\ Behind)'
  BY StepKeepsIInv, StepBehind
<1> QED
  BY <1>1, InitIInv, InitBehind, PTL DEF Spec

------------------------------------------------------------------------------
\* The state of the descent is always of its type (expr.c:18-873).
THEOREM TypesHold == Spec => []TypeOK
<1>1. IInv /\ Behind => TypeOK
  BY DEF IInv, Behind, TypeOK, Text
<1> QED
  BY <1>1, BothHold, PTL

\* Every script in brackets of an accepted expression was validated, in every
\* operand: alone, behind the prefix of a number, in quotes, in arguments, and in
\* both branches of a condition (expr.c:219-312, expr.c:399-543).
THEOREM ScriptsAreValidated == Spec => []SubstitutionsAreValidated
<1>1. IInv /\ Behind => SubstitutionsAreValidated
  <2> SUFFICES ASSUME IInv, Behind, mode = "accepted", NEW i \in 1..Len(text),
                      text[i] = OpenBracket, ~Hidden(i, {OpenBrace, Dollar, Backslash})
               PROVE  Checked(i)
    BY DEF SubstitutionsAreValidated
  <2>1. Len(text) \in Nat /\ index = Len(text) + 1 /\ Cleared(text, 1, index - 1, validated)
    BY DEF IInv, Behind, Text
  <2>2. i \in 1..(index - 1)
    BY <2>1
  <2>3. Sealed(text, i)
    BY DEF Sealed, Hidden
  <2> QED
    BY Zenon, <2>1, <2>2, <2>3 DEF Cleared, Covers, Checked
<1> QED
  BY <1>1, BothHold, PTL

------------------------------------------------------------------------------
\* The grammar (ExprGrammar) as relations of positions: its spans of n characters
\* depend on shorter ones only, so that all spans of a text satisfy the rules.

\* The spans that were derived, of expressions and of lists of arguments, and the
\* rules that derive them.
Tables == [E : SUBSET (Nat \X Nat), A : SUBSET (Nat \X Nat)]
Nothing == [E |-> {}, A |-> {}]
OperandEnds(t) == [i \in 1..Len(t) |-> OperandEnd(t, i)]
SpansOf(t, n) == {Span(i, i + n) : i \in 1..(Len(t) + 1 - n)}
NewE(t, n, d) == {s \in SpansOf(t, n) : MakesExpression(t, OperandEnds(t), d.E, d.A, s[1], s[2])}
NewA(t, n, d) == {s \in SpansOf(t, n) : MakesArguments(t, d.E \union NewE(t, n, d), d.A, s[1], s[2])}

\* Two tables have the same spans of less than n characters.
SameBelow(n, D1, D2) ==
  \A i, j \in Nat :
    j - i < n => (<<i, j>> \in D1.E <=> <<i, j>> \in D2.E) /\ (<<i, j>> \in D1.A <=> <<i, j>> \in D2.A)

\* One step adds spans of its length.
LEMMA StepIs ==
  ASSUME NEW t \in Text, NEW n \in 1..Len(t), NEW d \in Tables
  PROVE  /\ Step(t, OperandEnds(t), n, d) \in Tables
         /\ Step(t, OperandEnds(t), n, d).E = d.E \union NewE(t, n, d)
         /\ Step(t, OperandEnds(t), n, d).A = d.A \union NewA(t, n, d)
<1>1. Len(t) \in Nat
  BY DEF Text
<1>2. SpansOf(t, n) \subseteq Nat \X Nat
  BY <1>1 DEF SpansOf, Span
<1>3. NewE(t, n, d) \subseteq Nat \X Nat /\ NewA(t, n, d) \subseteq Nat \X Nat
  BY <1>2 DEF NewE, NewA
<1>4. Step(t, OperandEnds(t), n, d) = [E |-> d.E \union NewE(t, n, d), A |-> d.A \union NewA(t, n, d)]
  BY Zenon DEF Step, NewE, NewA, SpansOf
<1>5. d.E \subseteq Nat \X Nat /\ d.A \subseteq Nat \X Nat
  BY DEF Tables
<1> QED
  BY <1>3, <1>4, <1>5 DEF Tables

\* The tables that the grammar's definition speaks of exist.
LEMMA DerivedIs ==
  ASSUME NEW t \in Text
  PROVE  /\ Derived(t, 0) = Nothing
         /\ \A n \in 0..Len(t) : Derived(t, n) \in Tables
         /\ \A n \in 1..Len(t) : Derived(t, n) = Step(t, OperandEnds(t), n, Derived(t, n - 1))
<1> DEFINE N == Len(t)
           ops == OperandEnds(t)
           Table(f) == [m \in 0..N |-> IF m = 0 THEN [E |-> {}, A |-> {}] ELSE Step(t, ops, m, f[m - 1])]
           upTo == CHOOSE f : f = Table(f)
           step == [p \in Tables \X (1..N) |-> Step(t, ops, p[2], p[1])]
<1>1. \A n : Derived(t, n) = upTo[n]
  BY Zenon DEF Derived, OperandEnds
<1>2. N \in Nat
  BY DEF Text
<1>3. ASSUME NEW g
      PROVE  /\ Table(g)[0] = Nothing
             /\ \A k \in 1..N : Table(g)[k] = Step(t, ops, k, g[k - 1])
             /\ Table(g) = [k \in 0..N |-> Table(g)[k]]
  <2> HIDE DEF N, ops
  <2>1. 0 \in 0..N
    BY <1>2
  <2>2. \A k \in 1..N : k \in 0..N /\ k # 0
    BY <1>2
  <2>3. Table(g)[0] = Nothing
    BY <2>1 DEF Nothing
  <2>4. \A k \in 1..N : Table(g)[k] = Step(t, ops, k, g[k - 1])
    BY Zenon, <2>2
  <2> QED
    BY <2>3, <2>4
<1>4. \A d \in Tables : \A k \in 1..N : Step(t, ops, k, d) \in Tables
  BY StepIs
<1>5. Nothing \in Tables
  BY DEF Nothing, Tables
<1> HIDE DEF N, ops, Table
<1>6. PICK g : GoesBy(g, 0, N, Tables, Nothing, step)
  <2>1. ASSUME NEW d \in Tables, NEW k \in (0 + 1)..N
        PROVE  step[<<d, k>>] \in Tables
    <3>1. <<d, k>> \in Tables \X (1..N) /\ k \in 1..N
      OBVIOUS
    <3>2. step[<<d, k>>] = Step(t, ops, k, d)
      BY <3>1
    <3> QED
      BY <1>4, <3>1, <3>2
  <2> HIDE DEF step
  <2>2. 0 \in Int /\ N \in Int /\ 0 <= N
    BY <1>2
  <2> QED
    BY Zenon, <1>5, <2>1, <2>2, Recursion
<1>7. g \in [0..N -> Tables] /\ g = Table(g)
  <2>1. g \in [0..N -> Tables] /\ g[0] = Nothing
    BY <1>6 DEF GoesBy
  <2>2. ASSUME NEW k \in 1..N PROVE g[k] = Table(g)[k]
    <3>1. k \in (0 + 1)..N /\ k - 1 \in 0..N
      BY <1>2
    <3>2. <<g[k - 1], k>> \in Tables \X (1..N)
      BY <2>1, <3>1
    <3>3. step[<<g[k - 1], k>>] = Step(t, ops, k, g[k - 1])
      BY <3>2
    <3> HIDE DEF step
    <3>4. g[k] = step[<<g[k - 1], k>>]
      BY Zenon, <1>6, <3>1 DEF GoesBy
    <3> QED
      BY <1>3, <3>3, <3>4
  <2>3. \A k \in 0..N : k = 0 \/ k \in 1..N
    BY <1>2
  <2>4. \A k \in 0..N : g[k] = Table(g)[k]
    BY <1>3, <2>1, <2>2, <2>3
  <2> QED
    BY <1>3, <2>1, <2>4
<1>8. upTo = Table(upTo)
  BY ONLY <1>7
<1> HIDE DEF upTo
<1>9. upTo[0] = Nothing /\ \A k \in 1..N : upTo[k] = Step(t, ops, k, upTo[k - 1])
  BY <1>3, <1>8
<1>10. \A k \in 0..N : upTo[k] \in Tables
  <2> DEFINE S == {k \in 0..N : upTo[k] \in Tables}
  <2>1. 0 \in S
    BY <1>2, <1>5, <1>9
  <2>2. ASSUME NEW k \in (0 + 1)..N, k - 1 \in S PROVE k \in S
    <3>1. k \in 1..N /\ k \in 0..N
      BY <1>2
    <3> QED
      BY <1>4, <1>9, <2>2, <3>1
  <2>3. 0 \in Int /\ N \in Int
    BY <1>2
  <2> HIDE DEF S
  <2>4. \A k \in 0..N : k \in S
    BY <2>1, <2>2, <2>3, BoundedInduction
  <2> QED
    BY <2>4 DEF S
<1> QED
  BY <1>1, <1>9, <1>10 DEF N, ops

\* A table has the spans up to its length, and no later one adds a span to them.
LEMMA DerivedGrows ==
  ASSUME NEW t \in Text
  PROVE  \A n \in 0..Len(t) :
           /\ \A s \in Derived(t, n).E \union Derived(t, n).A :
                \E i, j \in Nat : s = <<i, j>> /\ 1 <= i /\ i < j /\ j <= Len(t) + 1 /\ j - i <= n
           /\ \A m \in 0..n : SameBelow(m + 1, Derived(t, n), Derived(t, m))
<1> DEFINE Shaped(n) ==
             \A s \in Derived(t, n).E \union Derived(t, n).A :
               \E i, j \in Nat : s = <<i, j>> /\ 1 <= i /\ i < j /\ j <= Len(t) + 1 /\ j - i <= n
           Same(n, m) == SameBelow(m + 1, Derived(t, n), Derived(t, m))
           S == {n \in 0..Len(t) : Shaped(n) /\ \A m \in 0..n : Same(n, m)}
<1>1. Len(t) \in Nat
  BY DEF Text
<1>2. 0 \in S
  <2>1. Shaped(0)
    BY DerivedIs DEF Nothing
  <2>2. \A m \in 0..0 : Same(0, m)
    BY DEF SameBelow
  <2> HIDE DEF Shaped, Same
  <2> QED
    BY <1>1, <2>1, <2>2
<1>3. ASSUME NEW n \in (0 + 1)..Len(t), n - 1 \in S PROVE n \in S
  <2> DEFINE d == Derived(t, n - 1)
             e == Derived(t, n)
  <2>1. n \in 1..Len(t) /\ n - 1 \in 0..Len(t) /\ n \in 0..Len(t) /\ n \in Nat
    BY <1>1
  <2>2. d \in Tables /\ e = Step(t, OperandEnds(t), n, d)
    BY <2>1, DerivedIs
  <2>3. Shaped(n - 1) /\ \A m \in 0..(n - 1) : Same(n - 1, m)
    BY <1>3
  <2> HIDE DEF d, e, S
  <2>4. /\ e.E = d.E \union NewE(t, n, d)
        /\ e.A = d.A \union NewA(t, n, d)
    BY <2>1, <2>2, StepIs
  <2>5. ASSUME NEW s \in NewE(t, n, d) \union NewA(t, n, d)
        PROVE  \E i, j \in Nat : s = <<i, j>> /\ 1 <= i /\ i < j /\ j <= Len(t) + 1 /\ j - i = n
    <3>1. s \in SpansOf(t, n)
      BY <2>5 DEF NewE, NewA
    <3>2. PICK i \in 1..(Len(t) + 1 - n) : s = <<i, i + n>>
      BY <3>1 DEF SpansOf, Span
    <3>3. i \in Nat /\ i + n \in Nat /\ 1 <= i /\ i < i + n /\ i + n <= Len(t) + 1 /\ (i + n) - i = n
      BY <1>1, <2>1
    <3> QED
      BY <3>2, <3>3
  <2>6. Shaped(n)
    <3> SUFFICES ASSUME NEW s \in e.E \union e.A
                 PROVE  \E i, j \in Nat : s = <<i, j>> /\ 1 <= i /\ i < j /\ j <= Len(t) + 1 /\ j - i <= n
      BY DEF e
    <3>1. CASE s \in d.E \union d.A
      <4>1. PICK i, j \in Nat : s = <<i, j>> /\ 1 <= i /\ i < j /\ j <= Len(t) + 1 /\ j - i <= n - 1
        BY <2>3, <3>1 DEF d
      <4>2. j - i <= n
        BY <2>1, <4>1
      <4> QED
        BY <4>1, <4>2
    <3>2. CASE s \in NewE(t, n, d) \union NewA(t, n, d)
      <4>1. PICK i, j \in Nat : s = <<i, j>> /\ 1 <= i /\ i < j /\ j <= Len(t) + 1 /\ j - i = n
        BY <2>5, <3>2
      <4>2. j - i <= n
        BY <2>1, <4>1
      <4> QED
        BY <4>1, <4>2
    <3> QED
      BY <2>4, <3>1, <3>2
  <2>7. ASSUME NEW i \in Nat, NEW j \in Nat, j - i <= n - 1
        PROVE  /\ <<i, j>> \in e.E <=> <<i, j>> \in d.E
               /\ <<i, j>> \in e.A <=> <<i, j>> \in d.A
    <3>1. <<i, j>> \notin NewE(t, n, d) \union NewA(t, n, d)
      <4> SUFFICES ASSUME <<i, j>> \in NewE(t, n, d) \union NewA(t, n, d) PROVE FALSE
        OBVIOUS
      <4>1. PICK a, b \in Nat : <<i, j>> = <<a, b>> /\ b - a = n
        BY <2>5
      <4> QED
        BY <2>1, <2>7, <4>1
    <3> QED
      BY <2>4, <3>1
  <2>8. ASSUME NEW m \in 0..n PROVE Same(n, m)
    <3>1. CASE m = n
      BY <3>1 DEF SameBelow
    <3>2. CASE m # n
      <4>1. m \in 0..(n - 1)
        BY <2>1, <3>2
      <4>2. \A i, j \in Nat : j - i < m + 1 => j - i <= n - 1
        BY <2>1, <4>1
      <4>3. SameBelow(m + 1, d, Derived(t, m))
        BY <2>3, <4>1 DEF d
      <4> QED
        BY <2>7, <4>2, <4>3 DEF SameBelow, e
    <3> QED
      BY <3>1, <3>2
  <2> HIDE DEF Shaped, Same
  <2> QED
    BY <2>1, <2>6, <2>8 DEF S
<1> HIDE DEF S
<1>4. 0 \in Int /\ Len(t) \in Int
  BY <1>1
<1>5. \A n \in 0..Len(t) : n \in S
  BY <1>2, <1>3, <1>4, BoundedInduction
<1> QED
  BY <1>5 DEF S

\* The rules look at shorter spans only.
LEMMA RulesLookInside ==
  ASSUME NEW t \in Text, NEW i \in 1..Len(t), NEW j \in 1..(Len(t) + 1), i < j,
         NEW D1 \in Tables, NEW D2 \in Tables, NEW ops,
         SameBelow(j - i, D1, D2)
  PROVE  /\ MakesExpression(t, ops, D1.E, D1.A, i, j) => MakesExpression(t, ops, D2.E, D2.A, i, j)
         /\ MakesArguments(t, D1.E, D1.A, i, j) /\ (<<i, j>> \in D1.E => <<i, j>> \in D2.E)
            => MakesArguments(t, D2.E, D2.A, i, j)
<1>1. Len(t) \in Nat /\ i \in Nat /\ j \in Nat
  BY DEF Text
<1>2. ASSUME Applies(t, D1.A, i, j) PROVE Applies(t, D2.A, i, j)
  <2> DEFINE open == SkipBlanks(t, RunEnd(t, i, NameChars))
  <2>1. open \in Nat /\ i <= open
    <3> DEFINE name == RunEnd(t, i, NameChars)
    <3>1. name \in i..(Len(t) + 1)
      BY RunEndBounds
    <3>2. name \in 1..(Len(t) + 1)
      BY <1>1, <3>1
    <3>3. SkipBlanks(t, name) \in name..(Len(t) + 1)
      BY <3>2, RunEndBounds DEF SkipBlanks
    <3> HIDE DEF name
    <3>4. SkipBlanks(t, name) \in Nat /\ i <= SkipBlanks(t, name)
      BY <1>1, <3>1, <3>3
    <3> QED
      BY <3>4 DEF name
  <2> HIDE DEF open
  <2>2. open + 1 \in Nat /\ j - 1 \in Nat /\ (j - 1) - (open + 1) < j - i
    BY <1>1, <2>1
  <2>3. <<open + 1, j - 1>> \in D1.A <=> <<open + 1, j - 1>> \in D2.A
    BY <2>2 DEF SameBelow
  <2> QED
    BY Zenon, <1>2, <2>3 DEF Applies, Span, open
<1>3. ASSUME MakesExpression(t, ops, D1.E, D1.A, i, j)
      PROVE  MakesExpression(t, ops, D2.E, D2.A, i, j)
  <2>1. CASE ops[i] = j
    BY Zenon, <2>1 DEF MakesExpression
  <2>2. CASE t[i] \in Blanks /\ Span(i + 1, j) \in D1.E
    <3>1. i + 1 \in Nat /\ j - (i + 1) < j - i
      BY <1>1
    <3>2. Span(i + 1, j) \in D2.E
      BY <1>1, <2>2, <3>1 DEF Span, SameBelow
    <3> QED
      BY Zenon, <2>2, <3>2 DEF MakesExpression
  <2>3. CASE t[j - 1] \in Blanks /\ Span(i, j - 1) \in D1.E
    <3>1. j - 1 \in Nat /\ (j - 1) - i < j - i
      BY <1>1
    <3>2. Span(i, j - 1) \in D2.E
      BY <1>1, <2>3, <3>1 DEF Span, SameBelow
    <3> QED
      BY Zenon, <2>3, <3>2 DEF MakesExpression
  <2>4. CASE t[i] \in UnaryOperators /\ Span(i + 1, j) \in D1.E
    <3>1. i + 1 \in Nat /\ j - (i + 1) < j - i
      BY <1>1
    <3>2. Span(i + 1, j) \in D2.E
      BY <1>1, <2>4, <3>1 DEF Span, SameBelow
    <3> QED
      BY Zenon, <2>4, <3>2 DEF MakesExpression
  <2>5. CASE \E k \in (i + 1)..(j - 1), l \in 1..2 :
               Span(i, k) \in D1.E /\ Span(k + l, j) \in D1.E /\ IsBinary(t, k, k + l)
    <3>1. PICK k \in (i + 1)..(j - 1), l \in 1..2 :
                 Span(i, k) \in D1.E /\ Span(k + l, j) \in D1.E /\ IsBinary(t, k, k + l)
      BY <2>5
    <3>2. k \in Nat /\ k + l \in Nat /\ k - i < j - i /\ j - (k + l) < j - i
      BY <1>1
    <3>3. Span(i, k) \in D2.E /\ Span(k + l, j) \in D2.E
      BY <1>1, <3>1, <3>2 DEF Span, SameBelow
    <3> QED
      BY Zenon, <3>1, <3>3 DEF MakesExpression
  <2>6. CASE \E k \in (i + 1)..(j - 1) :
               /\ t[k] = Question /\ Span(i, k) \in D1.E
               /\ \E m \in (k + 2)..(j - 2) :
                     t[m] = Colon /\ Span(k + 1, m) \in D1.E /\ Span(m + 1, j) \in D1.E
    <3>1. PICK k \in (i + 1)..(j - 1) :
               /\ t[k] = Question /\ Span(i, k) \in D1.E
               /\ \E m \in (k + 2)..(j - 2) :
                     t[m] = Colon /\ Span(k + 1, m) \in D1.E /\ Span(m + 1, j) \in D1.E
      BY <2>6
    <3>2. PICK m \in (k + 2)..(j - 2) :
                 t[m] = Colon /\ Span(k + 1, m) \in D1.E /\ Span(m + 1, j) \in D1.E
      BY <3>1
    <3>3. /\ k \in Nat /\ k + 1 \in Nat /\ m \in Nat /\ m + 1 \in Nat
          /\ k - i < j - i /\ m - (k + 1) < j - i /\ j - (m + 1) < j - i
      BY <1>1
    <3>4. Span(i, k) \in D2.E /\ Span(k + 1, m) \in D2.E /\ Span(m + 1, j) \in D2.E
      BY <1>1, <3>1, <3>2, <3>3 DEF Span, SameBelow
    <3> QED
      BY Zenon, <3>1, <3>2, <3>4 DEF MakesExpression
  <2>7. CASE t[i] = OpenParen /\ t[j - 1] = CloseParen /\ Span(i + 1, j - 1) \in D1.E
    <3>1. i + 1 \in Nat /\ j - 1 \in Nat /\ (j - 1) - (i + 1) < j - i
      BY <1>1
    <3>2. Span(i + 1, j - 1) \in D2.E
      BY <1>1, <2>7, <3>1 DEF Span, SameBelow
    <3> QED
      BY Zenon, <2>7, <3>2 DEF MakesExpression
  <2>8. CASE Applies(t, D1.A, i, j)
    BY Zenon, <1>2, <2>8 DEF MakesExpression
  <2> QED
    BY Zenon, <1>3, <2>1, <2>2, <2>3, <2>4, <2>5, <2>6, <2>7, <2>8 DEF MakesExpression
<1>4. ASSUME MakesArguments(t, D1.E, D1.A, i, j), <<i, j>> \in D1.E => <<i, j>> \in D2.E
      PROVE  MakesArguments(t, D2.E, D2.A, i, j)
  <2>1. CASE Span(i, j) \in D1.E
    BY Zenon, <1>4, <2>1 DEF MakesArguments, Span
  <2>2. CASE \E k \in (i + 1)..(j - 1) :
               t[k] = Comma /\ Span(i, k) \in D1.E /\ Span(k + 1, j) \in D1.A
    <3>1. PICK k \in (i + 1)..(j - 1) :
                 t[k] = Comma /\ Span(i, k) \in D1.E /\ Span(k + 1, j) \in D1.A
      BY <2>2
    <3>2. k \in Nat /\ k + 1 \in Nat /\ k - i < j - i /\ j - (k + 1) < j - i
      BY <1>1
    <3>3. Span(i, k) \in D2.E /\ Span(k + 1, j) \in D2.A
      BY <1>1, <3>1, <3>2 DEF Span, SameBelow
    <3> QED
      BY Zenon, <3>1, <3>3 DEF MakesArguments
  <2> QED
    BY Zenon, <1>4, <2>1, <2>2 DEF MakesArguments
<1> QED
  BY <1>3, <1>4

\* All expressions and lists of arguments in a text.
ExprIn(t) == Derived(t, Len(t)).E
ArgsIn(t) == Derived(t, Len(t)).A
Ranges(t, i, j) == i \in Nat /\ j \in Nat /\ 1 <= i /\ i < j /\ j <= Len(t) + 1

\* The table is what the rules say: a span is in it if and only if a rule makes it
\* of others that are in it.
LEMMA GrammarRules ==
  ASSUME NEW t \in Text, NEW i \in Nat, NEW j \in Nat
  PROVE  /\ <<i, j>> \in ExprIn(t) <=>
              Ranges(t, i, j) /\ MakesExpression(t, OperandEnds(t), ExprIn(t), ArgsIn(t), i, j)
         /\ <<i, j>> \in ArgsIn(t) <=>
              Ranges(t, i, j) /\ MakesArguments(t, ExprIn(t), ArgsIn(t), i, j)
<1> DEFINE n == j - i
           all == Derived(t, Len(t))
           d == Derived(t, n - 1)
           e == Derived(t, n)
           ops == OperandEnds(t)
<1>1. Len(t) \in Nat /\ Len(t) \in 0..Len(t)
  BY DEF Text
<1>2. all \in Tables
  BY <1>1, DerivedIs
<1>3. <<i, j>> \in all.E \union all.A => Ranges(t, i, j)
  <2> SUFFICES ASSUME <<i, j>> \in all.E \union all.A PROVE Ranges(t, i, j)
    OBVIOUS
  <2>1. PICK a, b \in Nat : <<i, j>> = <<a, b>> /\ 1 <= a /\ a < b /\ b <= Len(t) + 1
    BY Zenon, <1>1, DerivedGrows
  <2> QED
    BY <2>1 DEF Ranges
<1>4. ASSUME Ranges(t, i, j)
      PROVE  /\ <<i, j>> \in all.E <=> MakesExpression(t, ops, all.E, all.A, i, j)
             /\ <<i, j>> \in all.A <=> MakesArguments(t, all.E, all.A, i, j)
  <2>1. /\ n \in 1..Len(t) /\ n \in 0..Len(t) /\ n - 1 \in 0..Len(t) /\ n - 1 \in 0..n
        /\ i \in 1..Len(t) /\ j \in 1..(Len(t) + 1) /\ i < j
        /\ i \in 1..(Len(t) + 1 - n) /\ j = i + n
    BY <1>1, <1>4 DEF Ranges
  <2>2. d \in Tables /\ e \in Tables /\ e = Step(t, ops, n, d)
    BY <2>1, DerivedIs
  <2> HIDE DEF all, d, e, ops
  <2>3. /\ e.E = d.E \union NewE(t, n, d)
        /\ e.A = d.A \union NewA(t, n, d)
    BY Zenon, <2>1, <2>2, StepIs DEF ops
  <2>4. <<i, j>> \notin d.E /\ <<i, j>> \notin d.A
    <3> SUFFICES ASSUME <<i, j>> \in d.E \union d.A PROVE FALSE
      OBVIOUS
    <3>1. PICK a, b \in Nat : <<i, j>> = <<a, b>> /\ b - a <= n - 1
      BY Zenon, <2>1, DerivedGrows DEF d
    <3> QED
      BY <1>1, <2>1, <3>1
  <2>5. <<i, j>> \in SpansOf(t, n)
    BY <2>1 DEF SpansOf, Span
  <2> HIDE DEF n
  <2>6. /\ <<i, j>> \in e.E <=> MakesExpression(t, ops, d.E, d.A, i, j)
        /\ <<i, j>> \in e.A <=> MakesArguments(t, e.E, d.A, i, j)
    <3>1. <<i, j>>[1] = i /\ <<i, j>>[2] = j
      OBVIOUS
    <3>2. <<i, j>> \in NewE(t, n, d) <=> MakesExpression(t, ops, d.E, d.A, i, j)
      BY Zenon, <2>5, <3>1 DEF NewE, ops
    <3>3. <<i, j>> \in NewA(t, n, d) <=> MakesArguments(t, e.E, d.A, i, j)
      BY Zenon, <2>3, <2>5, <3>1 DEF NewA
    <3> QED
      BY <2>3, <2>4, <3>2, <3>3
  <2>7. SameBelow(n + 1, all, e) /\ SameBelow((n - 1) + 1, all, d)
    BY <1>1, <2>1, DerivedGrows DEF all, d, e
  <2>8. j - i = n /\ (n - 1) + 1 = n /\ n < n + 1 /\ \A a, b \in Nat : b - a < n => b - a < n + 1
    BY <2>1 DEF n
  <2>9. /\ <<i, j>> \in all.E <=> <<i, j>> \in e.E
        /\ <<i, j>> \in all.A <=> <<i, j>> \in e.A
    BY <2>7, <2>8 DEF SameBelow
  <2> DEFINE f == [E |-> e.E, A |-> d.A]
  <2>10. f \in Tables /\ f.E = e.E /\ f.A = d.A
    BY <2>2 DEF Tables
  <2> HIDE DEF f
  <2>11. SameBelow(j - i, all, d) /\ SameBelow(j - i, d, all)
    BY <2>7, <2>8 DEF SameBelow
  <2>12. SameBelow(j - i, all, f) /\ SameBelow(j - i, f, all)
    BY <2>7, <2>8, <2>10 DEF SameBelow
  <2>13. MakesExpression(t, ops, d.E, d.A, i, j) <=> MakesExpression(t, ops, all.E, all.A, i, j)
    BY <1>2, <2>1, <2>2, <2>11, RulesLookInside
  <2>14. MakesArguments(t, f.E, f.A, i, j) <=> MakesArguments(t, all.E, all.A, i, j)
    BY <1>2, <2>1, <2>9, <2>10, <2>12, RulesLookInside
  <2> QED
    BY <2>6, <2>9, <2>10, <2>13, <2>14
<1> QED
  BY Zenon, <1>3, <1>4 DEF ExprIn, ArgsIn

\* The operators of one character and of two.
Singles == {Bar, Caret, Ampersand, Less, Greater, Plus, Minus, Star, Slash, Percent}
DoublesOf(c) ==
  CASE c = Bar -> {Bar} [] c = Ampersand -> {Ampersand} [] c = Equals -> {Equals}
    [] c = Not -> {Equals} [] c = Less -> {Equals, Less} [] c = Greater -> {Equals, Greater}
    [] c = Star -> {Star} [] OTHER -> {}
WordsOf(c) == CASE c = 101 -> {113} [] c = 110 -> {101, 105} [] c = 105 -> {110} [] OTHER -> {}
BinaryStarts == Singles \union {Equals, Not, 101, 110, 105}

\* The operators of one character and of two, and the words.
LEMMA SymbolsAre ==
  /\ \A a : <<a>> \in Symbols <=> a \in Singles
  /\ \A a : <<a>> \notin Words
  /\ \A a, b : <<a, b>> \in Symbols <=> b \in DoublesOf(a)
  /\ \A a, b : <<a, b>> \in Words <=> b \in WordsOf(a)
<1> USE DEF Bar, Caret, Ampersand, Less, Greater, Plus, Minus, Star, Slash, Percent, Equals, Not
<1>1. \A a : <<a>> \in Symbols <=> a \in Singles
  BY DEF Symbols, Singles
<1>2. \A a : <<a>> \notin Words
  BY DEF Words
<1>3. \A a, b : <<a, b>> \in Symbols <=> b \in DoublesOf(a)
  BY DEF Symbols, DoublesOf
<1>4. \A a, b : <<a, b>> \in Words <=> b \in WordsOf(a)
  BY DEF Words, WordsOf
<1> QED
  BY <1>1, <1>2, <1>3, <1>4

\* One character of a text, and two.
LEMMA PiecesAre ==
  ASSUME NEW t \in Text, NEW k \in 1..Len(t)
  PROVE  /\ SubSeq(t, k, k) = <<t[k]>>
         /\ k + 1 <= Len(t) => SubSeq(t, k, k + 1) = <<t[k], t[k + 1]>>
<1>1. Len(t) \in Nat /\ (k + 1) - 1 = k /\ (k + 2) - 1 = k + 1
  BY DEF Text
<1>2. SubSeq(t, k, k) = <<t[k]>>
  <2> DEFINE s == SubSeq(t, k, k)
  <2>1. t[k] \in 1..255
    BY ElementOfSeq DEF Text
  <2>2. s \in Seq(1..255) /\ Len(s) = 1 /\ s[1] = t[k]
    <3>1. \A i \in k..k : i = k
      OBVIOUS
    <3>2. s \in Seq(1..255) /\ Len(s) = 1 /\ \A i \in 1..1 : s[i] = t[k + i - 1]
      BY <1>1, <2>1, <3>1, SubSeqProperties
    <3>3. s[1] = t[k + 1 - 1] /\ k + 1 - 1 = k
      BY <1>1, <3>2
    <3> QED
      BY <3>2, <3>3
  <2> HIDE DEF s
  <2> DEFINE u == <<t[k]>>
  <2>3. u \in Seq(1..255) /\ Len(u) = 1 /\ u[1] = t[k]
    BY <2>1
  <2> HIDE DEF u
  <2>4. \A i \in 1..1 : s[i] = u[i]
    BY <2>2, <2>3
  <2>5. s = u
    BY <2>2, <2>3, <2>4, SeqEqual
  <2> QED
    BY <2>5 DEF s, u
<1>3. ASSUME k + 1 <= Len(t) PROVE SubSeq(t, k, k + 1) = <<t[k], t[k + 1]>>
  <2> DEFINE s == SubSeq(t, k, k + 1)
  <2>1. t[k] \in 1..255 /\ t[k + 1] \in 1..255
    BY <1>1, <1>3, ElementOfSeq DEF Text
  <2>2. s \in Seq(1..255) /\ Len(s) = 2 /\ s[1] = t[k] /\ s[2] = t[k + 1]
    <3>1. \A i \in k..(k + 1) : i = k \/ i = k + 1
      BY <1>1
    <3>3. \A i \in k..(k + 1) : t[i] \in 1..255
      BY Zenon, <2>1, <3>1
    <3>4. k \in Int /\ k + 1 \in Int /\ (k + 1) - k + 1 = 2
      BY <1>1
    <3>2. s \in Seq(1..255) /\ Len(s) = 2 /\ \A i \in 1..2 : s[i] = t[k + i - 1]
      BY <3>3, <3>4, SubSeqProperties
    <3>5. s[1] = t[k + 1 - 1] /\ k + 1 - 1 = k /\ s[2] = t[k + 2 - 1] /\ k + 2 - 1 = k + 1
      BY <1>1, <3>2
    <3> QED
      BY <3>2, <3>5
  <2> HIDE DEF s
  <2> DEFINE u == <<t[k], t[k + 1]>>
  <2>3. u \in Seq(1..255) /\ Len(u) = 2 /\ u[1] = t[k] /\ u[2] = t[k + 1]
    BY <2>1
  <2> HIDE DEF u
  <2>4. \A i \in 1..2 : s[i] = u[i]
    BY <2>2, <2>3
  <2>5. s = u
    BY <2>2, <2>3, <2>4, SeqEqual
  <2> QED
    BY <2>5 DEF s, u
<1> QED
  BY <1>2, <1>3

\* The operators as their characters.
LEMMA BinaryIs ==
  ASSUME NEW t \in Text, NEW k \in 1..Len(t)
  PROVE  /\ IsBinary(t, k, k + 1) <=> t[k] \in Singles
         /\ k + 1 <= Len(t) =>
              (IsBinary(t, k, k + 2) <=> \/ t[k + 1] \in DoublesOf(t[k])
                                         \/ t[k + 1] \in WordsOf(t[k]) /\ ~Has(t, k + 2, NameChars))
<1>1. (k + 1) - 1 = k /\ (k + 2) - 1 = k + 1
  OBVIOUS
<1>2. SubSeq(t, k, k) = <<t[k]>> /\ (k + 1 <= Len(t) => SubSeq(t, k, k + 1) = <<t[k], t[k + 1]>>)
  BY PiecesAre
<1> QED
  BY Zenon, <1>1, <1>2, SymbolsAre DEF IsBinary

\* A binary operator starts with one of these characters.
LEMMA BinaryBegins ==
  ASSUME NEW t \in Text, NEW k \in 1..Len(t), NEW n \in 1..2, k + n <= Len(t) + 1, IsBinary(t, k, k + n)
  PROVE  t[k] \in BinaryStarts
<1>1. Len(t) \in Nat
  BY DEF Text
<1>2. CASE n = 1
  BY <1>2, BinaryIs DEF BinaryStarts
<1>3. CASE n = 2
  <2>1. t[k + 1] \in DoublesOf(t[k]) \/ t[k + 1] \in WordsOf(t[k])
    BY <1>1, <1>3, BinaryIs
  <2> DEFINE c == t[k]
  <2>2. DoublesOf(c) # {} \/ WordsOf(c) # {}
    BY <2>1
  <2> HIDE DEF c
  <2>3. c \in BinaryStarts
    BY <2>2 DEF DoublesOf, WordsOf, BinaryStarts, Singles
  <2> QED
    BY <2>3 DEF c
<1> QED
  BY <1>2, <1>3

\* From i to j there is an expression, or a list of arguments.
IsE(t, i, j) == <<i, j>> \in ExprIn(t)
IsA(t, i, j) == <<i, j>> \in ArgsIn(t)

\* An expression and arguments lie in the text and are not empty.
LEMMA InRange ==
  ASSUME NEW t \in Text, NEW i \in Nat, NEW j \in Nat, IsE(t, i, j) \/ IsA(t, i, j)
  PROVE  i \in 1..Len(t) /\ j \in 1..(Len(t) + 1) /\ i < j
<1>1. Ranges(t, i, j)
  BY Zenon, GrammarRules DEF IsE, IsA
<1> QED
  BY <1>1 DEF Ranges, Text

\* Each rule makes an expression.
LEMMA OperandIsE ==
  ASSUME NEW t \in Text, NEW i \in 1..Len(t), NEW j \in 1..(Len(t) + 1), i < j, OperandEnd(t, i) = j
  PROVE  IsE(t, i, j)
<1>1. i \in Nat /\ j \in Nat /\ Ranges(t, i, j)
  BY DEF Ranges, Text
<1>2. OperandEnds(t)[i] = j
  BY DEF OperandEnds
<1>3. MakesExpression(t, OperandEnds(t), ExprIn(t), ArgsIn(t), i, j)
  BY Zenon, <1>2 DEF MakesExpression
<1> QED
  BY Zenon, <1>1, <1>3, GrammarRules DEF IsE

\* A blank or a unary operator in front of an expression.
LEMMA PrefixIsE ==
  ASSUME NEW t \in Text, NEW i \in 1..Len(t), NEW j \in Nat, t[i] \in Blanks \union UnaryOperators,
         IsE(t, i + 1, j)
  PROVE  IsE(t, i, j)
<1>1. i \in Nat /\ i + 1 \in Nat /\ Len(t) \in Nat
  BY DEF Text
<1>2. Ranges(t, i, j)
  BY <1>1, InRange DEF Ranges
<1>3. MakesExpression(t, OperandEnds(t), ExprIn(t), ArgsIn(t), i, j)
  BY Zenon DEF MakesExpression, IsE, Span
<1> QED
  BY Zenon, <1>1, <1>2, <1>3, GrammarRules DEF IsE

\* A blank behind an expression.
LEMMA BlankBehindIsE ==
  ASSUME NEW t \in Text, NEW i \in Nat, NEW j \in 1..Len(t), t[j] \in Blanks, IsE(t, i, j)
  PROVE  IsE(t, i, j + 1)
<1>1. j \in Nat /\ j + 1 \in Nat /\ Len(t) \in Nat /\ (j + 1) - 1 = j
  BY DEF Text
<1>2. Ranges(t, i, j + 1)
  BY <1>1, InRange DEF Ranges
<1>3. MakesExpression(t, OperandEnds(t), ExprIn(t), ArgsIn(t), i, j + 1)
  BY Zenon, <1>1 DEF MakesExpression, IsE, Span
<1> QED
  BY Zenon, <1>1, <1>2, <1>3, GrammarRules DEF IsE

\* Two expressions with a binary operator between them.
LEMMA BinaryIsE ==
  ASSUME NEW t \in Text, NEW i \in Nat, NEW k \in Nat, NEW n \in 1..2, NEW j \in Nat,
         IsE(t, i, k), IsBinary(t, k, k + n), IsE(t, k + n, j)
  PROVE  IsE(t, i, j)
<1>1. k + n \in Nat /\ Len(t) \in Nat
  BY DEF Text
<1>2. Ranges(t, i, j) /\ k \in (i + 1)..(j - 1)
  BY <1>1, InRange DEF Ranges
<1>3. MakesExpression(t, OperandEnds(t), ExprIn(t), ArgsIn(t), i, j)
  BY Zenon, <1>2 DEF MakesExpression, IsE, Span
<1> QED
  BY Zenon, <1>2, <1>3, GrammarRules DEF IsE

\* Three expressions with ? and : between them.
LEMMA ConditionIsE ==
  ASSUME NEW t \in Text, NEW i \in Nat, NEW k \in Nat, NEW m \in Nat, NEW j \in Nat,
         IsE(t, i, k), t[k] = Question, IsE(t, k + 1, m), t[m] = Colon, IsE(t, m + 1, j)
  PROVE  IsE(t, i, j)
<1>1. k + 1 \in Nat /\ m + 1 \in Nat /\ Len(t) \in Nat
  BY DEF Text
<1>2. Ranges(t, i, j) /\ k \in (i + 1)..(j - 1) /\ m \in (k + 2)..(j - 2)
  BY <1>1, InRange DEF Ranges
<1>3. MakesExpression(t, OperandEnds(t), ExprIn(t), ArgsIn(t), i, j)
  BY Zenon, <1>2 DEF MakesExpression, IsE, Span
<1> QED
  BY Zenon, <1>2, <1>3, GrammarRules DEF IsE

\* An expression in parentheses.
LEMMA ParenIsE ==
  ASSUME NEW t \in Text, NEW i \in 1..Len(t), NEW k \in 1..Len(t),
         t[i] = OpenParen, IsE(t, i + 1, k), t[k] = CloseParen
  PROVE  IsE(t, i, k + 1)
<1>1. i \in Nat /\ i + 1 \in Nat /\ k \in Nat /\ k + 1 \in Nat /\ (k + 1) - 1 = k /\ Len(t) \in Nat
  BY DEF Text
<1>2. Ranges(t, i, k + 1)
  BY <1>1, InRange DEF Ranges
<1>3. MakesExpression(t, OperandEnds(t), ExprIn(t), ArgsIn(t), i, k + 1)
  BY Zenon, <1>1 DEF MakesExpression, IsE, Span
<1> QED
  BY Zenon, <1>1, <1>2, <1>3, GrammarRules DEF IsE

\* A name with its arguments.
LEMMA CallIsE ==
  ASSUME NEW t \in Text, NEW i \in 1..Len(t), NEW j \in 1..(Len(t) + 1), i < j, Applies(t, ArgsIn(t), i, j)
  PROVE  IsE(t, i, j)
<1>1. i \in Nat /\ j \in Nat /\ Ranges(t, i, j)
  BY DEF Ranges, Text
<1>2. MakesExpression(t, OperandEnds(t), ExprIn(t), ArgsIn(t), i, j)
  BY Zenon DEF MakesExpression
<1> QED
  BY Zenon, <1>1, <1>2, GrammarRules DEF IsE

\* The rules of arguments.
LEMMA ArgumentsAre ==
  ASSUME NEW t \in Text, NEW i \in Nat, NEW j \in Nat
  PROVE  /\ IsE(t, i, j) => IsA(t, i, j)
         /\ \A k \in Nat : IsE(t, i, k) /\ t[k] = Comma /\ IsA(t, k + 1, j) => IsA(t, i, j)
         /\ IsA(t, i, j) =>
              IsE(t, i, j) \/ \E k \in Nat : IsE(t, i, k) /\ t[k] = Comma /\ IsA(t, k + 1, j)
<1>1. Len(t) \in Nat
  BY DEF Text
<1>2. ASSUME IsE(t, i, j) PROVE IsA(t, i, j)
  <2>1. Ranges(t, i, j)
    BY Zenon, <1>2, GrammarRules DEF IsE
  <2>2. MakesArguments(t, ExprIn(t), ArgsIn(t), i, j)
    BY Zenon, <1>2 DEF MakesArguments, IsE, Span
  <2> QED
    BY Zenon, <2>1, <2>2, GrammarRules DEF IsA
<1>3. ASSUME NEW k \in Nat, IsE(t, i, k), t[k] = Comma, IsA(t, k + 1, j) PROVE IsA(t, i, j)
  <2>1. k + 1 \in Nat
    OBVIOUS
  <2>2. Ranges(t, i, j) /\ k \in (i + 1)..(j - 1)
    BY <1>1, <1>3, <2>1, InRange DEF Ranges
  <2>3. MakesArguments(t, ExprIn(t), ArgsIn(t), i, j)
    BY Zenon, <1>3, <2>2 DEF MakesArguments, IsE, IsA, Span
  <2> QED
    BY Zenon, <2>2, <2>3, GrammarRules DEF IsA
<1>4. ASSUME IsA(t, i, j)
      PROVE  IsE(t, i, j) \/ \E k \in Nat : IsE(t, i, k) /\ t[k] = Comma /\ IsA(t, k + 1, j)
  <2>1. MakesArguments(t, ExprIn(t), ArgsIn(t), i, j)
    BY Zenon, <1>4, GrammarRules DEF IsA
  <2>2. \A k \in (i + 1)..(j - 1) : k \in Nat
    OBVIOUS
  <2> QED
    BY Zenon, <2>1, <2>2 DEF MakesArguments, IsE, IsA, Span
<1> QED
  BY <1>2, <1>3, <1>4

\* What may follow an operand: blanks, an operator and an expression, or the two
\* branches of a condition.
Tails(t, k, j) ==
  LET h == SkipBlanks(t, k)
  IN \/ j \in k..h
     \/ \E n \in 1..2 : IsBinary(t, h, h + n) /\ IsE(t, h + n, j)
     \/ \E m \in Nat : t[h] = Question /\ IsE(t, h + 1, m) /\ t[m] = Colon /\ IsE(t, m + 1, j)

\* An operand that is no longer than it must be.
Primary(t, i, k) ==
  \/ OperandEnd(t, i) = k
  \/ t[i] = OpenParen /\ t[k - 1] = CloseParen /\ IsE(t, i + 1, k - 1)
  \/ Applies(t, ArgsIn(t), i, k)

Begins(t, i, j) ==
  \/ t[i] \in Blanks \union UnaryOperators /\ IsE(t, i + 1, j)
  \/ \E k \in (i + 1)..(Len(t) + 1) : Primary(t, i, k) /\ Tails(t, k, j)

\* Where the blanks from a position end.
LEMMA SkipIs ==
  ASSUME NEW t \in Text, NEW k \in 1..(Len(t) + 1)
  PROVE  /\ SkipBlanks(t, k) \in k..(Len(t) + 1) /\ SkipBlanks(t, k) \in Nat
         /\ \A l \in k..(SkipBlanks(t, k) - 1) : t[l] \in Blanks
         /\ SkipBlanks(t, k) <= Len(t) => t[SkipBlanks(t, k)] \notin Blanks
<1>1. Len(t) \in Nat /\ k \in Nat \ {0} /\ k <= Len(t) + 1
  BY DEF Text
<1> DEFINE h == RunEnd(t, k, Blanks)
<1>2. h \in k..(Len(t) + 1) /\ (\A l \in k..(h - 1) : t[l] \in Blanks) /\ (h <= Len(t) => t[h] \notin Blanks)
  BY <1>1, RunEndIs
<1> HIDE DEF h
<1>3. h \in Nat
  BY <1>1, <1>2
<1> QED
  BY <1>2, <1>3 DEF h, SkipBlanks

\* Nothing is skipped where no blank stands.
LEMMA SkipStays ==
  ASSUME NEW t \in Text, NEW k \in 1..(Len(t) + 1), k <= Len(t) => t[k] \notin Blanks
  PROVE  SkipBlanks(t, k) = k
<1> DEFINE h == SkipBlanks(t, k)
<1>1. Len(t) \in Nat
  BY DEF Text
<1>2. h \in k..(Len(t) + 1) /\ h \in Nat /\ \A l \in k..(h - 1) : t[l] \in Blanks
  BY SkipIs
<1> HIDE DEF h
<1>3. h > k => k \in k..(h - 1) /\ k <= Len(t)
  BY <1>1, <1>2
<1>4. h = k
  BY <1>1, <1>2, <1>3
<1> QED
  BY <1>4 DEF h

\* What may stand behind an expression that ends at j, so that one ends at l.
Extends(t, j, l) ==
  \/ j \in 1..Len(t) /\ t[j] \in Blanks /\ l = j + 1
  \/ \E n \in 1..2 : IsBinary(t, j, j + n) /\ IsE(t, j + n, l)
  \/ \E m \in Nat : t[j] = Question /\ IsE(t, j + 1, m) /\ t[m] = Colon /\ IsE(t, m + 1, l)

\* An expression that is extended is one.
LEMMA ExtendedIsE ==
  ASSUME NEW t \in Text, NEW i \in Nat, NEW j \in Nat, NEW l \in Nat, IsE(t, i, j), Extends(t, j, l)
  PROVE  IsE(t, i, l)
<1>1. CASE j \in 1..Len(t) /\ t[j] \in Blanks /\ l = j + 1
  BY <1>1, BlankBehindIsE
<1>2. CASE \E n \in 1..2 : IsBinary(t, j, j + n) /\ IsE(t, j + n, l)
  BY <1>2, BinaryIsE
<1>3. CASE \E m \in Nat : t[j] = Question /\ IsE(t, j + 1, m) /\ t[m] = Colon /\ IsE(t, m + 1, l)
  BY <1>3, ConditionIsE
<1> QED
  BY Zenon, <1>1, <1>2, <1>3 DEF Extends

\* No operator is a blank.
LEMMA ExtendsAtOperator ==
  ASSUME NEW t \in Text, NEW j \in Nat, NEW l \in Nat, j \in 1..(Len(t) + 1), Extends(t, j, l)
  PROVE  j \in 1..Len(t) /\ (t[j] \in Blanks => l = j + 1)
<1>1. Len(t) \in Nat
  BY DEF Text
<1>2. CASE j \in 1..Len(t) /\ t[j] \in Blanks /\ l = j + 1
  BY <1>2
<1>3. ASSUME NEW n \in 1..2, IsBinary(t, j, j + n), IsE(t, j + n, l)
      PROVE  j \in 1..Len(t) /\ t[j] \notin Blanks
  <2>1. j + n \in Nat /\ j + n <= Len(t)
    BY <1>1, <1>3, InRange
  <2>2. j \in 1..Len(t) /\ j + n <= Len(t) + 1
    BY <1>1, <2>1
  <2>3. t[j] \in BinaryStarts
    BY <1>3, <2>2, BinaryBegins
  <2>4. BinaryStarts \intersect Blanks = {}
    BY DEF BinaryStarts, Singles, Blanks, Bar, Caret, Ampersand, Less, Greater, Plus, Minus, Star, Slash,
           Percent, Equals, Not
  <2> QED
    BY <2>2, <2>3, <2>4
<1>4. ASSUME NEW m \in Nat, t[j] = Question, IsE(t, j + 1, m)
      PROVE  j \in 1..Len(t) /\ t[j] \notin Blanks
  <2>1. j + 1 \in Nat /\ j + 1 <= Len(t)
    BY <1>1, <1>4, InRange
  <2>2. Question \notin Blanks
    BY DEF Question, Blanks
  <2> QED
    BY <1>1, <1>4, <2>1, <2>2
<1> QED
  BY Zenon, <1>2, <1>3, <1>4 DEF Extends

\* What is behind an operand may be extended like an expression.
LEMMA ExtendedTails ==
  ASSUME NEW t \in Text, NEW k \in 1..(Len(t) + 1), NEW j \in Nat, NEW l \in Nat, Tails(t, k, j), Extends(t, j, l)
  PROVE  Tails(t, k, l)
<1> DEFINE h == SkipBlanks(t, k)
<1>1. Len(t) \in Nat /\ k \in Nat
  BY DEF Text
<1>2. /\ h \in k..(Len(t) + 1) /\ h \in Nat /\ (h <= Len(t) => t[h] \notin Blanks)
      /\ \A b \in k..(h - 1) : t[b] \in Blanks
  BY SkipIs
<1>3. \A n \in 1..2 : h + n \in Nat
  BY <1>2
<1>4. Tails(t, k, l) <=>
        \/ l \in k..h
        \/ \E n \in 1..2 : IsBinary(t, h, h + n) /\ IsE(t, h + n, l)
        \/ \E m \in Nat : t[h] = Question /\ IsE(t, h + 1, m) /\ t[m] = Colon /\ IsE(t, m + 1, l)
  BY Zenon DEF Tails
<1>5. Tails(t, k, j) <=>
        \/ j \in k..h
        \/ \E n \in 1..2 : IsBinary(t, h, h + n) /\ IsE(t, h + n, j)
        \/ \E m \in Nat : t[h] = Question /\ IsE(t, h + 1, m) /\ t[m] = Colon /\ IsE(t, m + 1, j)
  BY Zenon DEF Tails
<1> HIDE DEF h
<1>6. CASE j \in k..h
  <2>1. j \in 1..(Len(t) + 1)
    BY <1>1, <1>2, <1>6
  <2>2. j \in 1..Len(t) /\ (t[j] \in Blanks => l = j + 1)
    BY <2>1, ExtendsAtOperator
  <2>3. CASE t[j] \in Blanks
    <3>1. j # h
      BY <1>2, <2>2, <2>3
    <3>2. l \in k..h
      BY <1>1, <1>2, <1>6, <2>2, <2>3, <3>1
    <3> QED
      BY <1>4, <3>2
  <2>4. CASE t[j] \notin Blanks
    <3>1. j < h => j \in k..(h - 1)
      BY <1>1, <1>2, <1>6
    <3>2. j = h
      BY <1>1, <1>2, <1>6, <2>4, <3>1
    <3>3. \/ \E n \in 1..2 : IsBinary(t, h, h + n) /\ IsE(t, h + n, l)
          \/ \E m \in Nat : t[h] = Question /\ IsE(t, h + 1, m) /\ t[m] = Colon /\ IsE(t, m + 1, l)
      BY Zenon, <2>4, <3>2 DEF Extends
    <3> QED
      BY Zenon, <1>4, <3>3
  <2> QED
    BY <2>3, <2>4
<1>7. ASSUME NEW n \in 1..2, IsBinary(t, h, h + n), IsE(t, h + n, j)
      PROVE  Tails(t, k, l)
  <2>1. IsE(t, h + n, l)
    BY <1>3, <1>7, ExtendedIsE
  <2> QED
    BY Zenon, <1>4, <1>7, <2>1
<1>8. ASSUME NEW m \in Nat, t[h] = Question, IsE(t, h + 1, m), t[m] = Colon, IsE(t, m + 1, j)
      PROVE  Tails(t, k, l)
  <2>1. m + 1 \in Nat
    OBVIOUS
  <2>2. IsE(t, m + 1, l)
    BY <1>8, <2>1, ExtendedIsE
  <2> QED
    BY Zenon, <1>4, <1>8, <2>2
<1> QED
  BY Zenon, <1>5, <1>6, <1>7, <1>8

\* So may what follows the beginning of an expression.
LEMMA BeginningExtends ==
  ASSUME NEW t \in Text, NEW i \in 1..Len(t), NEW j \in Nat, NEW l \in Nat, Begins(t, i, j), Extends(t, j, l)
  PROVE  Begins(t, i, l)
<1>1. Len(t) \in Nat /\ i \in Nat /\ i + 1 \in Nat
  BY DEF Text
<1>2. CASE t[i] \in Blanks \union UnaryOperators /\ IsE(t, i + 1, j)
  <2>1. IsE(t, i + 1, l)
    BY <1>1, <1>2, ExtendedIsE
  <2> QED
    BY Zenon, <1>2, <2>1 DEF Begins
<1>3. ASSUME NEW k \in (i + 1)..(Len(t) + 1), Primary(t, i, k), Tails(t, k, j)
      PROVE  Begins(t, i, l)
  <2>1. k \in 1..(Len(t) + 1)
    BY <1>1
  <2>2. Tails(t, k, l)
    BY <1>3, <2>1, ExtendedTails
  <2> QED
    BY Zenon, <1>3, <2>2 DEF Begins
<1> QED
  BY Zenon, <1>2, <1>3 DEF Begins

\* The characters an operand starts with, and those of an expression.
OperandStarts == {OpenParen, Dollar, OpenBracket, Quote, OpenBrace, Dot} \union Digits \union NameStart
ExpressionStarts == OperandStarts \union UnaryOperators \union Blanks

\* The characters that an operand starts with.
LEMMA PrimaryStarts ==
  ASSUME NEW t \in Text, NEW i \in 1..Len(t), NEW k \in (i + 1)..(Len(t) + 1), Primary(t, i, k)
  PROVE  t[i] \in OperandStarts
<1>1. CASE OperandEnd(t, i) = k
  <2>1. SUFFICES ASSUME t[i] \notin OperandStarts PROVE OperandEnd(t, i) = 0
    BY <1>1
  <2>2. /\ t[i] # Zero /\ t[i] # Dollar /\ t[i] # OpenBracket /\ t[i] # Quote /\ t[i] # OpenBrace
        /\ t[i] # Dot /\ t[i] \notin Digits /\ t[i] \notin NameStart
    BY <2>1 DEF OperandStarts, Digits, Zero
  <2> QED
    BY <2>2 DEF OperandEnd
<1>2. CASE t[i] = OpenParen
  BY <1>2 DEF OperandStarts
<1>3. CASE t[i] \in NameStart
  BY <1>3 DEF OperandStarts
<1> QED
  BY Zenon, <1>1, <1>2, <1>3 DEF Primary, Applies

\* Every expression begins with a blank, a unary operator or an operand: the
\* other rules only make it longer.
LEMMA ExpressionBegins ==
  ASSUME NEW t \in Text, NEW i \in Nat, NEW j \in Nat, IsE(t, i, j)
  PROVE  Begins(t, i, j)
<1> DEFINE Short(n) == \A a, b \in Nat : b - a <= n /\ IsE(t, a, b) => Begins(t, a, b)
           S == {n \in Nat : Short(n)}
<1>1. Len(t) \in Nat
  BY DEF Text
<1>2. ASSUME NEW n \in Nat, Short(n), NEW a \in Nat, NEW b \in Nat, b - a <= n + 1, IsE(t, a, b)
      PROVE  Begins(t, a, b)
  <2>1. a \in 1..Len(t) /\ b \in 1..(Len(t) + 1) /\ a < b /\ b \in (a + 1)..(Len(t) + 1)
    BY <1>1, <1>2, InRange
  <2>2. MakesExpression(t, OperandEnds(t), ExprIn(t), ArgsIn(t), a, b)
    BY Zenon, <1>2, GrammarRules DEF IsE
  <2>3. ASSUME NEW k \in Nat, k < b, IsE(t, a, k), Extends(t, k, b)
        PROVE  Begins(t, a, b)
    <3>1. Begins(t, a, k)
      BY <1>2, <2>3
    <3> QED
      BY <2>1, <2>3, <3>1, BeginningExtends
  <2>4. ASSUME Primary(t, a, b) PROVE Begins(t, a, b)
    <3>1. b \in b..SkipBlanks(t, b)
      BY <2>1, SkipIs
    <3>2. Tails(t, b, b)
      BY <3>1 DEF Tails
    <3> QED
      BY Zenon, <2>1, <2>4, <3>2 DEF Begins
  <2>5. OperandEnds(t)[a] = b => Begins(t, a, b)
    BY Zenon, <2>1, <2>4 DEF OperandEnds, Primary
  <2>6. t[a] \in Blanks \union UnaryOperators /\ IsE(t, a + 1, b) => Begins(t, a, b)
    BY Zenon DEF Begins
  <2>7. ASSUME t[b - 1] \in Blanks, IsE(t, a, b - 1) PROVE Begins(t, a, b)
    <3>1. b - 1 \in Nat /\ b - 1 < b /\ b - 1 \in 1..Len(t) /\ b = (b - 1) + 1
      BY <1>1, <2>1
    <3>2. Extends(t, b - 1, b)
      BY <2>7, <3>1 DEF Extends
    <3> QED
      BY <2>3, <2>7, <3>1, <3>2
  <2>8. ASSUME NEW k \in (a + 1)..(b - 1), NEW l \in 1..2, IsE(t, a, k), IsE(t, k + l, b), IsBinary(t, k, k + l)
        PROVE  Begins(t, a, b)
    <3>1. k \in Nat /\ k < b
      BY <2>1, <2>8
    <3>2. Extends(t, k, b)
      BY Zenon, <2>8 DEF Extends
    <3> QED
      BY <2>3, <2>8, <3>1, <3>2
  <2>9. ASSUME NEW k \in (a + 1)..(b - 1), t[k] = Question, IsE(t, a, k),
               NEW m \in (k + 2)..(b - 2), t[m] = Colon, IsE(t, k + 1, m), IsE(t, m + 1, b)
        PROVE  Begins(t, a, b)
    <3>1. k \in Nat /\ k < b /\ m \in Nat
      BY <2>1, <2>9
    <3>2. Extends(t, k, b)
      BY Zenon, <2>9, <3>1 DEF Extends
    <3> QED
      BY <2>3, <2>9, <3>1, <3>2
  <2>10. t[a] = OpenParen /\ t[b - 1] = CloseParen /\ IsE(t, a + 1, b - 1) => Begins(t, a, b)
    BY Zenon, <2>4 DEF Primary
  <2>11. Applies(t, ArgsIn(t), a, b) => Begins(t, a, b)
    BY Zenon, <2>4 DEF Primary
  <2> QED
    BY Zenon, <2>2, <2>5, <2>6, <2>7, <2>8, <2>9, <2>10, <2>11 DEF MakesExpression, Span, IsE
<1>3. 0 \in S
  <2>1. \A a, b \in Nat : b - a <= 0 => ~IsE(t, a, b)
    BY InRange
  <2> QED
    BY <2>1
<1>4. \A n \in Nat : n \in S => n + 1 \in S
  BY <1>2
<1> HIDE DEF S
<1>5. \A n \in Nat : n \in S
  BY <1>3, <1>4, Induction
<1>6. i < j /\ j - i \in Nat
  BY InRange
<1>7. Short(j - i)
  BY <1>5, <1>6 DEF S
<1> QED
  BY <1>6, <1>7

\* The characters that an expression starts with.
LEMMA ExpressionStartsWith ==
  ASSUME NEW t \in Text, NEW i \in Nat, NEW j \in Nat, IsE(t, i, j)
  PROVE  i \in 1..Len(t) /\ t[i] \in ExpressionStarts
<1>1. i \in 1..Len(t) /\ Begins(t, i, j)
  BY InRange, ExpressionBegins
<1> QED
  BY <1>1, PrimaryStarts DEF Begins, ExpressionStarts

\* Blanks around an expression do not matter.
LEMMA BlanksBefore ==
  ASSUME NEW t \in Text, NEW i \in 1..(Len(t) + 1), NEW j \in Nat
  PROVE  IsE(t, i, j) <=> IsE(t, SkipBlanks(t, i), j)
<1> DEFINE h == SkipBlanks(t, i)
<1>1. Len(t) \in Nat /\ i \in Nat
  BY DEF Text
<1>2. h \in i..(Len(t) + 1) /\ h \in Nat /\ \A l \in i..(h - 1) : t[l] \in Blanks
  BY SkipIs
<1> HIDE DEF h
<1>3. ASSUME NEW k \in (i + 1)..h PROVE k - 1 \in 1..Len(t) /\ k - 1 \in Nat /\ (k - 1) + 1 = k /\ t[k - 1] \in Blanks
  <2>1. k - 1 \in i..(h - 1) /\ k - 1 \in 1..Len(t) /\ k - 1 \in Nat /\ (k - 1) + 1 = k
    BY <1>1, <1>2
  <2> QED
    BY <1>2, <2>1
<1>4. ASSUME IsE(t, i, j) PROVE IsE(t, h, j)
  <2> DEFINE S == {k \in i..h : IsE(t, k, j)}
  <2>1. i \in S
    BY <1>1, <1>2, <1>4
  <2>2. ASSUME NEW k \in (i + 1)..h, k - 1 \in S PROVE k \in S
    <3>1. k - 1 \in 1..Len(t) /\ k - 1 \in Nat /\ (k - 1) + 1 = k /\ t[k - 1] \in Blanks /\ k \in i..h
      BY <1>3, <1>1, <1>2
    <3>2. Begins(t, k - 1, j)
      BY <2>2, <3>1, ExpressionBegins
    <3>3. OperandStarts \intersect Blanks = {}
      BY DEF OperandStarts, Blanks, Digits, NameStart, Letters, Underscore, OpenParen, Dollar, OpenBracket,
             Quote, OpenBrace, Dot
    <3>4. \A m \in ((k - 1) + 1)..(Len(t) + 1) : ~Primary(t, k - 1, m)
      BY <3>1, <3>3, PrimaryStarts
    <3>5. IsE(t, (k - 1) + 1, j)
      BY Zenon, <3>2, <3>4 DEF Begins
    <3> QED
      BY <3>1, <3>5
  <2>3. i \in Int /\ h \in Int /\ h \in i..h
    BY <1>1, <1>2
  <2> HIDE DEF S
  <2>4. h \in S
    BY <2>1, <2>2, <2>3, BoundedInduction
  <2> QED
    BY <2>4 DEF S
<1>5. ASSUME IsE(t, h, j) PROVE IsE(t, i, j)
  <2> DEFINE S == {k \in i..h : IsE(t, k, j)}
  <2>1. ASSUME NEW k \in i..h, \A l \in (k + 1)..h : l \in S PROVE k \in S
    <3>1. CASE k = h
      BY <1>5, <3>1
    <3>2. CASE k < h
      <4>1. k + 1 \in (k + 1)..h /\ k + 1 \in (i + 1)..h /\ (k + 1) - 1 = k
        BY <1>1, <1>2, <3>2
      <4>2. k \in 1..Len(t) /\ t[k] \in Blanks
        BY <1>3, <4>1
      <4>3. IsE(t, k + 1, j)
        BY <2>1, <4>1
      <4> QED
        BY <4>2, <4>3, PrefixIsE
    <3> QED
      BY <1>1, <1>2, <3>1, <3>2
  <2>2. i \in Nat /\ h \in Nat /\ i \in i..h
    BY <1>1, <1>2
  <2> HIDE DEF S
  <2>3. i \in S
    BY <2>1, <2>2, Backwards
  <2> QED
    BY <2>3 DEF S
<1> QED
  BY <1>4, <1>5 DEF h

\* Blanks behind an expression belong to it.
LEMMA BlanksBehind ==
  ASSUME NEW t \in Text, NEW p \in Nat, NEW i \in 1..(Len(t) + 1), IsE(t, p, i)
  PROVE  IsE(t, p, SkipBlanks(t, i))
<1> DEFINE h == SkipBlanks(t, i)
           S == {k \in i..h : IsE(t, p, k)}
<1>1. Len(t) \in Nat /\ i \in Nat
  BY DEF Text
<1>2. h \in i..(Len(t) + 1) /\ h \in Nat /\ \A l \in i..(h - 1) : t[l] \in Blanks
  BY SkipIs
<1> HIDE DEF h
<1>3. i \in S
  BY <1>1, <1>2
<1>4. ASSUME NEW k \in (i + 1)..h, k - 1 \in S PROVE k \in S
  <2>1. k - 1 \in i..(h - 1) /\ k - 1 \in 1..Len(t) /\ k - 1 \in Nat /\ (k - 1) + 1 = k /\ k \in i..h
    BY <1>1, <1>2
  <2>2. t[k - 1] \in Blanks /\ IsE(t, p, k - 1)
    BY <1>2, <1>4, <2>1
  <2>3. IsE(t, p, (k - 1) + 1)
    BY <2>1, <2>2, BlankBehindIsE
  <2> QED
    BY <2>1, <2>3
<1>5. i \in Int /\ h \in Int /\ h \in i..h
  BY <1>1, <1>2
<1> HIDE DEF S
<1>6. h \in S
  BY <1>3, <1>4, <1>5, BoundedInduction
<1> QED
  BY <1>6 DEF S, h

\* Where an operand's own text starts: behind a prefix that a substitution continues.
StartOf(t, i) ==
  IF /\ t[i] = Zero /\ i + 2 <= Len(t)
     /\ PrefixDigits(t[i + 1]) # {}
     /\ t[i + 2] \in {Dollar, OpenBracket}
  THEN i + 2 ELSE i

\* Which of the readers finds the end of an operand: the character decides.
LEMMA OperandEndBy ==
  ASSUME NEW t \in Text, NEW i \in 1..Len(t)
  PROVE  LET k == StartOf(t, i)
         IN /\ k \in i..Len(t) /\ k \in Nat
            /\ k # i => t[k] \in {Dollar, OpenBracket} /\ t[i] = Zero
            /\ t[k] = Dollar => OperandEnd(t, i) = VariableEnd(t, k)
            /\ t[k] = OpenBracket => OperandEnd(t, i) = BracketEnd(t, k + 1)
            /\ t[k] = Quote => OperandEnd(t, i) = QuotedEnd(t, k + 1)
            /\ t[k] = OpenBrace => OperandEnd(t, i) = NestedEnd(t, k + 1, OpenBrace, CloseBrace)
            /\ t[k] \in Digits \/ (t[k] = Dot /\ Has(t, k + 1, Digits)) => OperandEnd(t, i) = NumberEnd(t, k)
            /\ t[k] \in NameStart =>
                 OperandEnd(t, i) = IF IsConstant(SubSeq(t, i, RunEnd(t, i, NameChars) - 1))
                                    THEN RunEnd(t, i, NameChars) ELSE 0
            /\ t[k] = Dot /\ ~Has(t, k + 1, Digits) => OperandEnd(t, i) = 0
            /\ t[k] \notin OperandStarts \ {OpenParen} => OperandEnd(t, i) = 0
<1> DEFINE k == StartOf(t, i)
           c == t[k]
           name == IF IsConstant(SubSeq(t, i, RunEnd(t, i, NameChars) - 1)) THEN RunEnd(t, i, NameChars) ELSE 0
<1>1. Len(t) \in Nat
  BY DEF Text
<1>2. k \in i..Len(t) /\ k \in Nat /\ (k # i => t[k] \in {Dollar, OpenBracket} /\ t[i] = Zero)
  BY <1>1 DEF StartOf
<1>3. OperandEnd(t, i) =
        CASE c = Dollar -> VariableEnd(t, k)
          [] c = OpenBracket -> BracketEnd(t, k + 1)
          [] c = Quote -> QuotedEnd(t, k + 1)
          [] c = OpenBrace -> NestedEnd(t, k + 1, OpenBrace, CloseBrace)
          [] c \in Digits -> NumberEnd(t, k)
          [] c = Dot /\ Has(t, k + 1, Digits) -> NumberEnd(t, k)
          [] c \in NameStart -> name
          [] OTHER -> 0
  BY Zenon DEF OperandEnd, StartOf
<1> HIDE DEF k, c, name
<1>4. /\ Dollar \notin Digits \union NameStart /\ OpenBracket \notin Digits \union NameStart
      /\ Quote \notin Digits \union NameStart /\ OpenBrace \notin Digits \union NameStart
      /\ Dot \notin Digits \union NameStart /\ \A d \in Digits : d \notin NameStart
  BY DEF Digits, NameStart, Letters, Underscore, Dollar, OpenBracket, Quote, OpenBrace, Dot
<1>5. /\ Dollar # OpenBracket /\ Dollar # Quote /\ Dollar # OpenBrace /\ Dollar # Dot
      /\ OpenBracket # Quote /\ OpenBracket # OpenBrace /\ OpenBracket # Dot
      /\ Quote # OpenBrace /\ Quote # Dot /\ OpenBrace # Dot
  BY DEF Dollar, OpenBracket, Quote, OpenBrace, Dot
<1>6. /\ c = Dollar => OperandEnd(t, i) = VariableEnd(t, k)
      /\ c = OpenBracket => OperandEnd(t, i) = BracketEnd(t, k + 1)
      /\ c = Quote => OperandEnd(t, i) = QuotedEnd(t, k + 1)
      /\ c = OpenBrace => OperandEnd(t, i) = NestedEnd(t, k + 1, OpenBrace, CloseBrace)
  BY <1>3, <1>4, <1>5
<1>7. /\ c \in Digits => OperandEnd(t, i) = NumberEnd(t, k)
      /\ c = Dot /\ Has(t, k + 1, Digits) => OperandEnd(t, i) = NumberEnd(t, k)
      /\ c \in NameStart => OperandEnd(t, i) = name
      /\ c = Dot /\ ~Has(t, k + 1, Digits) => OperandEnd(t, i) = 0
  BY <1>3, <1>4, <1>5
<1>8. ASSUME c \notin OperandStarts \ {OpenParen} PROVE OperandEnd(t, i) = 0
  <2>1. OpenParen \notin {Dollar, OpenBracket, Quote, OpenBrace, Dot} \union Digits \union NameStart
    BY DEF Digits, NameStart, Letters, Underscore, Dollar, OpenBracket, Quote, OpenBrace, Dot, OpenParen
  <2>2. c \notin {Dollar, OpenBracket, Quote, OpenBrace, Dot} \union Digits \union NameStart
    BY Zenon, <1>8, <2>1 DEF OperandStarts
  <2> QED
    BY <1>3, <2>2
<1> QED
  BY Zenon, <1>2, <1>6, <1>7, <1>8 DEF k, c, name

\* Every operand is at least a character long.
LEMMA VariableEndBehind ==
  ASSUME NEW t \in Text, NEW i \in 1..Len(t), VariableEnd(t, i) # 0
  PROVE  VariableEnd(t, i) \in (i + 1)..(Len(t) + 1)
<1>1. Len(t) \in Nat
  BY DEF Text
<1>2. CASE Has(t, i + 1, {OpenBrace})
  <2> DEFINE last == FirstIn(t, i + 2, {k \in (i + 2)..Len(t) : t[k] = CloseBrace})
  <2>1. i + 2 \in 1..(Len(t) + 1)
    BY <1>1, <1>2 DEF Has
  <2>2. last \in (i + 2)..(Len(t) + 1)
    BY <2>1, FirstInBounds
  <2>3. VariableEnd(t, i) = IF last > Len(t) \/ last = i + 2 THEN 0 ELSE last + 1
    BY <1>2 DEF VariableEnd
  <2> HIDE DEF last
  <2> QED
    BY <1>1, <2>2, <2>3
<1>3. CASE ~Has(t, i + 1, {OpenBrace})
  <2> DEFINE name == NamespaceEnd(t, i + 1)
             nested == NestedEnd(t, name + 1, OpenParen, CloseParen)
  <2>1. name \in (i + 1)..(Len(t) + 1)
    BY <1>1, FirstInBounds DEF NamespaceEnd
  <2>2. VariableEnd(t, i) = IF Has(t, name, {OpenParen}) THEN nested
                            ELSE IF name = i + 1 THEN 0 ELSE name
    BY <1>3 DEF VariableEnd
  <2>3. ASSUME Has(t, name, {OpenParen})
        PROVE  nested \in {0} \union ((name + 1)..(Len(t) + 1))
    <3>1. name + 1 \in 1..(Len(t) + 1)
      BY <1>1, <2>1, <2>3 DEF Has
    <3> QED
      BY <3>1, NestedEndBounds
  <2> HIDE DEF name, nested
  <2> QED
    BY <1>1, <2>1, <2>2, <2>3
<1> QED
  BY <1>2, <1>3

\* A decimal number is not empty.
LEMMA DecimalEndBehind ==
  ASSUME NEW t \in Text, NEW i \in 1..Len(t), t[i] \in Digits \union {Dot}, DecimalEnd(t, i) # 0
  PROVE  DecimalEnd(t, i) \in (i + 1)..(Len(t) + 1)
<1> DEFINE whole == RunEnd(t, i, Digits)
           point == IF Has(t, whole, {Dot}) THEN RunEnd(t, whole + 1, Digits) ELSE whole
           signed == IF Has(t, point + 1, {Plus, Minus}) THEN point + 2 ELSE point + 1
           exponent == RunEnd(t, signed, Digits)
<1>1. Len(t) \in Nat /\ i \in Nat \ {0} /\ i <= Len(t) + 1
  BY DEF Text
<1>2. /\ whole \in i..(Len(t) + 1) /\ (Has(t, i, Digits) => whole > i)
      /\ \A k \in i..(whole - 1) : t[k] \in Digits
  BY <1>1, RunEndIs
<1>3. point \in (i + 1)..(Len(t) + 1)
  <2>1. ASSUME Has(t, whole, {Dot})
        PROVE  RunEnd(t, whole + 1, Digits) \in (i + 1)..(Len(t) + 1)
    <3>1. whole + 1 \in 1..(Len(t) + 1)
      BY <1>1, <1>2, <2>1 DEF Has
    <3>2. RunEnd(t, whole + 1, Digits) \in (whole + 1)..(Len(t) + 1)
      BY <3>1, RunEndBounds
    <3> QED
      BY <1>1, <1>2, <3>2
  <2>2. ASSUME ~Has(t, whole, {Dot}) PROVE whole > i
    <3>1. CASE t[i] \in Digits
      BY <1>2, <3>1 DEF Has
    <3>2. CASE t[i] = Dot
      <4>1. whole # i
        BY <2>2, <3>2 DEF Has
      <4> QED
        BY <1>1, <1>2, <4>1
    <3> QED
      BY <3>1, <3>2
  <2> HIDE DEF whole
  <2> QED
    BY <1>1, <1>2, <2>1, <2>2
<1>4. DecimalEnd(t, i) = IF ~Has(t, point, {101, 69}) THEN point
                         ELSE IF exponent = signed THEN 0 ELSE exponent
  BY DEF DecimalEnd
<1>5. ASSUME Has(t, point, {101, 69})
      PROVE  exponent \in (i + 1)..(Len(t) + 1)
  <2>1. signed \in (i + 1)..(Len(t) + 1)
    BY <1>1, <1>3, <1>5 DEF Has
  <2>2. signed \in 1..(Len(t) + 1)
    BY <1>1, <2>1
  <2>3. exponent \in signed..(Len(t) + 1)
    BY <2>2, RunEndBounds
  <2> HIDE DEF signed, exponent
  <2> QED
    BY <1>1, <2>1, <2>3
<1> HIDE DEF point, exponent, signed
<1> QED
  BY <1>1, <1>3, <1>4, <1>5

\* No number is empty.
LEMMA NumberEndBehind ==
  ASSUME NEW t \in Text, NEW i \in 1..Len(t), t[i] \in Digits \union {Dot}, NumberEnd(t, i) # 0
  PROVE  NumberEnd(t, i) \in (i + 1)..(Len(t) + 1)
<1> DEFINE zero == t[i] = Zero /\ i < Len(t)
           digits == IF zero THEN PrefixDigits(t[i + 1]) ELSE {}
           prefixed == RunEnd(t, i + 2, digits)
           octal == RunEnd(t, i + 1, Digits)
           legacy == zero /\ octal > i + 1 /\ ~Has(t, octal, {Dot, 101, 69})
           wrong == \E k \in (i + 1)..(octal - 1) : t[k] >= 56
<1>1. Len(t) \in Nat
  BY DEF Text
<1>2. octal \in (i + 1)..(Len(t) + 1)
  BY <1>1, RunEndBounds
<1>3. ASSUME digits # {}
      PROVE  prefixed \in (i + 1)..(Len(t) + 1)
  <2>1. i + 2 \in 1..(Len(t) + 1)
    BY <1>1, <1>3
  <2>2. prefixed \in (i + 2)..(Len(t) + 1)
    BY <2>1, RunEndBounds
  <2> HIDE DEF prefixed
  <2> QED
    BY <1>1, <2>2
<1>4. NumberEnd(t, i) = IF digits # {} THEN IF prefixed = i + 2 THEN 0 ELSE prefixed
                        ELSE IF legacy THEN IF wrong THEN 0 ELSE octal
                        ELSE DecimalEnd(t, i)
  BY DEF NumberEnd
<1>5. DecimalEnd(t, i) # 0 => DecimalEnd(t, i) \in (i + 1)..(Len(t) + 1)
  BY DecimalEndBehind
<1> HIDE DEF digits, prefixed, octal, legacy, wrong
<1> QED
  BY <1>2, <1>3, <1>4, <1>5

\* No operand is empty.
LEMMA OperandEndBehind ==
  ASSUME NEW t \in Text, NEW i \in 1..Len(t), OperandEnd(t, i) # 0
  PROVE  OperandEnd(t, i) \in (i + 1)..(Len(t) + 1) /\ OperandEnd(t, i) \in 1..(Len(t) + 1)
<1> DEFINE k == StartOf(t, i)
           end == OperandEnd(t, i)
<1>1. Len(t) \in Nat /\ i \in Nat
  BY DEF Text
<1>2. k \in i..Len(t) /\ k \in Nat
  BY OperandEndBy
<1>3. k \in 1..Len(t) /\ k + 1 \in 1..(Len(t) + 1)
  BY <1>1, <1>2
<1>4. end \in (k + 1)..(Len(t) + 1) \/ end \in (i + 1)..(Len(t) + 1)
  <2>1. CASE t[k] = Dollar
    <3>1. end = VariableEnd(t, k)
      BY <2>1, OperandEndBy
    <3> QED
      BY <1>3, <3>1, VariableEndBehind
  <2>2. CASE t[k] = OpenBracket
    <3>1. end = BracketEnd(t, k + 1)
      BY <2>2, OperandEndBy
    <3> QED
      BY <1>3, <3>1, BracketEndBounds
  <2>3. CASE t[k] = Quote
    <3>1. end = QuotedEnd(t, k + 1)
      BY <2>3, OperandEndBy
    <3> QED
      BY <1>3, <3>1, QuotedEndBounds
  <2>4. CASE t[k] = OpenBrace
    <3>1. end = NestedEnd(t, k + 1, OpenBrace, CloseBrace)
      BY <2>4, OperandEndBy
    <3> QED
      BY <1>3, <3>1, NestedEndBounds
  <2>5. CASE t[k] \in Digits \/ (t[k] = Dot /\ Has(t, k + 1, Digits))
    <3>1. end = NumberEnd(t, k) /\ t[k] \in Digits \union {Dot}
      BY <2>5, OperandEndBy
    <3> QED
      BY <1>3, <3>1, NumberEndBehind
  <2>6. CASE t[k] \in NameStart
    <3>1. k = i
      <4>1. NameStart \intersect {Dollar, OpenBracket} = {}
        BY DEF NameStart, Letters, Underscore, Dollar, OpenBracket
      <4> QED
        BY <2>6, <4>1, OperandEndBy
    <3>2. end = RunEnd(t, i, NameChars)
      BY <2>6, OperandEndBy
    <3>3. Has(t, i, NameChars)
      BY <2>6, <3>1 DEF Has, NameChars
    <3>4. i \in Nat \ {0} /\ i <= Len(t) + 1
      BY <1>1
    <3>5. RunEnd(t, i, NameChars) \in i..(Len(t) + 1) /\ RunEnd(t, i, NameChars) > i
      BY <1>1, <3>3, <3>4, RunEndIs
    <3> HIDE DEF end
    <3> QED
      BY <1>1, <3>2, <3>5
  <2>7. CASE t[k] = Dot /\ ~Has(t, k + 1, Digits)
    BY <2>7, OperandEndBy
  <2>8. CASE t[k] \notin OperandStarts
    BY <2>8, OperandEndBy
  <2>9. CASE t[k] = OpenParen
    BY <2>9, OperandEndBy
  <2> QED
    BY Zenon, <2>1, <2>2, <2>3, <2>4, <2>5, <2>6, <2>7, <2>8, <2>9 DEF OperandStarts
<1> HIDE DEF end, k
<1>5. end \in (i + 1)..(Len(t) + 1) /\ end \in 1..(Len(t) + 1)
  BY <1>1, <1>2, <1>4
<1> QED
  BY <1>5 DEF end

\* The operators of each level.
LEMMA OperatorTable ==
  /\ Levels[1] = "logical_or" /\ Len(Operators["logical_or"]) = 1
  /\ Operators["logical_or"][1] = Op(<<Bar, Bar>>, {})
  /\ Levels[2] = "logical_and" /\ Len(Operators["logical_and"]) = 1
  /\ Operators["logical_and"][1] = Op(<<Ampersand, Ampersand>>, {})
  /\ Levels[3] = "bitwise_or" /\ Len(Operators["bitwise_or"]) = 1
  /\ Operators["bitwise_or"][1] = Op(<<Bar>>, {Bar})
  /\ Levels[4] = "bitwise_xor" /\ Len(Operators["bitwise_xor"]) = 1
  /\ Operators["bitwise_xor"][1] = Op(<<Caret>>, {})
  /\ Levels[5] = "bitwise_and" /\ Len(Operators["bitwise_and"]) = 1
  /\ Operators["bitwise_and"][1] = Op(<<Ampersand>>, {Ampersand})
  /\ Levels[6] = "equality" /\ Len(Operators["equality"]) = 4
  /\ Operators["equality"][1] = Op(<<Equals, Equals>>, {})
  /\ Operators["equality"][2] = Op(<<Not, Equals>>, {})
  /\ Operators["equality"][3] = Op(<<101, 113>>, NameChars)
  /\ Operators["equality"][4] = Op(<<110, 101>>, NameChars)
  /\ Levels[7] = "relational" /\ Len(Operators["relational"]) = 6
  /\ Operators["relational"][1] = Op(<<Less, Equals>>, {})
  /\ Operators["relational"][2] = Op(<<Greater, Equals>>, {})
  /\ Operators["relational"][3] = Op(<<Less>>, {})
  /\ Operators["relational"][4] = Op(<<Greater>>, {})
  /\ Operators["relational"][5] = Op(<<105, 110>>, NameChars)
  /\ Operators["relational"][6] = Op(<<110, 105>>, NameChars)
  /\ Levels[8] = "shift" /\ Len(Operators["shift"]) = 2
  /\ Operators["shift"][1] = Op(<<Less, Less>>, {})
  /\ Operators["shift"][2] = Op(<<Greater, Greater>>, {})
  /\ Levels[9] = "additive" /\ Len(Operators["additive"]) = 2
  /\ Operators["additive"][1] = Op(<<Plus>>, {})
  /\ Operators["additive"][2] = Op(<<Minus>>, {})
  /\ Levels[10] = "multiplicative" /\ Len(Operators["multiplicative"]) = 3
  /\ Operators["multiplicative"][1] = Op(<<Star>>, {Star})
  /\ Operators["multiplicative"][2] = Op(<<Slash>>, {})
  /\ Operators["multiplicative"][3] = Op(<<Percent>>, {})
  /\ Levels[11] = "power" /\ Len(Operators["power"]) = 1
  /\ Operators["power"][1] = Op(<<Star, Star>>, {})
<1>1. /\ Levels[1] = "logical_or" /\ Len(Operators["logical_or"]) = 1
     /\ Operators["logical_or"][1] = Op(<<Bar, Bar>>, {})
  <2> DEFINE ops == <<Op(<<Bar, Bar>>, {})>>
  <2>1. Levels[1] = "logical_or" /\ Operators["logical_or"] = ops
    BY DEF Levels, Operators
  <2>2. Len(ops) = 1 /\ ops[1] = Op(<<Bar, Bar>>, {})
    OBVIOUS
  <2> HIDE DEF ops
  <2> QED
    BY <2>1, <2>2
<1>2. /\ Levels[2] = "logical_and" /\ Len(Operators["logical_and"]) = 1
     /\ Operators["logical_and"][1] = Op(<<Ampersand, Ampersand>>, {})
  <2> DEFINE ops == <<Op(<<Ampersand, Ampersand>>, {})>>
  <2>1. Levels[2] = "logical_and" /\ Operators["logical_and"] = ops
    BY DEF Levels, Operators
  <2>2. Len(ops) = 1 /\ ops[1] = Op(<<Ampersand, Ampersand>>, {})
    OBVIOUS
  <2> HIDE DEF ops
  <2> QED
    BY <2>1, <2>2
<1>3. /\ Levels[3] = "bitwise_or" /\ Len(Operators["bitwise_or"]) = 1
     /\ Operators["bitwise_or"][1] = Op(<<Bar>>, {Bar})
  <2> DEFINE ops == <<Op(<<Bar>>, {Bar})>>
  <2>1. Levels[3] = "bitwise_or" /\ Operators["bitwise_or"] = ops
    BY DEF Levels, Operators
  <2>2. Len(ops) = 1 /\ ops[1] = Op(<<Bar>>, {Bar})
    OBVIOUS
  <2> HIDE DEF ops
  <2> QED
    BY <2>1, <2>2
<1>4. /\ Levels[4] = "bitwise_xor" /\ Len(Operators["bitwise_xor"]) = 1
     /\ Operators["bitwise_xor"][1] = Op(<<Caret>>, {})
  <2> DEFINE ops == <<Op(<<Caret>>, {})>>
  <2>1. Levels[4] = "bitwise_xor" /\ Operators["bitwise_xor"] = ops
    BY DEF Levels, Operators
  <2>2. Len(ops) = 1 /\ ops[1] = Op(<<Caret>>, {})
    OBVIOUS
  <2> HIDE DEF ops
  <2> QED
    BY <2>1, <2>2
<1>5. /\ Levels[5] = "bitwise_and" /\ Len(Operators["bitwise_and"]) = 1
     /\ Operators["bitwise_and"][1] = Op(<<Ampersand>>, {Ampersand})
  <2> DEFINE ops == <<Op(<<Ampersand>>, {Ampersand})>>
  <2>1. Levels[5] = "bitwise_and" /\ Operators["bitwise_and"] = ops
    BY DEF Levels, Operators
  <2>2. Len(ops) = 1 /\ ops[1] = Op(<<Ampersand>>, {Ampersand})
    OBVIOUS
  <2> HIDE DEF ops
  <2> QED
    BY <2>1, <2>2
<1>6. /\ Levels[6] = "equality" /\ Len(Operators["equality"]) = 4
     /\ Operators["equality"][1] = Op(<<Equals, Equals>>, {})
     /\ Operators["equality"][2] = Op(<<Not, Equals>>, {})
     /\ Operators["equality"][3] = Op(<<101, 113>>, NameChars)
     /\ Operators["equality"][4] = Op(<<110, 101>>, NameChars)
  <2> DEFINE ops == <<Op(<<Equals, Equals>>, {}), Op(<<Not, Equals>>, {}),
                      Op(<<101, 113>>, NameChars), Op(<<110, 101>>, NameChars)>>
  <2>1. Levels[6] = "equality" /\ Operators["equality"] = ops
    BY DEF Levels, Operators
  <2>2. /\ Len(ops) = 4 /\ ops[1] = Op(<<Equals, Equals>>, {}) /\ ops[2] = Op(<<Not, Equals>>, {})
        /\ ops[3] = Op(<<101, 113>>, NameChars) /\ ops[4] = Op(<<110, 101>>, NameChars)
    OBVIOUS
  <2> HIDE DEF ops
  <2> QED
    BY <2>1, <2>2
<1>7. /\ Levels[7] = "relational" /\ Len(Operators["relational"]) = 6
     /\ Operators["relational"][1] = Op(<<Less, Equals>>, {})
     /\ Operators["relational"][2] = Op(<<Greater, Equals>>, {})
     /\ Operators["relational"][3] = Op(<<Less>>, {})
     /\ Operators["relational"][4] = Op(<<Greater>>, {})
     /\ Operators["relational"][5] = Op(<<105, 110>>, NameChars)
     /\ Operators["relational"][6] = Op(<<110, 105>>, NameChars)
  <2> DEFINE ops == <<Op(<<Less, Equals>>, {}), Op(<<Greater, Equals>>, {}),
                      Op(<<Less>>, {}), Op(<<Greater>>, {}),
                      Op(<<105, 110>>, NameChars), Op(<<110, 105>>, NameChars)>>
  <2>1. Levels[7] = "relational" /\ Operators["relational"] = ops
    BY DEF Levels, Operators
  <2>2. /\ Len(ops) = 6 /\ ops[1] = Op(<<Less, Equals>>, {}) /\ ops[2] = Op(<<Greater, Equals>>, {})
        /\ ops[3] = Op(<<Less>>, {}) /\ ops[4] = Op(<<Greater>>, {})
        /\ ops[5] = Op(<<105, 110>>, NameChars) /\ ops[6] = Op(<<110, 105>>, NameChars)
    OBVIOUS
  <2> HIDE DEF ops
  <2> QED
    BY <2>1, <2>2
<1>8. /\ Levels[8] = "shift" /\ Len(Operators["shift"]) = 2
     /\ Operators["shift"][1] = Op(<<Less, Less>>, {})
     /\ Operators["shift"][2] = Op(<<Greater, Greater>>, {})
  <2> DEFINE ops == <<Op(<<Less, Less>>, {}), Op(<<Greater, Greater>>, {})>>
  <2>1. Levels[8] = "shift" /\ Operators["shift"] = ops
    BY DEF Levels, Operators
  <2>2. Len(ops) = 2 /\ ops[1] = Op(<<Less, Less>>, {}) /\ ops[2] = Op(<<Greater, Greater>>, {})
    OBVIOUS
  <2> HIDE DEF ops
  <2> QED
    BY <2>1, <2>2
<1>9. /\ Levels[9] = "additive" /\ Len(Operators["additive"]) = 2
     /\ Operators["additive"][1] = Op(<<Plus>>, {})
     /\ Operators["additive"][2] = Op(<<Minus>>, {})
  <2> DEFINE ops == <<Op(<<Plus>>, {}), Op(<<Minus>>, {})>>
  <2>1. Levels[9] = "additive" /\ Operators["additive"] = ops
    BY DEF Levels, Operators
  <2>2. Len(ops) = 2 /\ ops[1] = Op(<<Plus>>, {}) /\ ops[2] = Op(<<Minus>>, {})
    OBVIOUS
  <2> HIDE DEF ops
  <2> QED
    BY <2>1, <2>2
<1>10. /\ Levels[10] = "multiplicative" /\ Len(Operators["multiplicative"]) = 3
      /\ Operators["multiplicative"][1] = Op(<<Star>>, {Star})
      /\ Operators["multiplicative"][2] = Op(<<Slash>>, {})
      /\ Operators["multiplicative"][3] = Op(<<Percent>>, {})
  <2> DEFINE ops == <<Op(<<Star>>, {Star}), Op(<<Slash>>, {}), Op(<<Percent>>, {})>>
  <2>1. Levels[10] = "multiplicative" /\ Operators["multiplicative"] = ops
    BY DEF Levels, Operators
  <2>2. /\ Len(ops) = 3 /\ ops[1] = Op(<<Star>>, {Star}) /\ ops[2] = Op(<<Slash>>, {})
        /\ ops[3] = Op(<<Percent>>, {})
    OBVIOUS
  <2> HIDE DEF ops
  <2> QED
    BY <2>1, <2>2
<1>11. /\ Levels[11] = "power" /\ Len(Operators["power"]) = 1
      /\ Operators["power"][1] = Op(<<Star, Star>>, {})
  <2> DEFINE ops == <<Op(<<Star, Star>>, {})>>
  <2>1. Levels[11] = "power" /\ Operators["power"] = ops
    BY DEF Levels, Operators
  <2>2. Len(ops) = 1 /\ ops[1] = Op(<<Star, Star>>, {})
    OBVIOUS
  <2> HIDE DEF ops
  <2> QED
    BY <2>1, <2>2
<1> QED
  BY <1>1, <1>2, <1>3, <1>4, <1>5, <1>6, <1>7, <1>8, <1>9, <1>10, <1>11

\* The kinds of operators: a character that must not be doubled, one that need not
\* stand alone, < and > behind the others of their level, two characters, and words.
OfAKind(level, k, op) ==
  \/ \E a \in {Bar, Ampersand, Star} : op = Op(<<a>>, {a})
  \/ \E a \in {Caret, Plus, Minus, Slash, Percent} : op = Op(<<a>>, {})
  \/ \E a \in {Less, Greater} : level = "relational" /\ k > 2 /\ op = Op(<<a>>, {})
  \/ \E a : \E b \in DoublesOf(a) : op = Op(<<a, b>>, {})
  \/ \E a : \E b \in WordsOf(a) : op = Op(<<a, b>>, NameChars)

\* The pairs of characters that the operators of two characters are.
LEMMA PairsAre ==
  /\ Bar \in DoublesOf(Bar) /\ Ampersand \in DoublesOf(Ampersand) /\ Equals \in DoublesOf(Equals)
  /\ Equals \in DoublesOf(Not) /\ Equals \in DoublesOf(Less) /\ Equals \in DoublesOf(Greater)
  /\ Less \in DoublesOf(Less) /\ Greater \in DoublesOf(Greater) /\ Star \in DoublesOf(Star)
  /\ 113 \in WordsOf(101) /\ 101 \in WordsOf(110) /\ 110 \in WordsOf(105) /\ 105 \in WordsOf(110)
BY DEF DoublesOf, WordsOf, Bar, Ampersand, Equals, Not, Less, Greater, Star

\* The kinds of operators, by their characters.
LEMMA KindsAreMade ==
  ASSUME NEW level, NEW k
  PROVE  /\ \A a \in {Bar, Ampersand, Star} : OfAKind(level, k, Op(<<a>>, {a}))
         /\ \A a \in {Caret, Plus, Minus, Slash, Percent} : OfAKind(level, k, Op(<<a>>, {}))
         /\ level = "relational" /\ k > 2 => \A a \in {Less, Greater} : OfAKind(level, k, Op(<<a>>, {}))
         /\ \A a : \A b \in DoublesOf(a) : OfAKind(level, k, Op(<<a, b>>, {}))
         /\ \A a : \A b \in WordsOf(a) : OfAKind(level, k, Op(<<a, b>>, NameChars))
BY Zenon DEF OfAKind

\* Every operator of every level is of one of the kinds.
LEMMA OperatorKinds ==
  ASSUME NEW q \in 1..Len(Levels), NEW k \in 1..Len(Operators[Levels[q]])
  PROVE  OfAKind(Levels[q], k, Operators[Levels[q]][k])
<1>1. Len(Levels) = 11
  BY LevelsAreFrames
<1>2. CASE q = 1
  <2>1. Levels[q] = "logical_or" /\ k \in 1..1
    BY <1>2, OperatorTable
  <2>2. k = 1
    BY <2>1
  <2>3. k = 1 => OfAKind("logical_or", k, Operators["logical_or"][1])
    <3>1. Operators["logical_or"][1] = Op(<<Bar, Bar>>, {})
      BY Zenon, OperatorTable
    <3>2. OfAKind("logical_or", k, Op(<<Bar, Bar>>, {}))
      BY Zenon, KindsAreMade, PairsAre
    <3> QED
      BY Zenon, <3>1, <3>2
  <2> QED
    BY Zenon, <2>1, <2>2, <2>3
<1>3. CASE q = 2
  <2>1. Levels[q] = "logical_and" /\ k \in 1..1
    BY <1>3, OperatorTable
  <2>2. k = 1
    BY <2>1
  <2>3. k = 1 => OfAKind("logical_and", k, Operators["logical_and"][1])
    <3>1. Operators["logical_and"][1] = Op(<<Ampersand, Ampersand>>, {})
      BY Zenon, OperatorTable
    <3>2. OfAKind("logical_and", k, Op(<<Ampersand, Ampersand>>, {}))
      BY Zenon, KindsAreMade, PairsAre
    <3> QED
      BY Zenon, <3>1, <3>2
  <2> QED
    BY Zenon, <2>1, <2>2, <2>3
<1>4. CASE q = 3
  <2>1. Levels[q] = "bitwise_or" /\ k \in 1..1
    BY <1>4, OperatorTable
  <2>2. k = 1
    BY <2>1
  <2>3. k = 1 => OfAKind("bitwise_or", k, Operators["bitwise_or"][1])
    <3>1. Operators["bitwise_or"][1] = Op(<<Bar>>, {Bar})
      BY Zenon, OperatorTable
    <3>2. OfAKind("bitwise_or", k, Op(<<Bar>>, {Bar}))
      BY Zenon, KindsAreMade, PairsAre
    <3> QED
      BY Zenon, <3>1, <3>2
  <2> QED
    BY Zenon, <2>1, <2>2, <2>3
<1>5. CASE q = 4
  <2>1. Levels[q] = "bitwise_xor" /\ k \in 1..1
    BY <1>5, OperatorTable
  <2>2. k = 1
    BY <2>1
  <2>3. k = 1 => OfAKind("bitwise_xor", k, Operators["bitwise_xor"][1])
    <3>1. Operators["bitwise_xor"][1] = Op(<<Caret>>, {})
      BY Zenon, OperatorTable
    <3>2. OfAKind("bitwise_xor", k, Op(<<Caret>>, {}))
      BY Zenon, KindsAreMade, PairsAre
    <3> QED
      BY Zenon, <3>1, <3>2
  <2> QED
    BY Zenon, <2>1, <2>2, <2>3
<1>6. CASE q = 5
  <2>1. Levels[q] = "bitwise_and" /\ k \in 1..1
    BY <1>6, OperatorTable
  <2>2. k = 1
    BY <2>1
  <2>3. k = 1 => OfAKind("bitwise_and", k, Operators["bitwise_and"][1])
    <3>1. Operators["bitwise_and"][1] = Op(<<Ampersand>>, {Ampersand})
      BY Zenon, OperatorTable
    <3>2. OfAKind("bitwise_and", k, Op(<<Ampersand>>, {Ampersand}))
      BY Zenon, KindsAreMade, PairsAre
    <3> QED
      BY Zenon, <3>1, <3>2
  <2> QED
    BY Zenon, <2>1, <2>2, <2>3
<1>7. CASE q = 6
  <2>1. Levels[q] = "equality" /\ k \in 1..4
    BY <1>7, OperatorTable
  <2>2. k = 1 \/ k = 2 \/ k = 3 \/ k = 4
    BY <2>1
  <2>3. k = 1 => OfAKind("equality", k, Operators["equality"][1])
    <3>1. Operators["equality"][1] = Op(<<Equals, Equals>>, {})
      BY Zenon, OperatorTable
    <3>2. OfAKind("equality", k, Op(<<Equals, Equals>>, {}))
      BY Zenon, KindsAreMade, PairsAre
    <3> QED
      BY Zenon, <3>1, <3>2
  <2>4. k = 2 => OfAKind("equality", k, Operators["equality"][2])
    <3>1. Operators["equality"][2] = Op(<<Not, Equals>>, {})
      BY Zenon, OperatorTable
    <3>2. OfAKind("equality", k, Op(<<Not, Equals>>, {}))
      BY Zenon, KindsAreMade, PairsAre
    <3> QED
      BY Zenon, <3>1, <3>2
  <2>5. k = 3 => OfAKind("equality", k, Operators["equality"][3])
    <3>1. Operators["equality"][3] = Op(<<101, 113>>, NameChars)
      BY Zenon, OperatorTable
    <3>2. OfAKind("equality", k, Op(<<101, 113>>, NameChars))
      BY Zenon, KindsAreMade, PairsAre
    <3> QED
      BY Zenon, <3>1, <3>2
  <2>6. k = 4 => OfAKind("equality", k, Operators["equality"][4])
    <3>1. Operators["equality"][4] = Op(<<110, 101>>, NameChars)
      BY Zenon, OperatorTable
    <3>2. OfAKind("equality", k, Op(<<110, 101>>, NameChars))
      BY Zenon, KindsAreMade, PairsAre
    <3> QED
      BY Zenon, <3>1, <3>2
  <2> QED
    BY Zenon, <2>1, <2>2, <2>3, <2>4, <2>5, <2>6
<1>8. CASE q = 7
  <2>1. Levels[q] = "relational" /\ k \in 1..6
    BY <1>8, OperatorTable
  <2>2. k = 1 \/ k = 2 \/ k = 3 \/ k = 4 \/ k = 5 \/ k = 6
    BY <2>1
  <2>3. k = 1 => OfAKind("relational", k, Operators["relational"][1])
    <3>1. Operators["relational"][1] = Op(<<Less, Equals>>, {})
      BY Zenon, OperatorTable
    <3>2. OfAKind("relational", k, Op(<<Less, Equals>>, {}))
      BY Zenon, KindsAreMade, PairsAre
    <3> QED
      BY Zenon, <3>1, <3>2
  <2>4. k = 2 => OfAKind("relational", k, Operators["relational"][2])
    <3>1. Operators["relational"][2] = Op(<<Greater, Equals>>, {})
      BY Zenon, OperatorTable
    <3>2. OfAKind("relational", k, Op(<<Greater, Equals>>, {}))
      BY Zenon, KindsAreMade, PairsAre
    <3> QED
      BY Zenon, <3>1, <3>2
  <2>5. k = 3 => OfAKind("relational", k, Operators["relational"][3])
    <3>1. Operators["relational"][3] = Op(<<Less>>, {})
      BY Zenon, OperatorTable
    <3>2. k = 3 => OfAKind("relational", k, Op(<<Less>>, {}))
      <4>1. k = 3 => k > 2
        OBVIOUS
      <4> QED
        BY Zenon, <4>1, KindsAreMade
    <3> QED
      BY Zenon, <3>1, <3>2
  <2>6. k = 4 => OfAKind("relational", k, Operators["relational"][4])
    <3>1. Operators["relational"][4] = Op(<<Greater>>, {})
      BY Zenon, OperatorTable
    <3>2. k = 4 => OfAKind("relational", k, Op(<<Greater>>, {}))
      <4>1. k = 4 => k > 2
        OBVIOUS
      <4> QED
        BY Zenon, <4>1, KindsAreMade
    <3> QED
      BY Zenon, <3>1, <3>2
  <2>7. k = 5 => OfAKind("relational", k, Operators["relational"][5])
    <3>1. Operators["relational"][5] = Op(<<105, 110>>, NameChars)
      BY Zenon, OperatorTable
    <3>2. OfAKind("relational", k, Op(<<105, 110>>, NameChars))
      BY Zenon, KindsAreMade, PairsAre
    <3> QED
      BY Zenon, <3>1, <3>2
  <2>8. k = 6 => OfAKind("relational", k, Operators["relational"][6])
    <3>1. Operators["relational"][6] = Op(<<110, 105>>, NameChars)
      BY Zenon, OperatorTable
    <3>2. OfAKind("relational", k, Op(<<110, 105>>, NameChars))
      BY Zenon, KindsAreMade, PairsAre
    <3> QED
      BY Zenon, <3>1, <3>2
  <2> QED
    BY Zenon, <2>1, <2>2, <2>3, <2>4, <2>5, <2>6, <2>7, <2>8
<1>9. CASE q = 8
  <2>1. Levels[q] = "shift" /\ k \in 1..2
    BY <1>9, OperatorTable
  <2>2. k = 1 \/ k = 2
    BY <2>1
  <2>3. k = 1 => OfAKind("shift", k, Operators["shift"][1])
    <3>1. Operators["shift"][1] = Op(<<Less, Less>>, {})
      BY Zenon, OperatorTable
    <3>2. OfAKind("shift", k, Op(<<Less, Less>>, {}))
      BY Zenon, KindsAreMade, PairsAre
    <3> QED
      BY Zenon, <3>1, <3>2
  <2>4. k = 2 => OfAKind("shift", k, Operators["shift"][2])
    <3>1. Operators["shift"][2] = Op(<<Greater, Greater>>, {})
      BY Zenon, OperatorTable
    <3>2. OfAKind("shift", k, Op(<<Greater, Greater>>, {}))
      BY Zenon, KindsAreMade, PairsAre
    <3> QED
      BY Zenon, <3>1, <3>2
  <2> QED
    BY Zenon, <2>1, <2>2, <2>3, <2>4
<1>10. CASE q = 9
  <2>1. Levels[q] = "additive" /\ k \in 1..2
    BY <1>10, OperatorTable
  <2>2. k = 1 \/ k = 2
    BY <2>1
  <2>3. k = 1 => OfAKind("additive", k, Operators["additive"][1])
    <3>1. Operators["additive"][1] = Op(<<Plus>>, {})
      BY Zenon, OperatorTable
    <3>2. OfAKind("additive", k, Op(<<Plus>>, {}))
      BY Zenon, KindsAreMade, PairsAre
    <3> QED
      BY Zenon, <3>1, <3>2
  <2>4. k = 2 => OfAKind("additive", k, Operators["additive"][2])
    <3>1. Operators["additive"][2] = Op(<<Minus>>, {})
      BY Zenon, OperatorTable
    <3>2. OfAKind("additive", k, Op(<<Minus>>, {}))
      BY Zenon, KindsAreMade, PairsAre
    <3> QED
      BY Zenon, <3>1, <3>2
  <2> QED
    BY Zenon, <2>1, <2>2, <2>3, <2>4
<1>11. CASE q = 10
  <2>1. Levels[q] = "multiplicative" /\ k \in 1..3
    BY <1>11, OperatorTable
  <2>2. k = 1 \/ k = 2 \/ k = 3
    BY <2>1
  <2>3. k = 1 => OfAKind("multiplicative", k, Operators["multiplicative"][1])
    <3>1. Operators["multiplicative"][1] = Op(<<Star>>, {Star})
      BY Zenon, OperatorTable
    <3>2. OfAKind("multiplicative", k, Op(<<Star>>, {Star}))
      BY Zenon, KindsAreMade, PairsAre
    <3> QED
      BY Zenon, <3>1, <3>2
  <2>4. k = 2 => OfAKind("multiplicative", k, Operators["multiplicative"][2])
    <3>1. Operators["multiplicative"][2] = Op(<<Slash>>, {})
      BY Zenon, OperatorTable
    <3>2. OfAKind("multiplicative", k, Op(<<Slash>>, {}))
      BY Zenon, KindsAreMade, PairsAre
    <3> QED
      BY Zenon, <3>1, <3>2
  <2>5. k = 3 => OfAKind("multiplicative", k, Operators["multiplicative"][3])
    <3>1. Operators["multiplicative"][3] = Op(<<Percent>>, {})
      BY Zenon, OperatorTable
    <3>2. OfAKind("multiplicative", k, Op(<<Percent>>, {}))
      BY Zenon, KindsAreMade, PairsAre
    <3> QED
      BY Zenon, <3>1, <3>2
  <2> QED
    BY Zenon, <2>1, <2>2, <2>3, <2>4, <2>5
<1>12. CASE q = 11
  <2>1. Levels[q] = "power" /\ k \in 1..1
    BY <1>12, OperatorTable
  <2>2. k = 1
    BY <2>1
  <2>3. k = 1 => OfAKind("power", k, Operators["power"][1])
    <3>1. Operators["power"][1] = Op(<<Star, Star>>, {})
      BY Zenon, OperatorTable
    <3>2. OfAKind("power", k, Op(<<Star, Star>>, {}))
      BY Zenon, KindsAreMade, PairsAre
    <3> QED
      BY Zenon, <3>1, <3>2
  <2> QED
    BY Zenon, <2>1, <2>2, <2>3
<1> QED
  BY <1>1, <1>2, <1>3, <1>4, <1>5, <1>6, <1>7, <1>8, <1>9, <1>10, <1>11, <1>12

\* An operator of some level.
Listed(op) == \E q \in 1..Len(Levels) : \E k \in 1..Len(Operators[Levels[q]]) : Operators[Levels[q]][k] = op

\* Every operator of the grammar is in the table of the levels.
LEMMA ListedOperators ==
  /\ Listed(Op(<<Bar, Bar>>, {}))
  /\ Listed(Op(<<Ampersand, Ampersand>>, {}))
  /\ Listed(Op(<<Bar>>, {Bar}))
  /\ Listed(Op(<<Caret>>, {}))
  /\ Listed(Op(<<Ampersand>>, {Ampersand}))
  /\ Listed(Op(<<Equals, Equals>>, {})) /\ Listed(Op(<<Not, Equals>>, {}))
  /\ Listed(Op(<<101, 113>>, NameChars)) /\ Listed(Op(<<110, 101>>, NameChars))
  /\ Listed(Op(<<Less, Equals>>, {})) /\ Listed(Op(<<Greater, Equals>>, {}))
  /\ Listed(Op(<<Less>>, {})) /\ Listed(Op(<<Greater>>, {})) /\ Listed(Op(<<105, 110>>, NameChars))
  /\ Listed(Op(<<110, 105>>, NameChars))
  /\ Listed(Op(<<Less, Less>>, {})) /\ Listed(Op(<<Greater, Greater>>, {}))
  /\ Listed(Op(<<Plus>>, {})) /\ Listed(Op(<<Minus>>, {}))
  /\ Listed(Op(<<Star>>, {Star})) /\ Listed(Op(<<Slash>>, {})) /\ Listed(Op(<<Percent>>, {}))
  /\ Listed(Op(<<Star, Star>>, {}))
<1>1. Len(Levels) = 11
  BY LevelsAreFrames
<1>20. \A q \in 1..Len(Levels) : \A k \in 1..Len(Operators[Levels[q]]) : Listed(Operators[Levels[q]][k])
  BY Zenon DEF Listed
<1>2. Listed(Op(<<Bar, Bar>>, {}))
  <2>1. 1 \in 1..Len(Levels) /\ 1 \in 1..1
    BY <1>1
  <2>2. Levels[1] = "logical_or" /\ Len(Operators["logical_or"]) = 1
        /\ Operators["logical_or"][1] = Op(<<Bar, Bar>>, {})
    BY Zenon, OperatorTable
  <2>3. \A k \in 1..Len(Operators[Levels[1]]) : Listed(Operators[Levels[1]][k])
    BY Zenon, <1>20, <2>1
  <2>4. \A k \in 1..1 : Listed(Operators["logical_or"][k])
    BY Zenon, <2>2, <2>3
  <2> QED
    BY Zenon, <2>1, <2>2, <2>4
<1>3. Listed(Op(<<Ampersand, Ampersand>>, {}))
  <2>1. 2 \in 1..Len(Levels) /\ 1 \in 1..1
    BY <1>1
  <2>2. Levels[2] = "logical_and" /\ Len(Operators["logical_and"]) = 1
        /\ Operators["logical_and"][1] = Op(<<Ampersand, Ampersand>>, {})
    BY Zenon, OperatorTable
  <2>3. \A k \in 1..Len(Operators[Levels[2]]) : Listed(Operators[Levels[2]][k])
    BY Zenon, <1>20, <2>1
  <2>4. \A k \in 1..1 : Listed(Operators["logical_and"][k])
    BY Zenon, <2>2, <2>3
  <2> QED
    BY Zenon, <2>1, <2>2, <2>4
<1>4. Listed(Op(<<Bar>>, {Bar}))
  <2>1. 3 \in 1..Len(Levels) /\ 1 \in 1..1
    BY <1>1
  <2>2. Levels[3] = "bitwise_or" /\ Len(Operators["bitwise_or"]) = 1
        /\ Operators["bitwise_or"][1] = Op(<<Bar>>, {Bar})
    BY Zenon, OperatorTable
  <2>3. \A k \in 1..Len(Operators[Levels[3]]) : Listed(Operators[Levels[3]][k])
    BY Zenon, <1>20, <2>1
  <2>4. \A k \in 1..1 : Listed(Operators["bitwise_or"][k])
    BY Zenon, <2>2, <2>3
  <2> QED
    BY Zenon, <2>1, <2>2, <2>4
<1>5. Listed(Op(<<Caret>>, {}))
  <2>1. 4 \in 1..Len(Levels) /\ 1 \in 1..1
    BY <1>1
  <2>2. Levels[4] = "bitwise_xor" /\ Len(Operators["bitwise_xor"]) = 1
        /\ Operators["bitwise_xor"][1] = Op(<<Caret>>, {})
    BY Zenon, OperatorTable
  <2>3. \A k \in 1..Len(Operators[Levels[4]]) : Listed(Operators[Levels[4]][k])
    BY Zenon, <1>20, <2>1
  <2>4. \A k \in 1..1 : Listed(Operators["bitwise_xor"][k])
    BY Zenon, <2>2, <2>3
  <2> QED
    BY Zenon, <2>1, <2>2, <2>4
<1>6. Listed(Op(<<Ampersand>>, {Ampersand}))
  <2>1. 5 \in 1..Len(Levels) /\ 1 \in 1..1
    BY <1>1
  <2>2. Levels[5] = "bitwise_and" /\ Len(Operators["bitwise_and"]) = 1
        /\ Operators["bitwise_and"][1] = Op(<<Ampersand>>, {Ampersand})
    BY Zenon, OperatorTable
  <2>3. \A k \in 1..Len(Operators[Levels[5]]) : Listed(Operators[Levels[5]][k])
    BY Zenon, <1>20, <2>1
  <2>4. \A k \in 1..1 : Listed(Operators["bitwise_and"][k])
    BY Zenon, <2>2, <2>3
  <2> QED
    BY Zenon, <2>1, <2>2, <2>4
<1>7. /\ Listed(Op(<<Equals, Equals>>, {})) /\ Listed(Op(<<Not, Equals>>, {}))
      /\ Listed(Op(<<101, 113>>, NameChars)) /\ Listed(Op(<<110, 101>>, NameChars))
  <2>1. 6 \in 1..Len(Levels) /\ 1 \in 1..4 /\ 2 \in 1..4 /\ 3 \in 1..4 /\ 4 \in 1..4
    BY <1>1
  <2>2. Levels[6] = "equality" /\ Len(Operators["equality"]) = 4
        /\ Operators["equality"][1] = Op(<<Equals, Equals>>, {})
        /\ Operators["equality"][2] = Op(<<Not, Equals>>, {})
        /\ Operators["equality"][3] = Op(<<101, 113>>, NameChars)
        /\ Operators["equality"][4] = Op(<<110, 101>>, NameChars)
    BY Zenon, OperatorTable
  <2>3. \A k \in 1..Len(Operators[Levels[6]]) : Listed(Operators[Levels[6]][k])
    BY Zenon, <1>20, <2>1
  <2>4. \A k \in 1..4 : Listed(Operators["equality"][k])
    BY Zenon, <2>2, <2>3
  <2> QED
    BY Zenon, <2>1, <2>2, <2>4
<1>8. /\ Listed(Op(<<Less, Equals>>, {})) /\ Listed(Op(<<Greater, Equals>>, {}))
      /\ Listed(Op(<<Less>>, {})) /\ Listed(Op(<<Greater>>, {}))
      /\ Listed(Op(<<105, 110>>, NameChars)) /\ Listed(Op(<<110, 105>>, NameChars))
  <2>1. 7 \in 1..Len(Levels) /\ 1 \in 1..6 /\ 2 \in 1..6 /\ 3 \in 1..6 /\ 4 \in 1..6 /\ 5 \in 1..6 /\ 6 \in 1..6
    BY <1>1
  <2>2. Levels[7] = "relational" /\ Len(Operators["relational"]) = 6
        /\ Operators["relational"][1] = Op(<<Less, Equals>>, {})
        /\ Operators["relational"][2] = Op(<<Greater, Equals>>, {})
        /\ Operators["relational"][3] = Op(<<Less>>, {})
        /\ Operators["relational"][4] = Op(<<Greater>>, {})
        /\ Operators["relational"][5] = Op(<<105, 110>>, NameChars)
        /\ Operators["relational"][6] = Op(<<110, 105>>, NameChars)
    BY Zenon, OperatorTable
  <2>3. \A k \in 1..Len(Operators[Levels[7]]) : Listed(Operators[Levels[7]][k])
    BY Zenon, <1>20, <2>1
  <2>4. \A k \in 1..6 : Listed(Operators["relational"][k])
    BY Zenon, <2>2, <2>3
  <2> QED
    BY Zenon, <2>1, <2>2, <2>4
<1>9. Listed(Op(<<Less, Less>>, {})) /\ Listed(Op(<<Greater, Greater>>, {}))
  <2>1. 8 \in 1..Len(Levels) /\ 1 \in 1..2 /\ 2 \in 1..2
    BY <1>1
  <2>2. Levels[8] = "shift" /\ Len(Operators["shift"]) = 2
        /\ Operators["shift"][1] = Op(<<Less, Less>>, {})
        /\ Operators["shift"][2] = Op(<<Greater, Greater>>, {})
    BY Zenon, OperatorTable
  <2>3. \A k \in 1..Len(Operators[Levels[8]]) : Listed(Operators[Levels[8]][k])
    BY Zenon, <1>20, <2>1
  <2>4. \A k \in 1..2 : Listed(Operators["shift"][k])
    BY Zenon, <2>2, <2>3
  <2> QED
    BY Zenon, <2>1, <2>2, <2>4
<1>10. Listed(Op(<<Plus>>, {})) /\ Listed(Op(<<Minus>>, {}))
  <2>1. 9 \in 1..Len(Levels) /\ 1 \in 1..2 /\ 2 \in 1..2
    BY <1>1
  <2>2. Levels[9] = "additive" /\ Len(Operators["additive"]) = 2
        /\ Operators["additive"][1] = Op(<<Plus>>, {})
        /\ Operators["additive"][2] = Op(<<Minus>>, {})
    BY Zenon, OperatorTable
  <2>3. \A k \in 1..Len(Operators[Levels[9]]) : Listed(Operators[Levels[9]][k])
    BY Zenon, <1>20, <2>1
  <2>4. \A k \in 1..2 : Listed(Operators["additive"][k])
    BY Zenon, <2>2, <2>3
  <2> QED
    BY Zenon, <2>1, <2>2, <2>4
<1>11. Listed(Op(<<Star>>, {Star})) /\ Listed(Op(<<Slash>>, {})) /\ Listed(Op(<<Percent>>, {}))
  <2>1. 10 \in 1..Len(Levels) /\ 1 \in 1..3 /\ 2 \in 1..3 /\ 3 \in 1..3
    BY <1>1
  <2>2. Levels[10] = "multiplicative" /\ Len(Operators["multiplicative"]) = 3
        /\ Operators["multiplicative"][1] = Op(<<Star>>, {Star})
        /\ Operators["multiplicative"][2] = Op(<<Slash>>, {})
        /\ Operators["multiplicative"][3] = Op(<<Percent>>, {})
    BY Zenon, OperatorTable
  <2>3. \A k \in 1..Len(Operators[Levels[10]]) : Listed(Operators[Levels[10]][k])
    BY Zenon, <1>20, <2>1
  <2>4. \A k \in 1..3 : Listed(Operators["multiplicative"][k])
    BY Zenon, <2>2, <2>3
  <2> QED
    BY Zenon, <2>1, <2>2, <2>4
<1>12. Listed(Op(<<Star, Star>>, {}))
  <2>1. 11 \in 1..Len(Levels) /\ 1 \in 1..1
    BY <1>1
  <2>2. Levels[11] = "power" /\ Len(Operators["power"]) = 1
        /\ Operators["power"][1] = Op(<<Star, Star>>, {})
    BY Zenon, OperatorTable
  <2>3. \A k \in 1..Len(Operators[Levels[11]]) : Listed(Operators[Levels[11]][k])
    BY Zenon, <1>20, <2>1
  <2>4. \A k \in 1..1 : Listed(Operators["power"][k])
    BY Zenon, <2>2, <2>3
  <2> QED
    BY Zenon, <2>1, <2>2, <2>4
<1> QED
  BY Zenon, <1>2, <1>3, <1>4, <1>5, <1>6, <1>7, <1>8, <1>9, <1>10, <1>11, <1>12

\* Where an operator of one character stands, or one of two.
LEMMA OneMatches ==
  ASSUME NEW t \in Text, NEW h \in 1..(Len(t) + 1), NEW a, NEW apart
  PROVE  /\ Len(Op(<<a>>, apart).spelling) = 1
         /\ OpMatches(t, h, Op(<<a>>, apart)) <=> h \in 1..Len(t) /\ t[h] = a /\ ~Has(t, h + 1, apart)
<1> DEFINE op == Op(<<a>>, apart)
<1>1. Len(t) \in Nat /\ h \in Nat /\ (h + 1) - 1 = h
  BY DEF Text
<1>2. op.spelling = <<a>> /\ op.apart = apart /\ Len(op.spelling) = 1
  BY DEF Op
<1> HIDE DEF op
<1>3. OpMatches(t, h, op) <=> h + 1 <= Len(t) + 1 /\ SubSeq(t, h, h) = <<a>> /\ ~Has(t, h + 1, apart)
  BY Zenon, <1>1, <1>2 DEF OpMatches
<1>4. h + 1 <= Len(t) + 1 <=> h \in 1..Len(t)
  BY <1>1
<1>5. h \in 1..Len(t) => SubSeq(t, h, h) = <<t[h]>>
  BY PiecesAre
<1>6. \A x, y : <<x>> = <<y>> <=> x = y
  OBVIOUS
<1> QED
  BY Zenon, <1>2, <1>3, <1>4, <1>5, <1>6 DEF op

\* Where an operator of two characters matches.
LEMMA TwoMatch ==
  ASSUME NEW t \in Text, NEW h \in 1..(Len(t) + 1), NEW a, NEW b, NEW apart
  PROVE  /\ Len(Op(<<a, b>>, apart).spelling) = 2
         /\ OpMatches(t, h, Op(<<a, b>>, apart)) <=>
              h \in 1..Len(t) /\ h + 1 <= Len(t) /\ t[h] = a /\ t[h + 1] = b /\ ~Has(t, h + 2, apart)
<1> DEFINE op == Op(<<a, b>>, apart)
<1>1. Len(t) \in Nat /\ h \in Nat /\ (h + 2) - 1 = h + 1
  BY DEF Text
<1>2. op.spelling = <<a, b>> /\ op.apart = apart /\ Len(op.spelling) = 2
  BY DEF Op
<1> HIDE DEF op
<1>3. OpMatches(t, h, op) <=> h + 2 <= Len(t) + 1 /\ SubSeq(t, h, h + 1) = <<a, b>> /\ ~Has(t, h + 2, apart)
  BY Zenon, <1>1, <1>2 DEF OpMatches
<1>4. h + 2 <= Len(t) + 1 <=> h \in 1..Len(t) /\ h + 1 <= Len(t)
  BY <1>1
<1>5. h \in 1..Len(t) /\ h + 1 <= Len(t) => SubSeq(t, h, h + 1) = <<t[h], t[h + 1]>>
  BY PiecesAre
<1>6. h \in 1..Len(t) /\ h + 1 <= Len(t) => (SubSeq(t, h, h + 1) = <<a, b>> <=> t[h] = a /\ t[h + 1] = b)
  BY <1>5
<1> QED
  BY Zenon, <1>2, <1>3, <1>4, <1>6 DEF op

\* What stands where an operator of a level was found.
LEMMA OperatorIsBinary ==
  ASSUME NEW t \in Text, NEW h \in 1..(Len(t) + 1),
         NEW q \in 1..Len(Levels), NEW k \in 1..Len(Operators[Levels[q]]),
         OpMatches(t, h, Operators[Levels[q]][k])
  PROVE  LET n == Len(Operators[Levels[q]][k].spelling)
         IN n \in 1..2 /\ h \in 1..Len(t) /\ h + n \in 1..(Len(t) + 1) /\ IsBinary(t, h, h + n)
<1> DEFINE op == Operators[Levels[q]][k]
           Good(x) == LET n == Len(x.spelling)
                      IN n \in 1..2 /\ h \in 1..Len(t) /\ h + n \in 1..(Len(t) + 1) /\ IsBinary(t, h, h + n)
<1>1. Len(t) \in Nat
  BY DEF Text
<1>8. \A x : \A n \in 1..2 :
        Len(x.spelling) = n /\ h \in 1..Len(t) /\ h + n \in 1..(Len(t) + 1) /\ IsBinary(t, h, h + n) => Good(x)
  BY Zenon
<1>9. 1 \in 1..2 /\ 2 \in 1..2
  OBVIOUS
<1>2. ASSUME NEW a \in Singles, NEW apart, OpMatches(t, h, Op(<<a>>, apart)) PROVE Good(Op(<<a>>, apart))
  <2>1. h \in 1..Len(t) /\ t[h] = a /\ Len(Op(<<a>>, apart).spelling) = 1
    BY <1>2, OneMatches
  <2>2. IsBinary(t, h, h + 1) /\ h + 1 \in 1..(Len(t) + 1)
    BY <1>1, <2>1, BinaryIs
  <2> QED
    BY Zenon, <1>8, <1>9, <2>1, <2>2
<1>3. ASSUME NEW a, NEW b, NEW apart, OpMatches(t, h, Op(<<a, b>>, apart)),
             b \in DoublesOf(a) \/ (b \in WordsOf(a) /\ apart = NameChars)
      PROVE  Good(Op(<<a, b>>, apart))
  <2>1. /\ h \in 1..Len(t) /\ h + 1 <= Len(t) /\ t[h] = a /\ t[h + 1] = b /\ ~Has(t, h + 2, apart)
        /\ Len(Op(<<a, b>>, apart).spelling) = 2
    BY <1>3, TwoMatch
  <2>2. IsBinary(t, h, h + 2)
    BY <1>3, <2>1, BinaryIs
  <2>3. h + 2 \in 1..(Len(t) + 1)
    BY <1>1, <2>1
  <2> QED
    BY Zenon, <1>8, <1>9, <2>1, <2>2, <2>3
<1>4. OfAKind(Levels[q], k, op)
  BY OperatorKinds
<1>5. {Bar, Ampersand, Star} \subseteq Singles /\ {Caret, Plus, Minus, Slash, Percent} \subseteq Singles
      /\ {Less, Greater} \subseteq Singles
  BY DEF Singles
<1>6. OpMatches(t, h, op)
  OBVIOUS
<1> HIDE DEF op, Good
<1>7. Good(op)
  BY Zenon, <1>2, <1>3, <1>4, <1>5, <1>6 DEF OfAKind
<1> QED
  BY <1>7 DEF Good, op

\* No expression starts with what may stand behind an operator's first character.
LEMMA NoExpressionStarts ==
  ExpressionStarts \intersect
    {Bar, Ampersand, Star, Equals, Less, Greater, Comma, Colon, Question, CloseParen} = {}
BY DEF ExpressionStarts, OperandStarts, UnaryOperators, Blanks, Digits, NameStart, Letters, Underscore,
       OpenParen, Dollar, OpenBracket, Quote, OpenBrace, Dot, Not, Tilde, Minus, Plus,
       Bar, Ampersand, Star, Equals, Less, Greater, Comma, Colon, Question, CloseParen

\* A binary operator with an expression behind it is an operator of a level.
LEMMA BinaryIsMatched ==
  ASSUME NEW t \in Text, NEW h \in 1..(Len(t) + 1), NEW n \in 1..2, NEW j \in Nat,
         IsBinary(t, h, h + n), IsE(t, h + n, j)
  PROVE  \E q \in 1..Len(Levels) : \E k \in 1..Len(Operators[Levels[q]]) :
            OpMatches(t, h, Operators[Levels[q]][k])
<1>1. Len(t) \in Nat /\ h + n \in Nat
  BY DEF Text
<1>2. h + n \in 1..Len(t) /\ t[h + n] \in ExpressionStarts
  BY <1>1, ExpressionStartsWith
<1>3. SUFFICES \E op : Listed(op) /\ OpMatches(t, h, op)
  BY Zenon DEF Listed
<1>4. CASE n = 1
  <2>1. h \in 1..Len(t) /\ t[h] \in Singles
    BY <1>1, <1>2, <1>4, BinaryIs
  <2>2. ~Has(t, h + 1, {Bar}) /\ ~Has(t, h + 1, {Ampersand}) /\ ~Has(t, h + 1, {Star}) /\ ~Has(t, h + 1, {})
    BY <1>2, <1>4, NoExpressionStarts DEF Has
  <2>3. \A a, apart : t[h] = a /\ ~Has(t, h + 1, apart) => OpMatches(t, h, Op(<<a>>, apart))
    BY <2>1, OneMatches
  <2> QED
    BY Zenon, <2>1, <2>2, <2>3, ListedOperators DEF Singles
<1>5. CASE n = 2
  <2>1. h \in 1..Len(t) /\ h + 1 <= Len(t)
    BY <1>1, <1>2, <1>5
  <2>2. t[h + 1] \in DoublesOf(t[h]) \/ (t[h + 1] \in WordsOf(t[h]) /\ ~Has(t, h + 2, NameChars))
    BY <1>5, <2>1, BinaryIs
  <2>3. \A a, b, apart : t[h] = a /\ t[h + 1] = b /\ ~Has(t, h + 2, apart) => OpMatches(t, h, Op(<<a, b>>, apart))
    BY <2>1, TwoMatch
  <2>4. ~Has(t, h + 2, {})
    BY DEF Has
  <2> DEFINE c == t[h]
             d == t[h + 1]
  <2>5. OpMatches(t, h, Op(<<c, d>>, {})) /\ (~Has(t, h + 2, NameChars) => OpMatches(t, h, Op(<<c, d>>, NameChars)))
    BY Zenon, <2>3, <2>4
  <2> HIDE DEF c, d
  <2>6. d \in DoublesOf(c) => \/ c = Bar /\ d = Bar
                              \/ c = Ampersand /\ d = Ampersand
                              \/ c = Equals /\ d = Equals
                              \/ c = Not /\ d = Equals
                              \/ c = Less /\ d \in {Equals, Less}
                              \/ c = Greater /\ d \in {Equals, Greater}
                              \/ c = Star /\ d = Star
    BY DEF DoublesOf
  <2>7. d \in WordsOf(c) => \/ c = 101 /\ d = 113
                            \/ c = 110 /\ d \in {101, 105}
                            \/ c = 105 /\ d = 110
    BY DEF WordsOf
  <2>8. d \in DoublesOf(c) => Listed(Op(<<c, d>>, {}))
    BY Zenon, <2>6, ListedOperators
  <2>9. d \in WordsOf(c) => Listed(Op(<<c, d>>, NameChars))
    BY Zenon, <2>7, ListedOperators
  <2>10. d \in DoublesOf(c) \/ (d \in WordsOf(c) /\ ~Has(t, h + 2, NameChars))
    BY <2>2 DEF c, d
  <2> QED
    BY Zenon, <2>5, <2>8, <2>9, <2>10
<1> QED
  BY <1>4, <1>5

\* An operator of words begins with a letter.
LEMMA WordsBegin ==
  ASSUME NEW a, a # 101, a # 110, a # 105
  PROVE  WordsOf(a) = {}
BY SMTT(60) DEF WordsOf

\* Operators of one character only.
LEMMA SinglesOnly ==
  ASSUME NEW a \in {94, 43, 45, 47, 37}
  PROVE  DoublesOf(a) = {} /\ WordsOf(a) = {}
<1>1. DoublesOf(a) = {}
  BY SMTT(60) DEF DoublesOf, Bar, Ampersand, Star, Equals, Not, Less, Greater
<1>2. WordsOf(a) = {}
  BY WordsBegin
<1> QED
  BY <1>1, <1>2

\* The operator that a level finds first has the length that the grammar gives it.
LEMMA OperatorLength ==
  ASSUME NEW t \in Text, NEW h \in 1..(Len(t) + 1), NEW n \in 1..2, NEW j \in Nat,
         IsBinary(t, h, h + n), IsE(t, h + n, j),
         NEW q \in 1..Len(Levels), NEW k \in 1..Len(Operators[Levels[q]]),
         FirstMatches(t, h, Levels[q], k),
         Levels[q] = "relational" =>
           \A m \in 1..Len(Operators["shift"]) : ~OpMatches(t, h, Operators["shift"][m])
  PROVE  Len(Operators[Levels[q]][k].spelling) = n
<1> DEFINE op == Operators[Levels[q]][k]
<1>1. Len(t) \in Nat /\ h + n \in Nat
  BY DEF Text
<1>2. h + n \in 1..Len(t) /\ t[h + n] \in ExpressionStarts
  BY <1>1, ExpressionStartsWith
<1>3. OpMatches(t, h, op) /\ OfAKind(Levels[q], k, op)
  BY OperatorKinds DEF FirstMatches
<1>4. Levels[q] = "relational" /\ k > 2 =>
         /\ ~OpMatches(t, h, Op(<<Less, Equals>>, {})) /\ ~OpMatches(t, h, Op(<<Greater, Equals>>, {}))
         /\ ~OpMatches(t, h, Op(<<Less, Less>>, {})) /\ ~OpMatches(t, h, Op(<<Greater, Greater>>, {}))
  <2> SUFFICES ASSUME Levels[q] = "relational", k > 2
               PROVE  /\ ~OpMatches(t, h, Op(<<Less, Equals>>, {})) /\ ~OpMatches(t, h, Op(<<Greater, Equals>>, {}))
                      /\ ~OpMatches(t, h, Op(<<Less, Less>>, {})) /\ ~OpMatches(t, h, Op(<<Greater, Greater>>, {}))
    OBVIOUS
  <2>1. 1 \in 1..(k - 1) /\ 2 \in 1..(k - 1) /\ 1 \in 1..2 /\ 2 \in 1..2
    <3>1. k \in Int
      OBVIOUS
    <3> QED
      BY <3>1
  <2>2. /\ Operators["relational"][1] = Op(<<Less, Equals>>, {}) /\ Operators["relational"][2] = Op(<<Greater, Equals>>, {})
        /\ Operators["shift"][1] = Op(<<Less, Less>>, {}) /\ Operators["shift"][2] = Op(<<Greater, Greater>>, {})
        /\ Len(Operators["shift"]) = 2
    BY Zenon, OperatorTable
  <2>3. \A m \in 1..(k - 1) : ~OpMatches(t, h, Operators["relational"][m])
    BY Zenon DEF FirstMatches
  <2>4. \A m \in 1..2 : ~OpMatches(t, h, Operators["shift"][m])
    BY Zenon, <2>2
  <2> QED
    BY Zenon, <2>1, <2>2, <2>3, <2>4
<1> HIDE DEF op
<1>5. CASE n = 1
  <2>1. h \in 1..Len(t) /\ t[h] \in Singles
    BY <1>1, <1>2, <1>5, BinaryIs
  <2>2. ASSUME NEW a, NEW b, NEW apart, OpMatches(t, h, Op(<<a, b>>, apart)), b \in DoublesOf(a) PROVE FALSE
    <3>1. t[h] = a /\ t[h + 1] = b
      BY <2>2, TwoMatch
    <3>2. b \in {Bar, Ampersand, Star, Equals, Less, Greater}
      BY <2>2 DEF DoublesOf
    <3> QED
      BY <1>2, <1>5, <3>1, <3>2, NoExpressionStarts
  <2>3. ASSUME NEW a, NEW b, NEW apart, OpMatches(t, h, Op(<<a, b>>, apart)), b \in WordsOf(a) PROVE FALSE
    <3>1. a \in Singles
      BY <2>1, <2>3, TwoMatch
    <3>2. a # 101 /\ a # 110 /\ a # 105
      BY <3>1 DEF Singles, Bar, Caret, Ampersand, Less, Greater, Plus, Minus, Star, Slash, Percent
    <3>3. WordsOf(a) = {}
      BY Zenon, <3>2, WordsBegin
    <3> QED
      BY <2>3, <3>3
  <2>4. \A a, apart : Len(Op(<<a>>, apart).spelling) = 1
    BY OneMatches
  <2> QED
    BY Zenon, <1>3, <1>5, <2>2, <2>3, <2>4 DEF OfAKind, op
<1>6. CASE n = 2
  <2>1. h \in 1..Len(t) /\ h + 1 <= Len(t)
    BY <1>1, <1>2, <1>6
  <2>2. t[h + 1] \in DoublesOf(t[h]) \/ t[h + 1] \in WordsOf(t[h])
    BY <1>6, <2>1, BinaryIs
  <2>3. \A a, b, apart : Len(Op(<<a, b>>, apart).spelling) = 2
    BY TwoMatch
  <2>4. ASSUME NEW a \in {Bar, Ampersand, Star}, op = Op(<<a>>, {a}) PROVE FALSE
    <3>1. t[h] = a /\ ~Has(t, h + 1, {a})
      BY <1>3, <2>4, OneMatches
    <3>2. a \in {124, 38, 42}
      BY <2>4 DEF Bar, Ampersand, Star
    <3>3. DoublesOf(a) = {a}
      BY <3>2 DEF DoublesOf, Bar, Ampersand, Star, Equals, Not, Less, Greater
    <3>4. WordsOf(a) = {}
      BY <3>2, WordsBegin
    <3> QED
      BY <2>1, <2>2, <3>1, <3>3, <3>4 DEF Has
  <2>5. ASSUME NEW a \in {Caret, Plus, Minus, Slash, Percent}, op = Op(<<a>>, {}) PROVE FALSE
    <3>1. t[h] = a
      BY <1>3, <2>5, OneMatches
    <3>2. a \in {94, 43, 45, 47, 37}
      BY <2>5 DEF Caret, Plus, Minus, Slash, Percent
    <3>3. DoublesOf(a) = {} /\ WordsOf(a) = {}
      BY Zenon, <3>2, SinglesOnly
    <3> QED
      BY <2>2, <3>1, <3>3
  <2>6. ASSUME NEW a \in {Less, Greater}, Levels[q] = "relational", k > 2, op = Op(<<a>>, {}) PROVE FALSE
    <3>1. t[h] = a
      BY <1>3, <2>6, OneMatches
    <3>2. WordsOf(a) = {} /\ DoublesOf(Less) = {Equals, Less} /\ DoublesOf(Greater) = {Equals, Greater}
      <4>1. a # 101 /\ a # 110 /\ a # 105
        BY <2>6 DEF Less, Greater
      <4>2. WordsOf(a) = {}
        BY Zenon, <4>1, WordsBegin
      <4> QED
        BY <4>2 DEF DoublesOf, Bar, Ampersand, Star, Equals, Not, Less, Greater
    <3>3. ~Has(t, h + 2, {})
      BY DEF Has
    <3>4. OpMatches(t, h, Op(<<t[h], t[h + 1]>>, {}))
      BY <2>1, <3>3, TwoMatch
    <3>5. \/ a = Less /\ t[h + 1] \in {Equals, Less}
          \/ a = Greater /\ t[h + 1] \in {Equals, Greater}
      BY Zenon, <2>2, <2>6, <3>1, <3>2
    <3> QED
      BY Zenon, <1>4, <2>6, <3>1, <3>4, <3>5
  <2> QED
    BY Zenon, <1>3, <1>6, <2>3, <2>4, <2>5, <2>6 DEF OfAKind, op
<1> QED
  BY <1>5, <1>6

\* A position for every call in progress: R says what the positions of a call and of
\* the one around it have to do with each other, c is the outermost position.
Chain(R, c, s, f) ==
  /\ f \in [0..Len(s) -> Nat]
  /\ f[0] = c
  /\ \A n \in 1..Len(s) : <<s[n], f[n - 1], f[n]>> \in R

\* The innermost position can be p.
Reaches(R, c, s, p) == \E f : Chain(R, c, s, f) /\ f[Len(s)] = p

\* Only calls that wait for a character move the position.
Waiting == {"then", "paren", "call"}
Copying(R) == \A x \in Frames \ Waiting : \A p, q \in Nat : <<x, p, q>> \in R <=> q = p

Inner(s, n) == SubSeq(s, 1, n - 1)

\* The calls around call n.
LEMMA InnerIs ==
  ASSUME NEW s \in Seq(Frames), NEW n \in 1..(Len(s) + 1)
  PROVE  /\ Inner(s, n) \in Seq(Frames) /\ Len(Inner(s, n)) = n - 1
         /\ \A m \in 1..(n - 1) : Inner(s, n)[m] = s[m]
<1>1. Len(s) \in Nat
  OBVIOUS
<1>2. \A i \in 1..Len(s) : s[i] \in Frames
  BY ElementOfSeq
<1>3. 1 \in Int /\ n - 1 \in Int /\ \A i \in 1..(n - 1) : s[i] \in Frames /\ 1 + i - 1 = i
  BY <1>1, <1>2
<1>4. /\ Inner(s, n) \in Seq(Frames) /\ Len(Inner(s, n)) = IF 1 <= n - 1 THEN (n - 1) - 1 + 1 ELSE 0
      /\ \A i \in 1..((n - 1) - 1 + 1) : Inner(s, n)[i] = s[1 + i - 1]
  BY <1>3, SubSeqProperties DEF Inner
<1>5. (n - 1) - 1 + 1 = n - 1 /\ (IF 1 <= n - 1 THEN (n - 1) - 1 + 1 ELSE 0) = n - 1
  BY <1>1
<1> QED
  BY <1>3, <1>4, <1>5

\* With no call in progress the position is the outermost one.
LEMMA ReachesNothing ==
  ASSUME NEW R, NEW c \in Nat
  PROVE  Reaches(R, c, <<>>, c)
<1> DEFINE f == [n \in 0..0 |-> c]
<1>1. Len(<<>>) = 0
  OBVIOUS
<1>2. f \in [0..0 -> Nat] /\ f[0] = c /\ \A n \in 1..0 : FALSE
  OBVIOUS
<1> HIDE DEF f
<1>3. Chain(R, c, <<>>, f) /\ f[Len(<<>>)] = c
  BY <1>1, <1>2 DEF Chain
<1> QED
  BY Zenon, <1>3 DEF Reaches

\* One more call moves the position as R says.
LEMMA ReachesAppended ==
  ASSUME NEW R, NEW c, NEW s \in Seq(Frames), NEW p, Reaches(R, c, s, p),
         NEW x \in Frames, NEW q \in Nat, <<x, p, q>> \in R
  PROVE  Reaches(R, c, Append(s, x), q)
<1>1. PICK f : Chain(R, c, s, f) /\ f[Len(s)] = p
  BY Zenon DEF Reaches
<1> DEFINE k == Len(s)
           u == Append(s, x)
           g == [n \in 0..(k + 1) |-> IF n <= k THEN f[n] ELSE q]
<1>2. k \in Nat /\ Len(u) = k + 1 /\ u[k + 1] = x /\ \A n \in 1..k : u[n] = s[n]
  BY AppendProperties
<1>3. f \in [0..k -> Nat] /\ f[0] = c /\ \A n \in 1..k : <<s[n], f[n - 1], f[n]>> \in R
  BY <1>1 DEF Chain
<1>4. /\ g \in [0..(k + 1) -> Nat] /\ g[0] = c /\ g[k + 1] = q /\ g[k] = p
      /\ \A n \in 1..k : g[n] = f[n] /\ g[n - 1] = f[n - 1]
  BY <1>1, <1>2, <1>3
<1> HIDE DEF g, k, u
<1>5. ASSUME NEW n \in 1..(k + 1) PROVE <<u[n], g[n - 1], g[n]>> \in R
  <2>1. CASE n \in 1..k
    BY <1>2, <1>3, <1>4, <2>1
  <2>2. CASE n = k + 1
    <3>1. n - 1 = k
      BY <1>2, <2>2
    <3> QED
      BY <1>2, <1>4, <2>2, <3>1
  <2> QED
    BY <1>2, <2>1, <2>2
<1>6. Chain(R, c, u, g) /\ g[Len(u)] = q
  BY <1>2, <1>4, <1>5 DEF Chain
<1> QED
  BY Zenon, <1>6 DEF Reaches, u

\* The calls that do not wait for a character leave the position alone.
LEMMA ReachesExtended ==
  ASSUME NEW R, Copying(R), NEW c, NEW s \in Seq(Frames), NEW p, Reaches(R, c, s, p),
         NEW u \in Seq(Frames), \A n \in 1..Len(u) : u[n] \notin Waiting
  PROVE  Reaches(R, c, s \o u, p)
<1>1. PICK f : Chain(R, c, s, f) /\ f[Len(s)] = p
  BY Zenon DEF Reaches
<1> DEFINE k == Len(s)
           l == Len(u)
           w == s \o u
           g == [n \in 0..(k + l) |-> IF n <= k THEN f[n] ELSE p]
<1>2. /\ k \in Nat /\ l \in Nat /\ Len(w) = k + l
      /\ \A n \in 1..(k + l) : w[n] = IF n <= k THEN s[n] ELSE u[n - k]
  BY ConcatProperties
<1>3. f \in [0..k -> Nat] /\ f[0] = c /\ (\A n \in 1..k : <<s[n], f[n - 1], f[n]>> \in R) /\ f[k] = p
  BY <1>1 DEF Chain
<1>4. p \in Nat
  BY <1>2, <1>3
<1> HIDE DEF k, l, w
<1>5. /\ g \in [0..(k + l) -> Nat] /\ g[0] = c /\ g[k + l] = p
      /\ \A n \in 1..k : g[n] = f[n] /\ g[n - 1] = f[n - 1]
      /\ \A n \in (k + 1)..(k + l) : g[n] = p /\ g[n - 1] = p
  <2>1. \A n \in 0..(k + l) : (IF n <= k THEN f[n] ELSE p) \in Nat
    BY <1>2, <1>3, <1>4
  <2>2. \A n \in 0..(k + l) : g[n] = IF n <= k THEN f[n] ELSE p
    OBVIOUS
  <2>3. g \in [0..(k + l) -> Nat]
    BY <2>1
  <2> HIDE DEF g
  <2>4. g[0] = c
    BY <1>2, <1>3, <2>2
  <2>5. g[k + l] = p
    <3>1. k + l \in 0..(k + l) /\ (k + l <= k => k + l = k)
      BY <1>2
    <3> QED
      BY <1>3, <2>2, <3>1
  <2>6. \A n \in 1..k : g[n] = f[n] /\ g[n - 1] = f[n - 1]
    <3> TAKE n \in 1..k
    <3>1. n \in 0..(k + l) /\ n - 1 \in 0..(k + l) /\ n <= k /\ n - 1 <= k
      BY <1>2
    <3> QED
      BY Zenon, <2>2, <3>1
  <2>7. \A n \in (k + 1)..(k + l) : g[n] = p /\ g[n - 1] = p
    <3> TAKE n \in (k + 1)..(k + l)
    <3>1. n \in 0..(k + l) /\ n - 1 \in 0..(k + l) /\ ~(n <= k)
      BY <1>2
    <3>2. g[n] = p
      BY <2>2, <3>1
    <3>3. n - 1 <= k => n - 1 = k
      BY <1>2, <3>1
    <3>4. g[n - 1] = p
      BY <1>3, <2>2, <3>1, <3>3
    <3> QED
      BY <3>2, <3>4
  <2> QED
    BY <2>3, <2>4, <2>5, <2>6, <2>7
<1>6. \A n \in 1..l : u[n] \in Frames \ Waiting
  BY ElementOfSeq DEF l
<1> HIDE DEF g
<1>7. ASSUME NEW n \in 1..(k + l) PROVE <<w[n], g[n - 1], g[n]>> \in R
  <2>1. CASE n \in 1..k
    <3>1. w[n] = s[n]
      BY <1>2, <2>1
    <3>2. g[n] = f[n] /\ g[n - 1] = f[n - 1]
      BY <1>5, <2>1
    <3> QED
      BY <1>3, <2>1, <3>1, <3>2
  <2>2. CASE n \in (k + 1)..(k + l)
    <3>1. w[n] = u[n - k] /\ n - k \in 1..l
      BY <1>2, <2>2
    <3>2. w[n] \in Frames \ Waiting
      BY <1>6, <3>1
    <3>3. g[n] = p /\ g[n - 1] = p
      BY <1>5, <2>2
    <3> QED
      BY Zenon, <1>4, <3>2, <3>3 DEF Copying
  <2> QED
    BY <1>2, <2>1, <2>2
<1>8. Chain(R, c, w, g) /\ g[Len(w)] = p
  BY Zenon, <1>2, <1>5, <1>7 DEF Chain
<1> QED
  BY Zenon, <1>8 DEF Reaches, w

\* So behind the last waiting call every position is the innermost one.
LEMMA ChainIsFlat ==
  ASSUME NEW R, Copying(R), NEW c, NEW s \in Seq(Frames), NEW f, Chain(R, c, s, f), NEW n \in 0..Len(s),
         \A m \in (n + 1)..Len(s) : s[m] \notin Waiting
  PROVE  f[n] = f[Len(s)]
<1> DEFINE k == Len(s)
           S == {m \in n..k : f[m] = f[n]}
<1>1. k \in Nat /\ n \in Int /\ k \in Int /\ k \in n..k /\ n \in n..k
  OBVIOUS
<1>2. f \in [0..k -> Nat] /\ \A m \in 1..k : <<s[m], f[m - 1], f[m]>> \in R
  BY DEF Chain
<1>3. ASSUME NEW m \in (n + 1)..k, m - 1 \in S PROVE m \in S
  <2>1. m \in 1..k /\ m \in n..k /\ m - 1 \in 0..k /\ m \in 0..k
    BY <1>1
  <2>2. s[m] \in Frames \ Waiting
    BY <2>1, ElementOfSeq
  <2>3. f[m - 1] \in Nat /\ f[m] \in Nat /\ <<s[m], f[m - 1], f[m]>> \in R
    BY <1>2, <2>1
  <2>4. f[m] = f[m - 1]
    BY Zenon, <2>2, <2>3 DEF Copying
  <2> QED
    BY <1>3, <2>1, <2>4
<1>4. n \in S
  BY <1>1
<1> HIDE DEF S
<1>5. k \in S
  BY <1>1, <1>3, <1>4, BoundedInduction
<1> QED
  BY <1>5 DEF S, k

\* The position outside call n, when no call in it waits.
LEMMA ReachesAround ==
  ASSUME NEW R, Copying(R), NEW c, NEW s \in Seq(Frames), NEW q, Reaches(R, c, s, q), NEW n \in 1..Len(s),
         \A m \in (n + 1)..Len(s) : s[m] \notin Waiting
  PROVE  \E p \in Nat : Reaches(R, c, Inner(s, n), p) /\ <<s[n], p, q>> \in R /\ q \in Nat
<1>1. PICK f : Chain(R, c, s, f) /\ f[Len(s)] = q
  BY Zenon DEF Reaches
<1> DEFINE k == Len(s)
           u == Inner(s, n)
           g == [m \in 0..(n - 1) |-> f[m]]
<1>2. k \in Nat /\ n \in 1..k /\ n \in 0..k /\ n - 1 \in Nat /\ n - 1 \in 0..k /\ n \in 1..(k + 1)
  OBVIOUS
<1>3. Len(u) = n - 1 /\ \A m \in 1..(n - 1) : u[m] = s[m]
  BY <1>2, InnerIs
<1>4. f \in [0..k -> Nat] /\ f[0] = c /\ \A m \in 1..k : <<s[m], f[m - 1], f[m]>> \in R
  BY <1>1 DEF Chain
<1>5. f[n] = q
  BY <1>1, <1>2, ChainIsFlat
<1>6. /\ g \in [0..(n - 1) -> Nat] /\ g[0] = c /\ g[n - 1] = f[n - 1]
      /\ \A m \in 1..(n - 1) : g[m] = f[m] /\ g[m - 1] = f[m - 1] /\ m \in 1..k
  BY <1>2, <1>4
<1>7. f[n - 1] \in Nat /\ f[n] \in Nat
  BY <1>2, <1>4
<1> HIDE DEF g, u, k
<1>8. \A m \in 1..(n - 1) : <<u[m], g[m - 1], g[m]>> \in R
  BY <1>3, <1>4, <1>6
<1>9. Chain(R, c, u, g) /\ g[Len(u)] = f[n - 1]
  BY <1>3, <1>6, <1>8 DEF Chain
<1>10. Reaches(R, c, u, f[n - 1])
  BY Zenon, <1>9 DEF Reaches
<1> QED
  BY Zenon, <1>2, <1>4, <1>5, <1>7, <1>10 DEF u

\* When no call waits the position is the outermost one.
LEMMA ReachesOutermost ==
  ASSUME NEW R, Copying(R), NEW c, NEW s \in Seq(Frames), NEW q, Reaches(R, c, s, q),
         \A m \in 1..Len(s) : s[m] \notin Waiting
  PROVE  q = c
<1>1. PICK f : Chain(R, c, s, f) /\ f[Len(s)] = q
  BY Zenon DEF Reaches
<1>2. 0 \in 0..Len(s) /\ \A m \in (0 + 1)..Len(s) : s[m] \notin Waiting
  OBVIOUS
<1>3. f[0] = f[Len(s)]
  BY <1>1, <1>2, ChainIsFlat
<1> QED
  BY <1>1, <1>3 DEF Chain

\* What holds of the outermost position and of those of the waiting calls holds of
\* the innermost one.
LEMMA ReachesIn ==
  ASSUME NEW R, Copying(R), NEW c, NEW s \in Seq(Frames), NEW q, Reaches(R, c, s, q),
         NEW P, c \in P, \A x \in Waiting : \A a, b \in Nat : <<x, a, b>> \in R => b \in P
  PROVE  q \in P
<1>1. PICK f : Chain(R, c, s, f) /\ f[Len(s)] = q
  BY Zenon DEF Reaches
<1> DEFINE k == Len(s)
           S == {m \in 0..k : f[m] \in P}
<1>2. k \in Nat /\ 0 \in Int /\ k \in Int /\ k \in 0..k /\ 0 \in 0..k
  OBVIOUS
<1>3. f \in [0..k -> Nat] /\ f[0] = c /\ \A m \in 1..k : <<s[m], f[m - 1], f[m]>> \in R
  BY <1>1 DEF Chain
<1>4. ASSUME NEW m \in (0 + 1)..k, m - 1 \in S PROVE m \in S
  <2>1. m \in 1..k /\ m - 1 \in 0..k /\ m \in 0..k
    BY <1>2
  <2>2. s[m] \in Frames
    BY <2>1, ElementOfSeq
  <2>3. f[m - 1] \in Nat /\ f[m] \in Nat /\ <<s[m], f[m - 1], f[m]>> \in R
    BY <1>3, <2>1
  <2>4. CASE s[m] \in Waiting
    BY <2>1, <2>3, <2>4
  <2>5. CASE s[m] \notin Waiting
    <3>1. s[m] \in Frames \ Waiting
      BY <2>2, <2>5
    <3>2. \A x, y \in Nat : <<s[m], x, y>> \in R <=> y = x
      BY Zenon, <3>1 DEF Copying
    <3>3. f[m] = f[m - 1]
      BY Zenon, <2>3, <3>2
    <3> QED
      BY <1>4, <2>1, <3>3
  <2> QED
    BY <2>4, <2>5
<1>5. 0 \in S
  BY <1>2, <1>3
<1> HIDE DEF S
<1>6. k \in S
  BY <1>2, <1>4, <1>5, BoundedInduction
<1> QED
  BY <1>1, <1>6 DEF S, k

\* A step that reads the operand at the next character, or finds none.
ReadsOperand ==
  LET end == OperandEnd(text, Here)
  IN IF end = 0 THEN GoOn(Here, stack, "refused") ELSE GoOn(end, stack, "after")

\* The next character, and the calls in progress.
LEMMA HereIs ==
  ASSUME IInv
  PROVE  /\ text \in Text /\ Len(text) \in Nat /\ index \in 1..(Len(text) + 1) /\ index \in Nat
         /\ Here \in 1..(Len(text) + 1) /\ Here \in Nat /\ Here \in index..(Len(text) + 1)
         /\ (Here \in 1..Len(text) => text[Here] \notin Blanks)
         /\ stack \in Seq(Frames) /\ Len(stack) \in Nat
         /\ \A class : At(class) => Here \in 1..Len(text) /\ text[Here] \in class
<1>1. text \in Text /\ Len(text) \in Nat /\ index \in 1..(Len(text) + 1) /\ stack \in Seq(Frames)
  BY DEF IInv, Text
<1>2. /\ Here \in index..(Len(text) + 1) /\ Here \in Nat /\ (Here <= Len(text) => text[Here] \notin Blanks)
  BY <1>1, SkipIs DEF Here
<1>3. index \in Nat /\ Here \in 1..(Len(text) + 1) /\ Len(stack) \in Nat
  BY <1>1, <1>2
<1>4. \A class : At(class) => Here \in 1..Len(text) /\ text[Here] \in class
  BY <1>3, HereBounds DEF At, Has
<1>5. Here \in 1..Len(text) => Here <= Len(text)
  BY <1>1, <1>3
<1> QED
  BY <1>1, <1>2, <1>3, <1>4, <1>5

\* Where the operand starts, behind a prefix, is where the grammar says.
LEMMA StartIsOperandAt ==
  ASSUME IInv
  PROVE  /\ Here \in 1..Len(text) => OperandAt = StartOf(text, Here)
         /\ ~Prefixed => OperandAt = Here
         /\ \A class : Starts(class) => Here \in 1..Len(text) /\ text[OperandAt] \in class
         /\ \A class : At(class) /\ Zero \notin class => OperandAt = Here
<1>1. /\ Here \in 1..(Len(text) + 1) /\ Here \in Nat /\ Len(text) \in Nat
      /\ \A class : At(class) => Here \in 1..Len(text) /\ text[Here] \in class
  BY HereIs
<1>2. Here \in 1..Len(text) => OperandAt = StartOf(text, Here)
  <2>1. Here \in 1..Len(text) => Here <= Len(text)
    BY <1>1
  <2>2. Here \in 1..Len(text) => (At({Zero}) <=> text[Here] = Zero)
    BY <2>1 DEF At, Has
  <2> QED
    BY Zenon, <2>2 DEF OperandAt, StartOf, Prefixed
<1>3. \A class : Starts(class) => OperandAt <= Len(text) /\ text[OperandAt] \in class
  BY DEF Starts, Has
<1>4. OperandAt \in {Here, Here + 2}
  BY DEF OperandAt
<1>5. OperandAt <= Len(text) => Here \in 1..Len(text)
  BY <1>1, <1>4
<1>6. Prefixed => At({Zero})
  BY DEF Prefixed
<1>7. \A class : At(class) /\ Zero \notin class => ~Prefixed
  BY <1>1, <1>6
<1>8. ~Prefixed => OperandAt = Here
  BY DEF OperandAt
<1> QED
  BY <1>2, <1>3, <1>5, <1>7, <1>8

\* The actions that read an operand without expressions in it read the one that the
\* grammar has there.
LEMMA OperandIsRead ==
  ASSUME IInv, Variable \/ Braced \/ Number \/ Bracket \/ Quoted \/ Constant
  PROVE  /\ mode = "operand"
         /\ Here \in 1..Len(text)
         /\ text[Here] \in OperandStarts \ {OpenParen}
         /\ text[Here] \in NameStart => ~Calls
         /\ ReadsOperand \/ GoOn(Here, stack, "nested")
<1> DEFINE h == Here
           k == StartOf(text, h)
           Result == /\ h \in 1..Len(text) /\ text[h] \in OperandStarts \ {OpenParen}
                     /\ text[h] \in NameStart => ~Calls
                     /\ ReadsOperand \/ GoOn(h, stack, "nested")
<1>1. text \in Text /\ \A class : At(class) => h \in 1..Len(text) /\ text[h] \in class
  BY HereIs
<1>2. /\ h \in 1..Len(text) => OperandAt = k
      /\ ~Prefixed => OperandAt = h
      /\ \A class : Starts(class) => h \in 1..Len(text) /\ text[OperandAt] \in class
      /\ \A class : At(class) /\ Zero \notin class => OperandAt = h
  BY StartIsOperandAt
<1>3. h \in 1..Len(text) =>
        /\ k # h => text[k] \in {Dollar, OpenBracket} /\ text[h] = Zero
        /\ text[k] = Dollar => OperandEnd(text, h) = VariableEnd(text, k)
        /\ text[k] = OpenBracket => OperandEnd(text, h) = BracketEnd(text, k + 1)
        /\ text[k] = Quote => OperandEnd(text, h) = QuotedEnd(text, k + 1)
        /\ text[k] = OpenBrace => OperandEnd(text, h) = NestedEnd(text, k + 1, OpenBrace, CloseBrace)
        /\ text[k] \in Digits \/ (text[k] = Dot /\ Has(text, k + 1, Digits)) => OperandEnd(text, h) = NumberEnd(text, k)
        /\ text[k] \in NameStart =>
             OperandEnd(text, h) = IF IsConstant(SubSeq(text, h, RunEnd(text, h, NameChars) - 1))
                                   THEN RunEnd(text, h, NameChars) ELSE 0
  BY <1>1, OperandEndBy
<1> HIDE DEF h, k
<1>4. \A end : Literal(end) <=>
        (IF end = 0 THEN GoOn(h, stack, "refused") ELSE GoOn(end, stack, "after")) /\ UNCHANGED validated
  BY Zenon DEF Literal, h
<1>5. ReadsOperand <=> IF OperandEnd(text, h) = 0 THEN GoOn(h, stack, "refused")
                       ELSE GoOn(OperandEnd(text, h), stack, "after")
  BY Zenon DEF ReadsOperand, h
<1>6. {Dollar, OpenBracket, Quote, OpenBrace, Dot, Zero} \intersect NameStart = {}
      /\ Digits \intersect NameStart = {} /\ Zero \in Digits /\ Zero \notin {OpenBrace} /\ Zero \notin {Quote}
      /\ Zero \notin NameStart
  BY DEF NameStart, Digits, Letters, Underscore, Dollar, OpenBracket, Quote, OpenBrace, Dot, Zero
<1>7. \A c \in {Dollar, OpenBracket, Quote, OpenBrace, Dot} \union Digits \union NameStart : c \in OperandStarts \ {OpenParen}
  BY DEF OperandStarts, NameStart, Digits, Letters, Underscore, Dollar, OpenBracket, Quote, OpenBrace, Dot, OpenParen
<1>8. ASSUME NEW class, Starts(class), class \subseteq {Dollar, OpenBracket}
      PROVE  /\ h \in 1..Len(text) /\ text[k] \in class /\ OperandAt = k
             /\ text[h] \in OperandStarts \ {OpenParen} /\ text[h] \notin NameStart
  <2>1. h \in 1..Len(text) /\ OperandAt = k /\ text[k] \in class
    BY <1>2, <1>8
  <2>2. text[h] \in {Dollar, OpenBracket, Zero}
    BY <1>3, <1>8, <2>1
  <2> QED
    BY <1>6, <1>7, <2>1, <2>2
<1>9. ASSUME Variable PROVE Result
  <2>1. Starts({Dollar}) /\ Literal(VariableEnd(text, OperandAt))
    BY <1>9 DEF Variable
  <2>2. /\ h \in 1..Len(text) /\ text[k] = Dollar /\ OperandAt = k
        /\ text[h] \in OperandStarts \ {OpenParen} /\ text[h] \notin NameStart
    BY <1>8, <2>1
  <2> QED
    BY <1>3, <1>4, <1>5, <2>1, <2>2
<1>10. ASSUME Bracket PROVE Result
  <2> DEFINE end == BracketEnd(text, OperandAt + 1)
  <2>1. /\ Starts({OpenBracket})
        /\ \/ end = 0 /\ Literal(0)
           \/ end # 0 /\ (GoOn(end, stack, "after") \/ GoOn(h, stack, "nested"))
    BY <1>10 DEF Bracket, h
  <2>2. /\ h \in 1..Len(text) /\ text[k] = OpenBracket /\ OperandAt = k
        /\ text[h] \in OperandStarts \ {OpenParen} /\ text[h] \notin NameStart
    BY <1>8, <2>1
  <2>3. OperandEnd(text, h) = end
    BY <1>3, <2>2
  <2> HIDE DEF end
  <2> QED
    BY <1>4, <1>5, <2>1, <2>2, <2>3
<1>11. ASSUME NEW class, At(class), Zero \notin class
       PROVE  h \in 1..Len(text) /\ text[h] \in class /\ k = h
  BY <1>1, <1>2, <1>11
<1>12. ASSUME Braced PROVE Result
  <2>1. At({OpenBrace}) /\ Literal(NestedEnd(text, h + 1, OpenBrace, CloseBrace))
    BY <1>12 DEF Braced, h
  <2>2. h \in 1..Len(text) /\ text[h] = OpenBrace /\ k = h
    BY <1>6, <1>11, <2>1
  <2>3. text[h] \in OperandStarts \ {OpenParen} /\ text[h] \notin NameStart
    BY <1>6, <1>7, <2>2
  <2> QED
    BY <1>3, <1>4, <1>5, <2>1, <2>2, <2>3
<1>13. ASSUME Quoted PROVE Result
  <2> DEFINE end == QuotedEnd(text, h + 1)
  <2>1. /\ At({Quote})
        /\ \/ end = 0 /\ Literal(0)
           \/ end # 0 /\ (GoOn(end, stack, "after") \/ GoOn(h, stack, "nested"))
    BY <1>13 DEF Quoted, h
  <2>2. h \in 1..Len(text) /\ text[h] = Quote /\ k = h
    BY <1>6, <1>11, <2>1
  <2>3. text[h] \in OperandStarts \ {OpenParen} /\ text[h] \notin NameStart
    BY <1>6, <1>7, <2>2
  <2>4. OperandEnd(text, h) = end
    BY <1>3, <2>2
  <2> HIDE DEF end
  <2> QED
    BY <1>4, <1>5, <2>1, <2>2, <2>3, <2>4
<1>14. ASSUME Number PROVE Result
  <2>1. /\ ~Prefixed /\ Literal(NumberEnd(text, h))
        /\ At(Digits) \/ (At({Dot}) /\ Has(text, h + 1, Digits))
    BY <1>14 DEF Number, h
  <2>2. h \in 1..Len(text) /\ (text[h] \in Digits \/ (text[h] = Dot /\ Has(text, h + 1, Digits)))
    BY <1>1, <2>1
  <2>3. k = h
    BY <1>2, <2>1, <2>2
  <2>4. text[h] \in OperandStarts \ {OpenParen} /\ text[h] \notin NameStart
    BY <1>6, <1>7, <2>2
  <2> QED
    BY <1>3, <1>4, <1>5, <2>1, <2>2, <2>3, <2>4
<1>15. ASSUME Constant PROVE Result
  <2>1. /\ At(NameStart) /\ ~Calls
        /\ Literal(IF IsConstant(SubSeq(text, h, RunEnd(text, h, NameChars) - 1)) THEN RunEnd(text, h, NameChars) ELSE 0)
    BY <1>15 DEF Constant, NameEnd, h
  <2>2. h \in 1..Len(text) /\ text[h] \in NameStart /\ k = h
    BY <1>6, <1>11, <2>1
  <2>3. text[h] \in OperandStarts \ {OpenParen}
    BY <1>7, <2>2
  <2> QED
    BY <1>3, <1>4, <1>5, <2>1, <2>2, <2>3
<1>16. mode = "operand"
  BY DEF Variable, Braced, Number, Bracket, Quoted, Constant
<1>17. Result
  BY Zenon, <1>9, <1>10, <1>12, <1>13, <1>14, <1>15
<1> QED
  BY Zenon, <1>16, <1>17 DEF h

\* The calls that a binary level makes behind its operator.
Operands(q) == IF Levels[q] = "power" THEN <<"power_rest", "power">> ELSE <<Levels[q]>> \o Below(Levels[q])

\* The levels differ from each other and from the other calls.
LEMMA LevelsDiffer ==
  ASSUME NEW q \in 1..Len(Levels)
  PROVE  /\ q \in 1..11 /\ Levels[q] \in Frames \ Waiting
         /\ \A n \in 1..Len(Levels) : Levels[n] = Levels[q] <=> n = q
         /\ Levels[q] = "power" <=> q = 11
         /\ Levels[q] \notin {"ternary", "else", "unary", "power_rest"}
<1>1. q \in 1..11 /\ Len(Levels) = 11
  BY LevelsAreFrames
<1> QED
  BY <1>1, OperatorTable DEF Frames, Waiting

\* The levels below a level.
LEMMA BelowIs ==
  ASSUME NEW q \in 1..Len(Levels)
  PROVE  /\ Below(Levels[q]) \in Seq(Frames) /\ Len(Below(Levels[q])) = 11 - q
         /\ \A i \in 1..(11 - q) : Below(Levels[q])[i] = Levels[q + i]
<1> DEFINE c == CHOOSE n \in 1..Len(Levels) : Levels[n] = Levels[q]
           u == SubSeq(Levels, 1 + q, 11)
<1>1. c = q /\ q \in 1..11 /\ Len(Levels) = 11
  BY LevelsDiffer, LevelsAreFrames
<1>2. Below(Levels[q]) = u
  BY <1>1 DEF Below
<1>3. 1 + q \in Int /\ 11 \in Int /\ \A i \in (1 + q)..11 : Levels[i] \in Frames
  <2>1. \A i \in 1..11 : Levels[i] \in Frames
    BY <1>1, LevelsAreFrames, ElementOfSeq
  <2>2. \A i \in (1 + q)..11 : i \in 1..11
    BY <1>1
  <2> QED
    BY <1>1, <2>1, <2>2
<1>4. u \in Seq(Frames) /\ Len(u) = (IF 1 + q <= 11 THEN 11 - (1 + q) + 1 ELSE 0)
      /\ \A i \in 1..(11 - (1 + q) + 1) : u[i] = Levels[(1 + q) + i - 1]
  BY <1>3, SubSeqProperties
<1>5. (IF 1 + q <= 11 THEN 11 - (1 + q) + 1 ELSE 0) = 11 - q /\ 11 - (1 + q) + 1 = 11 - q
      /\ \A i \in 1..(11 - q) : (1 + q) + i - 1 = q + i
  BY <1>1
<1> HIDE DEF u
<1> QED
  BY <1>2, <1>4, <1>5

\* No call that waits is in a descent through the levels.
LEMMA DescentsAreFlat ==
  /\ Expression \in Seq(Frames) /\ Len(Expression) = 12 /\ Expression[1] = "ternary"
  /\ \A n \in 2..12 : Expression[n] = Levels[n - 1]
  /\ \A n \in 1..Len(Expression) : Expression[n] \notin Waiting
  /\ \A q \in 1..Len(Levels) : /\ Operands(q) \in Seq(Frames)
                               /\ \A n \in 1..Len(Operands(q)) : Operands(q)[n] \notin Waiting
<1>1. Levels \in Seq(Frames) /\ Len(Levels) = 11 /\ Expression \in Seq(Frames) /\ Len(Expression) = 12
  BY LevelsAreFrames
<1>2. Expression[1] = "ternary" /\ \A n \in 2..12 : Expression[n] = Levels[n - 1]
  <2> DEFINE first == <<"ternary">>
  <2>1. first \in Seq(Frames) /\ Len(first) = 1 /\ first[1] = "ternary"
    BY DEF Frames
  <2>2. Expression = first \o Levels
    BY DEF Expression
  <2> HIDE DEF first
  <2>3. \A n \in 1..(Len(first) + Len(Levels)) :
           (first \o Levels)[n] = IF n <= Len(first) THEN first[n] ELSE Levels[n - Len(first)]
    BY Zenon, <1>1, <2>1, ConcatProperties
  <2>4. Len(first) + Len(Levels) = 12
    BY <1>1, <2>1
  <2>5. \A n \in 1..12 : Expression[n] = IF n <= 1 THEN first[n] ELSE Levels[n - 1]
    BY Zenon, <2>1, <2>2, <2>3, <2>4
  <2>6. 1 \in 1..12 /\ \A n \in 2..12 : n \in 1..12 /\ ~(n <= 1)
    OBVIOUS
  <2> HIDE DEF first
  <2>7. 1 <= 1
    OBVIOUS
  <2> QED
    BY Zenon, <2>1, <2>5, <2>6, <2>7
<1>3. \A q \in 1..Len(Levels) : Levels[q] \notin Waiting
  BY LevelsDiffer
<1>4. \A n \in 1..Len(Expression) : Expression[n] \notin Waiting
  <2> TAKE n \in 1..Len(Expression)
  <2>1. CASE n = 1
    BY <1>2, <2>1 DEF Waiting
  <2>2. CASE n # 1
    <3>1. n \in 2..12 /\ n - 1 \in 1..11
      BY <1>1, <2>2
    <3> QED
      BY <1>1, <1>2, <1>3, <3>1
  <2> QED
    BY <2>1, <2>2
<1>5. ASSUME NEW q \in 1..Len(Levels)
      PROVE  Operands(q) \in Seq(Frames) /\ \A n \in 1..Len(Operands(q)) : Operands(q)[n] \notin Waiting
  <2>1. CASE Levels[q] = "power"
    <3> DEFINE u == <<"power_rest", "power">>
    <3>1. Operands(q) = u
      BY <2>1 DEF Operands
    <3>2. u \in Seq(Frames) /\ Len(u) = 2 /\ u[1] = "power_rest" /\ u[2] = "power"
      BY DEF Frames
    <3> HIDE DEF u
    <3>3. \A n \in 1..Len(u) : n = 1 \/ n = 2
      BY <3>2
    <3> QED
      BY <3>1, <3>2, <3>3 DEF Waiting
  <2>2. CASE Levels[q] # "power"
    <3> DEFINE a == <<Levels[q]>>
               b == Below(Levels[q])
    <3>1. a \in Seq(Frames) /\ Len(a) = 1 /\ a[1] = Levels[q]
      BY LevelsDiffer
    <3>2. q \in 1..11 /\ b \in Seq(Frames) /\ Len(b) = 11 - q /\ \A i \in 1..(11 - q) : b[i] = Levels[q + i]
      BY BelowIs, LevelsDiffer
    <3>3. Operands(q) = a \o b
      BY <2>2 DEF Operands
    <3> HIDE DEF a, b
    <3>6. /\ a \o b \in Seq(Frames) /\ Len(a \o b) = Len(a) + Len(b)
          /\ \A n \in 1..(Len(a) + Len(b)) : (a \o b)[n] = IF n <= Len(a) THEN a[n] ELSE b[n - Len(a)]
      BY Zenon, <3>1, <3>2, ConcatProperties
    <3>4. /\ a \o b \in Seq(Frames) /\ Len(a \o b) = 1 + (11 - q)
          /\ \A n \in 1..(1 + (11 - q)) : (a \o b)[n] = IF n <= 1 THEN a[n] ELSE b[n - 1]
      BY <3>1, <3>2, <3>6
    <3>5. ASSUME NEW n \in 1..(1 + (11 - q)) PROVE (a \o b)[n] \notin Waiting
      <4>1. CASE n = 1
        BY <1>3, <3>1, <3>4, <4>1
      <4>2. CASE n # 1
        <5>1. n - 1 \in 1..(11 - q) /\ q + (n - 1) \in 1..11 /\ ~(n <= 1)
          BY <3>2, <4>2
        <5>2. (a \o b)[n] = Levels[q + (n - 1)]
          BY <3>2, <3>4, <5>1
        <5> QED
          BY <1>1, <1>3, <5>1, <5>2
      <4> QED
        BY <4>1, <4>2
    <3> QED
      BY <3>3, <3>4, <3>5
  <2> QED
    BY <2>1, <2>2
<1> QED
  BY <1>1, <1>2, <1>4, <1>5

\* A waiting call always goes on: behind the one that resumes there is none.
LEMMA WaitingGoOn ==
  ASSUME NEW x \in Waiting
  PROVE  GoesOn(x)
BY DEF GoesOn, Waiting

\* No call that waits is within the one that goes on.
LEMMA ResumesAbove ==
  ASSUME NEW n, NEW x, Resumes(n, x)
  PROVE  stack[n] = x /\ GoesOn(x) /\ \A m \in (n + 1)..Len(stack) : stack[m] \notin Waiting
BY WaitingGoOn DEF Resumes

\* The calls around the one that goes on.
LEMMA AroundIsInner == \A n : Around(n) = Inner(stack, n)
BY DEF Around, Inner

------------------------------------------------------------------------------
\* Soundness: what was read is the beginning of an expression.
\* Every expression that starts at i gives one that starts at p.
From(t, p, i) == \A j \in Nat : IsE(t, i, j) => IsE(t, p, j)

\* What was read before a waiting call and in it: p is where the expression around
\* it began, q where its own did.
OpensAt(t, x, p, q) ==
  /\ x \notin Waiting => q = p
  /\ x = "then" => \E k \in 1..Len(t) : q = k + 1 /\ t[k] = Question /\ IsE(t, p, k)
  /\ x = "paren" => \E k \in 1..Len(t) : q = k + 1 /\ t[k] = OpenParen /\ From(t, p, k)
  /\ x = "call" =>
       \E i \in 1..Len(t) :
          LET open == SkipBlanks(t, RunEnd(t, i, NameChars))
          IN /\ t[i] \in NameStart /\ From(t, p, i) /\ t[open] = OpenParen /\ open \in 1..Len(t)
             /\ \A j \in Nat : IsA(t, q, j) => IsA(t, open + 1, j)

Opening(t) == {e \in Frames \X Nat \X Nat : OpensAt(t, e[1], e[2], e[3])}

\* What a step through the calls says of the positions.
LEMMA OpeningIs ==
  ASSUME NEW t
  PROVE  /\ \A x \in Frames : \A p, q \in Nat : <<x, p, q>> \in Opening(t) <=> OpensAt(t, x, p, q)
         /\ Copying(Opening(t))
<1>1. ASSUME NEW x \in Frames, NEW p \in Nat, NEW q \in Nat
      PROVE  <<x, p, q>> \in Opening(t) <=> OpensAt(t, x, p, q)
  <2> DEFINE e == <<x, p, q>>
  <2>1. e \in Frames \X Nat \X Nat /\ e[1] = x /\ e[2] = p /\ e[3] = q
    OBVIOUS
  <2> HIDE DEF e
  <2>2. e \in Opening(t) <=> OpensAt(t, x, p, q)
    BY Zenon, <2>1 DEF Opening
  <2> QED
    BY <2>2 DEF e
<1>2. ASSUME NEW x \in Frames \ Waiting, NEW p \in Nat, NEW q \in Nat
      PROVE  OpensAt(t, x, p, q) <=> q = p
  BY <1>2 DEF OpensAt, Waiting
<1> QED
  BY Zenon, <1>1, <1>2 DEF Copying

\* What the expression validator has read is an expression, or the beginning of one.
Sound ==
  /\ mode = "operand" => \E q \in Nat : Reaches(Opening(text), 1, stack, q) /\ From(text, q, index)
  /\ mode = "after" => \E q \in Nat : Reaches(Opening(text), 1, stack, q) /\ IsE(text, q, index)
  /\ mode = "accepted" => IsE(text, 1, Len(text) + 1)

\* An operand is read next.
LEMMA SoundOperand ==
  ASSUME NEW position, NEW calls, GoOn(position, calls, "operand"),
         NEW q \in Nat, Reaches(Opening(text), 1, calls, q), From(text, q, position)
  PROVE  Sound'
<1>1. text' = text /\ index' = position /\ stack' = calls /\ mode' = "operand"
  BY DEF GoOn
<1> QED
  BY <1>1 DEF Sound

\* An operand was read.
LEMMA SoundAfter ==
  ASSUME NEW position, NEW calls, GoOn(position, calls, "after"),
         NEW q \in Nat, Reaches(Opening(text), 1, calls, q), IsE(text, q, position)
  PROVE  Sound'
<1>1. text' = text /\ index' = position /\ stack' = calls /\ mode' = "after"
  BY DEF GoOn
<1> QED
  BY <1>1 DEF Sound

\* A refusal, and a nested script, say nothing.
LEMMA SoundStops ==
  ASSUME NEW position, NEW calls, NEW stop \in {"refused", "nested"}, GoOn(position, calls, stop)
  PROVE  Sound'
BY DEF Sound, GoOn

\* The blanks before the next character make no difference.
LEMMA SoundHere ==
  ASSUME IInv, Sound
  PROVE  /\ mode = "operand" => \E q \in Nat : Reaches(Opening(text), 1, stack, q) /\ From(text, q, Here)
         /\ mode = "after" => \E q \in Nat : Reaches(Opening(text), 1, stack, q) /\ IsE(text, q, Here)
<1>1. text \in Text /\ index \in 1..(Len(text) + 1)
  BY HereIs
<1>2. \A j \in Nat : IsE(text, Here, j) => IsE(text, index, j)
  BY <1>1, BlanksBefore DEF Here
<1>3. \A q \in Nat : From(text, q, index) => From(text, q, Here)
  BY Zenon, <1>2 DEF From
<1>4. \A q \in Nat : IsE(text, q, index) => IsE(text, q, Here)
  BY <1>1, BlanksBehind DEF Here
<1> QED
  BY Zenon, <1>3, <1>4 DEF Sound

\* Nothing is read at the start.
LEMMA InitSound == Init => Sound
<1> SUFFICES ASSUME Init PROVE Sound
  OBVIOUS
<1>1. mode = "operand" /\ index = 1 /\ stack = Expression
  BY DEF Init
<1>2. Reaches(Opening(text), 1, <<>>, 1)
  BY ReachesNothing
<1>3. Reaches(Opening(text), 1, <<>> \o Expression, 1)
  <2>1. <<>> \in Seq(Frames)
    OBVIOUS
  <2> QED
    BY Zenon, <1>2, <2>1, DescentsAreFlat, OpeningIs, ReachesExtended
<1>4. <<>> \o Expression = Expression
  BY DescentsAreFlat, ConcatEmptySeq
<1>5. From(text, 1, 1)
  BY DEF From
<1> QED
  BY <1>1, <1>3, <1>4, <1>5 DEF Sound

\* An operand without expressions in it.
LEMMA ReadsSound ==
  ASSUME IInv, Sound, mode = "operand", Here \in 1..Len(text), ReadsOperand
  PROVE  Sound'
<1> DEFINE end == OperandEnd(text, Here)
<1>1. text \in Text /\ Len(text) \in Nat /\ Here \in Nat
  BY HereIs
<1>2. CASE end = 0
  <2>1. GoOn(Here, stack, "refused")
    BY <1>2 DEF ReadsOperand
  <2> QED
    BY <2>1, SoundStops
<1>3. CASE end # 0
  <2>1. GoOn(end, stack, "after")
    BY <1>3 DEF ReadsOperand
  <2>2. end \in (Here + 1)..(Len(text) + 1) /\ end \in 1..(Len(text) + 1)
    BY <1>1, <1>3, OperandEndBehind
  <2>3. IsE(text, Here, end)
    BY <1>1, <2>2, OperandIsE
  <2>4. PICK q \in Nat : Reaches(Opening(text), 1, stack, q) /\ From(text, q, Here)
    BY SoundHere
  <2>5. end \in Nat
    BY <2>2
  <2>6. IsE(text, q, end)
    BY Zenon, <2>3, <2>4, <2>5 DEF From
  <2> QED
    BY <2>1, <2>4, <2>6, SoundAfter
<1> QED
  BY <1>2, <1>3

\* A unary operator.
LEMMA UnarySound ==
  ASSUME IInv, Sound, Unary
  PROVE  Sound'
<1>1. mode = "operand" /\ At(UnaryOperators) /\ GoOn(Here + 1, Append(stack, "unary"), "operand")
  BY DEF Unary
<1>2. /\ text \in Text /\ Here \in 1..Len(text) /\ text[Here] \in UnaryOperators
      /\ stack \in Seq(Frames) /\ Here \in Nat
  BY <1>1, HereIs
<1>3. PICK q \in Nat : Reaches(Opening(text), 1, stack, q) /\ From(text, q, Here)
  BY <1>1, SoundHere
<1>4. "unary" \in Frames \ Waiting
  BY DEF Frames, Waiting
<1>5. <<"unary", q, q>> \in Opening(text)
  BY Zenon, <1>4, OpeningIs DEF Copying
<1>6. Reaches(Opening(text), 1, Append(stack, "unary"), q)
  BY <1>2, <1>3, <1>4, <1>5, ReachesAppended
<1>7. From(text, q, Here + 1)
  <2>1. \A j \in Nat : IsE(text, Here + 1, j) => IsE(text, Here, j)
    BY <1>2, PrefixIsE
  <2> QED
    BY Zenon, <1>3, <2>1 DEF From
<1> QED
  BY <1>1, <1>6, <1>7, SoundOperand

\* A new waiting call with a whole descent in it.
LEMMA SoundDescent ==
  ASSUME IInv, NEW calls \in Seq(Frames), NEW p \in Nat, Reaches(Opening(text), 1, calls, p),
         NEW x \in Frames, NEW q \in Nat, OpensAt(text, x, p, q),
         NEW position, From(text, q, position),
         GoOn(position, Append(calls, x) \o Expression, "operand")
  PROVE  Sound'
<1>1. <<x, p, q>> \in Opening(text)
  BY Zenon, OpeningIs
<1>2. Reaches(Opening(text), 1, Append(calls, x), q) /\ Append(calls, x) \in Seq(Frames)
  BY <1>1, ReachesAppended, AppendProperties
<1>3. Reaches(Opening(text), 1, Append(calls, x) \o Expression, q)
  BY Zenon, <1>2, DescentsAreFlat, OpeningIs, ReachesExtended
<1> QED
  BY <1>3, SoundOperand

\* An opening parenthesis.
LEMMA ParenthesisSound ==
  ASSUME IInv, Sound, Parenthesis
  PROVE  Sound'
<1>1. mode = "operand" /\ At({OpenParen}) /\ GoOn(Here + 1, Append(stack, "paren") \o Expression, "operand")
  BY DEF Parenthesis
<1>2. /\ text \in Text /\ Here \in 1..Len(text) /\ text[Here] = OpenParen /\ stack \in Seq(Frames)
      /\ Here + 1 \in Nat
  BY <1>1, HereIs
<1>3. PICK p \in Nat : Reaches(Opening(text), 1, stack, p) /\ From(text, p, Here)
  BY <1>1, SoundHere
<1>4. OpensAt(text, "paren", p, Here + 1)
  BY Zenon, <1>2, <1>3 DEF OpensAt, Waiting
<1>5. From(text, Here + 1, Here + 1) /\ "paren" \in Frames
  BY DEF From, Frames
<1> QED
  BY Zenon, <1>1, <1>2, <1>3, <1>4, <1>5, SoundDescent

\* The parenthesis behind a name.
OpenAfter(t, i) == SkipBlanks(t, RunEnd(t, i, NameChars))

\* It is behind the name, blanks between them are skipped.
LEMMA OpenAfterIs ==
  ASSUME NEW t \in Text, NEW i \in 1..Len(t)
  PROVE  /\ OpenAfter(t, i) \in i..(Len(t) + 1) /\ OpenAfter(t, i) \in Nat
         /\ t[i] \in NameStart => OpenAfter(t, i) \in (i + 1)..(Len(t) + 1)
<1>1. Len(t) \in Nat /\ i \in Nat \ {0} /\ i <= Len(t) + 1 /\ i <= Len(t)
  BY DEF Text
<1> DEFINE e == RunEnd(t, i, NameChars)
<1>2. e \in i..(Len(t) + 1) /\ (Has(t, i, NameChars) => e > i)
  BY <1>1, RunEndIs
<1>3. e \in 1..(Len(t) + 1) /\ (Has(t, i, NameChars) => e \in (i + 1)..(Len(t) + 1))
  BY <1>1, <1>2
<1>4. SkipBlanks(t, e) \in e..(Len(t) + 1) /\ SkipBlanks(t, e) \in Nat
  BY <1>3, SkipIs
<1>5. t[i] \in NameStart => Has(t, i, NameChars)
  BY <1>1 DEF NameChars, Has
<1>6. OpenAfter(t, i) = SkipBlanks(t, e)
  BY DEF OpenAfter
<1> HIDE DEF e
<1> QED
  BY <1>1, <1>2, <1>3, <1>4, <1>5, <1>6

\* What a call of a function reads.
LEMMA CallIs ==
  ASSUME IInv, Call
  PROVE  LET open == OpenAfter(text, Here)
             arguments == SkipBlanks(text, open + 1)
         IN /\ mode = "operand" /\ Here \in 1..Len(text) /\ text[Here] \in NameStart
            /\ open \in (Here + 1)..Len(text) /\ open \in Nat /\ open \in 1..Len(text) /\ text[open] = OpenParen
            /\ arguments \in (open + 1)..(Len(text) + 1) /\ arguments \in Nat
            /\ \/ arguments \in 1..Len(text) /\ text[arguments] = CloseParen /\ GoOn(arguments + 1, stack, "after")
               \/ /\ arguments \in 1..Len(text) => text[arguments] # CloseParen
                  /\ GoOn(arguments, Append(stack, "call") \o Expression, "operand")
<1> DEFINE open == OpenAfter(text, Here)
           arguments == SkipBlanks(text, open + 1)
<1>1. mode = "operand" /\ At(NameStart) /\ Calls
  BY DEF Call
<1>2. /\ text \in Text /\ Len(text) \in Nat /\ Here \in 1..Len(text) /\ text[Here] \in NameStart
      /\ Here \in Nat
  BY <1>1, HereIs
<1>3. open = SkipBlanks(text, NameEnd)
  BY DEF OpenAfter, NameEnd
<1>4. open <= Len(text) /\ text[open] \in {OpenParen}
  BY <1>1, <1>3 DEF Calls, Has
<1>5. IF Has(text, arguments, {CloseParen})
      THEN GoOn(arguments + 1, stack, "after")
      ELSE GoOn(arguments, Append(stack, "call") \o Expression, "operand")
  BY <1>3 DEF Call
<1>6. open \in (Here + 1)..(Len(text) + 1) /\ open \in Nat
  BY <1>2, OpenAfterIs
<1> HIDE DEF open
<1>7. open + 1 \in 1..(Len(text) + 1)
  BY <1>2, <1>4, <1>6
<1>8. arguments \in (open + 1)..(Len(text) + 1) /\ arguments \in Nat
  BY <1>2, <1>7, SkipIs
<1> HIDE DEF arguments
<1>9. arguments \in 1..(Len(text) + 1) /\ open \in (Here + 1)..Len(text) /\ open \in 1..Len(text)
  BY <1>2, <1>4, <1>6, <1>7, <1>8
<1>10. Has(text, arguments, {CloseParen}) <=> arguments \in 1..Len(text) /\ text[arguments] = CloseParen
  BY <1>2, <1>9 DEF Has
<1>11. \/ arguments \in 1..Len(text) /\ text[arguments] = CloseParen /\ GoOn(arguments + 1, stack, "after")
       \/ /\ arguments \in 1..Len(text) => text[arguments] # CloseParen
          /\ GoOn(arguments, Append(stack, "call") \o Expression, "operand")
  BY <1>5, <1>10
<1> QED
  BY <1>1, <1>2, <1>4, <1>6, <1>8, <1>9, <1>11 DEF arguments, open

\* The call of a function, without arguments or up to the first.
LEMMA CallSound ==
  ASSUME IInv, Sound, Call
  PROVE  Sound'
<1> DEFINE open == OpenAfter(text, Here)
           arguments == SkipBlanks(text, open + 1)
<1>1. /\ mode = "operand" /\ Here \in 1..Len(text) /\ text[Here] \in NameStart
      /\ open \in (Here + 1)..Len(text) /\ open \in Nat /\ open \in 1..Len(text) /\ text[open] = OpenParen
      /\ arguments \in (open + 1)..(Len(text) + 1) /\ arguments \in Nat
      /\ \/ arguments \in 1..Len(text) /\ text[arguments] = CloseParen /\ GoOn(arguments + 1, stack, "after")
         \/ GoOn(arguments, Append(stack, "call") \o Expression, "operand")
  BY CallIs
<1>2. text \in Text /\ Len(text) \in Nat /\ stack \in Seq(Frames) /\ Here \in Nat
  BY HereIs
<1>3. PICK p \in Nat : Reaches(Opening(text), 1, stack, p) /\ From(text, p, Here)
  BY <1>1, SoundHere
<1>4. ASSUME arguments \in 1..Len(text), text[arguments] = CloseParen, GoOn(arguments + 1, stack, "after")
      PROVE  Sound'
  <2> DEFINE j == arguments + 1
  <2>1. j \in 1..(Len(text) + 1) /\ j \in Nat /\ j - 1 = arguments /\ Here < j /\ open < j - 1
    BY <1>1, <1>2, <1>4
  <2> HIDE DEF j
  <2>2. text[j - 1] = CloseParen
    BY <1>4, <2>1
  <2>3. SkipBlanks(text, open + 1) = j - 1
    BY <2>1
  <2>4. Applies(text, ArgsIn(text), Here, j)
    BY Zenon, <1>1, <2>1, <2>2, <2>3 DEF Applies, OpenAfter
  <2>5. IsE(text, Here, j)
    BY <1>1, <1>2, <2>1, <2>4, CallIsE
  <2>6. IsE(text, p, j)
    BY Zenon, <1>3, <2>1, <2>5 DEF From
  <2>7. GoOn(j, stack, "after")
    BY <1>4 DEF j
  <2> QED
    BY <1>3, <2>6, <2>7, SoundAfter
<1>5. ASSUME GoOn(arguments, Append(stack, "call") \o Expression, "operand")
      PROVE  Sound'
  <2>1. OpensAt(text, "call", p, open + 1)
    BY Zenon, <1>1, <1>3 DEF OpensAt, OpenAfter, Waiting
  <2>2. open + 1 \in 1..(Len(text) + 1) /\ open + 1 \in Nat
    BY <1>1, <1>2
  <2>3. \A j \in Nat : IsE(text, arguments, j) => IsE(text, open + 1, j)
    BY <1>2, <2>2, BlanksBefore
  <2>4. From(text, open + 1, arguments)
    BY Zenon, <2>3 DEF From
  <2>5. "call" \in Frames
    BY DEF Frames
  <2> QED
    BY Zenon, <1>2, <1>3, <1>5, <2>1, <2>2, <2>4, <2>5, SoundDescent
<1> QED
  BY <1>1, <1>4, <1>5

------------------------------------------------------------------------------
\* Behind an operand, when call n of the stack goes on.
LEMMA SoundAround ==
  ASSUME IInv, Sound, mode = "after", NEW n \in 1..Len(stack), NEW x \in Frames, Resumes(n, x)
  PROVE  /\ Around(n) \in Seq(Frames)
         /\ \E p, q \in Nat : /\ Reaches(Opening(text), 1, Around(n), p) /\ OpensAt(text, x, p, q)
                              /\ IsE(text, q, Here)
<1>1. stack \in Seq(Frames) /\ Len(stack) \in Nat
  BY HereIs
<1>2. stack[n] = x /\ \A m \in (n + 1)..Len(stack) : stack[m] \notin Waiting
  BY ResumesAbove
<1>3. Around(n) = Inner(stack, n) /\ n \in 1..(Len(stack) + 1)
  BY <1>1, AroundIsInner
<1>4. PICK q \in Nat : Reaches(Opening(text), 1, stack, q) /\ IsE(text, q, Here)
  BY SoundHere
<1>5. PICK p \in Nat : Reaches(Opening(text), 1, Inner(stack, n), p) /\ <<x, p, q>> \in Opening(text)
  <2>1. Copying(Opening(text))
    BY OpeningIs
  <2> QED
    BY <1>1, <1>2, <1>4, <2>1, ReachesAround
<1>6. OpensAt(text, x, p, q)
  BY Zenon, <1>4, <1>5, OpeningIs
<1> QED
  BY <1>1, <1>3, <1>4, <1>5, <1>6, InnerIs

\* A binary operator.
LEMMA OperatorSound ==
  ASSUME IInv, Sound, NEW n \in 1..Len(stack), NEW k \in 1..Len(Levels), Operator(Levels[k], n)
  PROVE  Sound'
<1> DEFINE x == Levels[k]
<1>1. mode = "after" /\ Resumes(n, x)
  BY DEF Operator
<1>2. x \in Frames \ Waiting
  BY LevelsDiffer
<1>3. PICK m \in 1..Len(Operators[x]) :
        /\ FirstMatches(text, Here, x, m)
        /\ GoOn(Here + Len(Operators[x][m].spelling), Around(n) \o Operands(k), "operand")
  BY Zenon DEF Operator, Operands
<1> HIDE DEF x
<1>4. /\ Around(n) \in Seq(Frames)
      /\ \E p, q \in Nat : Reaches(Opening(text), 1, Around(n), p) /\ OpensAt(text, x, p, q) /\ IsE(text, q, Here)
  BY <1>1, <1>2, SoundAround
<1>5. PICK p \in Nat : Reaches(Opening(text), 1, Around(n), p) /\ IsE(text, p, Here)
  BY Zenon, <1>2, <1>4 DEF OpensAt
<1>6. Reaches(Opening(text), 1, Around(n) \o Operands(k), p)
  <2>1. Operands(k) \in Seq(Frames) /\ \A i \in 1..Len(Operands(k)) : Operands(k)[i] \notin Waiting
    BY Zenon, DescentsAreFlat
  <2> QED
    BY Zenon, <1>4, <1>5, <2>1, OpeningIs, ReachesExtended
<1> DEFINE l == Len(Operators[x][m].spelling)
<1>7. l \in 1..2 /\ IsBinary(text, Here, Here + l) /\ text \in Text /\ Here \in Nat
  <2>1. OpMatches(text, Here, Operators[x][m])
    BY <1>3 DEF FirstMatches
  <2>2. text \in Text /\ Here \in 1..(Len(text) + 1) /\ Here \in Nat
    BY HereIs
  <2> QED
    BY <2>1, <2>2, OperatorIsBinary DEF x
<1>8. GoOn(Here + l, Around(n) \o Operands(k), "operand")
  BY <1>3
<1> HIDE DEF l
<1>9. \A j \in Nat : IsE(text, Here + l, j) => IsE(text, p, j)
  BY <1>5, <1>7, BinaryIsE
<1>10. From(text, p, Here + l)
  BY Zenon, <1>9 DEF From
<1> QED
  BY <1>5, <1>6, <1>8, <1>10, SoundOperand

\* A question mark.
LEMMA ConditionSound ==
  ASSUME IInv, Sound, NEW n \in 1..Len(stack), Condition(n)
  PROVE  Sound'
<1>1. /\ mode = "after" /\ Resumes(n, "ternary")
      /\ GoOn(Here + 1, Append(Around(n), "then") \o Expression, "operand")
  BY DEF Condition
<1>2. At({Question})
  BY <1>1 DEF Resumes, GoesOn
<1>3. "ternary" \in Frames /\ "ternary" \notin Waiting /\ "then" \in Frames
  BY DEF Frames, Waiting
<1>4. /\ Around(n) \in Seq(Frames)
      /\ \E p, q \in Nat : Reaches(Opening(text), 1, Around(n), p) /\ OpensAt(text, "ternary", p, q) /\ IsE(text, q, Here)
  BY Zenon, <1>1, <1>3, SoundAround
<1>5. PICK p \in Nat : Reaches(Opening(text), 1, Around(n), p) /\ IsE(text, p, Here)
  BY Zenon, <1>3, <1>4 DEF OpensAt
<1>6. Here \in 1..Len(text) /\ text[Here] = Question /\ Here + 1 \in Nat
  BY <1>2, HereIs
<1>7. OpensAt(text, "then", p, Here + 1)
  BY Zenon, <1>5, <1>6 DEF OpensAt, Waiting
<1>8. From(text, Here + 1, Here + 1)
  BY DEF From
<1> QED
  BY Zenon, <1>1, <1>3, <1>4, <1>5, <1>6, <1>7, <1>8, SoundDescent

\* The colon of a condition.
LEMMA OtherwiseSound ==
  ASSUME IInv, Sound, NEW n \in 1..Len(stack), Otherwise(n)
  PROVE  Sound'
<1>1. /\ mode = "after" /\ At({Colon}) /\ Resumes(n, "then")
      /\ GoOn(Here + 1, Append(Around(n), "else") \o Expression, "operand")
  BY DEF Otherwise
<1>2. "then" \in Frames /\ "else" \in Frames \ Waiting /\ "else" \in Frames
  BY DEF Frames, Waiting
<1>3. /\ Around(n) \in Seq(Frames)
      /\ \E p, q \in Nat : Reaches(Opening(text), 1, Around(n), p) /\ OpensAt(text, "then", p, q) /\ IsE(text, q, Here)
  BY Zenon, <1>1, <1>2, SoundAround
<1>4. PICK p \in Nat, q \in Nat :
         Reaches(Opening(text), 1, Around(n), p) /\ OpensAt(text, "then", p, q) /\ IsE(text, q, Here)
  BY Zenon, <1>3
<1>5. PICK k \in 1..Len(text) : q = k + 1 /\ text[k] = Question /\ IsE(text, p, k)
  BY Zenon, <1>4 DEF OpensAt
<1>6. /\ Here \in 1..Len(text) /\ text[Here] = Colon /\ text \in Text /\ Here \in Nat
      /\ Here + 1 \in Nat /\ k \in Nat
  BY <1>1, <1>5, HereIs
<1>7. \A j \in Nat : IsE(text, Here + 1, j) => IsE(text, p, j)
  BY <1>4, <1>5, <1>6, ConditionIsE
<1>8. From(text, p, Here + 1)
  BY Zenon, <1>7 DEF From
<1>9. OpensAt(text, "else", p, p)
  BY Zenon, <1>2 DEF OpensAt, Waiting
<1> QED
  BY Zenon, <1>1, <1>2, <1>3, <1>4, <1>8, <1>9, SoundDescent

\* The end of a parenthesis or of a call.
LEMMA CloseParenthesisSound ==
  ASSUME IInv, Sound, NEW n \in 1..Len(stack), CloseParenthesis(n)
  PROVE  Sound'
<1>1. /\ mode = "after" /\ At({CloseParen}) /\ (Resumes(n, "paren") \/ Resumes(n, "call"))
      /\ GoOn(Here + 1, Around(n), "after")
  BY DEF CloseParenthesis
<1>2. "paren" \in Frames /\ "call" \in Frames
  BY DEF Frames
<1>3. /\ Here \in 1..Len(text) /\ text[Here] = CloseParen /\ text \in Text /\ Len(text) \in Nat
      /\ Here \in Nat /\ Here + 1 \in Nat /\ Here + 1 \in 1..(Len(text) + 1)
  BY <1>1, HereIs
<1>4. CASE Resumes(n, "paren")
  <2>1. PICK p \in Nat, q \in Nat :
           Reaches(Opening(text), 1, Around(n), p) /\ OpensAt(text, "paren", p, q) /\ IsE(text, q, Here)
    BY Zenon, <1>1, <1>2, <1>4, SoundAround
  <2>2. PICK k \in 1..Len(text) : q = k + 1 /\ text[k] = OpenParen /\ From(text, p, k)
    BY Zenon, <2>1 DEF OpensAt
  <2>3. IsE(text, k, Here + 1)
    BY <1>3, <2>1, <2>2, ParenIsE
  <2>4. IsE(text, p, Here + 1)
    BY Zenon, <1>3, <2>2, <2>3 DEF From
  <2> QED
    BY <1>1, <2>1, <2>4, SoundAfter
<1>5. CASE Resumes(n, "call")
  <2>1. PICK p \in Nat, q \in Nat :
           Reaches(Opening(text), 1, Around(n), p) /\ OpensAt(text, "call", p, q) /\ IsE(text, q, Here)
    BY Zenon, <1>1, <1>2, <1>5, SoundAround
  <2>2. PICK i \in 1..Len(text) :
          /\ text[i] \in NameStart /\ From(text, p, i) /\ text[OpenAfter(text, i)] = OpenParen
          /\ OpenAfter(text, i) \in 1..Len(text)
          /\ \A j \in Nat : IsA(text, q, j) => IsA(text, OpenAfter(text, i) + 1, j)
    BY Zenon, <2>1 DEF OpensAt, OpenAfter
  <2> DEFINE open == OpenAfter(text, i)
  <2>3. IsA(text, q, Here)
    BY <1>3, <2>1, ArgumentsAre
  <2>4. IsA(text, open + 1, Here)
    BY <1>3, <2>2, <2>3
  <2>5. open \in i..(Len(text) + 1) /\ open \in Nat
    BY <1>3, OpenAfterIs
  <2>6. open + 1 < Here
    BY <1>3, <2>4, <2>5, InRange
  <2> DEFINE j == Here + 1
  <2>7. j \in 1..(Len(text) + 1) /\ j \in Nat /\ j - 1 = Here /\ i < j /\ open < j - 1
    BY <1>3, <2>5, <2>6
  <2> HIDE DEF j
  <2>8. open + 1 \in Nat /\ IsA(text, open + 1, j - 1) /\ text[j - 1] = CloseParen
    BY <1>3, <2>4, <2>5, <2>7
  <2>9. Applies(text, ArgsIn(text), i, j)
    BY Zenon, <2>2, <2>7, <2>8 DEF Applies, OpenAfter, IsA, Span
  <2>10. IsE(text, i, j)
    BY <1>3, <2>7, <2>9, CallIsE
  <2>11. IsE(text, p, j)
    BY Zenon, <2>2, <2>7, <2>10 DEF From
  <2> QED
    BY <1>1, <2>1, <2>11, SoundAfter DEF j
<1> QED
  BY <1>1, <1>4, <1>5

\* The comma before one more argument.
LEMMA ArgumentSound ==
  ASSUME IInv, Sound, NEW n \in 1..Len(stack), Argument(n)
  PROVE  Sound'
<1>1. /\ mode = "after" /\ At({Comma}) /\ Resumes(n, "call")
      /\ GoOn(Here + 1, Append(Around(n), "call") \o Expression, "operand")
  BY DEF Argument
<1>2. "call" \in Frames
  BY DEF Frames
<1>3. /\ Here \in 1..Len(text) /\ text[Here] = Comma /\ text \in Text /\ Len(text) \in Nat
      /\ Here \in Nat /\ Here + 1 \in Nat
  BY <1>1, HereIs
<1>4. PICK p \in Nat, q \in Nat :
         Reaches(Opening(text), 1, Around(n), p) /\ OpensAt(text, "call", p, q) /\ IsE(text, q, Here)
  BY Zenon, <1>1, <1>2, SoundAround
<1>5. PICK i \in 1..Len(text) :
        /\ text[i] \in NameStart /\ From(text, p, i) /\ text[OpenAfter(text, i)] = OpenParen
        /\ OpenAfter(text, i) \in 1..Len(text)
        /\ \A j \in Nat : IsA(text, q, j) => IsA(text, OpenAfter(text, i) + 1, j)
  BY Zenon, <1>4 DEF OpensAt, OpenAfter
<1>6. \A j \in Nat : IsA(text, Here + 1, j) => IsA(text, OpenAfter(text, i) + 1, j)
  <2> SUFFICES ASSUME NEW j \in Nat, IsA(text, Here + 1, j) PROVE IsA(text, OpenAfter(text, i) + 1, j)
    OBVIOUS
  <2>1. IsA(text, q, j)
    BY <1>3, <1>4, ArgumentsAre
  <2> QED
    BY <1>5, <2>1
<1>7. OpensAt(text, "call", p, Here + 1)
  BY Zenon, <1>5, <1>6 DEF OpensAt, OpenAfter, Waiting
<1>8. From(text, Here + 1, Here + 1) /\ Around(n) \in Seq(Frames)
  BY <1>1, <1>2, SoundAround DEF From
<1> QED
  BY Zenon, <1>1, <1>2, <1>3, <1>4, <1>7, <1>8, SoundDescent

\* The end of the text.
LEMMA EndsSound ==
  ASSUME IInv, Sound, Ends
  PROVE  Sound'
<1>1. /\ mode = "after" /\ \A n \in 1..Len(stack) : ~GoesOn(stack[n])
      /\ GoOn(Here, <<>>, IF Here > Len(text) THEN "accepted" ELSE "refused")
  BY DEF Ends
<1>2. Here \in 1..(Len(text) + 1) /\ Len(text) \in Nat /\ stack \in Seq(Frames)
  BY HereIs
<1>3. CASE Here > Len(text)
  <2>1. text' = text /\ mode' = "accepted"
    BY <1>1, <1>3 DEF GoOn
  <2>2. PICK q \in Nat : Reaches(Opening(text), 1, stack, q) /\ IsE(text, q, Here)
    BY <1>1, SoundHere
  <2>3. \A n \in 1..Len(stack) : stack[n] \notin Waiting
    BY <1>1, WaitingGoOn
  <2>4. q = 1
    BY Zenon, <1>2, <2>2, <2>3, OpeningIs, ReachesOutermost
  <2>5. Here = Len(text) + 1
    BY <1>2, <1>3
  <2>6. IsE(text, 1, Len(text) + 1)
    BY <2>2, <2>4, <2>5
  <2> QED
    BY <2>1, <2>6 DEF Sound
<1>4. CASE ~(Here > Len(text))
  <2>1. GoOn(Here, <<>>, "refused")
    BY <1>1, <1>4
  <2> QED
    BY <2>1, SoundStops
<1> QED
  BY <1>3, <1>4

\* Every step keeps it.
LEMMA StepSound == IInv /\ Sound /\ [Next]_vars => Sound'
<1> SUFFICES ASSUME IInv, Sound, [Next]_vars PROVE Sound'
  OBVIOUS
<1>1. CASE Variable \/ Braced \/ Number \/ Bracket \/ Quoted \/ Constant
  <2>1. mode = "operand" /\ Here \in 1..Len(text) /\ (ReadsOperand \/ GoOn(Here, stack, "nested"))
    BY <1>1, OperandIsRead
  <2> QED
    BY <2>1, ReadsSound, SoundStops
<1>2. CASE NoOperand
  BY <1>2, SoundStops DEF NoOperand, Literal
<1>3. ASSUME NEW n \in 1..Len(stack), Expected(n) PROVE Sound'
  BY <1>3, SoundStops DEF Expected
<1>4. CASE UNCHANGED vars
  BY <1>4 DEF vars, Sound
<1>5. Done => UNCHANGED vars
  BY DEF Done
<1> QED
  BY Zenon, <1>1, <1>2, <1>3, <1>4, <1>5, UnarySound, ParenthesisSound, CallSound, OperatorSound, ConditionSound,
     OtherwiseSound, CloseParenthesisSound, ArgumentSound, EndsSound DEF Next

\* The call y may be made by x, or x may take the place of a call that made it.
MadeBy(x, y) ==
  \/ \E q \in 1..11 : x = Expression[q] /\ y = Expression[q + 1]
  \/ x = "multiplicative" /\ y = "power_rest"
  \/ x = "power_rest" /\ y \in {"power", "power_rest"}
  \/ x \in {"power", "unary"} /\ y \in {"unary", "paren", "call"}
  \/ x \in {"paren", "call", "then", "else"} /\ y \in {"ternary", "then", "else"}

\* The innermost call; with none it is as if one without an end was in progress.
Innermost(s) == IF Len(s) = 0 THEN "else" ELSE s[Len(s)]

Linked(s) ==
  /\ s \in Seq(Frames)
  /\ \A n \in 1..Len(s) : MadeBy(IF n = 1 THEN "else" ELSE s[n - 1], s[n])

\* The calls in progress are a path through the levels, down to an operand.
Chained == mode \in {"operand", "after"} => Linked(stack) /\ Innermost(stack) \in {"power", "unary"}

\* The calls around one of them are linked.
LEMMA LinkedInner ==
  ASSUME NEW s, Linked(s), NEW n \in 1..Len(s)
  PROVE  Linked(Inner(s, n)) /\ MadeBy(Innermost(Inner(s, n)), s[n])
<1>1. s \in Seq(Frames) /\ Len(s) \in Nat
  BY DEF Linked
<1>2. \A m \in 1..Len(s) : MadeBy(IF m = 1 THEN "else" ELSE s[m - 1], s[m])
  BY Zenon DEF Linked
<1> DEFINE u == Inner(s, n)
<1>3. u \in Seq(Frames) /\ Len(u) = n - 1 /\ \A m \in 1..(n - 1) : u[m] = s[m]
  BY <1>1, InnerIs
<1> HIDE DEF u
<1>4. ASSUME NEW m \in 1..Len(u) PROVE MadeBy(IF m = 1 THEN "else" ELSE u[m - 1], u[m])
  <2>1. m \in 1..(n - 1) /\ m \in 1..Len(s) /\ (m # 1 => m - 1 \in 1..(n - 1))
    BY <1>1, <1>3
  <2>2. u[m] = s[m] /\ (m # 1 => u[m - 1] = s[m - 1])
    BY <1>3, <2>1
  <2> QED
    BY Zenon, <1>2, <2>1, <2>2
<1>5. MadeBy(Innermost(u), s[n])
  <2>1. CASE n = 1
    <3>1. Innermost(u) = "else"
      BY <1>3, <2>1 DEF Innermost
    <3> QED
      BY Zenon, <1>2, <2>1, <3>1
  <2>2. CASE n # 1
    <3>1. Innermost(u) = s[n - 1]
      BY <1>3, <2>2 DEF Innermost
    <3> QED
      BY Zenon, <1>2, <2>2, <3>1
  <2> QED
    BY <2>1, <2>2
<1> QED
  BY Zenon, <1>3, <1>4, <1>5 DEF Linked, u

\* Linked calls that the innermost one makes.
LEMMA LinkedExtended ==
  ASSUME NEW s, Linked(s), NEW u \in Seq(Frames), Len(u) # 0, MadeBy(Innermost(s), u[1]),
         \A n \in 2..Len(u) : MadeBy(u[n - 1], u[n])
  PROVE  Linked(s \o u) /\ Innermost(s \o u) = u[Len(u)]
<1> DEFINE w == s \o u
           k == Len(s)
           l == Len(u)
<1>1. s \in Seq(Frames) /\ k \in Nat /\ l \in Nat \ {0}
  BY DEF Linked
<1>2. \A m \in 1..k : MadeBy(IF m = 1 THEN "else" ELSE s[m - 1], s[m])
  BY Zenon DEF Linked
<1>3. /\ w \in Seq(Frames) /\ Len(w) = k + l
      /\ \A n \in 1..(k + l) : w[n] = IF n <= k THEN s[n] ELSE u[n - k]
  BY Zenon, <1>1, ConcatProperties
<1>4. Innermost(s) = IF k = 0 THEN "else" ELSE s[k]
  BY DEF Innermost
<1> HIDE DEF w, k, l
<1>5. ASSUME NEW n \in 1..(k + l) PROVE MadeBy(IF n = 1 THEN "else" ELSE w[n - 1], w[n])
  <2>1. CASE n <= k
    <3>1. n \in 1..k /\ (n # 1 => n - 1 \in 1..(k + l) /\ n - 1 <= k)
      BY <1>1, <2>1
    <3>2. w[n] = s[n] /\ (n # 1 => w[n - 1] = s[n - 1])
      BY <1>3, <2>1, <3>1
    <3> QED
      BY Zenon, <1>2, <3>1, <3>2
  <2>2. CASE n = k + 1
    <3>1. ~(n <= k) /\ n - k = 1 /\ (n = 1 <=> k = 0) /\ n - 1 = k /\ (k # 0 => k \in 1..(k + l) /\ k <= k)
      BY <1>1, <2>2
    <3>2. w[n] = u[1] /\ (k # 0 => w[k] = s[k])
      BY <1>3, <3>1
    <3> QED
      BY Zenon, <1>4, <3>1, <3>2
  <2>3. CASE n > k + 1
    <3>1. /\ n - k \in 2..l /\ n # 1 /\ n - 1 \in 1..(k + l) /\ ~(n <= k) /\ ~(n - 1 <= k)
          /\ (n - 1) - k = (n - k) - 1
      BY <1>1, <2>3
    <3>2. w[n] = u[n - k] /\ w[n - 1] = u[(n - k) - 1]
      BY <1>3, <3>1
    <3>3. MadeBy(u[(n - k) - 1], u[n - k])
      BY <3>1 DEF l
    <3> QED
      BY Zenon, <3>1, <3>2, <3>3
  <2> QED
    BY <1>1, <2>1, <2>2, <2>3
<1>6. Linked(w)
  BY Zenon, <1>3, <1>5 DEF Linked
<1>7. Innermost(w) = u[l]
  <2>1. k + l \in 1..(k + l) /\ ~(k + l <= k) /\ (k + l) - k = l /\ k + l # 0
    BY <1>1
  <2>2. w[k + l] = u[l]
    BY <1>3, <2>1
  <2> QED
    BY Zenon, <1>3, <2>1, <2>2 DEF Innermost
<1> QED
  BY <1>6, <1>7 DEF w, l

\* One more call.
LEMMA LinkedAppended ==
  ASSUME NEW s, Linked(s), NEW x \in Frames, MadeBy(Innermost(s), x)
  PROVE  Linked(Append(s, x)) /\ Innermost(Append(s, x)) = x
<1> DEFINE u == <<x>>
<1>1. u \in Seq(Frames) /\ Len(u) = 1 /\ u[1] = x
  OBVIOUS
<1>2. s \in Seq(Frames)
  BY DEF Linked
<1>3. Append(s, x) = s \o u
  BY <1>2
<1> HIDE DEF u
<1>4. \A n \in 2..1 : FALSE
  OBVIOUS
<1>5. \A n \in 2..Len(u) : MadeBy(u[n - 1], u[n])
  BY <1>1, <1>4
<1>6. Linked(s \o u) /\ Innermost(s \o u) = u[Len(u)]
  BY <1>1, <1>5, LinkedExtended
<1> QED
  BY <1>1, <1>3, <1>6

\* The descent through all levels is linked.
LEMMA DescentIsLinked ==
  /\ \A n \in 2..Len(Expression) : MadeBy(Expression[n - 1], Expression[n])
  /\ Expression[Len(Expression)] = "power"
<1>1. Len(Expression) = 12 /\ \A n \in 2..12 : Expression[n] = Levels[n - 1]
  BY DescentsAreFlat
<1>2. \A n \in 2..12 : n - 1 \in 1..11 /\ n = (n - 1) + 1
  OBVIOUS
<1>3. \A n \in 2..12 : MadeBy(Expression[n - 1], Expression[n])
  BY Zenon, <1>2 DEF MadeBy
<1>4. Expression[12] = Levels[11]
  BY <1>1
<1> QED
  BY <1>1, <1>3, <1>4, OperatorTable

\* So are the calls that a level makes behind its operator.
LEMMA OperandsAreLinked ==
  ASSUME NEW k \in 1..Len(Levels), NEW x, MadeBy(x, Levels[k])
  PROVE  /\ Len(Operands(k)) # 0 /\ MadeBy(x, Operands(k)[1])
         /\ \A n \in 2..Len(Operands(k)) : MadeBy(Operands(k)[n - 1], Operands(k)[n])
         /\ Operands(k)[Len(Operands(k))] = "power"
<1>1. k \in 1..11 /\ (Levels[k] = "power" <=> k = 11)
  BY LevelsDiffer
<1>2. \A n \in 1..11 : Expression[n + 1] = Levels[n]
  <2> TAKE n \in 1..11
  <2>1. n + 1 \in 2..12 /\ (n + 1) - 1 = n
    OBVIOUS
  <2> QED
    BY Zenon, <2>1, DescentsAreFlat
<1>3. Levels[11] = "power"
  BY OperatorTable
<1>4. CASE k = 11
  <2> DEFINE u == <<"power_rest", "power">>
  <2>1. Operands(k) = u
    BY <1>1, <1>4 DEF Operands
  <2>2. Len(u) = 2 /\ u[1] = "power_rest" /\ u[2] = "power"
    OBVIOUS
  <2> HIDE DEF u
  <2>3. MadeBy(x, "power_rest")
    <3>1. MadeBy(x, "power")
      BY <1>3, <1>4
    <3>2. ASSUME NEW q \in 1..11, x = Expression[q], "power" = Expression[q + 1]
          PROVE  x = "multiplicative"
      <4>1. Levels[q] = "power"
        BY <1>2, <3>2
      <4>2. q = 11
        BY <4>1, LevelsDiffer, LevelsAreFrames
      <4>3. 10 \in 1..11 /\ 10 + 1 = 11
        OBVIOUS
      <4>4. Expression[11] = Levels[10]
        BY <1>2, <4>3
      <4> QED
        BY <3>2, <4>2, <4>4, OperatorTable
    <3> QED
      BY Zenon, <3>1, <3>2 DEF MadeBy
  <2>4. MadeBy("power_rest", "power")
    BY DEF MadeBy
  <2>5. \A n \in 2..2 : n = 2 /\ n - 1 = 1
    OBVIOUS
  <2> QED
    BY <2>1, <2>2, <2>3, <2>4, <2>5
<1>5. CASE k # 11
  <2> DEFINE a == <<Levels[k]>>
             b == Below(Levels[k])
             u == a \o b
  <2>1. a \in Seq(Frames) /\ Len(a) = 1 /\ a[1] = Levels[k]
    BY LevelsDiffer
  <2>2. b \in Seq(Frames) /\ Len(b) = 11 - k /\ \A i \in 1..(11 - k) : b[i] = Levels[k + i]
    BY BelowIs
  <2>3. Operands(k) = u
    BY <1>1, <1>5 DEF Operands
  <2> HIDE DEF a, b
  <2>4. Len(u) = Len(a) + Len(b) /\ \A n \in 1..(Len(a) + Len(b)) : u[n] = IF n <= Len(a) THEN a[n] ELSE b[n - Len(a)]
    BY Zenon, <2>1, <2>2, ConcatProperties
  <2> HIDE DEF u
  <2>5. Len(u) = 12 - k /\ \A n \in 1..(12 - k) : u[n] = IF n <= 1 THEN a[n] ELSE b[n - 1]
    <3>1. Len(a) + Len(b) = 12 - k
      BY <1>1, <2>1, <2>2
    <3> QED
      BY Zenon, <2>1, <2>4, <3>1
  <2>6. \A n \in 1..(12 - k) : u[n] = Levels[(k + n) - 1]
    <3> TAKE n \in 1..(12 - k)
    <3>1. CASE n = 1
      <4>1. n <= 1 /\ (k + n) - 1 = k
        BY <1>1, <3>1
      <4> QED
        BY Zenon, <2>1, <2>5, <3>1, <4>1
    <3>2. CASE n # 1
      <4>1. ~(n <= 1) /\ n - 1 \in 1..(11 - k) /\ k + (n - 1) = (k + n) - 1
        BY <1>1, <3>2
      <4> QED
        BY Zenon, <2>2, <2>5, <4>1
    <3> QED
      BY <3>1, <3>2
  <2>7. 1 \in 1..(12 - k) /\ (k + 1) - 1 = k /\ 12 - k \in 1..(12 - k) /\ (k + (12 - k)) - 1 = 11 /\ 12 - k # 0
    BY <1>1
  <2>8. u[1] = Levels[k] /\ u[12 - k] = "power"
    BY <1>3, <2>6, <2>7
  <2>9. ASSUME NEW n \in 2..(12 - k) PROVE MadeBy(u[n - 1], u[n])
    <3> DEFINE m == (k + n) - 1
    <3>1. /\ n - 1 \in 1..(12 - k) /\ n \in 1..(12 - k) /\ (k + (n - 1)) - 1 = m - 1
          /\ m - 1 \in 1..11 /\ m \in 1..11
          /\ (m - 1) + 1 = m
      BY <1>1
    <3>2. u[n - 1] = Levels[m - 1] /\ u[n] = Levels[m]
      BY <2>6, <3>1
    <3> HIDE DEF m
    <3>3. Expression[m] = Levels[m - 1] /\ Expression[m + 1] = Levels[m]
      BY <1>2, <3>1
    <3> QED
      BY Zenon, <3>1, <3>2, <3>3 DEF MadeBy
  <2> QED
    BY <2>3, <2>5, <2>7, <2>8, <2>9
<1> QED
  BY <1>4, <1>5

\* Who makes which call: what the step lemmas use of MadeBy.
LEMMA MakersAre ==
  /\ \A x \in {"power", "unary"}, y \in {"unary", "paren", "call"} : MadeBy(x, y)
  /\ \A x \in {"paren", "call", "then", "else"}, y \in {"ternary", "then", "else"} : MadeBy(x, y)
  /\ \A x, y : MadeBy(x, y) /\ y \in {"paren", "call"} => x \in {"power", "unary"}
  /\ \A x, y : MadeBy(x, y) /\ y \in {"ternary", "then", "else"} => x \in {"paren", "call", "then", "else"}
<1>1. \A x \in {"power", "unary"}, y \in {"unary", "paren", "call"} : MadeBy(x, y)
  BY Zenon DEF MadeBy
<1>2. \A x \in {"paren", "call", "then", "else"}, y \in {"ternary", "then", "else"} : MadeBy(x, y)
  BY Zenon DEF MadeBy
<1>3. ASSUME NEW q \in 1..11
      PROVE  Expression[q + 1] \notin {"paren", "call", "then", "else", "ternary", "unary", "power_rest"}
  <2>1. q + 1 \in 2..12 /\ (q + 1) - 1 = q
    OBVIOUS
  <2>2. Expression[q + 1] = Levels[q]
    BY Zenon, <2>1, DescentsAreFlat
  <2>3. Levels[q] \notin Waiting /\ Levels[q] \notin {"ternary", "else", "unary", "power_rest"}
    BY LevelsDiffer, LevelsAreFrames
  <2> QED
    BY <2>2, <2>3 DEF Waiting
<1>4. ASSUME NEW x, NEW y, MadeBy(x, y), y \in {"paren", "call"} PROVE x \in {"power", "unary"}
  <2>1. ~ \E q \in 1..11 : x = Expression[q] /\ y = Expression[q + 1]
    BY Zenon, <1>3, <1>4
  <2>2. y \notin {"power_rest", "power", "ternary", "then", "else"}
    BY <1>4
  <2> QED
    BY Zenon, <1>4, <2>1, <2>2 DEF MadeBy
<1>5. ASSUME NEW x, NEW y, MadeBy(x, y), y \in {"ternary", "then", "else"}
      PROVE  x \in {"paren", "call", "then", "else"}
  <2>1. ~ \E q \in 1..11 : x = Expression[q] /\ y = Expression[q + 1]
    BY Zenon, <1>3, <1>5
  <2>2. y \notin {"power_rest", "power", "unary", "paren", "call"}
    BY <1>5
  <2> QED
    BY Zenon, <1>5, <2>1, <2>2 DEF MadeBy
<1> QED
  BY Zenon, <1>1, <1>2, <1>4, <1>5

\* A whole descent in linked calls.
LEMMA ChainedDescent ==
  ASSUME NEW s, Linked(s), MadeBy(Innermost(s), "ternary")
  PROVE  Linked(s \o Expression) /\ Innermost(s \o Expression) = "power"
<1>1. Expression \in Seq(Frames) /\ Len(Expression) = 12 /\ Expression[1] = "ternary"
  BY DescentsAreFlat
<1>2. Len(Expression) # 0
  BY <1>1
<1>3. MadeBy(Innermost(s), Expression[1])
  BY <1>1
<1> QED
  BY Zenon, <1>1, <1>2, <1>3, DescentIsLinked, LinkedExtended

\* A waiting call with a descent in it.
LEMMA ChainedWaits ==
  ASSUME NEW s, Linked(s), NEW x \in {"paren", "call", "then", "else"}, MadeBy(Innermost(s), x)
  PROVE  Linked(Append(s, x) \o Expression) /\ Innermost(Append(s, x) \o Expression) = "power"
<1>1. x \in Frames
  BY DEF Frames
<1>2. Linked(Append(s, x)) /\ Innermost(Append(s, x)) = x
  BY <1>1, LinkedAppended
<1>3. MadeBy(Innermost(Append(s, x)), "ternary")
  BY <1>2, MakersAre
<1> QED
  BY <1>2, <1>3, ChainedDescent

\* A step to linked calls.
LEMMA ChainedBy ==
  ASSUME NEW position, NEW calls, NEW newMode, GoOn(position, calls, newMode),
         Linked(calls) /\ Innermost(calls) \in {"power", "unary"}
  PROVE  Chained'
<1>1. stack' = calls
  BY DEF GoOn
<1>2. (Linked(stack) /\ Innermost(stack) \in {"power", "unary"})'
  BY <1>1 DEF Linked, Innermost
<1> QED
  BY <1>2 DEF Chained

\* Nothing is asked of the calls when the expression is decided.
LEMMA ChainedStops ==
  ASSUME NEW position, NEW calls, NEW stop \in {"refused", "nested", "accepted"}, GoOn(position, calls, stop)
  PROVE  Chained'
BY DEF Chained, GoOn

\* At the start the calls are one descent.
LEMMA InitChained == Init => Chained
<1> SUFFICES ASSUME Init PROVE Chained
  OBVIOUS
<1>1. stack = Expression
  BY DEF Init
<1> DEFINE s == <<>>
<1>2. s \in Seq(Frames) /\ Len(s) = 0
  OBVIOUS
<1>3. s \o Expression = Expression
  BY DescentsAreFlat, ConcatEmptySeq
<1> HIDE DEF s
<1>4. \A n \in 1..0 : FALSE
  OBVIOUS
<1>5. Linked(s) /\ Innermost(s) = "else"
  BY <1>2, <1>4 DEF Linked, Innermost
<1>6. MadeBy(Innermost(s), "ternary")
  BY <1>5, MakersAre
<1> QED
  BY <1>1, <1>3, <1>5, <1>6, ChainedDescent DEF Chained

\* Every step keeps the calls linked.
LEMMA StepChained == IInv /\ Chained /\ [Next]_vars => Chained'
<1> SUFFICES ASSUME IInv, Chained, [Next]_vars PROVE Chained'
  OBVIOUS
<1>1. mode \in {"operand", "after"} => Linked(stack) /\ Innermost(stack) \in {"power", "unary"}
  BY DEF Chained
<1>2. ASSUME NEW position, NEW newMode, mode \in {"operand", "after"}, GoOn(position, stack, newMode) PROVE Chained'
  BY <1>1, <1>2, ChainedBy
<1>3. CASE Variable \/ Braced \/ Number \/ Bracket \/ Quoted \/ Constant
  <2>1. mode = "operand" /\ (ReadsOperand \/ GoOn(Here, stack, "nested"))
    BY <1>3, OperandIsRead
  <2> QED
    BY <1>2, <2>1 DEF ReadsOperand
<1>4. CASE NoOperand
  BY <1>2, <1>4 DEF NoOperand, Literal
<1>5. CASE Unary
  <2>1. mode = "operand" /\ GoOn(Here + 1, Append(stack, "unary"), "operand")
    BY <1>5 DEF Unary
  <2>2. Linked(Append(stack, "unary")) /\ Innermost(Append(stack, "unary")) = "unary"
    <3>1. "unary" \in Frames /\ MadeBy(Innermost(stack), "unary")
      BY <1>1, <2>1, MakersAre DEF Frames
    <3> QED
      BY <1>1, <2>1, <3>1, LinkedAppended
  <2> QED
    BY <2>1, <2>2, ChainedBy
<1>6. ASSUME NEW position, NEW x \in {"paren", "call"}, mode = "operand",
             GoOn(position, Append(stack, x) \o Expression, "operand")
      PROVE  Chained'
  <2>1. MadeBy(Innermost(stack), x)
    BY <1>1, <1>6, MakersAre
  <2>2. Linked(Append(stack, x) \o Expression) /\ Innermost(Append(stack, x) \o Expression) = "power"
    BY <1>1, <1>6, <2>1, ChainedWaits
  <2> QED
    BY <1>6, <2>2, ChainedBy
<1>7. CASE Parenthesis
  BY <1>6, <1>7 DEF Parenthesis
<1>8. CASE Call
  <2>1. /\ mode = "operand"
        /\ \E position : GoOn(position, stack, "after") \/ GoOn(position, Append(stack, "call") \o Expression, "operand")
    BY Zenon, <1>8, CallIs
  <2> QED
    BY <1>2, <1>6, <2>1
<1>9. ASSUME NEW n \in 1..Len(stack), mode = "after"
      PROVE  Linked(Around(n)) /\ MadeBy(Innermost(Around(n)), stack[n])
  BY <1>1, <1>9, LinkedInner, AroundIsInner
<1>10. ASSUME NEW n \in 1..Len(stack), NEW k \in 1..Len(Levels), Operator(Levels[k], n) PROVE Chained'
  <2>1. mode = "after" /\ stack[n] = Levels[k]
    BY <1>10 DEF Operator, Resumes
  <2>2. \E position : GoOn(position, Around(n) \o Operands(k), "operand")
    BY Zenon, <1>10 DEF Operator, Operands
  <2>3. Linked(Around(n)) /\ MadeBy(Innermost(Around(n)), Levels[k])
    BY <1>9, <2>1
  <2>4. /\ Len(Operands(k)) # 0 /\ MadeBy(Innermost(Around(n)), Operands(k)[1])
        /\ \A i \in 2..Len(Operands(k)) : MadeBy(Operands(k)[i - 1], Operands(k)[i])
        /\ Operands(k)[Len(Operands(k))] = "power"
    BY <2>3, OperandsAreLinked
  <2>5. Operands(k) \in Seq(Frames)
    BY DescentsAreFlat
  <2>6. Linked(Around(n) \o Operands(k)) /\ Innermost(Around(n) \o Operands(k)) = "power"
    BY Zenon, <2>3, <2>4, <2>5, LinkedExtended
  <2> QED
    BY <2>2, <2>6, ChainedBy
<1>11. ASSUME NEW n \in 1..Len(stack), mode = "after", NEW y \in {"ternary", "then"}, stack[n] = y,
              NEW x \in {"then", "else"}, NEW position, GoOn(position, Append(Around(n), x) \o Expression, "operand")
       PROVE  Chained'
  <2>1. Linked(Around(n)) /\ MadeBy(Innermost(Around(n)), y)
    BY <1>9, <1>11
  <2>2. MadeBy(Innermost(Around(n)), x)
    BY <2>1, <1>11, MakersAre
  <2>3. Linked(Append(Around(n), x) \o Expression) /\ Innermost(Append(Around(n), x) \o Expression) = "power"
    BY <2>1, <2>2, <1>11, ChainedWaits
  <2> QED
    BY <1>11, <2>3, ChainedBy
<1>12. ASSUME NEW n \in 1..Len(stack), Condition(n) PROVE Chained'
  BY <1>11, <1>12 DEF Condition, Resumes
<1>13. ASSUME NEW n \in 1..Len(stack), Otherwise(n) PROVE Chained'
  BY <1>11, <1>13 DEF Otherwise, Resumes
<1>14. ASSUME NEW n \in 1..Len(stack), CloseParenthesis(n) PROVE Chained'
  <2>1. mode = "after" /\ stack[n] \in {"paren", "call"} /\ GoOn(Here + 1, Around(n), "after")
    BY <1>14 DEF CloseParenthesis, Resumes
  <2>2. Linked(Around(n)) /\ Innermost(Around(n)) \in {"power", "unary"}
    BY <1>9, <2>1, MakersAre
  <2> QED
    BY <2>1, <2>2, ChainedBy
<1>15. ASSUME NEW n \in 1..Len(stack), Argument(n) PROVE Chained'
  <2>1. /\ mode = "after" /\ stack[n] = "call"
        /\ GoOn(Here + 1, Append(Around(n), "call") \o Expression, "operand")
    BY <1>15 DEF Argument, Resumes
  <2>2. Linked(Around(n)) /\ MadeBy(Innermost(Around(n)), "call")
    BY <1>9, <2>1
  <2>3. Linked(Append(Around(n), "call") \o Expression) /\ Innermost(Append(Around(n), "call") \o Expression) = "power"
    BY <2>2, ChainedWaits
  <2> QED
    BY <2>1, <2>3, ChainedBy
<1>16. ASSUME NEW n \in 1..Len(stack), Expected(n) PROVE Chained'
  BY <1>16, ChainedStops DEF Expected
<1>17. CASE Ends
  BY <1>17, ChainedStops DEF Ends
<1>18. CASE UNCHANGED vars
  BY <1>18 DEF vars, Chained, Linked, Innermost
<1>19. Done => UNCHANGED vars
  BY DEF Done
<1> QED
  BY Zenon, <1>3, <1>4, <1>5, <1>7, <1>8, <1>10, <1>12, <1>13, <1>14, <1>15, <1>16, <1>17, <1>18, <1>19 DEF Next

\* The calls of a descent differ from each other and from the other calls.
LEMMA DescentDiffers ==
  /\ \A i, j \in 1..12 : Expression[i] = Expression[j] => i = j
  /\ \A i \in 1..12 : Expression[i] \notin {"paren", "call", "then", "else", "unary", "power_rest"}
  /\ Expression[1] = "ternary" /\ Expression[11] = "multiplicative" /\ Expression[12] = "power"
<1>1. \A i \in 2..12 : Expression[i] = Levels[i - 1] /\ i - 1 \in 1..11
  BY DescentsAreFlat
<1>2. Expression[1] = "ternary"
  BY DescentsAreFlat
<1>3. 1..Len(Levels) = 1..11
  BY LevelsAreFrames
<1>4. ASSUME NEW i \in 2..12 PROVE Expression[i] \notin {"ternary", "paren", "call", "then", "else", "unary", "power_rest"}
  <2>1. Levels[i - 1] \in Frames \ Waiting /\ Levels[i - 1] \notin {"ternary", "else", "unary", "power_rest"}
    BY <1>1, <1>3, LevelsDiffer
  <2> QED
    BY <1>1, <2>1 DEF Waiting
<1>5. ASSUME NEW i \in 2..12, NEW j \in 2..12, Expression[i] = Expression[j] PROVE i = j
  <2>1. Levels[i - 1] = Levels[j - 1]
    BY <1>1, <1>5
  <2>2. i - 1 = j - 1
    BY <1>1, <1>3, <2>1, LevelsDiffer
  <2> QED
    BY <2>2
<1>6. \A i \in 1..12 : i = 1 \/ i \in 2..12
  OBVIOUS
<1>7. 11 \in 2..12 /\ 12 \in 2..12 /\ 11 - 1 = 10 /\ 12 - 1 = 11
  OBVIOUS
<1>8. Expression[11] = "multiplicative" /\ Expression[12] = "power"
  BY <1>1, <1>7, OperatorTable
<1>9. \A i, j \in 1..12 : Expression[i] = Expression[j] => i = j
  <2> SUFFICES ASSUME NEW i \in 1..12, NEW j \in 1..12, Expression[i] = Expression[j] PROVE i = j
    OBVIOUS
  <2> QED
    BY Zenon, <1>2, <1>4, <1>5, <1>6
<1>10. \A i \in 1..12 : Expression[i] \notin {"paren", "call", "then", "else", "unary", "power_rest"}
  <2> TAKE i \in 1..12
  <2>1. CASE i = 1
    BY <1>2, <2>1
  <2>2. CASE i \in 2..12
    BY <1>4, <2>2
  <2> QED
    BY <1>6, <2>1, <2>2
<1> QED
  BY <1>2, <1>8, <1>9, <1>10

\* The calls that a descent may pass before it gets to level q.
Upper(q) ==
  {"paren", "call", "then", "else"} \union {Expression[r] : r \in 1..(q - 1)}
    \union (IF q = 12 THEN {"power_rest"} ELSE {})

\* A call above level q makes level q or one above it.
LEMMA UpperGoesOn ==
  ASSUME NEW q \in 1..12, NEW x \in Upper(q), NEW y, MadeBy(x, y), y # Expression[q]
  PROVE  y \in Upper(q)
<1>1. \A r \in 1..12 : Expression[r] \in Upper(q) => r < q
  <2> TAKE r \in 1..12
  <2>1. ASSUME NEW i \in 1..(q - 1), Expression[r] = Expression[i] PROVE r < q
    <3>1. i \in 1..12
      OBVIOUS
    <3>2. r = i
      BY <2>1, <3>1, DescentDiffers
    <3> QED
      BY <3>2
  <2>2. Expression[r] \notin {"paren", "call", "then", "else", "power_rest"}
    BY DescentDiffers
  <2> QED
    BY <2>1, <2>2 DEF Upper
<1>2. \A r \in 1..12 : r < q => Expression[r] \in Upper(q)
  BY DEF Upper
<1>3. ASSUME NEW r \in 1..11, x = Expression[r], y = Expression[r + 1] PROVE y \in Upper(q)
  <2>1. r \in 1..12 /\ r + 1 \in 1..12
    OBVIOUS
  <2>2. r < q
    BY <1>1, <1>3, <2>1
  <2>3. r + 1 # q
    BY <1>3
  <2> QED
    BY <1>2, <1>3, <2>1, <2>2, <2>3
<1>4. ASSUME x = "multiplicative", y = "power_rest" PROVE y \in Upper(q)
  <2>1. 11 \in 1..12 /\ x = Expression[11]
    BY <1>4, DescentDiffers
  <2>2. 11 < q
    BY <1>1, <2>1
  <2>3. q = 12
    BY <2>2
  <2> QED
    BY <1>4, <2>3 DEF Upper
<1>5. ASSUME x = "power_rest", y \in {"power", "power_rest"} PROVE y \in Upper(q)
  <2>1. \A r \in 1..(q - 1) : r \in 1..12
    OBVIOUS
  <2>2. \A r \in 1..(q - 1) : Expression[r] # "power_rest"
    BY <2>1, DescentDiffers
  <2>3. q = 12
    BY <1>5, <2>2 DEF Upper
  <2>4. y = "power_rest"
    BY <1>5, <2>3, DescentDiffers
  <2> QED
    BY <2>3, <2>4 DEF Upper
<1>6. x \notin {"power", "unary"}
  <2>1. "power" \notin Upper(q)
    <3>1. 12 \in 1..12 /\ ~(12 < q) /\ Expression[12] = "power"
      BY DescentDiffers
    <3> QED
      BY <1>1, <3>1
  <2>2. "unary" \notin Upper(q)
    <3>1. \A r \in 1..(q - 1) : r \in 1..12
      OBVIOUS
    <3>2. \A r \in 1..(q - 1) : Expression[r] # "unary"
      BY <3>1, DescentDiffers
    <3> QED
      BY <3>2 DEF Upper
  <2> QED
    BY <2>1, <2>2
<1>7. ASSUME y \in {"ternary", "then", "else"} PROVE y \in Upper(q)
  <2>1. CASE y = "ternary"
    <3>1. 1 \in 1..12 /\ Expression[1] = "ternary"
      BY DescentDiffers
    <3>2. 1 < q
      BY <2>1, <3>1
    <3> QED
      BY <1>2, <2>1, <3>1, <3>2
  <2>2. CASE y # "ternary"
    BY <1>7, <2>2 DEF Upper
  <2> QED
    BY <2>1, <2>2
<1> QED
  BY Zenon, <1>3, <1>4, <1>5, <1>6, <1>7 DEF MadeBy

\* Between a call that waits and the operand every level is in progress.
LEMMA LevelInProgress ==
  ASSUME NEW s, Linked(s), Innermost(s) \in {"power", "unary"},
         NEW n \in 0..Len(s), n = 0 \/ s[n] \in Waiting, NEW q \in 1..12
  PROVE  \E m \in (n + 1)..Len(s) : s[m] = Expression[q]
<1> SUFFICES ASSUME \A m \in (n + 1)..Len(s) : s[m] # Expression[q] PROVE FALSE
  OBVIOUS
<1> DEFINE k == Len(s)
           At0(m) == IF m = 0 THEN "else" ELSE s[m]
           S == {m \in n..k : At0(m) \in Upper(q)}
<1>1. k \in Nat /\ n \in Int /\ k \in Int /\ n \in n..k /\ k \in n..k
  BY DEF Linked
<1>2. \A m \in 1..k : MadeBy(IF m = 1 THEN "else" ELSE s[m - 1], s[m])
  BY Zenon DEF Linked
<1>3. {"paren", "call", "then", "else"} \subseteq Upper(q)
  BY DEF Upper
<1>4. n \in S
  <2>1. At0(n) \in {"paren", "call", "then", "else"}
    BY DEF Waiting
  <2> QED
    BY <1>1, <1>3, <2>1
<1>5. ASSUME NEW m \in (n + 1)..k, m - 1 \in S PROVE m \in S
  <2>1. m \in 1..k /\ m # 0 /\ (m - 1 = 0 <=> m = 1) /\ m \in n..k
    BY <1>1
  <2>2. At0(m) = s[m] /\ At0(m - 1) = IF m = 1 THEN "else" ELSE s[m - 1]
    BY Zenon, <2>1
  <2> HIDE DEF At0
  <2>3. At0(m - 1) \in Upper(q) /\ MadeBy(At0(m - 1), At0(m)) /\ At0(m) # Expression[q]
    BY <1>2, <1>5, <2>1, <2>2
  <2>4. At0(m) \in Upper(q)
    BY <2>3, UpperGoesOn
  <2> QED
    BY <2>1, <2>4
<1> HIDE DEF S
<1>6. k \in S
  BY <1>1, <1>4, <1>5, BoundedInduction
<1>7. Innermost(s) = At0(k)
  BY DEF Innermost
<1>8. {"power", "unary"} \intersect Upper(q) = {}
  <2>1. \A r \in 1..(q - 1) : r \in 1..12 /\ 12 \in 1..12 /\ r # 12
    OBVIOUS
  <2>2. \A r \in 1..(q - 1) : Expression[r] # "power" /\ Expression[r] # "unary"
    BY Zenon, <2>1, DescentDiffers
  <2> QED
    BY <2>2 DEF Upper
<1> QED
  BY <1>6, <1>7, <1>8 DEF S

\* Where an operator stands behind an operand, a call within the last one that
\* waits goes on.
LEMMA OperatorIsFound ==
  ASSUME IInv, Chained, mode = "after", NEW n \in 0..Len(stack), n = 0 \/ stack[n] \in Waiting
  PROVE  /\ At({Question}) => \E m \in (n + 1)..Len(stack) : GoesOn(stack[m])
         /\ \A q \in 1..Len(Levels) : \A k \in 1..Len(Operators[Levels[q]]) :
               OpMatches(text, Here, Operators[Levels[q]][k]) => \E m \in (n + 1)..Len(stack) : GoesOn(stack[m])
<1>1. Linked(stack) /\ Innermost(stack) \in {"power", "unary"}
  BY DEF Chained
<1>2. \A q \in 1..12 : \E m \in (n + 1)..Len(stack) : stack[m] = Expression[q]
  BY <1>1, LevelInProgress
<1>3. ASSUME At({Question}) PROVE \E m \in (n + 1)..Len(stack) : GoesOn(stack[m])
  <2>1. GoesOn("ternary")
    BY <1>3 DEF GoesOn
  <2>2. 1 \in 1..12 /\ Expression[1] = "ternary"
    BY DescentDiffers
  <2> QED
    BY <1>2, <2>1, <2>2
<1>4. ASSUME NEW q \in 1..Len(Levels), NEW k \in 1..Len(Operators[Levels[q]]),
             OpMatches(text, Here, Operators[Levels[q]][k])
      PROVE  \E m \in (n + 1)..Len(stack) : GoesOn(stack[m])
  <2>1. Levels[q] \notin {"ternary", "then", "paren", "call", "else", "unary", "power_rest"}
    BY LevelsDiffer DEF Waiting
  <2>2. GoesOn(Levels[q])
    BY Zenon, <1>4, <2>1 DEF GoesOn
  <2>3. q + 1 \in 2..12 /\ q + 1 \in 1..12 /\ (q + 1) - 1 = q
    BY LevelsDiffer
  <2>4. Expression[q + 1] = Levels[q]
    BY Zenon, <2>3, DescentsAreFlat
  <2> QED
    BY <1>2, <2>2, <2>3, <2>4
<1> QED
  BY <1>3, <1>4

\* A relational operator is tried when no shift operator stands there.
LEMMA RelationalIsBehindShift ==
  ASSUME IInv, Chained, mode = "after", NEW n \in 1..Len(stack), Resumes(n, "relational")
  PROVE  \A m \in 1..Len(Operators["shift"]) : ~OpMatches(text, Here, Operators["shift"][m])
<1>1. Linked(stack) /\ Innermost(stack) \in {"power", "unary"} /\ stack \in Seq(Frames) /\ Len(stack) \in Nat
  BY HereIs DEF Chained
<1>2. stack[n] = "relational" /\ \A m \in (n + 1)..Len(stack) : ~GoesOn(stack[m])
  BY DEF Resumes
<1>3. n # Len(stack)
  BY <1>1, <1>2 DEF Innermost
<1>4. n + 1 \in 1..Len(stack) /\ n + 1 \in (n + 1)..Len(stack) /\ n + 1 # 1 /\ (n + 1) - 1 = n
  BY <1>1, <1>3
<1>5. MadeBy("relational", stack[n + 1])
  BY Zenon, <1>1, <1>2, <1>4 DEF Linked
<1>6. Expression[8] = "relational" /\ Expression[9] = "shift"
  <2>1. 8 \in 2..12 /\ 9 \in 2..12 /\ 8 - 1 = 7 /\ 9 - 1 = 8
    OBVIOUS
  <2> QED
    BY <2>1, DescentsAreFlat, OperatorTable
<1>7. stack[n + 1] = "shift"
  <2>1. ASSUME NEW q \in 1..11, "relational" = Expression[q] PROVE q = 8
    BY <1>6, <2>1, DescentDiffers
  <2>2. ASSUME NEW q \in 1..11, "relational" = Expression[q] PROVE Expression[q + 1] = "shift"
    <3>1. q = 8 /\ q + 1 = 9
      BY <2>1, <2>2
    <3> QED
      BY <1>6, <3>1
  <2>3. "relational" \notin {"multiplicative", "power_rest", "power", "unary", "paren", "call", "then", "else"}
    OBVIOUS
  <2> QED
    BY Zenon, <1>5, <2>2, <2>3 DEF MadeBy
<1>8. ~GoesOn("shift")
  BY <1>2, <1>4, <1>7
<1> QED
  BY <1>8 DEF GoesOn

\* What is still to be read when the expression in a call ends at q: p is where the
\* one around it will end.
ClosesAt(t, x, p, q) ==
  /\ x \notin Waiting => q = p
  /\ x \in Waiting => q \in 1..Len(t)
  /\ x = "then" => t[q] = Colon /\ IsE(t, q + 1, p)
  /\ x = "paren" => t[q] = CloseParen /\ Tails(t, q + 1, p)
  /\ x = "call" =>
       \/ t[q] = CloseParen /\ Tails(t, q + 1, p)
       \/ /\ t[q] = Comma
          /\ \E b \in 1..Len(t) : IsA(t, q + 1, b) /\ t[b] = CloseParen /\ Tails(t, b + 1, p)

Closing(t) == {e \in Frames \X Nat \X Nat : ClosesAt(t, e[1], e[2], e[3])}

\* Where an expression in a call may end.
Endings(t) == {Len(t) + 1} \union {k \in 1..Len(t) : t[k] \in {Colon, CloseParen, Comma}}

\* The rest of the text can be read so that the whole is an expression.
Completable ==
  /\ mode = "operand" => \E q \in Nat : Reaches(Closing(text), Len(text) + 1, stack, q) /\ IsE(text, index, q)
  /\ mode = "after" => \E q \in Nat : Reaches(Closing(text), Len(text) + 1, stack, q) /\ Tails(text, index, q)
  /\ mode # "refused"
Complete == IsE(text, 1, Len(text) + 1) => Completable

\* What a step through the calls says of the positions.
LEMMA ClosingIs ==
  ASSUME NEW t
  PROVE  /\ \A x \in Frames : \A p, q \in Nat : <<x, p, q>> \in Closing(t) <=> ClosesAt(t, x, p, q)
         /\ Copying(Closing(t))
<1>1. ASSUME NEW x \in Frames, NEW p \in Nat, NEW q \in Nat
      PROVE  <<x, p, q>> \in Closing(t) <=> ClosesAt(t, x, p, q)
  <2> DEFINE e == <<x, p, q>>
  <2>1. e \in Frames \X Nat \X Nat /\ e[1] = x /\ e[2] = p /\ e[3] = q
    OBVIOUS
  <2> HIDE DEF e
  <2>2. e \in Closing(t) <=> ClosesAt(t, x, p, q)
    BY Zenon, <2>1 DEF Closing
  <2> QED
    BY <2>2 DEF e
<1>2. ASSUME NEW x \in Frames \ Waiting, NEW p \in Nat, NEW q \in Nat
      PROVE  ClosesAt(t, x, p, q) <=> q = p
  BY <1>2 DEF ClosesAt, Waiting
<1> QED
  BY Zenon, <1>1, <1>2 DEF Copying

\* The expression in progress ends at a closing character or at the end.
LEMMA ReachesStop ==
  ASSUME NEW t \in Text, NEW s \in Seq(Frames), NEW q, Reaches(Closing(t), Len(t) + 1, s, q)
  PROVE  q \in Endings(t) /\ q \in Nat /\ q \in 1..(Len(t) + 1)
<1>1. Len(t) \in Nat
  BY DEF Text
<1>2. Len(t) + 1 \in Endings(t)
  BY DEF Endings
<1>3. ASSUME NEW x \in Waiting, NEW a \in Nat, NEW b \in Nat, <<x, a, b>> \in Closing(t) PROVE b \in Endings(t)
  <2>1. x \in Frames
    BY DEF Waiting, Frames
  <2>2. ClosesAt(t, x, a, b)
    BY <1>3, <2>1, ClosingIs
  <2>3. b \in 1..Len(t) /\ t[b] \in {Colon, CloseParen, Comma}
    BY <2>2 DEF ClosesAt, Waiting
  <2> QED
    BY <2>3 DEF Endings
<1>4. q \in Endings(t)
  BY <1>2, <1>3, ClosingIs, ReachesIn
<1> QED
  BY <1>1, <1>4 DEF Endings

\* How an expression goes on at h, behind all blanks.
Goes(t, h, q) ==
  \/ q = h
  \/ \E n \in 1..2 : IsBinary(t, h, h + n) /\ IsE(t, h + n, q)
  \/ \E m \in Nat : t[h] = Question /\ IsE(t, h + 1, m) /\ t[m] = Colon /\ IsE(t, m + 1, q)

\* No character has two of these meanings.
LEMMA EndingsAreNoBlanks ==
  /\ Blanks \intersect {Colon, CloseParen, Comma} = {}
  /\ BinaryStarts \intersect {Colon, CloseParen, Comma, Question, OpenParen} = {}
  /\ Question \notin {Colon, CloseParen, Comma, OpenParen}
  /\ OpenParen \notin {Colon, CloseParen, Comma}
  /\ Comma # CloseParen /\ Comma # Colon /\ Colon # CloseParen
<1>1. Blanks \intersect {Colon, CloseParen, Comma} = {}
  BY DEF Blanks, Colon, CloseParen, Comma
<1>2. BinaryStarts \intersect {Colon, CloseParen, Comma, Question, OpenParen} = {}
  BY DEF BinaryStarts, Singles, Bar, Caret, Ampersand, Less, Greater, Plus, Minus, Star, Slash, Percent, Equals, Not,
     Colon, CloseParen, Comma, Question, OpenParen
<1>3. /\ Question \notin {Colon, CloseParen, Comma, OpenParen} /\ OpenParen \notin {Colon, CloseParen, Comma}
      /\ Comma # CloseParen /\ Comma # Colon /\ Colon # CloseParen
  BY DEF Question, Colon, CloseParen, Comma, OpenParen
<1> QED
  BY <1>1, <1>2, <1>3

\* An expression does not end at a blank.
LEMMA TailsGo ==
  ASSUME NEW t \in Text, NEW k \in 1..(Len(t) + 1), NEW q \in Endings(t), Tails(t, k, q)
  PROVE  Goes(t, SkipBlanks(t, k), q)
<1> DEFINE h == SkipBlanks(t, k)
<1>1. Len(t) \in Nat /\ h \in k..(Len(t) + 1) /\ \A l \in k..(h - 1) : t[l] \in Blanks
  BY SkipIs DEF Text
<1>2. q \in k..h => q = h
  <2> SUFFICES ASSUME q \in k..h, q # h PROVE FALSE
    OBVIOUS
  <2>1. q \in k..(h - 1) /\ q # Len(t) + 1
    BY <1>1
  <2>2. t[q] \in Blanks
    BY <1>1, <2>1
  <2>3. t[q] \in {Colon, CloseParen, Comma}
    BY <2>1 DEF Endings
  <2> QED
    BY <2>2, <2>3, EndingsAreNoBlanks
<1>3. \/ q \in k..h
      \/ \E n \in 1..2 : IsBinary(t, h, h + n) /\ IsE(t, h + n, q)
      \/ \E m \in Nat : t[h] = Question /\ IsE(t, h + 1, m) /\ t[m] = Colon /\ IsE(t, m + 1, q)
  BY Zenon DEF Tails
<1> HIDE DEF h
<1>4. Goes(t, h, q)
  BY Zenon, <1>2, <1>3 DEF Goes
<1> QED
  BY <1>4 DEF h

\* The character at h says how the expression goes on.
LEMMA GoesByCharacter ==
  ASSUME NEW t \in Text, NEW h \in 1..Len(t), NEW q \in Nat, q \in Endings(t), Goes(t, h, q)
  PROVE  /\ t[h] \in {Colon, CloseParen, Comma} => q = h
         /\ t[h] = Question =>
              \E m \in Nat : m \in 1..Len(t) /\ IsE(t, h + 1, m) /\ t[m] = Colon /\ IsE(t, m + 1, q)
         /\ t[h] \in BinaryStarts => \E n \in 1..2 : IsBinary(t, h, h + n) /\ IsE(t, h + n, q)
         /\ t[h] # OpenParen
<1>1. Len(t) \in Nat /\ h \in Nat /\ h # Len(t) + 1
  BY DEF Text
<1>2. q = h => t[h] \in {Colon, CloseParen, Comma}
  BY <1>1 DEF Endings
<1>3. ASSUME NEW n \in 1..2, IsBinary(t, h, h + n), IsE(t, h + n, q) PROVE t[h] \in BinaryStarts
  <2>1. h + n \in Nat
    BY <1>1
  <2>2. h + n <= Len(t) + 1
    BY <1>1, <1>3, <2>1, InRange
  <2> QED
    BY <1>3, <2>2, BinaryBegins
<1>4. ASSUME NEW m \in Nat, IsE(t, h + 1, m), IsE(t, m + 1, q) PROVE m \in 1..Len(t)
  <2>1. m + 1 \in Nat /\ h + 1 \in Nat
    BY <1>1
  <2>2. m + 1 \in 1..Len(t) /\ m \in 1..(Len(t) + 1)
    BY <1>4, <2>1, InRange
  <2> QED
    BY <1>1, <2>2
<1> QED
  BY Zenon, <1>2, <1>3, <1>4, EndingsAreNoBlanks DEF Goes

\* Arguments up to a parenthesis: the first of them ends where the call goes on.
LEMMA ArgumentsClose ==
  ASSUME NEW t \in Text, NEW a \in Nat, NEW b \in 1..Len(t), IsA(t, a, b), t[b] = CloseParen,
         NEW p \in Nat, Tails(t, b + 1, p)
  PROVE  \E q \in Nat : IsE(t, a, q) /\ ClosesAt(t, "call", p, q)
<1>1. b \in Nat /\ Len(t) \in Nat
  BY DEF Text
<1>2. IsE(t, a, b) \/ \E k \in Nat : IsE(t, a, k) /\ t[k] = Comma /\ IsA(t, k + 1, b)
  BY <1>1, ArgumentsAre
<1>3. CASE IsE(t, a, b)
  <2>1. ClosesAt(t, "call", p, b)
    BY Zenon DEF ClosesAt, Waiting
  <2> QED
    BY <1>1, <1>3, <2>1
<1>4. ASSUME NEW k \in Nat, IsE(t, a, k), t[k] = Comma, IsA(t, k + 1, b)
      PROVE  \E q \in Nat : IsE(t, a, q) /\ ClosesAt(t, "call", p, q)
  <2>1. k + 1 \in Nat
    OBVIOUS
  <2>2. k + 1 \in 1..Len(t) /\ k \in 1..(Len(t) + 1)
    BY <1>1, <1>4, <2>1, InRange
  <2>3. k \in 1..Len(t)
    BY <1>1, <2>2
  <2>4. ClosesAt(t, "call", p, k)
    BY Zenon, <1>4, <2>3 DEF ClosesAt, Waiting
  <2> QED
    BY <1>4, <2>4
<1> QED
  BY <1>2, <1>3, <1>4

------------------------------------------------------------------------------
\* The blanks before the next character make no difference.
LEMMA CompleteHere ==
  ASSUME IInv, Completable
  PROVE  /\ mode = "operand" =>
              \E q \in Nat : /\ Reaches(Closing(text), Len(text) + 1, stack, q) /\ q \in Endings(text)
                             /\ Here \in 1..Len(text) /\ IsE(text, Here, q)
         /\ mode = "after" =>
              \E q \in Nat : /\ Reaches(Closing(text), Len(text) + 1, stack, q) /\ q \in Endings(text)
                             /\ Goes(text, Here, q)
<1>1. text \in Text /\ index \in 1..(Len(text) + 1) /\ stack \in Seq(Frames) /\ Here \in Nat
  BY HereIs
<1>2. ASSUME mode = "operand"
      PROVE  \E q \in Nat : /\ Reaches(Closing(text), Len(text) + 1, stack, q) /\ q \in Endings(text)
                            /\ Here \in 1..Len(text) /\ IsE(text, Here, q)
  <2>1. PICK q \in Nat : Reaches(Closing(text), Len(text) + 1, stack, q) /\ IsE(text, index, q)
    BY <1>2 DEF Completable
  <2>2. q \in Endings(text)
    BY <1>1, <2>1, ReachesStop
  <2>3. IsE(text, Here, q)
    BY <1>1, <2>1, BlanksBefore DEF Here
  <2>4. Here \in 1..Len(text)
    BY <1>1, <2>3, InRange
  <2> QED
    BY <2>1, <2>2, <2>3, <2>4
<1>3. ASSUME mode = "after"
      PROVE  \E q \in Nat : /\ Reaches(Closing(text), Len(text) + 1, stack, q) /\ q \in Endings(text)
                            /\ Goes(text, Here, q)
  <2>1. PICK q \in Nat : Reaches(Closing(text), Len(text) + 1, stack, q) /\ Tails(text, index, q)
    BY <1>3 DEF Completable
  <2>2. q \in Endings(text)
    BY <1>1, <2>1, ReachesStop
  <2>3. Goes(text, Here, q)
    BY <1>1, <2>1, <2>2, TailsGo DEF Here
  <2> QED
    BY <2>1, <2>2, <2>3
<1> QED
  BY <1>2, <1>3

\* An operand is read next.
LEMMA CompleteOperand ==
  ASSUME NEW position, NEW calls, GoOn(position, calls, "operand"),
         NEW q \in Nat, Reaches(Closing(text), Len(text) + 1, calls, q), IsE(text, position, q)
  PROVE  Completable'
<1>1. text' = text /\ index' = position /\ stack' = calls /\ mode' = "operand"
  BY DEF GoOn
<1> QED
  BY <1>1 DEF Completable

\* An operand was read.
LEMMA CompleteAfter ==
  ASSUME NEW position, NEW calls, GoOn(position, calls, "after"),
         NEW q \in Nat, Reaches(Closing(text), Len(text) + 1, calls, q), Tails(text, position, q)
  PROVE  Completable'
<1>1. text' = text /\ index' = position /\ stack' = calls /\ mode' = "after"
  BY DEF GoOn
<1> QED
  BY <1>1 DEF Completable

\* The expression is accepted, or a nested script is not.
LEMMA CompleteStops ==
  ASSUME NEW position, NEW calls, NEW stop \in {"accepted", "nested"}, GoOn(position, calls, stop)
  PROVE  Completable'
BY DEF Completable, GoOn

\* A new call that waits, with a whole descent in it.
LEMMA CompleteDescent ==
  ASSUME NEW calls \in Seq(Frames), NEW p \in Nat, Reaches(Closing(text), Len(text) + 1, calls, p),
         NEW x \in Frames, NEW q \in Nat, ClosesAt(text, x, p, q),
         NEW position, IsE(text, position, q),
         GoOn(position, Append(calls, x) \o Expression, "operand")
  PROVE  Completable'
<1>1. <<x, p, q>> \in Closing(text)
  BY Zenon, ClosingIs
<1>2. Reaches(Closing(text), Len(text) + 1, Append(calls, x), q) /\ Append(calls, x) \in Seq(Frames)
  BY <1>1, ReachesAppended, AppendProperties
<1>3. Reaches(Closing(text), Len(text) + 1, Append(calls, x) \o Expression, q)
  BY Zenon, <1>2, DescentsAreFlat, ClosingIs, ReachesExtended
<1> QED
  BY <1>3, CompleteOperand

\* At the start the whole text is to be read.
LEMMA InitComplete == Init => Complete
<1> SUFFICES ASSUME Init, IsE(text, 1, Len(text) + 1) PROVE Completable
  BY DEF Complete
<1>1. mode = "operand" /\ index = 1 /\ stack = Expression /\ text \in Text
  BY TextsAssumption DEF Init, Text
<1>2. Len(text) + 1 \in Nat
  BY <1>1 DEF Text
<1>3. Reaches(Closing(text), Len(text) + 1, <<>>, Len(text) + 1)
  BY <1>2, ReachesNothing
<1>4. Reaches(Closing(text), Len(text) + 1, <<>> \o Expression, Len(text) + 1)
  <2>1. <<>> \in Seq(Frames)
    OBVIOUS
  <2> QED
    BY Zenon, <1>2, <1>3, <2>1, DescentsAreFlat, ClosingIs, ReachesExtended
<1>5. <<>> \o Expression = Expression
  BY DescentsAreFlat, ConcatEmptySeq
<1> QED
  BY <1>1, <1>2, <1>4, <1>5 DEF Completable

\* An operand starts with no blank and no operator.
LEMMA OperandStartsAreApart ==
  /\ OperandStarts \intersect (UnaryOperators \union Blanks) = {}
  /\ UnaryOperators \intersect Blanks = {}
  /\ OpenParen \notin NameStart /\ OpenParen # Zero
  /\ NameStart \subseteq OperandStarts \ {OpenParen}
  /\ BinaryStarts \intersect {OpenParen} = {}
<1>1. OperandStarts \intersect (UnaryOperators \union Blanks) = {}
  BY DEF OperandStarts, OpenParen, Dollar, OpenBracket, Quote, OpenBrace, Dot, Digits, NameStart, Letters, Underscore,
     UnaryOperators, Blanks, Not, Tilde, Minus, Plus
<1>2. UnaryOperators \intersect Blanks = {}
  BY DEF UnaryOperators, Blanks, Not, Tilde, Minus, Plus
<1>3. OpenParen \notin NameStart /\ OpenParen # Zero
  BY DEF OpenParen, NameStart, Letters, Underscore, Zero
<1>4. NameStart \subseteq OperandStarts \ {OpenParen}
  BY <1>3 DEF OperandStarts
<1> QED
  BY <1>1, <1>2, <1>4, EndingsAreNoBlanks, <1>3

\* An expression that starts with neither a blank nor a prefix starts with an operand.
LEMMA BeginsWithPrimary ==
  ASSUME NEW t \in Text, NEW i \in 1..Len(t), NEW q \in Nat, IsE(t, i, q), t[i] \notin Blanks
  PROVE  /\ t[i] \in UnaryOperators => IsE(t, i + 1, q)
         /\ t[i] \notin UnaryOperators => \E k \in (i + 1)..(Len(t) + 1) : Primary(t, i, k) /\ Tails(t, k, q)
<1>1. i \in Nat
  OBVIOUS
<1>2. Begins(t, i, q)
  BY <1>1, ExpressionBegins
<1>3. ASSUME NEW k \in (i + 1)..(Len(t) + 1), Primary(t, i, k) PROVE t[i] \notin UnaryOperators
  BY <1>3, PrimaryStarts, OperandStartsAreApart
<1> QED
  BY Zenon, <1>2, <1>3 DEF Begins

\* An operand without expressions in it is not refused.
LEMMA ReadsComplete ==
  ASSUME IInv, Completable, mode = "operand", text[Here] \in OperandStarts \ {OpenParen},
         text[Here] \in NameStart => ~Calls, ReadsOperand
  PROVE  Completable'
<1>1. PICK q \in Nat : /\ Reaches(Closing(text), Len(text) + 1, stack, q)
                       /\ Here \in 1..Len(text) /\ IsE(text, Here, q)
  BY CompleteHere
<1>2. text \in Text /\ Len(text) \in Nat /\ Here \in Nat
  BY HereIs
<1>3. text[Here] \notin Blanks /\ text[Here] \notin UnaryOperators
  BY OperandStartsAreApart
<1>4. PICK k \in (Here + 1)..(Len(text) + 1) : Primary(text, Here, k) /\ Tails(text, k, q)
  BY <1>1, <1>2, <1>3, BeginsWithPrimary
<1>5. k # 0 /\ k \in Nat
  BY <1>2
<1>6. ~Applies(text, ArgsIn(text), Here, k)
  <2> SUFFICES ASSUME Applies(text, ArgsIn(text), Here, k) PROVE FALSE
    OBVIOUS
  <2> DEFINE open == OpenAfter(text, Here)
  <2>1. text[Here] \in NameStart /\ open < k - 1 /\ text[open] = OpenParen
    BY Zenon DEF Applies, OpenAfter
  <2>2. open \in Nat
    BY <1>1, <1>2, OpenAfterIs
  <2>3. open <= Len(text)
    BY <1>2, <1>5, <2>1, <2>2
  <2>4. open = SkipBlanks(text, NameEnd)
    BY DEF OpenAfter, NameEnd
  <2> HIDE DEF open
  <2>5. Calls
    BY <2>1, <2>3, <2>4 DEF Calls, Has
  <2> QED
    BY <2>1, <2>5
<1>7. OperandEnd(text, Here) = k
  BY Zenon, <1>4, <1>6 DEF Primary
<1>8. GoOn(k, stack, "after")
  BY <1>5, <1>7 DEF ReadsOperand
<1> QED
  BY <1>1, <1>4, <1>8, CompleteAfter

\* A unary operator.
LEMMA UnaryComplete ==
  ASSUME IInv, Completable, Unary
  PROVE  Completable'
<1>1. mode = "operand" /\ At(UnaryOperators) /\ GoOn(Here + 1, Append(stack, "unary"), "operand")
  BY DEF Unary
<1>2. text \in Text /\ text[Here] \in UnaryOperators /\ stack \in Seq(Frames) /\ text[Here] \notin Blanks
  BY <1>1, HereIs
<1>3. PICK q \in Nat : /\ Reaches(Closing(text), Len(text) + 1, stack, q)
                       /\ Here \in 1..Len(text) /\ IsE(text, Here, q)
  BY <1>1, CompleteHere
<1>4. IsE(text, Here + 1, q)
  BY <1>2, <1>3, BeginsWithPrimary
<1>5. "unary" \in Frames \ Waiting
  BY DEF Frames, Waiting
<1>6. <<"unary", q, q>> \in Closing(text)
  BY Zenon, <1>5, ClosingIs DEF Copying
<1>7. Reaches(Closing(text), Len(text) + 1, Append(stack, "unary"), q)
  BY <1>2, <1>3, <1>5, <1>6, ReachesAppended
<1> QED
  BY <1>1, <1>4, <1>7, CompleteOperand

\* An opening parenthesis: the expression has the closing one.
LEMMA ParenthesisComplete ==
  ASSUME IInv, Completable, Parenthesis
  PROVE  Completable'
<1>1. mode = "operand" /\ At({OpenParen}) /\ GoOn(Here + 1, Append(stack, "paren") \o Expression, "operand")
  BY DEF Parenthesis
<1>2. text \in Text /\ Len(text) \in Nat /\ Here \in Nat /\ text[Here] = OpenParen /\ stack \in Seq(Frames)
  BY <1>1, HereIs
<1>3. PICK p \in Nat : /\ Reaches(Closing(text), Len(text) + 1, stack, p)
                       /\ Here \in 1..Len(text) /\ IsE(text, Here, p)
  BY <1>1, CompleteHere
<1>4. text[Here] \notin Blanks /\ text[Here] \notin UnaryOperators
  BY <1>2, OperandStartsAreApart DEF OperandStarts
<1>5. PICK k \in (Here + 1)..(Len(text) + 1) : Primary(text, Here, k) /\ Tails(text, k, p)
  BY <1>2, <1>3, <1>4, BeginsWithPrimary
<1>6. OperandEnd(text, Here) # k
  <2>1. StartOf(text, Here) = Here
    BY <1>2, OperandStartsAreApart DEF StartOf
  <2>2. OperandEnd(text, Here) = 0
    BY <1>2, <1>3, <2>1, OperandEndBy
  <2> QED
    BY <1>2, <2>2
<1>7. ~Applies(text, ArgsIn(text), Here, k)
  BY <1>2, OperandStartsAreApart DEF Applies
<1>8. text[k - 1] = CloseParen /\ IsE(text, Here + 1, k - 1)
  BY Zenon, <1>5, <1>6, <1>7 DEF Primary
<1> DEFINE q == k - 1
<1>9. q \in Nat /\ q \in 1..Len(text) /\ k = q + 1
  BY <1>2, <1>3
<1> HIDE DEF q
<1>10. text[q] = CloseParen /\ IsE(text, Here + 1, q) /\ Tails(text, q + 1, p)
  <2>1. Tails(text, q + 1, p)
    BY Zenon, <1>5, <1>9
  <2> QED
    BY <1>8, <2>1 DEF q
<1>11. ClosesAt(text, "paren", p, q)
  BY Zenon, <1>9, <1>10 DEF ClosesAt, Waiting
<1>12. "paren" \in Frames
  BY DEF Frames
<1> QED
  BY Zenon, <1>1, <1>2, <1>3, <1>9, <1>10, <1>11, <1>12, CompleteDescent

\* No expression goes on with a parenthesis behind a name.
LEMMA NameIsNoOperand ==
  ASSUME NEW t \in Text, NEW i \in 1..Len(t), t[i] \in NameStart,
         NEW q \in Nat, q \in Endings(t), NEW k \in (i + 1)..(Len(t) + 1), Tails(t, k, q),
         OpenAfter(t, i) \in 1..Len(t), t[OpenAfter(t, i)] = OpenParen
  PROVE  OperandEnd(t, i) # k
<1> SUFFICES ASSUME OperandEnd(t, i) = k PROVE FALSE
  OBVIOUS
<1>1. Len(t) \in Nat /\ i \in Nat /\ k # 0 /\ k \in 1..(Len(t) + 1)
  BY DEF Text
<1>2. StartOf(t, i) = i
  <2>1. Zero \notin NameStart
    BY DEF NameStart, Letters, Underscore, Zero
  <2> QED
    BY <2>1 DEF StartOf
<1>3. k = RunEnd(t, i, NameChars)
  BY <1>1, <1>2, OperandEndBy
<1>4. Goes(t, OpenAfter(t, i), q)
  BY <1>1, <1>3, TailsGo DEF OpenAfter
<1> QED
  BY <1>4, GoesByCharacter

\* The call of a function, without arguments or up to the first.
LEMMA CallComplete ==
  ASSUME IInv, Completable, Call
  PROVE  Completable'
<1> DEFINE open == OpenAfter(text, Here)
           arguments == SkipBlanks(text, open + 1)
<1>1. /\ mode = "operand" /\ Here \in 1..Len(text) /\ text[Here] \in NameStart
      /\ open \in (Here + 1)..Len(text) /\ open \in Nat /\ open \in 1..Len(text) /\ text[open] = OpenParen
      /\ arguments \in (open + 1)..(Len(text) + 1) /\ arguments \in Nat
      /\ \/ arguments \in 1..Len(text) /\ text[arguments] = CloseParen /\ GoOn(arguments + 1, stack, "after")
         \/ /\ arguments \in 1..Len(text) => text[arguments] # CloseParen
            /\ GoOn(arguments, Append(stack, "call") \o Expression, "operand")
  BY CallIs
<1>2. text \in Text /\ Len(text) \in Nat /\ stack \in Seq(Frames) /\ Here \in Nat
  BY HereIs
<1>3. PICK p \in Nat : /\ Reaches(Closing(text), Len(text) + 1, stack, p) /\ p \in Endings(text)
                       /\ IsE(text, Here, p)
  BY <1>1, CompleteHere
<1>4. text[Here] \notin Blanks /\ text[Here] \notin UnaryOperators /\ text[Here] # OpenParen
  BY <1>1, OperandStartsAreApart
<1>5. PICK k \in (Here + 1)..(Len(text) + 1) : Primary(text, Here, k) /\ Tails(text, k, p)
  BY <1>1, <1>2, <1>3, <1>4, BeginsWithPrimary
<1>6. OperandEnd(text, Here) # k
  BY <1>1, <1>2, <1>3, <1>5, NameIsNoOperand
<1>7. Applies(text, ArgsIn(text), Here, k)
  BY Zenon, <1>4, <1>5, <1>6 DEF Primary
<1> DEFINE b == k - 1
<1>8. b \in Nat /\ b \in 1..Len(text) /\ k = b + 1
  BY <1>1, <1>2
<1>9. text[b] = CloseParen /\ (arguments = b \/ IsA(text, open + 1, b))
  BY Zenon, <1>7 DEF Applies, OpenAfter, IsA, Span
<1> HIDE DEF b
<1>10. Tails(text, b + 1, p)
  BY Zenon, <1>5, <1>8
<1>11. open + 1 \in Nat /\ open + 1 \in 1..(Len(text) + 1)
  BY <1>1, <1>2
<1> HIDE DEF open, arguments
<1>12. \A j \in Nat : IsE(text, open + 1, j) => IsE(text, arguments, j)
  BY <1>2, <1>11, BlanksBefore DEF arguments
<1>13. IsA(text, open + 1, b) => \E q \in Nat : IsE(text, open + 1, q) /\ ClosesAt(text, "call", p, q)
  BY <1>2, <1>8, <1>9, <1>10, <1>11, ArgumentsClose
<1>14. ASSUME arguments \in 1..Len(text), text[arguments] = CloseParen, GoOn(arguments + 1, stack, "after")
       PROVE  Completable'
  <2>1. ~IsA(text, open + 1, b)
    <3> SUFFICES ASSUME IsA(text, open + 1, b) PROVE FALSE
      OBVIOUS
    <3>1. PICK q \in Nat : IsE(text, arguments, q)
      BY <1>12, <1>13
    <3>2. text[arguments] \in ExpressionStarts
      BY <1>1, <1>2, <3>1, ExpressionStartsWith
    <3> QED
      BY <1>14, <3>2, NoExpressionStarts
  <2>2. arguments = b
    BY <1>9, <2>1
  <2>3. GoOn(b + 1, stack, "after")
    BY <1>14, <2>2
  <2> QED
    BY <1>3, <1>10, <2>3, CompleteAfter
<1>15. ASSUME arguments \in 1..Len(text) => text[arguments] # CloseParen,
              GoOn(arguments, Append(stack, "call") \o Expression, "operand")
       PROVE  Completable'
  <2>1. IsA(text, open + 1, b)
    BY <1>8, <1>9, <1>15
  <2>2. PICK q \in Nat : IsE(text, arguments, q) /\ ClosesAt(text, "call", p, q)
    BY <1>12, <1>13, <2>1
  <2>3. "call" \in Frames
    BY DEF Frames
  <2> QED
    BY Zenon, <1>2, <1>3, <1>15, <2>2, <2>3, CompleteDescent
<1> QED
  BY <1>1, <1>14, <1>15

\* Where the whole text is an expression, an operand is found.
LEMMA OperandIsThere ==
  ASSUME IInv, Completable
  PROVE  ~NoOperand
<1> SUFFICES ASSUME NoOperand PROVE FALSE
  OBVIOUS
<1>1. /\ mode = "operand"
      /\ ~At(UnaryOperators \union {OpenParen, Dollar, OpenBracket, Quote, OpenBrace}
         \union Digits \union NameStart)
      /\ ~(At({Dot}) /\ Has(text, Here + 1, Digits))
  BY DEF NoOperand
<1>2. PICK q \in Nat : q \in Endings(text) /\ Here \in 1..Len(text) /\ IsE(text, Here, q)
  BY <1>1, CompleteHere
<1>3. text \in Text /\ Len(text) \in Nat /\ Here \in Nat /\ text[Here] \notin Blanks /\ Here <= Len(text)
  BY <1>2, HereIs
<1>4. \A class : At(class) <=> text[Here] \in class
  BY <1>3 DEF At, Has
<1>5. text[Here] \in ExpressionStarts
  BY <1>2, <1>3, ExpressionStartsWith
<1>6. text[Here] \notin UnaryOperators \union {OpenParen, Dollar, OpenBracket, Quote, OpenBrace}
         \union Digits \union NameStart
  BY Zenon, <1>1, <1>4
<1>7. text[Here] = Dot
  BY <1>3, <1>5, <1>6 DEF ExpressionStarts, OperandStarts
<1>8. ~Has(text, Here + 1, Digits)
  BY <1>1, <1>4, <1>7
<1>9. PICK k \in (Here + 1)..(Len(text) + 1) : Primary(text, Here, k)
  BY <1>2, <1>3, <1>6, BeginsWithPrimary
<1>10. OperandEnd(text, Here) # k
  <2>1. Dot # Zero
    BY DEF Dot, Zero
  <2>2. StartOf(text, Here) = Here
    BY <1>7, <2>1 DEF StartOf
  <2>3. OperandEnd(text, Here) = 0
    BY <1>2, <1>3, <1>7, <1>8, <2>2, OperandEndBy
  <2> QED
    BY <1>3, <2>3
<1>11. text[Here] # OpenParen /\ text[Here] \notin NameStart
  BY <1>6
<1> QED
  BY Zenon, <1>9, <1>10, <1>11 DEF Primary, Applies

\* Behind an operand, when call n of the stack goes on: q is where the expression in
\* it ends, p where the one around it does.
LEMMA CompleteAround ==
  ASSUME IInv, Completable, mode = "after", NEW n \in 1..Len(stack), NEW x \in Frames, Resumes(n, x)
  PROVE  /\ Around(n) \in Seq(Frames)
         /\ \E p, q \in Nat :
               /\ Reaches(Closing(text), Len(text) + 1, Around(n), p) /\ ClosesAt(text, x, p, q)
               /\ q \in Endings(text) /\ Goes(text, Here, q)
<1>1. stack \in Seq(Frames) /\ Len(stack) \in Nat
  BY HereIs
<1>2. stack[n] = x /\ \A m \in (n + 1)..Len(stack) : stack[m] \notin Waiting
  BY ResumesAbove
<1>3. Around(n) = Inner(stack, n) /\ n \in 1..(Len(stack) + 1)
  BY <1>1, AroundIsInner
<1>4. PICK q \in Nat : /\ Reaches(Closing(text), Len(text) + 1, stack, q) /\ q \in Endings(text)
                       /\ Goes(text, Here, q)
  BY CompleteHere
<1>5. PICK p \in Nat : Reaches(Closing(text), Len(text) + 1, Inner(stack, n), p) /\ <<x, p, q>> \in Closing(text)
  <2>1. Copying(Closing(text))
    BY ClosingIs
  <2> QED
    BY <1>1, <1>2, <1>4, <2>1, ReachesAround
<1>6. ClosesAt(text, x, p, q)
  BY Zenon, <1>4, <1>5, ClosingIs
<1> QED
  BY <1>1, <1>3, <1>4, <1>5, <1>6, InnerIs

\* A binary operator: the level that finds it reads the operator that the expression
\* has there, never the beginning of a longer one.
LEMMA OperatorComplete ==
  ASSUME IInv, Chained, Completable, NEW n \in 1..Len(stack), NEW k \in 1..Len(Levels), Operator(Levels[k], n)
  PROVE  Completable'
<1> DEFINE x == Levels[k]
<1>1. mode = "after" /\ Resumes(n, x)
  BY DEF Operator
<1>2. x \in Frames \ Waiting
  BY LevelsDiffer
<1>3. PICK m \in 1..Len(Operators[x]) :
        /\ FirstMatches(text, Here, x, m)
        /\ GoOn(Here + Len(Operators[x][m].spelling), Around(n) \o Operands(k), "operand")
  BY Zenon DEF Operator, Operands
<1> HIDE DEF x
<1>4. /\ Around(n) \in Seq(Frames)
      /\ \E p, q \in Nat : /\ Reaches(Closing(text), Len(text) + 1, Around(n), p) /\ ClosesAt(text, x, p, q)
                           /\ q \in Endings(text) /\ Goes(text, Here, q)
  BY <1>1, <1>2, CompleteAround
<1>5. PICK p \in Nat : /\ Reaches(Closing(text), Len(text) + 1, Around(n), p)
                       /\ p \in Endings(text) /\ Goes(text, Here, p)
  BY Zenon, <1>2, <1>4 DEF ClosesAt
<1>6. Reaches(Closing(text), Len(text) + 1, Around(n) \o Operands(k), p)
  <2>1. Operands(k) \in Seq(Frames) /\ \A i \in 1..Len(Operands(k)) : Operands(k)[i] \notin Waiting
    BY Zenon, DescentsAreFlat
  <2> QED
    BY Zenon, <1>4, <1>5, <2>1, ClosingIs, ReachesExtended
<1> DEFINE l == Len(Operators[x][m].spelling)
<1>7. text \in Text /\ Here \in 1..(Len(text) + 1) /\ Here \in Nat
  BY HereIs
<1>8. l \in 1..2 /\ Here \in 1..Len(text) /\ Here + l \in 1..(Len(text) + 1) /\ IsBinary(text, Here, Here + l)
  <2>1. OpMatches(text, Here, Operators[x][m])
    BY <1>3 DEF FirstMatches
  <2> QED
    BY <1>7, <2>1, OperatorIsBinary DEF x
<1>9. GoOn(Here + l, Around(n) \o Operands(k), "operand")
  BY <1>3
<1>10. text[Here] \in BinaryStarts
  <2> HIDE DEF l
  <2>1. Len(text) \in Nat
    BY <1>7 DEF Text
  <2>2. Here + l <= Len(text) + 1
    BY <1>7, <1>8, <2>1
  <2> QED
    BY <1>7, <1>8, <2>2, BinaryBegins
<1>11. PICK i \in 1..2 : IsBinary(text, Here, Here + i) /\ IsE(text, Here + i, p)
  BY <1>5, <1>7, <1>8, <1>10, GoesByCharacter
<1>12. x = "relational" => \A j \in 1..Len(Operators["shift"]) : ~OpMatches(text, Here, Operators["shift"][j])
  BY <1>1, RelationalIsBehindShift
<1>13. l = i
  BY <1>3, <1>7, <1>11, <1>12, OperatorLength DEF x
<1>14. IsE(text, Here + l, p)
  BY <1>11, <1>13
<1> QED
  BY <1>5, <1>6, <1>9, <1>14, CompleteOperand

\* A question mark: the expression has the colon.
LEMMA ConditionComplete ==
  ASSUME IInv, Completable, NEW n \in 1..Len(stack), Condition(n)
  PROVE  Completable'
<1>1. /\ mode = "after" /\ Resumes(n, "ternary")
      /\ GoOn(Here + 1, Append(Around(n), "then") \o Expression, "operand")
  BY DEF Condition
<1>2. At({Question})
  BY <1>1 DEF Resumes, GoesOn
<1>3. "ternary" \in Frames /\ "ternary" \notin Waiting /\ "then" \in Frames
  BY DEF Frames, Waiting
<1>4. /\ Around(n) \in Seq(Frames)
      /\ \E p, q \in Nat : /\ Reaches(Closing(text), Len(text) + 1, Around(n), p) /\ ClosesAt(text, "ternary", p, q)
                           /\ q \in Endings(text) /\ Goes(text, Here, q)
  BY Zenon, <1>1, <1>3, CompleteAround
<1>5. PICK p \in Nat : /\ Reaches(Closing(text), Len(text) + 1, Around(n), p)
                       /\ p \in Endings(text) /\ Goes(text, Here, p)
  BY Zenon, <1>3, <1>4 DEF ClosesAt
<1>6. text \in Text /\ Here \in 1..Len(text) /\ text[Here] = Question
  BY <1>2, HereIs
<1>7. PICK q \in Nat : q \in 1..Len(text) /\ IsE(text, Here + 1, q) /\ text[q] = Colon /\ IsE(text, q + 1, p)
  BY <1>5, <1>6, GoesByCharacter
<1>8. ClosesAt(text, "then", p, q)
  BY Zenon, <1>7 DEF ClosesAt, Waiting
<1> QED
  BY Zenon, <1>1, <1>3, <1>4, <1>5, <1>7, <1>8, CompleteDescent

\* At the character that a call waits for, the expression in the call ends.
LEMMA EndsAtClosing ==
  ASSUME IInv, Completable, mode = "after", NEW n \in 1..Len(stack), NEW x \in Frames, Resumes(n, x),
         At({Colon, CloseParen, Comma})
  PROVE  /\ Around(n) \in Seq(Frames) /\ Here \in 1..Len(text) /\ Here \in Nat
         /\ \E p \in Nat : Reaches(Closing(text), Len(text) + 1, Around(n), p) /\ ClosesAt(text, x, p, Here)
<1>1. /\ Around(n) \in Seq(Frames)
      /\ \E p, q \in Nat : /\ Reaches(Closing(text), Len(text) + 1, Around(n), p) /\ ClosesAt(text, x, p, q)
                           /\ q \in Endings(text) /\ Goes(text, Here, q)
  BY CompleteAround
<1>2. PICK p \in Nat, q \in Nat :
         /\ Reaches(Closing(text), Len(text) + 1, Around(n), p) /\ ClosesAt(text, x, p, q)
         /\ q \in Endings(text) /\ Goes(text, Here, q)
  BY Zenon, <1>1
<1>3. text \in Text /\ Here \in 1..Len(text) /\ text[Here] \in {Colon, CloseParen, Comma} /\ Here \in Nat
  BY HereIs
<1>4. q = Here
  BY <1>2, <1>3, GoesByCharacter
<1> QED
  BY <1>1, <1>2, <1>3, <1>4

\* The colon of a condition.
LEMMA OtherwiseComplete ==
  ASSUME IInv, Completable, NEW n \in 1..Len(stack), Otherwise(n)
  PROVE  Completable'
<1>1. /\ mode = "after" /\ At({Colon}) /\ Resumes(n, "then")
      /\ GoOn(Here + 1, Append(Around(n), "else") \o Expression, "operand")
  BY DEF Otherwise
<1>2. "then" \in Frames /\ "else" \in Frames \ Waiting /\ "else" \in Frames
  BY DEF Frames, Waiting
<1>3. At({Colon, CloseParen, Comma})
  BY <1>1 DEF At, Has
<1>4. PICK p \in Nat : Reaches(Closing(text), Len(text) + 1, Around(n), p) /\ ClosesAt(text, "then", p, Here)
  BY Zenon, <1>1, <1>2, <1>3, EndsAtClosing
<1>5. IsE(text, Here + 1, p)
  BY Zenon, <1>4 DEF ClosesAt
<1>6. ClosesAt(text, "else", p, p)
  BY Zenon, <1>2 DEF ClosesAt, Waiting
<1>7. Around(n) \in Seq(Frames)
  BY Zenon, <1>1, <1>2, <1>3, EndsAtClosing
<1> QED
  BY Zenon, <1>1, <1>2, <1>4, <1>5, <1>6, <1>7, CompleteDescent

\* The end of a parenthesis or of a call.
LEMMA CloseParenthesisComplete ==
  ASSUME IInv, Completable, NEW n \in 1..Len(stack), CloseParenthesis(n)
  PROVE  Completable'
<1>1. /\ mode = "after" /\ At({CloseParen}) /\ (Resumes(n, "paren") \/ Resumes(n, "call"))
      /\ GoOn(Here + 1, Around(n), "after")
  BY DEF CloseParenthesis
<1>2. "paren" \in Frames /\ "call" \in Frames
  BY DEF Frames
<1>3. At({Colon, CloseParen, Comma}) /\ text[Here] = CloseParen
  BY <1>1 DEF At, Has
<1>4. CASE Resumes(n, "paren")
  <2>1. PICK p \in Nat : Reaches(Closing(text), Len(text) + 1, Around(n), p) /\ ClosesAt(text, "paren", p, Here)
    BY Zenon, <1>1, <1>2, <1>3, <1>4, EndsAtClosing
  <2>2. Tails(text, Here + 1, p)
    BY Zenon, <2>1 DEF ClosesAt
  <2> QED
    BY <1>1, <2>1, <2>2, CompleteAfter
<1>5. CASE Resumes(n, "call")
  <2>1. PICK p \in Nat : Reaches(Closing(text), Len(text) + 1, Around(n), p) /\ ClosesAt(text, "call", p, Here)
    BY Zenon, <1>1, <1>2, <1>3, <1>5, EndsAtClosing
  <2>2. Tails(text, Here + 1, p)
    BY Zenon, <1>3, <2>1, EndingsAreNoBlanks DEF ClosesAt
  <2> QED
    BY <1>1, <2>1, <2>2, CompleteAfter
<1> QED
  BY <1>1, <1>4, <1>5

\* The comma before one more argument.
LEMMA ArgumentComplete ==
  ASSUME IInv, Completable, NEW n \in 1..Len(stack), Argument(n)
  PROVE  Completable'
<1>1. /\ mode = "after" /\ At({Comma}) /\ Resumes(n, "call")
      /\ GoOn(Here + 1, Append(Around(n), "call") \o Expression, "operand")
  BY DEF Argument
<1>2. "call" \in Frames
  BY DEF Frames
<1>3. At({Colon, CloseParen, Comma}) /\ text[Here] = Comma
  BY <1>1 DEF At, Has
<1>4. PICK p \in Nat : Reaches(Closing(text), Len(text) + 1, Around(n), p) /\ ClosesAt(text, "call", p, Here)
  BY Zenon, <1>1, <1>2, <1>3, EndsAtClosing
<1>5. PICK b \in 1..Len(text) : IsA(text, Here + 1, b) /\ text[b] = CloseParen /\ Tails(text, b + 1, p)
  BY Zenon, <1>3, <1>4, EndingsAreNoBlanks DEF ClosesAt
<1>6. text \in Text /\ Here + 1 \in Nat
  BY HereIs
<1>7. PICK q \in Nat : IsE(text, Here + 1, q) /\ ClosesAt(text, "call", p, q)
  BY <1>5, <1>6, ArgumentsClose
<1>8. Around(n) \in Seq(Frames)
  BY Zenon, <1>1, <1>2, <1>3, EndsAtClosing
<1> QED
  BY Zenon, <1>1, <1>2, <1>4, <1>7, <1>8, CompleteDescent

\* When no call within the last one that waits goes on, the expression ends here.
LEMMA EndsHere ==
  ASSUME IInv, Chained, mode = "after", NEW q \in Nat, q \in Endings(text), Goes(text, Here, q),
         NEW n \in 0..Len(stack), n = 0 \/ stack[n] \in Waiting,
         \A m \in (n + 1)..Len(stack) : ~GoesOn(stack[m])
  PROVE  q = Here
<1>1. text \in Text /\ Here \in 1..(Len(text) + 1) /\ Len(text) \in Nat /\ Here \in Nat
  BY HereIs
<1>2. ASSUME NEW i \in 1..2, IsBinary(text, Here, Here + i), IsE(text, Here + i, q) PROVE FALSE
  <2>1. \E l \in 1..Len(Levels) : \E k \in 1..Len(Operators[Levels[l]]) :
            OpMatches(text, Here, Operators[Levels[l]][k])
    BY <1>1, <1>2, BinaryIsMatched
  <2> QED
    BY <2>1, OperatorIsFound
<1>3. ASSUME NEW m \in Nat, text[Here] = Question, IsE(text, Here + 1, m) PROVE FALSE
  <2>1. Here + 1 \in Nat
    BY <1>1
  <2>2. Here + 1 \in 1..Len(text)
    BY <1>1, <1>3, <2>1, InRange
  <2>3. Here <= Len(text)
    BY <1>1, <2>2
  <2>4. At({Question})
    BY <1>3, <2>3 DEF At, Has
  <2> QED
    BY <2>4, OperatorIsFound
<1> QED
  BY Zenon, <1>2, <1>3 DEF Goes

\* What a call waits for is there.
LEMMA NothingIsMissing ==
  ASSUME IInv, Chained, Completable, NEW n \in 1..Len(stack)
  PROVE  ~Expected(n)
<1> SUFFICES ASSUME Expected(n) PROVE FALSE
  OBVIOUS
<1>1. mode = "after"
  BY DEF Expected
<1>2. PICK x \in Waiting : Resumes(n, x) /\ (\/ x = "then" /\ ~At({Colon})
                                             \/ x = "paren" /\ ~At({CloseParen})
                                             \/ x = "call" /\ ~At({CloseParen, Comma}))
  BY DEF Expected, Waiting
<1>3. x \in Frames
  BY DEF Frames, Waiting
<1>4. PICK p \in Nat, q \in Nat :
         /\ ClosesAt(text, x, p, q) /\ q \in Endings(text) /\ Goes(text, Here, q)
  BY Zenon, <1>1, <1>2, <1>3, CompleteAround
<1>5. stack[n] = x /\ \A m \in (n + 1)..Len(stack) : ~GoesOn(stack[m])
  BY <1>2 DEF Resumes
<1>6. n \in 0..Len(stack)
  BY HereIs
<1>7. q = Here
  BY <1>1, <1>4, <1>5, <1>6, EndsHere
<1>8. q \in 1..Len(text)
  BY Zenon, <1>4 DEF ClosesAt
<1>9. Here <= Len(text)
  BY <1>7, <1>8, HereIs
<1>10. /\ x = "then" => text[Here] = Colon
       /\ x = "paren" => text[Here] = CloseParen
       /\ x = "call" => text[Here] \in {CloseParen, Comma}
  BY Zenon, <1>4, <1>7 DEF ClosesAt
<1> QED
  BY <1>2, <1>9, <1>10 DEF At, Has

\* Nothing is left behind the expression.
LEMMA EndsComplete ==
  ASSUME IInv, Chained, Completable, Ends
  PROVE  Completable'
<1>1. /\ mode = "after" /\ \A n \in 1..Len(stack) : ~GoesOn(stack[n])
      /\ GoOn(Here, <<>>, IF Here > Len(text) THEN "accepted" ELSE "refused")
  BY DEF Ends
<1>2. Here \in 1..(Len(text) + 1) /\ Len(text) \in Nat /\ stack \in Seq(Frames) /\ 0 \in 0..Len(stack)
  BY HereIs
<1>3. PICK q \in Nat : /\ Reaches(Closing(text), Len(text) + 1, stack, q) /\ q \in Endings(text)
                       /\ Goes(text, Here, q)
  BY <1>1, CompleteHere
<1>4. \A n \in 1..Len(stack) : stack[n] \notin Waiting
  BY <1>1, WaitingGoOn
<1>5. q = Len(text) + 1
  BY Zenon, <1>2, <1>3, <1>4, ClosingIs, ReachesOutermost
<1>6. \A m \in (0 + 1)..Len(stack) : ~GoesOn(stack[m])
  BY <1>1
<1>7. q = Here
  BY <1>1, <1>2, <1>3, <1>6, EndsHere
<1>8. Here > Len(text)
  BY <1>2, <1>5, <1>7
<1>9. GoOn(Here, <<>>, "accepted")
  BY <1>1, <1>8
<1> QED
  BY <1>9, CompleteStops

\* Every step keeps it.
LEMMA StepComplete == IInv /\ Chained /\ Complete /\ [Next]_vars => Complete'
<1> SUFFICES ASSUME IInv, Chained, Complete, [Next]_vars, IsE(text, 1, Len(text) + 1)', ~Completable' PROVE FALSE
  BY DEF Complete
<1>1. text' = text
  <2>1. \A position, calls, newMode : GoOn(position, calls, newMode) => text' = text
    BY DEF GoOn
  <2> QED
    BY <2>1 DEF Next, vars, Unary, Parenthesis, Variable, Braced, Number, Bracket, Quoted, Constant, Call, NoOperand,
       Literal, Operator, Condition, Otherwise, CloseParenthesis, Argument, Expected, Ends, Done
<1>2. Completable
  BY <1>1 DEF Complete, IsE, ExprIn
<1>3. CASE Variable \/ Braced \/ Number \/ Bracket \/ Quoted \/ Constant
  <2>1. /\ mode = "operand" /\ text[Here] \in OperandStarts \ {OpenParen} /\ (text[Here] \in NameStart => ~Calls)
        /\ (ReadsOperand \/ GoOn(Here, stack, "nested"))
    BY <1>3, OperandIsRead
  <2> QED
    BY <1>2, <2>1, ReadsComplete, CompleteStops
<1>4. CASE UNCHANGED vars
  BY <1>2, <1>4 DEF vars, Completable
<1>5. Done => UNCHANGED vars
  BY DEF Done
<1> QED
  BY Zenon, <1>2, <1>3, <1>4, <1>5, UnaryComplete, ParenthesisComplete, CallComplete, OperandIsThere, OperatorComplete,
     ConditionComplete, OtherwiseComplete, CloseParenthesisComplete, ArgumentComplete, NothingIsMissing, EndsComplete
     DEF Next

------------------------------------------------------------------------------
\* The descent through the levels of precedence (expr.c) accepts exactly what the
\* grammar without levels derives: what is accepted is an expression, and nothing
\* that is one is refused.
THEOREM ExpressionsAreAccepted == Spec => []AcceptsGrammar
<1> DEFINE Inv == IInv /\ Sound /\ Chained /\ Complete
<1>1. Init => Inv
  BY InitIInv, InitSound, InitChained, InitComplete
<1>2. Inv /\ [Next]_vars => Inv'
  BY StepKeepsIInv, StepSound, StepChained, StepComplete
<1>3. Inv => AcceptsGrammar
  <2>1. IsExpression(text) <=> IsE(text, 1, Len(text) + 1)
    BY DEF IsExpression, IsE, ExprIn, Span
  <2> QED
    BY <2>1 DEF AcceptsGrammar, Sound, Complete, Completable
<1> QED
  BY <1>1, <1>2, <1>3, PTL DEF Spec

------------------------------------------------------------------------------
\* A step reads on in the same text.
Consumes == text' = text /\ index' \in (index + 1)..(Len(text) + 1)

\* A literal that ends behind the position.
LEMMA LiteralReads ==
  ASSUME IInv, NEW end, Literal(end), end # 0 => end \in (index + 1)..(Len(text) + 1)
  PROVE  Decided' \/ Consumes
BY DEF Literal, GoOn, Decided, Consumes

\* An operand is read, or the expression is decided.
LEMMA OperandReads ==
  ASSUME IInv,
         Unary \/ Parenthesis \/ Variable \/ Braced \/ Number \/ Bracket \/ Quoted
         \/ Constant \/ Call \/ NoOperand
  PROVE  Decided' \/ Consumes
<1>1. text \in Text /\ Len(text) \in Nat /\ index \in 1..(Len(text) + 1)
  BY DEF IInv, Text
<1>2. /\ Here \in index..(Len(text) + 1) /\ Here \in 1..(Len(text) + 1)
      /\ \A class : At(class) => Here \in 1..Len(text)
  BY HereBounds
<1>3. CASE Unary
  BY <1>1, <1>2, <1>3 DEF Unary, GoOn, Consumes
<1>4. CASE Parenthesis
  BY <1>1, <1>2, <1>4 DEF Parenthesis, GoOn, Consumes
<1>5. CASE Variable \/ Braced \/ Number \/ Bracket \/ Quoted \/ Constant
  <2>1. Here \in 1..Len(text) /\ (ReadsOperand \/ GoOn(Here, stack, "nested"))
    BY <1>5, OperandIsRead
  <2>2. OperandEnd(text, Here) # 0 => OperandEnd(text, Here) \in (Here + 1)..(Len(text) + 1)
    BY <1>1, <2>1, OperandEndBehind
  <2> QED
    BY <1>1, <1>2, <2>1, <2>2 DEF ReadsOperand, GoOn, Decided, Consumes
<1>6. CASE Call
  <2> DEFINE open == SkipBlanks(text, NameEnd)
             arguments == SkipBlanks(text, open + 1)
             calls == Append(stack, "call") \o Expression
  <2>1. NameEnd \in Here..(Len(text) + 1)
    BY <1>1, <1>2, RunEndBounds DEF NameEnd
  <2>2. open \in NameEnd..(Len(text) + 1)
    BY <1>1, <1>2, <2>1, RunEndBounds DEF SkipBlanks
  <2>3. open <= Len(text)
    BY <1>6 DEF Call, Calls, Has
  <2>4. open + 1 \in 1..(Len(text) + 1)
    BY <1>1, <1>2, <2>1, <2>2, <2>3
  <2>5. arguments \in (open + 1)..(Len(text) + 1)
    BY <1>1, <2>4, RunEndBounds DEF SkipBlanks
  <2>6. \/ Has(text, arguments, {CloseParen}) /\ GoOn(arguments + 1, stack, "after")
        \/ GoOn(arguments, calls, "operand")
    BY Zenon, <1>6 DEF Call
  <2>7. text' = text
        /\ (index' = arguments \/ (index' = arguments + 1 /\ arguments <= Len(text)))
    BY <2>6 DEF GoOn, Has
  <2> HIDE DEF open, arguments, calls
  <2> QED
    BY <1>1, <1>2, <2>1, <2>2, <2>5, <2>7 DEF Consumes
<1>7. CASE NoOperand
  BY <1>7 DEF NoOperand, Literal, GoOn, Decided
<1> QED
  BY Zenon, <1>3, <1>4, <1>5, <1>6, <1>7

\* Behind an operand an operator or a character that a call waits for is read.
LEMMA ReturnReads ==
  ASSUME IInv, NEW n \in 1..Len(stack),
         \/ \E k \in 1..Len(Levels) : Operator(Levels[k], n)
         \/ Condition(n) \/ Otherwise(n) \/ CloseParenthesis(n) \/ Argument(n) \/ Expected(n)
  PROVE  Decided' \/ Consumes
<1>1. Len(text) \in Nat /\ index \in 1..(Len(text) + 1)
  BY DEF IInv, Text
<1>2. /\ Here \in index..(Len(text) + 1) /\ Here \in 1..(Len(text) + 1)
      /\ \A class : At(class) => Here \in 1..Len(text)
  BY HereBounds
<1>3. ASSUME NEW k \in 1..Len(Levels), Operator(Levels[k], n) PROVE Consumes
  <2> DEFINE level == Levels[k]
  <2>1. PICK o \in 1..Len(Operators[level]) :
               /\ FirstMatches(text, Here, level, o)
               /\ text' = text /\ index' = Here + Len(Operators[level][o].spelling)
    BY Zenon, <1>3 DEF Operator, GoOn
  <2> DEFINE size == Len(Operators[level][o].spelling)
  <2>2. size \in 1..2
    BY OperatorsAreSpelled
  <2>3. Here + size <= Len(text) + 1 /\ index' = Here + size
    BY <2>1 DEF FirstMatches, OpMatches
  <2> HIDE DEF size
  <2> QED
    BY <1>1, <1>2, <2>1, <2>2, <2>3 DEF Consumes
<1>4. CASE Condition(n) \/ Otherwise(n) \/ CloseParenthesis(n) \/ Argument(n)
  <2>1. Here \in 1..Len(text)
    BY <1>2, <1>4 DEF Condition, Otherwise, CloseParenthesis, Argument, Resumes, GoesOn
  <2>2. text' = text /\ index' = Here + 1
    BY Zenon, <1>4 DEF Condition, Otherwise, CloseParenthesis, Argument, GoOn
  <2> QED
    BY <1>1, <1>2, <2>1, <2>2 DEF Consumes
<1>5. CASE Expected(n)
  BY <1>5 DEF Expected, GoOn, Decided
<1> QED
  BY Zenon, <1>3, <1>4, <1>5

\* Every step of the descent reads a character or decides the expression, whatever
\* calls are in progress: a call that returns does so in the step that goes on, and no
\* level looks at an operator again (expr.c:545-873).  So an expression is decided after
\* as many steps as it has characters, and one.
THEOREM EveryStepReads ==
  Spec => [][Decided \/ Decided' \/ Consumes]_vars
<1>1. ASSUME IInv, [Next]_vars PROVE [Decided \/ Decided' \/ Consumes]_vars
  <2>1. CASE Ends
    BY <2>1 DEF Ends, GoOn, Decided
  <2> QED
    BY Zenon, <1>1, <2>1, OperandReads, ReturnReads DEF Next, Done
<1> QED
  BY <1>1, InitIInv, StepKeepsIInv, PTL DEF Spec

==============================================================================
