---------------------------- MODULE Scripts_proofs ----------------------------
(***************************************************************************)
(* Theorems about the parses, for scripts of every length and any number   *)
(* of them: nothing of a script is lost, every word has the place where it *)
(* stands, the lexer and the grammar agree on where a command starts, a    *)
(* parse that fails says why, a script parses to the same commands         *)
(* whatever was parsed before, and every match takes a character.          *)
(*                                                                         *)
(* In this order: what the preprocessing and the patterns return, where    *)
(* places lie, the few shapes that the steps of a parse have, the parts of *)
(* the invariant, shape by shape, and a parse as a value that has one step *)
(* only.                                                                   *)
(***************************************************************************)
EXTENDS ScriptProperties, Texts_proofs

\* A prepared script has no backslash before a line end, but at its very end.
Prepared(t) ==
  \A k \in 1..(Len(t) - 1) : t[k] = "backslash" /\ t[k + 1] \in LineEnds => k + 1 = Len(t)

JoinedIn(script) == {i \in 1..Len(script) : Joins(script, i)}
DroppedIn(script) == UNION {(i + 1)..(JoinedEnd(script, i) - 1) : i \in JoinedIn(script)}

\* What a joined line takes: its end, and the blanks behind it.
LEMMA DroppedIs ==
  ASSUME NEW script \in Seq(Chars), NEW i \in DroppedIn(script)
  PROVE  /\ i \in Int
         /\ script[i] \in {"blank"} \union LineEnds
         /\ i - 1 \in JoinedIn(script) \union DroppedIn(script)
<1>1. PICK j \in JoinedIn(script) : i \in (j + 1)..(JoinedEnd(script, j) - 1)
  BY DEF DroppedIn
<1> DEFINE line == IF script[j + 1] = "return" /\ Has(script, j + 2, {"newline"})
                   THEN j + 3 ELSE j + 2
           end == RunEnd(script, line, {"blank"})
<1>2. /\ Len(script) \in Nat /\ j \in 1..Len(script) /\ j + 1 <= Len(script)
      /\ script[j + 1] \in LineEnds
  BY DEF JoinedIn, Joins, Has
<1>3. /\ line \in {j + 2, j + 3} /\ line <= Len(script) + 1
      /\ line = j + 3 => script[j + 2] \in LineEnds
  BY <1>2 DEF Has, LineEnds
<1> HIDE DEF line
<1>4. /\ end \in Int
      /\ \A k \in line..(end - 1) : script[k] \in {"blank"}
  BY <1>2, <1>3, RunEndIs
<1>5. JoinedEnd(script, j) = end
  BY DEF JoinedEnd, line
<1> HIDE DEF end
<1>6. i \in Int /\ i >= j + 1 /\ i <= end - 1
  BY <1>1, <1>2, <1>4, <1>5
<1>7. script[i] \in {"blank"} \union LineEnds
  BY <1>2, <1>3, <1>4, <1>6
<1>8. CASE i = j + 1
  BY <1>2, <1>7, <1>8
<1>9. CASE i > j + 1
  <2>1. i - 1 \in (j + 1)..(JoinedEnd(script, j) - 1)
    BY <1>2, <1>4, <1>5, <1>6, <1>9
  <2> QED
    BY <1>6, <1>7, <2>1 DEF DroppedIn
<1> QED
  BY <1>2, <1>6, <1>8, <1>9

\* A prepared script consists of characters, and no backslash is left before a line
\* end, but for one before the newline that preprocess_script adds.
LEMMA PreprocessIs ==
  ASSUME NEW script \in Seq(Chars)
  PROVE  Preprocess(script) \in Seq(Chars) /\ Prepared(Preprocess(script))
<1> DEFINE last == Len(script)
           joined == JoinedIn(script)
           dropped == DroppedIn(script)
           char(i) == IF i \in joined THEN "blank" ELSE script[i]
           Step(q, i) == IF i \in dropped THEN q ELSE Append(q, char(i))
           Written(g) == [i \in 0..last |-> IF i = 0 THEN <<>>
                                            ELSE IF i \in dropped THEN g[i - 1]
                                            ELSE Append(g[i - 1], IF i \in joined THEN "blank"
                                                                 ELSE script[i])]
           output == CHOOSE g : g = Written(g)
           step == [p \in Seq(Chars) \X (1..last) |-> Step(p[1], p[2])]
<1>1. Preprocess(script) = Append(output[last], "newline")
  BY DEF Preprocess, JoinedIn, DroppedIn
<1>2. last \in Nat /\ \A i \in 1..last : script[i] \in Chars /\ char(i) \in Chars
  BY DEF Chars
<1>3. ASSUME NEW g, NEW i \in 1..last
      PROVE  Written(g)[i] = Step(g[i - 1], i)
  <2> HIDE DEF last, joined, dropped
  <2>1. i \in 0..last /\ i # 0
    BY <1>2
  <2> QED
    BY Zenon, <2>1
<1>4. \A g : Written(g)[0] = <<>> /\ DOMAIN Written(g) = 0..last
  BY <1>2
<1> HIDE DEF char, last, joined, dropped
<1>5. \A q \in Seq(Chars), i \in 1..last : Step(q, i) \in Seq(Chars)
  BY <1>2, AppendProperties
<1> HIDE DEF Step
<1>6. PICK g : GoesBy(g, 0, last, Seq(Chars), <<>>, step)
  <2>1. <<>> \in Seq(Chars) /\ 0 \in Int /\ last \in Int /\ 0 <= last
    BY <1>2
  <2>2. \A q \in Seq(Chars) : \A i \in (0 + 1)..last : step[<<q, i>>] \in Seq(Chars)
    BY <1>5
  <2> HIDE DEF step
  <2> QED
    BY Zenon, <2>1, <2>2, Recursion
<1>7. g = Written(g)
  <2>1. g \in [0..last -> Seq(Chars)] /\ g[0] = <<>>
    BY <1>6 DEF GoesBy
  <2>2. ASSUME NEW i \in 1..last PROVE g[i] = Written(g)[i]
    <3>1. <<g[i - 1], i>> \in Seq(Chars) \X (1..last)
      BY <1>2, <2>1
    <3>2. step[<<g[i - 1], i>>] = Step(g[i - 1], i)
      BY <3>1
    <3> HIDE DEF Written, step
    <3>3. g[i] = step[<<g[i - 1], i>>]
      <4>1. i \in (0 + 1)..last
        BY <1>2
      <4> QED
        BY Zenon, <1>6, <4>1 DEF GoesBy
    <3> QED
      BY <1>3, <3>2, <3>3
  <2>3. \A i \in 0..last : i = 0 \/ i \in 1..last
    BY <1>2
  <2>4. Written(g) = [i \in 0..last |-> Written(g)[i]]
    OBVIOUS
  <2> HIDE DEF Written
  <2>5. \A i \in 0..last : g[i] = Written(g)[i]
    BY <1>4, <2>1, <2>2, <2>3
  <2> QED
    BY <2>1, <2>4, <2>5
<1> HIDE DEF Written, step
<1>8. output = Written(output)
  BY ONLY <1>7
<1> HIDE DEF output
<1>9. output[0] = <<>> /\ \A i \in 1..last : output[i] = Step(output[i - 1], i)
  BY <1>3, <1>4, <1>8
<1> DEFINE Holds(q, i) ==
             /\ q \in Seq(Chars)
             /\ \A k \in 1..(Len(q) - 1) : ~(q[k] = "backslash" /\ q[k + 1] \in LineEnds)
             /\ i \in joined \union dropped => Len(q) > 0 /\ q[Len(q)] = "blank"
             /\ Len(q) > 0 /\ q[Len(q)] = "backslash" => script[i] = "backslash" /\ i \notin joined
           S == {i \in 0..last : Holds(output[i], i)}
<1>10. 0 \in S
  <2>1. 0 \notin joined /\ 0 \notin dropped
    <3>1. 0 \notin dropped
      BY <1>2 DEF dropped, DroppedIn, JoinedIn
    <3> QED
      BY <1>2, <3>1 DEF joined, JoinedIn
  <2>2. Holds(<<>>, 0)
    BY <2>1
  <2>3. 0 \in 0..last
    BY <1>2
  <2> HIDE DEF Holds
  <2> QED
    BY <1>9, <2>2, <2>3
<1>11. ASSUME NEW i \in (0 + 1)..last, i - 1 \in S PROVE i \in S
  <2> DEFINE q == output[i - 1]
  <2>1. i \in 1..last /\ i \in 0..last
    BY <1>2
  <2>2. output[i] = Step(q, i)
    BY <1>9, <2>1
  <2>3. Holds(q, i - 1)
    BY <1>11
  <2> HIDE DEF q
  <2>4. CASE i \in dropped
    <3>1. i - 1 \in joined \union dropped
      BY <2>4, DroppedIs DEF joined, dropped
    <3>2. output[i] = q
      BY <2>2, <2>4 DEF Step
    <3>3. Holds(q, i)
      BY <2>3, <3>1
    <3> QED
      BY <2>1, <3>2, <3>3
  <2>5. CASE i \notin dropped
    <3> DEFINE r == Append(q, char(i))
    <3>1. output[i] = r
      BY <2>2, <2>5 DEF Step
    <3>2. /\ r \in Seq(Chars) /\ Len(r) = Len(q) + 1 /\ r[Len(r)] = char(i)
          /\ \A k \in 1..Len(q) : r[k] = q[k]
          /\ Len(q) \in Nat
      BY <1>2, <2>1, <2>3, AppendProperties
    <3> HIDE DEF r
    <3>3. /\ i \in joined => char(i) = "blank"
          /\ i \notin joined => char(i) = script[i]
      BY DEF char
    <3>4. ASSUME Len(q) > 0, q[Len(q)] = "backslash" PROVE char(i) \notin LineEnds
      <4>1. script[i - 1] = "backslash" /\ i - 1 \notin joined
        BY <2>3, <3>4
      <4>2. ASSUME char(i) \in LineEnds PROVE FALSE
        <5>1. i \notin joined /\ script[i] \in LineEnds
          BY <3>3, <4>2 DEF LineEnds
        <5>2. i - 1 # 0
          <6>1. CASE i = 1
            BY <1>9, <3>4, <6>1 DEF q
          <6> QED
            BY <6>1
        <5>3. i - 1 \in joined
          <6>1. i - 1 \in 1..Len(script) /\ (i - 1) + 1 = i /\ i <= Len(script)
            BY <1>2, <2>1, <5>2 DEF last
          <6> QED
            BY <4>1, <5>1, <6>1 DEF joined, JoinedIn, Joins, Has
        <5> QED
          BY <4>1, <5>3
      <4> QED
        BY <4>2
    <3>5. ASSUME NEW k \in 1..(Len(r) - 1)
          PROVE  ~(r[k] = "backslash" /\ r[k + 1] \in LineEnds)
      <4>1. CASE k < Len(q)
        BY <2>3, <3>2, <4>1
      <4>2. CASE k = Len(q)
        BY <3>2, <3>4, <4>2
      <4> QED
        BY <3>2, <4>1, <4>2
    <3>6. Holds(r, i)
      BY <2>5, <3>2, <3>3, <3>5
    <3> QED
      BY <2>1, <3>1, <3>6
  <2> QED
    BY <2>4, <2>5
<1> HIDE DEF S
<1>12. \A i \in 0..last : i \in S
  <2>1. 0 \in Int /\ last \in Int
    BY <1>2
  <2> QED
    BY ONLY <1>10, <1>11, <2>1, BoundedInduction
<1>13. Holds(output[last], last)
  BY <1>2, <1>12 DEF S
<1> DEFINE q == output[last]
           r == Append(q, "newline")
<1>14. q \in Seq(Chars) /\ Len(q) \in Nat
       /\ \A k \in 1..(Len(q) - 1) : ~(q[k] = "backslash" /\ q[k + 1] \in LineEnds)
  BY <1>13
<1> HIDE DEF q, Holds
<1>15. /\ r \in Seq(Chars) /\ Len(r) = Len(q) + 1
       /\ \A k \in 1..Len(q) : r[k] = q[k]
  BY <1>14, AppendProperties DEF Chars
<1> HIDE DEF r
<1>16. Prepared(r)
  BY <1>14, <1>15 DEF Prepared
<1> QED
  BY <1>1, <1>15, <1>16 DEF q, r

------------------------------------------------------------------------------
\* What is before the first character of a class.
LEMMA BeforeIs ==
  ASSUME NEW t \in Seq(Chars), NEW i \in Nat \ {0}, i <= Len(t) + 1, NEW class
  PROVE  /\ Before(t, i, class) \in i..(Len(t) + 1)
         /\ \A k \in i..(Before(t, i, class) - 1) : t[k] \notin class
         /\ Before(t, i, class) <= Len(t) => t[Before(t, i, class)] \in class
         /\ i <= Len(t) /\ t[i] \notin class => Before(t, i, class) > i
<1> DEFINE e == RunEnd(t, i, Chars \ class)
<1>1. /\ Len(t) \in Nat /\ \A k \in 1..Len(t) : t[k] \in Chars
      /\ Before(t, i, class) = e
  BY ElementOfSeq DEF Before
<1>2. /\ e \in i..(Len(t) + 1)
      /\ \A k \in i..(e - 1) : t[k] \in Chars \ class
      /\ e <= Len(t) => t[e] \notin Chars \ class
      /\ Has(t, i, Chars \ class) => e > i
  BY <1>1, RunEndIs
<1> HIDE DEF e
<1>3. e <= Len(t) => t[e] \in class
  BY <1>1, <1>2
<1>4. i <= Len(t) /\ t[i] \notin class => e > i
  BY <1>1, <1>2 DEF Has
<1> QED
  BY <1>1, <1>2, <1>3, <1>4

\* A word in quotes ends behind a quote in its line.
LEMMA QuotedEndIs ==
  ASSUME NEW t \in Seq(Chars), NEW i \in 1..Len(t), QuotedEnd(t, i) # 0
  PROVE  /\ QuotedEnd(t, i) \in (i + 2)..(Len(t) + 1)
         /\ \A k \in (i + 1)..(QuotedEnd(t, i) - 1) : t[k] # "newline"
         /\ t[QuotedEnd(t, i) - 1] = "quote"
<1> DEFINE line == Before(t, i + 1, {"newline"})
           stops == {k \in (i + 1)..(line - 1) : t[k] = "quote" /\ ~Escaped(t, i + 1, k)}
           last == FirstIn(t, i + 1, stops)
<1>1. Len(t) \in Nat /\ i + 1 \in Nat \ {0} /\ i + 1 <= Len(t) + 1
  OBVIOUS
<1>2. /\ line \in (i + 1)..(Len(t) + 1)
      /\ \A k \in (i + 1)..(line - 1) : t[k] \notin {"newline"}
  BY <1>1, BeforeIs
<1>3. /\ last \in (i + 1)..(Len(t) + 1)
      /\ last <= Len(t) => last \in stops
  <2> HIDE DEF stops
  <2> QED
    BY <1>1, FirstInIs
<1>4. QuotedEnd(t, i) = IF last < line THEN last + 1 ELSE 0
  BY DEF QuotedEnd
<1>5. last \in stops => t[last] = "quote"
  OBVIOUS
<1> HIDE DEF line, stops, last
<1> QED
  BY <1>1, <1>2, <1>3, <1>4, <1>5

\* A variable ends where an unquoted word would.
LEMMA VariableEndIs ==
  ASSUME NEW t \in Seq(Chars), NEW i \in 1..Len(t), t[i] \notin WordStops,
         VariableEnd(t, i) # 0
  PROVE  /\ VariableEnd(t, i) \in (i + 1)..(Len(t) + 1)
         /\ \A k \in i..(VariableEnd(t, i) - 1) : t[k] \notin WordStops
<1> DEFINE run == Before(t, i, WordStops)
<1>1. VariableEnd(t, i) = run
  BY DEF VariableEnd
<1>2. Len(t) \in Nat /\ i \in Nat \ {0} /\ i <= Len(t)
  OBVIOUS
<1>3. /\ run \in i..(Len(t) + 1)
      /\ \A k \in i..(run - 1) : t[k] \notin WordStops
      /\ run > i
  BY <1>2, BeforeIs
<1> HIDE DEF run
<1> QED
  BY <1>1, <1>2, <1>3

\* A variable in braces ends behind a brace in its line.
LEMMA BracedVariableEndIs ==
  ASSUME NEW t \in Seq(Chars), NEW i \in 1..Len(t), t[i] = "dollar",
         BracedVariableEnd(t, i) # 0
  PROVE  /\ BracedVariableEnd(t, i) \in (i + 4)..(Len(t) + 1)
         /\ \A k \in i..(BracedVariableEnd(t, i) - 1) : t[k] \notin LineEnds
         /\ t[BracedVariableEnd(t, i) - 1] = "closeBrace"
<1> DEFINE class == {"closeBrace"} \union LineEnds
           last == Before(t, i + 2, class)
<1>1. /\ BracedVariableEnd(t, i) = last + 1
      /\ Has(t, i + 1, {"openBrace"}) /\ Has(t, last, {"closeBrace"}) /\ last > i + 2
  BY DEF BracedVariableEnd
<1>2. /\ Len(t) \in Nat /\ i \in Nat \ {0}
      /\ i + 1 <= Len(t) /\ t[i + 1] = "openBrace"
      /\ last <= Len(t) /\ t[last] = "closeBrace"
  BY <1>1 DEF Has
<1>3. i + 2 \in Nat \ {0} /\ i + 2 <= Len(t) + 1
  BY <1>2
<1>4. /\ last \in (i + 2)..(Len(t) + 1)
      /\ \A k \in (i + 2)..(last - 1) : t[k] \notin class
  BY <1>3, BeforeIs
<1> HIDE DEF last
<1>5. \A k \in i..last : t[k] \notin LineEnds
  BY <1>2, <1>4 DEF LineEnds
<1> QED
  BY <1>1, <1>2, <1>4, <1>5

\* The states of a scanner in brackets, as far as the proofs need them.
BracketStates == [bracket : Int, brace : Int, quote : Int, escaped : {0, 1}]

\* One character more for the bracket scanner: an escape is pending only behind a
\* backslash, and line ends open and close nothing.
LEMMA UpdateIs ==
  ASSUME NEW s \in BracketStates, NEW c
  PROVE  /\ UpdateBracketState(s, c) \in BracketStates
         /\ UpdateBracketState(s, c).escaped # 0 => c = "backslash"
         /\ c \in LineEnds => UpdateBracketState(s, c).bracket = s.bracket
BY DEF UpdateBracketState, BracketStates, Flag, LineEnds

\* Where an unquoted word ends: behind what its pattern took, and with a
\* delimiter behind it, its last character is no line end.
LEMMA UnquotedWordIs ==
  ASSUME NEW t \in Seq(Chars), Prepared(t), NEW i \in 1..Len(t),
         NEW from \in (i + 1)..(Len(t) + 1), t[from - 1] \notin LineEnds
  PROVE  LET word == UnquotedWord(t, i, from)
         IN /\ word.end \in from..(Len(t) + 1)
            /\ word.delimited => t[word.end - 1] \notin LineEnds
<1> DEFINE n == Len(t)
           State(g) == [k \in (i - 1)..n |->
                          IF k < i THEN Start ELSE UpdateBracketState(g[k - 1], t[k])]
           state == CHOOSE g : g = State(g)
           stops == {k \in from..n : /\ t[k] \in Delimiters
                                     /\ state[k - 1].bracket = 0
                                     /\ state[k - 1].escaped = 0}
           end == FirstIn(t, from, stops)
           step == [p \in BracketStates \X (i..n) |-> UpdateBracketState(p[1], t[p[2]])]
<1>1. UnquotedWord(t, i, from) = [end |-> end, delimited |-> end <= n,
                                  open |-> state[n].bracket > 0]
  BY DEF UnquotedWord
<1>2. n \in Nat /\ from \in Nat \ {0} /\ from <= n + 1 /\ from > i /\ i \in Int /\ i >= 1 /\ i <= n
  OBVIOUS
<1>3. ASSUME NEW g
      PROVE  /\ State(g)[i - 1] = Start
             /\ \A k \in i..n : State(g)[k] = UpdateBracketState(g[k - 1], t[k])
             /\ State(g) = [k \in (i - 1)..n |-> State(g)[k]]
  <2> HIDE DEF n
  <2>1. i - 1 \in (i - 1)..n /\ i - 1 < i
    BY <1>2
  <2>2. \A k \in i..n : k \in (i - 1)..n /\ ~(k < i)
    BY <1>2
  <2>3. State(g)[i - 1] = Start
    BY <2>1
  <2>4. \A k \in i..n : State(g)[k] = UpdateBracketState(g[k - 1], t[k])
    BY Zenon, <2>2
  <2> QED
    BY <2>3, <2>4
<1> HIDE DEF n, State
<1>4. PICK g : GoesBy(g, i - 1, n, BracketStates, Start, step)
  <2>1. Start \in BracketStates /\ i - 1 \in Int /\ n \in Int /\ i - 1 <= n
    BY <1>2 DEF Start, BracketStates
  <2>2. ASSUME NEW s \in BracketStates, NEW k \in ((i - 1) + 1)..n
        PROVE  step[<<s, k>>] \in BracketStates
    <3>1. <<s, k>> \in BracketStates \X (i..n)
      BY <1>2
    <3>2. step[<<s, k>>] = UpdateBracketState(s, t[k])
      BY <3>1
    <3> QED
      BY <3>2, UpdateIs
  <2> HIDE DEF step
  <2> QED
    BY Zenon, <2>1, <2>2, Recursion
<1>5. g = State(g)
  <2>1. g \in [(i - 1)..n -> BracketStates] /\ g[i - 1] = Start
    BY <1>4 DEF GoesBy
  <2>2. ASSUME NEW k \in i..n PROVE g[k] = State(g)[k]
    <3>1. k \in ((i - 1) + 1)..n
      BY <1>2
    <3>2. <<g[k - 1], k>> \in BracketStates \X (i..n)
      BY <1>2, <2>1
    <3>3. step[<<g[k - 1], k>>] = UpdateBracketState(g[k - 1], t[k])
      BY <3>2
    <3> HIDE DEF step
    <3>4. g[k] = step[<<g[k - 1], k>>]
      BY Zenon, <1>4, <3>1 DEF GoesBy
    <3> QED
      BY <1>3, <3>3, <3>4
  <2>3. \A k \in (i - 1)..n : k = i - 1 \/ k \in i..n
    BY <1>2
  <2>4. \A k \in (i - 1)..n : g[k] = State(g)[k]
    BY <1>3, <2>1, <2>2, <2>3
  <2> QED
    BY <1>3, <2>1, <2>4
<1> HIDE DEF step
<1>6. state = State(state)
  BY ONLY <1>5
<1>7. state[i - 1] = Start /\ \A k \in i..n : state[k] = UpdateBracketState(state[k - 1], t[k])
  BY <1>3, <1>6
<1> HIDE DEF state
<1> DEFINE S == {k \in (i - 1)..n : /\ state[k] \in BracketStates
                                    /\ state[k].escaped # 0 => t[k] = "backslash" /\ k >= i
                                    /\ k >= i /\ t[k] \in LineEnds =>
                                         state[k].bracket = state[k - 1].bracket}
<1>8. \A k \in (i - 1)..n : k \in S
  <2>1. i - 1 \in S
    BY <1>2, <1>7 DEF Start, BracketStates
  <2>2. ASSUME NEW k \in ((i - 1) + 1)..n, k - 1 \in S PROVE k \in S
    <3>1. k \in i..n /\ k \in (i - 1)..n
      BY <1>2
    <3>2. state[k] = UpdateBracketState(state[k - 1], t[k]) /\ state[k - 1] \in BracketStates
      BY <1>7, <2>2, <3>1
    <3> QED
      BY <1>2, <3>1, <3>2, UpdateIs
  <2>3. i - 1 \in Int /\ n \in Int
    BY <1>2
  <2> HIDE DEF S
  <2> QED
    BY ONLY <2>1, <2>2, <2>3, BoundedInduction
<1>9. /\ end \in from..(n + 1)
      /\ \A k \in from..(end - 1) : k \notin stops
      /\ end <= n => end \in stops
  <2> HIDE DEF stops
  <2> QED
    BY <1>2, FirstInIs DEF n
<1> HIDE DEF end
<1>10. ASSUME end <= n, t[end - 1] \in LineEnds PROVE FALSE
  <2>1. /\ state[end - 1].bracket = 0 /\ state[end - 1].escaped = 0
    BY <1>9, <1>10
  <2>2. end # from /\ end - 1 \in from..(end - 1) /\ end - 1 \in from..n /\ end - 1 \in i..n
    BY <1>2, <1>9, <1>10
  <2>3. end - 1 \notin stops /\ t[end - 1] \in Delimiters
    BY <1>9, <1>10, <2>2 DEF Delimiters
  <2>4. ~(state[end - 2].bracket = 0 /\ state[end - 2].escaped = 0)
    <3>1. (end - 1) - 1 = end - 2
      BY <1>2, <1>9
    <3> QED
      BY <2>2, <2>3, <3>1
  <2>5. state[end - 2].bracket = 0
    <3>1. end - 1 \in (i - 1)..n /\ end - 1 >= i
      BY <1>2, <2>2
    <3>2. (end - 1) - 1 = end - 2
      BY <1>2, <1>9
    <3>3. end - 1 \in S
      BY <1>8, <3>1
    <3> QED
      BY <1>10, <2>1, <3>1, <3>2, <3>3
  <2>6. t[end - 2] = "backslash" /\ end - 2 >= i
    <3>1. end - 2 \in (i - 1)..n
      BY <1>2, <1>9, <2>2
    <3>2. end - 2 \in S
      BY <1>8, <3>1
    <3> QED
      BY <2>4, <2>5, <3>2
  <2>7. end - 2 \in 1..(Len(t) - 1) /\ (end - 2) + 1 = end - 1 /\ end - 1 # Len(t)
    BY <1>2, <1>9, <1>10, <2>6 DEF n
  <2> QED
    BY <1>10, <2>6, <2>7 DEF Prepared
<1> DEFINE word == UnquotedWord(t, i, from)
<1>11. word.end = end /\ (word.delimited => end <= n)
  <2> DEFINE delimited == end <= n
             open == state[n].bracket > 0
  <2>1. word = [end |-> end, delimited |-> delimited, open |-> open]
    BY <1>1
  <2> HIDE DEF word, delimited, open
  <2>2. word.end = end /\ word.delimited = delimited
    BY <2>1
  <2> QED
    BY Zenon, <2>2 DEF delimited
<1> HIDE DEF word
<1>12. word.end \in from..(Len(t) + 1) /\ (word.delimited => t[word.end - 1] \notin LineEnds)
  BY <1>9, <1>10, <1>11 DEF n
<1> QED
  BY <1>12 DEF word

------------------------------------------------------------------------------
\* The lines that begin before position i.
Newlines(i) == {k \in 1..(i - 1) : text[k] = "newline"}
Last(set) == CHOOSE k \in set : \A m \in set : m <= k

NoReturns == \A i \in 1..Len(text) : text[i] # "return"

\* The last one of some positions.
LEMMA LastIs ==
  ASSUME NEW n \in Nat, NEW A \in SUBSET (0..n), A # {}
  PROVE  Last(A) \in A /\ \A m \in A : m <= Last(A)
BY GreatestElement DEF Last

\* The place of a character, with and without lines before it.
LEMMA PlaceIs ==
  ASSUME NEW i \in Nat \ {0}
  PROVE  /\ PlaceOf(i) \in Places
         /\ Newlines(i) = {} => PlaceOf(i) = [line |-> Origin.line, column |-> Origin.column + i - 1]
         /\ Newlines(i) # {} =>
              PlaceOf(i) = [line |-> Origin.line + Cardinality(Newlines(i)), column |-> i - Last(Newlines(i))]
<1> DEFINE before == Newlines(i)
<1>1. /\ Origin.line \in Nat \ {0} /\ Origin.column \in Nat \ {0}
      /\ Origin = [line |-> Origin.line, column |-> Origin.column]
  BY OriginAssumption
<1>2. PlaceOf(i) = IF before = {} THEN [Origin EXCEPT !.column = @ + i - 1]
                   ELSE [line |-> Origin.line + Cardinality(before), column |-> i - Last(before)]
  BY DEF PlaceOf, Newlines, Last
<1>3. before \in SUBSET (0..i) /\ before \in SUBSET (1..(i - 1))
  BY DEF Newlines
<1>4. IsFiniteSet(1..(i - 1))
  <2>1. 1 \in Int /\ i - 1 \in Int /\ 1 <= (i - 1) + 1
    OBVIOUS
  <2> QED
    BY <2>1, IntervalSize
<1>5. Cardinality(before) \in Nat
  BY <1>3, <1>4, FS_Subset, FS_CardinalityType
<1> HIDE DEF before
<1>6. [Origin EXCEPT !.column = @ + i - 1] = [line |-> Origin.line, column |-> Origin.column + i - 1]
  BY <1>1
<1>7. before # {} => Last(before) \in 1..(i - 1)
  BY <1>3, LastIs
<1>8. PlaceOf(i) \in Places
  <2>1. CASE before = {}
    BY <1>1, <1>2, <1>6, <2>1 DEF Places
  <2>2. CASE before # {}
    BY <1>1, <1>2, <1>5, <1>7, <2>2 DEF Places
  <2> QED
    BY <2>1, <2>2
<1> QED
  BY <1>2, <1>6, <1>8 DEF before

\* In a line, the column moves with the position.
LEMMA PlaceInLine ==
  ASSUME NEW i \in Nat \ {0}, NEW j \in Nat, i <= j, \A k \in i..(j - 1) : text[k] # "newline"
  PROVE  PlaceOf(j) = AdvanceColumns(PlaceOf(i), i, j)
<1>1. Newlines(j) = Newlines(i)
  BY DEF Newlines
<1>2. Newlines(i) # {} => Last(Newlines(i)) \in Int
  <2>1. Newlines(i) \in SUBSET (0..i) /\ i \in Nat
    BY DEF Newlines
  <2>2. Newlines(i) # {} => Last(Newlines(i)) \in Newlines(i)
    BY <2>1, LastIs
  <2> QED
    BY <2>1, <2>2
<1>3. /\ Origin.line \in Nat \ {0} /\ Origin.column \in Nat \ {0}
  BY OriginAssumption
<1>4. j \in Nat \ {0}
  OBVIOUS
<1>5. CASE Newlines(i) = {}
  <2>1. PlaceOf(i) = [line |-> Origin.line, column |-> Origin.column + i - 1]
    BY <1>5, PlaceIs
  <2>2. PlaceOf(j) = [line |-> Origin.line, column |-> Origin.column + j - 1]
    BY <1>1, <1>4, <1>5, PlaceIs
  <2> QED
    BY <1>3, <2>1, <2>2 DEF AdvanceColumns
<1>6. CASE Newlines(i) # {}
  <2>1. PlaceOf(i) = [line |-> Origin.line + Cardinality(Newlines(i)), column |-> i - Last(Newlines(i))]
    BY <1>6, PlaceIs
  <2>2. PlaceOf(j) = [line |-> Origin.line + Cardinality(Newlines(i)), column |-> j - Last(Newlines(i))]
    BY <1>1, <1>4, <1>6, PlaceIs
  <2> HIDE DEF Newlines
  <2> QED
    BY <1>2, <1>6, <2>1, <2>2 DEF AdvanceColumns
<1> QED
  BY <1>5, <1>6

\* Behind lines, it counts from the last of them.
LEMMA PlaceBehindLines ==
  ASSUME NEW i \in Nat \ {0}, NEW j \in Nat, i <= j, NEW breaks,
         breaks = {k \in i..(j - 1) : text[k] = "newline"}, breaks # {}
  PROVE  PlaceOf(j) = [line |-> PlaceOf(i).line + Cardinality(breaks), column |-> j - Last(breaks)]
<1>1. Newlines(j) = Newlines(i) \union breaks /\ Newlines(i) \intersect breaks = {}
  BY DEF Newlines
<1>2. IsFiniteSet(Newlines(i)) /\ IsFiniteSet(breaks)
  <2>1. 1 \in Int /\ j - 1 \in Int /\ 1 <= (j - 1) + 1
    OBVIOUS
  <2>2. IsFiniteSet(1..(j - 1))
    BY <2>1, IntervalSize
  <2>3. Newlines(i) \subseteq 1..(j - 1) /\ breaks \subseteq 1..(j - 1)
    BY DEF Newlines
  <2> QED
    BY <2>2, <2>3, FS_Subset
<1>3. Cardinality(Newlines(j)) = Cardinality(Newlines(i)) + Cardinality(breaks)
      /\ Cardinality(Newlines(i)) \in Nat /\ Cardinality(breaks) \in Nat
  <2>1. Cardinality(Newlines(i)) \in Nat /\ Cardinality(breaks) \in Nat
    BY <1>2, FS_CardinalityType
  <2>2. Cardinality(Newlines(i) \union breaks) =
          Cardinality(Newlines(i)) + Cardinality(breaks) - Cardinality(Newlines(i) \intersect breaks)
    BY <1>2, FS_Union
  <2>3. Cardinality(Newlines(i) \intersect breaks) = 0
    BY <1>1, FS_EmptySet
  <2> QED
    BY <1>1, <2>1, <2>2, <2>3
<1>4. Newlines(j) # {} /\ j \in Nat \ {0}
  BY <1>1
<1>5. Last(Newlines(j)) = Last(breaks)
  <2>1. Newlines(j) \in SUBSET (0..j) /\ breaks \in SUBSET (0..j)
    BY DEF Newlines
  <2>2. Last(breaks) \in breaks /\ \A m \in breaks : m <= Last(breaks)
    BY <2>1, LastIs
  <2>3. Last(Newlines(j)) \in Newlines(j) /\ \A m \in Newlines(j) : m <= Last(Newlines(j))
    BY <1>4, <2>1, LastIs
  <2>4. \A m \in Newlines(i) : m \in Int /\ m < i
    BY DEF Newlines
  <2>5. \A m \in breaks : m \in Int /\ m >= i
    OBVIOUS
  <2>6. Last(breaks) \in Newlines(j)
    BY <1>1, <2>2
  <2>7. Last(Newlines(j)) \in breaks
    <3>1. Last(Newlines(j)) >= Last(breaks) /\ Last(breaks) \in Int /\ Last(breaks) >= i
      BY <2>2, <2>3, <2>5, <2>6
    <3> QED
      BY <1>1, <2>3, <2>4, <3>1
  <2> QED
    BY <2>2, <2>3, <2>5, <2>6, <2>7
<1>6. PlaceOf(j) = [line |-> Origin.line + Cardinality(Newlines(j)), column |-> j - Last(Newlines(j))]
  BY <1>4, PlaceIs
<1>7. PlaceOf(i).line = Origin.line + Cardinality(Newlines(i))
  <2>1. CASE Newlines(i) = {}
    BY <1>3, <2>1, OriginAssumption, PlaceIs, FS_EmptySet
  <2>2. CASE Newlines(i) # {}
    BY <2>2, PlaceIs
  <2> QED
    BY <2>1, <2>2
<1>8. Origin.line \in Nat
  BY OriginAssumption
<1> QED
  BY <1>3, <1>5, <1>6, <1>7, <1>8

\* So the lexer's position is that of its place, whatever it reads.
LEMMA PlaceOver ==
  ASSUME text \in Seq(Chars), NoReturns, NEW i \in Nat \ {0}, NEW j \in Nat, i <= j, j <= Len(text) + 1
  PROVE  PlaceOf(j) = AdvanceOver(PlaceOf(i), text, i, j)
<1> DEFINE breaks == {k \in i..(j - 1) : text[k] = "newline"}
<1>1. breaks = {k \in i..(j - 1) : text[k] \in LineEnds}
  BY DEF LineEnds, NoReturns
<1>2. AdvanceOver(PlaceOf(i), text, i, j) =
        IF breaks = {} THEN AdvanceColumns(PlaceOf(i), i, j)
        ELSE [line |-> PlaceOf(i).line + Cardinality(breaks), column |-> j - Last(breaks)]
  BY <1>1 DEF AdvanceOver, AdvanceColumns, Last
<1>3. CASE breaks = {}
  BY <1>2, <1>3, PlaceInLine
<1>4. CASE breaks # {}
  <2>1. PlaceOf(j) = [line |-> PlaceOf(i).line + Cardinality(breaks), column |-> j - Last(breaks)]
    <3> HIDE DEF breaks
    <3>1. breaks = {k \in i..(j - 1) : text[k] = "newline"}
      BY DEF breaks
    <3> QED
      BY <1>4, <3>1, PlaceBehindLines
  <2> QED
    BY <1>2, <1>4, <2>1
<1> QED
  BY <1>3, <1>4

\* The same for a run of line ends.
LEMMA PlaceOverLines ==
  ASSUME text \in Seq(Chars), NoReturns, NEW i \in Nat \ {0}, NEW j \in Nat, i < j, j <= Len(text) + 1,
         \A k \in i..(j - 1) : text[k] \in LineEnds
  PROVE  PlaceOf(j) = AdvanceLines(PlaceOf(i), text, i, j)
<1> DEFINE breaks == {k \in i..(j - 1) : text[k] = "newline"}
<1>1. \A k \in i..(j - 1) : text[k] = "newline"
  BY DEF LineEnds, NoReturns
<1>2. breaks = {k \in i..(j - 1) : ~(text[k] = "newline" /\ k > i /\ text[k - 1] = "return")}
  <2>1. \A k \in i..(j - 1) : k > i => text[k - 1] # "return"
    BY <1>1
  <2> QED
    BY <1>1, <2>1
<1>3. AdvanceLines(PlaceOf(i), text, i, j) = [line |-> PlaceOf(i).line + Cardinality(breaks), column |-> 1]
  BY <1>2 DEF AdvanceLines
<1>4. breaks # {} /\ j - 1 \in breaks /\ breaks \in SUBSET (0..j)
  BY <1>1
<1>5. Last(breaks) = j - 1
  <2>1. Last(breaks) \in breaks /\ \A m \in breaks : m <= Last(breaks)
    BY <1>4, LastIs
  <2> QED
    BY <1>4, <2>1
<1>6. PlaceOf(j) = [line |-> PlaceOf(i).line + Cardinality(breaks), column |-> j - Last(breaks)]
  <2> HIDE DEF breaks
  <2>1. breaks = {k \in i..(j - 1) : text[k] = "newline"} /\ i <= j
    BY DEF breaks
  <2> QED
    BY <1>4, <2>1, PlaceBehindLines
<1> QED
  BY <1>3, <1>5, <1>6

\* A word ends one column before the place behind it.
LEMMA PlaceBefore ==
  ASSUME NEW i \in Nat \ {0}, text[i] # "newline"
  PROVE  PlaceOf(i) = [PlaceOf(i + 1) EXCEPT !.column = IF @ > 1 THEN @ - 1 ELSE @]
<1> DEFINE p == PlaceOf(i)
<1>1. p \in Places
  BY PlaceIs
<1>2. PlaceOf(i + 1) = AdvanceColumns(p, i, i + 1)
  BY PlaceInLine
<1>3. PlaceOf(i + 1) = [p EXCEPT !.column = @ + 1]
  BY <1>2 DEF AdvanceColumns
<1> HIDE DEF p
<1>4. [PlaceOf(i + 1) EXCEPT !.column = IF @ > 1 THEN @ - 1 ELSE @] = p
  BY <1>1, <1>3 DEF Places
<1> QED
  BY <1>4 DEF p

------------------------------------------------------------------------------
\* Where a word or a prefix begins.
Spots == [position : Nat \ {0}, at : Places]

\* TypeOK is inductive with what it leaves out: the scripts, the prefix, where
\* braces open, and that the text is prepared.
TypeInv ==
  /\ TypeOK
  /\ session \in Seq(Seq(Chars)) /\ (mode \notin {"idle", "refused"} => session # <<>>)
  /\ prefix = <<>> \/ \E spot \in Spots : prefix = <<spot>>
  /\ condition = "BRACED_STATE" => opened \in Spots
  /\ Prepared(text)

\* A place stays one when it advances.
LEMMA AdvanceTypes ==
  ASSUME NEW p \in Places, NEW t, NEW i \in Nat \ {0}, NEW j \in Nat, i <= j
  PROVE  /\ AdvanceColumns(p, i, j) \in Places
         /\ AdvanceOver(p, t, i, j) \in Places
         /\ AdvanceLines(p, t, i, j) \in Places
<1> DEFINE breaks == {k \in i..(j - 1) : t[k] \in LineEnds}
           lines == {k \in i..(j - 1) : ~(t[k] = "newline" /\ k > i /\ t[k - 1] = "return")}
<1>1. AdvanceColumns(p, i, j) \in Places
  BY DEF AdvanceColumns, Places
<1>2. IsFiniteSet(i..(j - 1))
  <2>1. i \in Int /\ j - 1 \in Int /\ i <= (j - 1) + 1
    OBVIOUS
  <2> QED
    BY <2>1, IntervalSize
<1>3. breaks \in SUBSET (i..(j - 1)) /\ lines \in SUBSET (i..(j - 1)) /\ breaks \in SUBSET (0..j)
  OBVIOUS
<1>4. Cardinality(breaks) \in Nat /\ Cardinality(lines) \in Nat
  BY <1>2, <1>3, FS_Subset, FS_CardinalityType
<1>5. AdvanceOver(p, t, i, j) = IF breaks = {} THEN AdvanceColumns(p, i, j)
                                ELSE [line |-> p.line + Cardinality(breaks), column |-> j - Last(breaks)]
  BY DEF AdvanceOver, AdvanceColumns, Last
<1>6. AdvanceLines(p, t, i, j) = [line |-> p.line + Cardinality(lines), column |-> 1]
  BY DEF AdvanceLines
<1> HIDE DEF breaks, lines
<1>7. breaks # {} => Last(breaks) \in i..(j - 1)
  BY <1>3, LastIs
<1>8. AdvanceOver(p, t, i, j) \in Places
  BY <1>1, <1>4, <1>5, <1>7 DEF Places
<1>9. AdvanceLines(p, t, i, j) \in Places
  BY <1>4, <1>6 DEF Places
<1> QED
  BY <1>1, <1>8, <1>9

\* A step of the lexer in a script.
Scans ==
  /\ mode = "scan"
  /\ text' = text /\ session' = session /\ left' = left /\ faulted' \in BOOLEAN
  /\ next' \in next..(Len(text) + 1)
  /\ at' \in Places
  /\ braces' \in Nat /\ buffer' \in Seq(Chars)

\* It reads a part of the script; the place keeps up with the position.
Reads ==
  /\ Scans
  /\ next < next'
  /\ NoReturns /\ at = PlaceOf(next) => at' = PlaceOf(next')

\* What the steps of a parse come down to.  The parse is given up:
Fails ==
  /\ Scans
  /\ mode' = "failed" /\ error' \in Errors
  /\ condition' \in {condition, "INITIAL", "CMDSTART"} /\ opened' = opened
  /\ UNCHANGED <<prefix, words, program>>

\* blanks or a comment are skipped:
Skips ==
  /\ Reads
  /\ condition # "BRACED_STATE" /\ condition' = condition /\ opened' = opened
  /\ SameGrammar
  /\ \/ \A k \in next..(next' - 1) : text[k] = "blank"
     \/ /\ condition = "CMDSTART" /\ text[next] = "hash"
        /\ \A k \in next..(next' - 1) : text[k] \notin LineEnds
        /\ ~Has(text, next', Chars \ LineEnds)

\* a command ends, with its script or before a separator:
EndsCommand ==
  /\ prefix = <<>> /\ prefix' = prefix
  /\ condition # "BRACED_STATE" /\ opened' = opened
  /\ words' = <<>>
  /\ program' = IF words = <<>> THEN program ELSE CommandAppended
  /\ error' = error

Separates ==
  /\ Reads
  /\ EndsCommand
  /\ condition' = "CMDSTART" /\ mode' = "scan"
  /\ \A k \in next..(next' - 1) : text[k] \in {"semicolon"} \union LineEnds

Finishes ==
  /\ Scans
  /\ EndsCommand
  /\ next = Len(text) + 1 /\ next' = next
  /\ condition' = condition /\ mode' = "parsed"

\* a word is taken:
Takes ==
  /\ Reads
  /\ condition' = "INITIAL" /\ opened' = opened
  /\ \E kind \in Kinds, contents \in Seq(Chars) :
       TakeWord(kind, IF condition = "BRACED_STATE" THEN opened ELSE Here, contents)
  /\ error' \in Errors
  /\ error' = "none" => error = "none" /\ text[next' - 1] # "newline"

\* an expansion prefix is, and its word is to follow:
Prefixes ==
  /\ Reads
  /\ condition # "BRACED_STATE" /\ condition' = "INITIAL" /\ opened' = opened
  /\ prefix = <<>> /\ prefix' = <<Here>>
  /\ UNCHANGED <<words, program, error, mode>>
  /\ ~Has(text, next', Delimiters)

\* a word in braces begins, or goes on.
Opens ==
  /\ Reads
  /\ condition # "BRACED_STATE" /\ condition' = "BRACED_STATE" /\ opened' = Here
  /\ SameGrammar

Collects ==
  /\ Reads
  /\ condition = "BRACED_STATE" /\ condition' = condition /\ opened' = opened
  /\ SameGrammar

ScanSteps == Fails \/ Skips \/ Separates \/ Finishes \/ Takes \/ Prefixes \/ Opens \/ Collects

\* A token that is refused ends the scan.
LEMMA RefuseFails ==
  ASSUME TypeInv, Scans, NEW kind \in {"lexical", "syntax", "system"}, Refuse(kind),
         condition' \in {condition, "INITIAL", "CMDSTART"}, opened' = opened
  PROVE  Fails
BY DEF Fails, Refuse, First, TypeInv, TypeOK, Errors

\* The grammar refuses the end of a command, or takes it.
LEMMA EndCommandIs ==
  ASSUME TypeInv, Scans, NEW newMode, EndCommand(newMode), condition # "BRACED_STATE",
         opened' = opened
  PROVE  \/ Refuse("syntax")
         \/ EndsCommand /\ mode' = newMode
BY DEF EndCommand, EndsCommand, TypeInv

\* Same braces, another position and place.
LEMMA MovesToReads ==
  ASSUME TypeInv, mode = "scan", NEW end \in (next + 1)..(Len(text) + 1), NEW place \in Places,
         NoReturns /\ at = PlaceOf(next) => place = PlaceOf(end),
         NEW c, MovesTo(end, place, c), SameScript, braces' \in Nat, buffer' \in Seq(Chars)
  PROVE  Reads /\ condition' = c /\ next' = end
<1>1. Len(text) \in Nat /\ next \in Nat \ {0} /\ faulted \in BOOLEAN
  BY DEF TypeInv, TypeOK
<1>2. /\ next' = end /\ at' = place /\ condition' = c
      /\ text' = text /\ session' = session /\ left' = left /\ faulted' = faulted
  BY DEF MovesTo, SameScript
<1>3. next < end /\ end \in next..(Len(text) + 1)
  BY <1>1
<1> QED
  BY <1>1, <1>2, <1>3 DEF Reads, Scans

\* The characters of the match are in one line.
LEMMA ColumnsRead ==
  ASSUME TypeInv, mode = "scan", NEW end \in (next + 1)..(Len(text) + 1),
         \A k \in next..(end - 1) : text[k] # "newline",
         NEW c, MovesTo(end, AdvanceColumns(at, next, end), c), SameScript,
         braces' \in Nat, buffer' \in Seq(Chars)
  PROVE  Reads /\ condition' = c /\ next' = end
<1>1. Len(text) \in Nat /\ next \in Nat \ {0} /\ at \in Places
  BY DEF TypeInv, TypeOK
<1>2. end \in Nat /\ next <= end
  BY <1>1
<1>3. AdvanceColumns(at, next, end) \in Places
  BY <1>1, <1>2, AdvanceTypes
<1>4. PlaceOf(end) = AdvanceColumns(PlaceOf(next), next, end)
  BY <1>1, <1>2, PlaceInLine
<1> QED
  BY <1>3, <1>4, MovesToReads

\* The patterns outside braces are such steps.
LEMMA SkipsAre ==
  ASSUME TypeInv, Blanks \/ Comment
  PROVE  Skips
<1>1. /\ Len(text) \in Nat /\ text \in Seq(Chars) /\ next \in Nat \ {0}
      /\ braces \in Nat /\ buffer \in Seq(Chars)
  BY DEF TypeInv, TypeOK
<1>2. CASE Blanks
  <2> DEFINE end == RunEnd(text, next, {"blank"})
  <2>1. Has(text, next, {"blank"}) /\ mode = "scan" /\ condition # "BRACED_STATE"
    BY <1>2 DEF Blanks, Matches
  <2>2. end \in next..(Len(text) + 1) /\ end > next /\ \A k \in next..(end - 1) : text[k] \in {"blank"}
    BY <1>1, <2>1, RunEndIs DEF Has
  <2> HIDE DEF end
  <2>3. MovesTo(end, AdvanceColumns(at, next, end), condition) /\ SameScript /\ SameBraces /\ SameGrammar
    BY <1>2 DEF Blanks, end
  <2>4. braces' = braces /\ buffer' = buffer /\ opened' = opened
    BY <2>3 DEF SameBraces
  <2>5. end \in (next + 1)..(Len(text) + 1) /\ \A k \in next..(end - 1) : text[k] # "newline"
    BY <1>1, <2>2
  <2>6. Reads /\ condition' = condition /\ next' = end
    BY <1>1, <2>1, <2>3, <2>4, <2>5, ColumnsRead
  <2> QED
    BY <2>1, <2>2, <2>3, <2>4, <2>6 DEF Skips
<1>3. CASE Comment
  <2> DEFINE end == Before(text, next, LineEnds)
  <2>1. /\ Has(text, next, {"hash"}) /\ mode = "scan" /\ condition # "BRACED_STATE"
        /\ condition = "CMDSTART"
    BY <1>3 DEF Comment, Matches
  <2>2. next <= Len(text) /\ text[next] = "hash"
    BY <2>1 DEF Has
  <2>3. /\ end \in next..(Len(text) + 1) /\ end > next
        /\ \A k \in next..(end - 1) : text[k] \notin LineEnds
        /\ ~Has(text, end, Chars \ LineEnds)
    <3>1. text[next] \notin LineEnds
      BY <2>2 DEF LineEnds
    <3> QED
      BY <1>1, <2>2, <3>1, BeforeIs DEF Has
  <2> HIDE DEF end
  <2>4. MovesTo(end, AdvanceColumns(at, next, end), condition) /\ SameScript /\ SameBraces /\ SameGrammar
    BY <1>3 DEF Comment, end
  <2>5. braces' = braces /\ buffer' = buffer /\ opened' = opened
    BY <2>4 DEF SameBraces
  <2>6. end \in (next + 1)..(Len(text) + 1) /\ \A k \in next..(end - 1) : text[k] # "newline"
    BY <1>1, <2>3 DEF LineEnds
  <2>7. Reads /\ condition' = condition /\ next' = end
    BY <1>1, <2>1, <2>4, <2>5, <2>6, ColumnsRead
  <2> QED
    BY <2>1, <2>2, <2>3, <2>4, <2>5, <2>7 DEF Skips
<1> QED
  BY <1>2, <1>3

\* Semicolons and line ends.
LEMMA SeparatesAre ==
  ASSUME TypeInv, Semicolons \/ Lines
  PROVE  Separates \/ Fails
<1>1. /\ Len(text) \in Nat /\ text \in Seq(Chars) /\ next \in Nat \ {0} /\ at \in Places
      /\ braces \in Nat /\ buffer \in Seq(Chars)
  BY DEF TypeInv, TypeOK
<1>2. ASSUME Reads, condition' = "CMDSTART", opened' = opened, condition # "BRACED_STATE",
             EndCommand("scan"),
             \A k \in next..(next' - 1) : text[k] \in {"semicolon"} \union LineEnds
      PROVE  Separates \/ Fails
  <2>1. CASE Refuse("syntax")
    <3>1. Scans
      BY <1>2 DEF Reads
    <3> QED
      BY <1>2, <2>1, <3>1, RefuseFails
  <2>2. CASE EndsCommand /\ mode' = "scan"
    BY <1>2, <2>2 DEF Separates
  <2>3. Scans
    BY <1>2 DEF Reads
  <2> QED
    BY <1>2, <2>1, <2>2, <2>3, EndCommandIs
<1>3. CASE Semicolons
  <2> DEFINE end == RunEnd(text, next, {"semicolon"})
  <2>1. Has(text, next, {"semicolon"}) /\ mode = "scan" /\ condition # "BRACED_STATE"
    BY <1>3 DEF Semicolons, Matches
  <2>2. end \in next..(Len(text) + 1) /\ end > next /\ \A k \in next..(end - 1) : text[k] \in {"semicolon"}
    BY <1>1, <2>1, RunEndIs DEF Has
  <2> HIDE DEF end
  <2>3. MovesTo(end, AdvanceColumns(at, next, end), "CMDSTART") /\ SameScript /\ SameBraces
        /\ EndCommand("scan")
    BY <1>3 DEF Semicolons, end
  <2>4. braces' = braces /\ buffer' = buffer /\ opened' = opened
    BY <2>3 DEF SameBraces
  <2>5. end \in (next + 1)..(Len(text) + 1) /\ \A k \in next..(end - 1) : text[k] # "newline"
    BY <1>1, <2>2
  <2>6. Reads /\ condition' = "CMDSTART" /\ next' = end
    BY <1>1, <2>1, <2>3, <2>4, <2>5, ColumnsRead
  <2>7. \A k \in next..(next' - 1) : text[k] \in {"semicolon"} \union LineEnds
    BY <2>2, <2>6
  <2> QED
    BY <1>2, <2>1, <2>3, <2>4, <2>6, <2>7
<1>4. CASE Lines
  <2> DEFINE end == RunEnd(text, next, LineEnds)
  <2>1. Has(text, next, LineEnds) /\ mode = "scan" /\ condition # "BRACED_STATE"
    BY <1>4 DEF Lines, Matches
  <2>2. end \in next..(Len(text) + 1) /\ end > next /\ \A k \in next..(end - 1) : text[k] \in LineEnds
    BY <1>1, <2>1, RunEndIs DEF Has
  <2> HIDE DEF end
  <2>3. MovesTo(end, AdvanceLines(at, text, next, end), "CMDSTART") /\ SameScript /\ SameBraces
        /\ EndCommand("scan")
    BY <1>4 DEF Lines, end
  <2>4. braces' = braces /\ buffer' = buffer /\ opened' = opened
    BY <2>3 DEF SameBraces
  <2>5. end \in (next + 1)..(Len(text) + 1) /\ end \in Nat
    BY <1>1, <2>2
  <2>6. AdvanceLines(at, text, next, end) \in Places
    BY <1>1, <2>2, <2>5, AdvanceTypes
  <2>7. NoReturns => PlaceOf(end) = AdvanceLines(PlaceOf(next), text, next, end)
    BY <1>1, <2>2, <2>5, PlaceOverLines
  <2>8. Reads /\ condition' = "CMDSTART" /\ next' = end
    BY <1>1, <2>1, <2>3, <2>4, <2>5, <2>6, <2>7, MovesToReads
  <2>9. \A k \in next..(next' - 1) : text[k] \in {"semicolon"} \union LineEnds
    BY <2>2, <2>8
  <2> QED
    BY <1>2, <2>1, <2>3, <2>4, <2>8, <2>9
<1> QED
  BY <1>3, <1>4

\* A part of the text is a sequence of characters.
LEMMA PartIs ==
  ASSUME NEW t \in Seq(Chars), NEW a \in Nat \ {0}, NEW b \in Nat, b <= Len(t)
  PROVE  SubSeq(t, a, b) \in Seq(Chars)
BY SubSeqProperties

\* Words of one line: in quotes, and variables.
LEMMA TakesAre ==
  ASSUME TypeInv, Quoted \/ Variable \/ BracedVariable
  PROVE  Takes
<1>1. /\ Len(text) \in Nat /\ text \in Seq(Chars) /\ next \in Nat \ {0} /\ at \in Places
      /\ braces \in Nat /\ buffer \in Seq(Chars) /\ error \in Errors
  BY DEF TypeInv, TypeOK
<1>2. ASSUME NEW end \in (next + 1)..(Len(text) + 1), mode = "scan", condition # "BRACED_STATE",
             \A k \in next..(end - 1) : text[k] # "newline",
             MovesTo(end, AdvanceColumns(at, next, end), "INITIAL"), SameScript, SameBraces,
             NEW kind \in Kinds, NEW contents \in Seq(Chars), TakeWord(kind, Here, contents),
             error' = error
      PROVE  Takes
  <2>1. braces' = braces /\ buffer' = buffer /\ opened' = opened
    BY <1>2 DEF SameBraces
  <2>2. Reads /\ condition' = "INITIAL" /\ next' = end
    BY <1>1, <1>2, <2>1, ColumnsRead
  <2>3. text[next' - 1] # "newline"
    <3>1. end - 1 \in next..(end - 1)
      BY <1>1, <1>2
    <3> QED
      BY <1>2, <2>2, <3>1
  <2>4. \E k \in Kinds, c \in Seq(Chars) :
          TakeWord(k, IF condition = "BRACED_STATE" THEN opened ELSE Here, c)
    BY Zenon, <1>2
  <2> QED
    BY <1>1, <1>2, <2>1, <2>2, <2>3, <2>4 DEF Takes
<1>3. CASE Quoted
  <2> DEFINE end == QuotedEnd(text, next)
  <2>1. /\ Has(text, next, {"quote"}) /\ mode = "scan" /\ condition # "BRACED_STATE" /\ end # 0
        /\ MovesTo(end, AdvanceColumns(at, next, end), "INITIAL") /\ SameScript /\ SameBraces
        /\ TakeWord("quoted", Here, SubSeq(text, next + 1, end - 2)) /\ error' = error
    BY Zenon, <1>3 DEF Quoted, Matches
  <2>2. next \in 1..Len(text) /\ text[next] = "quote"
    BY <1>1, <2>1 DEF Has
  <2>3. /\ end \in (next + 2)..(Len(text) + 1)
        /\ \A k \in (next + 1)..(end - 1) : text[k] # "newline"
    BY <1>1, <2>1, <2>2, QuotedEndIs
  <2> HIDE DEF end
  <2>4. /\ end \in (next + 1)..(Len(text) + 1)
        /\ \A k \in next..(end - 1) : text[k] # "newline"
        /\ end - 2 \in Nat /\ end - 2 <= Len(text) /\ next + 1 \in Nat \ {0}
    BY <1>1, <2>2, <2>3
  <2>5. SubSeq(text, next + 1, end - 2) \in Seq(Chars) /\ "quoted" \in Kinds
    BY <1>1, <2>4, PartIs DEF Kinds
  <2> QED
    BY <1>2, <2>1, <2>4, <2>5
<1>4. ASSUME Has(text, next, {"dollar"}) PROVE next \in 1..Len(text) /\ text[next] = "dollar"
  BY <1>1, <1>4 DEF Has
<1>5. CASE Variable
  <2> DEFINE end == VariableEnd(text, next)
  <2>1. /\ Has(text, next, {"dollar"}) /\ mode = "scan" /\ condition # "BRACED_STATE" /\ end # 0
        /\ MovesTo(end, AdvanceColumns(at, next, end), "INITIAL") /\ SameScript /\ SameBraces
        /\ TakeWord("var", Here, SubSeq(text, next + 1, end - 1)) /\ error' = error
    BY Zenon, <1>5 DEF Variable, Matches
  <2>2. next \in 1..Len(text) /\ text[next] = "dollar"
    BY <2>1, <1>4
  <2>3. text[next] \notin WordStops
    BY <2>2 DEF WordStops, Delimiters, LineEnds
  <2>4. /\ end \in (next + 1)..(Len(text) + 1)
        /\ \A k \in next..(end - 1) : text[k] \notin WordStops
    BY <1>1, <2>1, <2>2, <2>3, VariableEndIs
  <2> HIDE DEF end
  <2>5. /\ \A k \in next..(end - 1) : text[k] # "newline"
        /\ end - 1 \in Nat /\ end - 1 <= Len(text) /\ next + 1 \in Nat \ {0}
    BY <1>1, <2>2, <2>4 DEF WordStops, Delimiters, LineEnds
  <2>6. SubSeq(text, next + 1, end - 1) \in Seq(Chars) /\ "var" \in Kinds
    BY <1>1, <2>5, PartIs DEF Kinds
  <2> QED
    BY <1>2, <2>1, <2>4, <2>5, <2>6
<1>6. CASE BracedVariable
  <2> DEFINE end == BracedVariableEnd(text, next)
  <2>1. /\ Has(text, next, {"dollar"}) /\ mode = "scan" /\ condition # "BRACED_STATE" /\ end # 0
        /\ MovesTo(end, AdvanceColumns(at, next, end), "INITIAL") /\ SameScript /\ SameBraces
        /\ TakeWord("varBraced", Here, SubSeq(text, next + 2, end - 2)) /\ error' = error
    BY Zenon, <1>6 DEF BracedVariable, Matches
  <2>2. next \in 1..Len(text) /\ text[next] = "dollar"
    BY <2>1, <1>4
  <2>3. /\ end \in (next + 4)..(Len(text) + 1)
        /\ \A k \in next..(end - 1) : text[k] \notin LineEnds
    BY <1>1, <2>1, <2>2, BracedVariableEndIs
  <2> HIDE DEF end
  <2>4. /\ end \in (next + 1)..(Len(text) + 1)
        /\ \A k \in next..(end - 1) : text[k] # "newline"
        /\ end - 2 \in Nat /\ end - 2 <= Len(text) /\ next + 2 \in Nat \ {0}
    BY <1>1, <2>2, <2>3 DEF LineEnds
  <2>5. SubSeq(text, next + 2, end - 2) \in Seq(Chars) /\ "varBraced" \in Kinds
    BY <1>1, <2>4, PartIs DEF Kinds
  <2> QED
    BY <1>2, <2>1, <2>4, <2>5
<1> QED
  BY <1>3, <1>5, <1>6

\* An expansion prefix is a word, or waits for one, or is refused behind another.
LEMMA ExpandIs ==
  ASSUME TypeInv, Expand
  PROVE  Takes \/ Prefixes \/ Fails
<1>1. /\ Len(text) \in Nat /\ text \in Seq(Chars) /\ next \in Nat \ {0} /\ at \in Places
      /\ braces \in Nat /\ buffer \in Seq(Chars) /\ error \in Errors
  BY DEF TypeInv, TypeOK
<1> DEFINE end == next + 3
<1>2. /\ Has(text, next, {"openBrace"}) /\ Has(text, next + 1, {"star"}) /\ Has(text, next + 2, {"closeBrace"})
      /\ mode = "scan" /\ condition # "BRACED_STATE"
      /\ MovesTo(end, AdvanceColumns(at, next, end), "INITIAL") /\ SameScript /\ SameBraces
  BY Zenon DEF Expand, IsExpand, Matches
<1>3. IF prefix # <<>> THEN Refuse("syntax")
      ELSE IF Has(text, end, Delimiters)
      THEN TakeWord("expandEmpty", Here, <<>>) /\ error' = error
      ELSE prefix' = <<Here>> /\ UNCHANGED <<words, program, error, mode>>
  BY Zenon DEF Expand
<1>4. /\ end \in (next + 1)..(Len(text) + 1)
      /\ \A k \in next..(end - 1) : text[k] # "newline"
      /\ end - 1 \in next..(end - 1)
  BY <1>1, <1>2 DEF Has
<1> HIDE DEF end
<1>5. braces' = braces /\ buffer' = buffer /\ opened' = opened
  BY <1>2 DEF SameBraces
<1>6. Reads /\ condition' = "INITIAL" /\ next' = end
  BY <1>1, <1>2, <1>4, <1>5, ColumnsRead
<1>7. CASE Refuse("syntax")
  BY <1>5, <1>6, <1>7, RefuseFails DEF Reads
<1>8. CASE TakeWord("expandEmpty", Here, <<>>) /\ error' = error
  <2>1. \E k \in Kinds, c \in Seq(Chars) :
          TakeWord(k, IF condition = "BRACED_STATE" THEN opened ELSE Here, c)
    <3>1. "expandEmpty" \in Kinds /\ <<>> \in Seq(Chars)
      BY DEF Kinds
    <3> QED
      BY Zenon, <1>2, <1>8, <3>1
  <2> QED
    BY <1>1, <1>4, <1>5, <1>6, <1>8, <2>1 DEF Takes
<1>9. CASE /\ prefix = <<>> /\ ~Has(text, end, Delimiters)
           /\ prefix' = <<Here>> /\ UNCHANGED <<words, program, error, mode>>
  BY <1>2, <1>5, <1>6, <1>9 DEF Prefixes
<1> QED
  BY <1>3, <1>7, <1>8, <1>9

\* An unquoted word, which may go on over lines in brackets.
LEMMA UnquotedIs ==
  ASSUME TypeInv, Unquoted
  PROVE  Takes \/ Fails
<1>1. /\ Len(text) \in Nat /\ text \in Seq(Chars) /\ next \in Nat \ {0} /\ at \in Places
      /\ braces \in Nat /\ buffer \in Seq(Chars) /\ error \in Errors /\ Prepared(text)
      /\ faulted \in BOOLEAN
  BY DEF TypeInv, TypeOK
<1> DEFINE variable == IF text[next] = "dollar" THEN BracedVariableEnd(text, next) ELSE 0
           from == Before(text, IF variable = 0 THEN next ELSE variable, WordStops)
           word == UnquotedWord(text, next, from)
           end == word.end
           taken == word.delimited \/ word.open
           contents == SubSeq(text, next, end - 1)
<1>2. Has(text, next, Chars \ WordStops) /\ mode = "scan" /\ condition # "BRACED_STATE"
  BY Zenon DEF Unquoted, IsUnquoted, Matches
<1>3. next \in 1..Len(text) /\ text[next] \in Chars \ WordStops
  BY <1>1, <1>2 DEF Has
<1>4. from \in (next + 1)..(Len(text) + 1) /\ text[from - 1] \notin LineEnds
  <2>1. CASE variable = 0
    <3>1. from = Before(text, next, WordStops)
      BY <2>1
    <3>2. /\ from \in next..(Len(text) + 1) /\ from > next
          /\ \A k \in next..(from - 1) : text[k] \notin WordStops
      BY <1>1, <1>3, <3>1, BeforeIs
    <3>3. from \in (next + 1)..(Len(text) + 1) /\ from - 1 \in next..(from - 1)
      BY <1>1, <3>2
    <3> QED
      BY <3>2, <3>3 DEF WordStops, Delimiters
  <2>2. CASE variable # 0
    <3>1. /\ variable \in (next + 4)..(Len(text) + 1) /\ text[variable - 1] = "closeBrace"
          /\ from = Before(text, variable, WordStops)
      BY <1>1, <1>3, <2>2, BracedVariableEndIs
    <3> HIDE DEF variable
    <3>2. /\ from \in variable..(Len(text) + 1)
          /\ \A k \in variable..(from - 1) : text[k] \notin WordStops
      BY <1>1, <3>1, BeforeIs
    <3> HIDE DEF from
    <3>3. from \in (next + 1)..(Len(text) + 1) /\ (from = variable \/ from - 1 \in variable..(from - 1))
      BY <1>1, <3>1, <3>2
    <3> QED
      BY <3>1, <3>2, <3>3 DEF WordStops, Delimiters, LineEnds
  <2> QED
    BY <2>1, <2>2
<1>5. /\ MovesTo(end, AdvanceOver(at, text, next, end), IF taken THEN "INITIAL" ELSE condition)
      /\ IF taken
         THEN /\ TakeWord("string", Here, contents)
              /\ error' = IF word.delimited THEN error ELSE First("syntax")
         ELSE Refuse("system")
      /\ SameBraces /\ SameScript
  BY Zenon DEF Unquoted, UnquotedPattern
<1> HIDE DEF from
<1>6. end \in from..(Len(text) + 1) /\ (word.delimited => text[end - 1] \notin LineEnds)
  BY <1>1, <1>3, <1>4, UnquotedWordIs
<1> DEFINE delimited == word.delimited
<1>7. delimited <=> word.delimited
  OBVIOUS
<1>8. /\ (delimited => text[end - 1] \notin LineEnds) /\ (delimited => taken)
  BY Zenon, <1>6, <1>7
<1> HIDE DEF word, taken, contents, end, delimited
<1>9. end \in (next + 1)..(Len(text) + 1) /\ next <= end /\ end \in Nat
  BY <1>1, <1>4, <1>6
<1>10. contents \in Seq(Chars)
  BY <1>1, <1>9, PartIs DEF contents
<1>11. braces' = braces /\ buffer' = buffer /\ opened' = opened
  BY <1>5 DEF SameBraces
<1>12. /\ AdvanceOver(at, text, next, end) \in Places
       /\ NoReturns => PlaceOf(end) = AdvanceOver(PlaceOf(next), text, next, end)
  BY <1>1, <1>9, AdvanceTypes, PlaceOver
<1>13. Reads /\ condition' = (IF taken THEN "INITIAL" ELSE condition) /\ next' = end
  BY <1>1, <1>2, <1>5, <1>9, <1>11, <1>12, MovesToReads
<1>14. CASE ~taken
  <2>1. Refuse("system")
    BY <1>5, <1>14
  <2> QED
    BY <1>11, <1>13, <2>1, RefuseFails DEF Reads
<1>15. CASE taken
  <2>1. condition' = "INITIAL"
    BY <1>13, <1>15
  <2>2. TakeWord("string", Here, contents)
    BY Zenon, <1>5, <1>15
  <2>3. error' = IF delimited THEN error ELSE First("syntax")
    BY Zenon, <1>5, <1>15 DEF delimited
  <2>4. error' \in Errors /\ (error' = "none" => error = "none" /\ delimited)
    BY <1>1, <2>3 DEF First, Errors
  <2>5. error' = "none" => text[next' - 1] # "newline"
    BY <1>8, <1>13, <2>4 DEF LineEnds
  <2>6. \E k \in Kinds, c \in Seq(Chars) :
          TakeWord(k, IF condition = "BRACED_STATE" THEN opened ELSE Here, c)
    <3>1. "string" \in Kinds
      BY DEF Kinds
    <3> QED
      BY Zenon, <1>2, <1>10, <2>2, <3>1
  <2> QED
    BY <1>11, <1>13, <2>1, <2>4, <2>5, <2>6 DEF Takes
<1> QED
  BY <1>14, <1>15

\* A braced word begins.
LEMMA OpensAre ==
  ASSUME TypeInv, OpenBracedWord
  PROVE  Opens
<1>1. /\ Len(text) \in Nat /\ next \in Nat \ {0}
  BY DEF TypeInv, TypeOK
<1>2. /\ Has(text, next, {"openBrace"}) /\ mode = "scan" /\ condition # "BRACED_STATE"
      /\ MovesTo(next + 1, AdvanceColumns(at, next, next + 1), "BRACED_STATE")
      /\ braces' = 1 /\ buffer' = <<>> /\ opened' = Here /\ SameGrammar /\ SameScript
  BY Zenon DEF OpenBracedWord, Matches
<1>3. /\ next + 1 \in (next + 1)..(Len(text) + 1)
      /\ \A k \in next..((next + 1) - 1) : text[k] # "newline"
  BY <1>1, <1>2 DEF Has
<1>4. Reads /\ condition' = "BRACED_STATE"
  <2>1. braces' \in Nat /\ buffer' \in Seq(Chars)
    BY <1>2
  <2> QED
    BY <1>2, <1>3, <2>1, ColumnsRead
<1> QED
  BY <1>2, <1>4 DEF Opens

\* The patterns within braces.
LEMMA CollectsAre ==
  ASSUME TypeInv, BracedEscape \/ BracedOpen \/ BracedText \/ BracedLines \/ BracedClose
  PROVE  Collects
<1>1. /\ Len(text) \in Nat /\ text \in Seq(Chars) /\ next \in Nat \ {0} /\ at \in Places
      /\ braces \in Nat /\ buffer \in Seq(Chars)
  BY DEF TypeInv, TypeOK
<1>2. InBraces /\ next \in 1..Len(text)
  BY <1>1 DEF BracedEscape, BracedOpen, BracedText, BracedLines, BracedClose, Has
<1>3. mode = "scan" /\ condition = "BRACED_STATE"
  BY <1>2 DEF InBraces
<1>4. ASSUME NEW end \in (next + 1)..(Len(text) + 1), Keep(end)
      PROVE  /\ buffer' \in Seq(Chars) /\ opened' = opened
             /\ SameGrammar /\ SameScript
  <2>1. SubSeq(text, next, end - 1) \in Seq(Chars)
    BY <1>1, PartIs
  <2>2. /\ buffer' = buffer \o SubSeq(text, next, end - 1) /\ opened' = opened
        /\ SameGrammar /\ SameScript
    BY <1>4 DEF Keep
  <2> QED
    BY <1>1, <2>1, <2>2, ConcatProperties
<1>5. ASSUME NEW end \in (next + 1)..(Len(text) + 1), KeepColumns(end), braces' \in Nat,
             \A k \in next..(end - 1) : text[k] # "newline"
      PROVE  Collects
  <2>1. MovesTo(end, AdvanceColumns(at, next, end), condition) /\ Keep(end)
    BY <1>5 DEF KeepColumns
  <2>2. /\ buffer' \in Seq(Chars) /\ opened' = opened
        /\ SameGrammar /\ SameScript
    BY <1>4, <2>1
  <2>3. Reads /\ condition' = condition
    BY <1>3, <1>5, <2>1, <2>2, ColumnsRead
  <2> QED
    BY <1>3, <2>2, <2>3 DEF Collects
<1>6. CASE BracedEscape
  <2> DEFINE end == IF Has(text, next + 1, Chars \ LineEnds) THEN next + 2 ELSE next + 1
  <2>1. Has(text, next, {"backslash"}) /\ KeepColumns(end) /\ braces' = braces
    BY <1>6 DEF BracedEscape
  <2>2. /\ end \in (next + 1)..(Len(text) + 1)
        /\ \A k \in next..(end - 1) : text[k] # "newline"
    BY <1>1, <2>1 DEF Has, LineEnds
  <2> QED
    BY <1>1, <1>5, <2>1, <2>2
<1>7. ASSUME Has(text, next, {"openBrace"}) \/ Has(text, next, {"closeBrace"}),
             KeepColumns(next + 1), braces' \in Nat
      PROVE  Collects
  <2>1. /\ next + 1 \in (next + 1)..(Len(text) + 1)
        /\ \A k \in next..((next + 1) - 1) : text[k] # "newline"
    BY <1>1, <1>7 DEF Has
  <2> QED
    BY <1>5, <1>7, <2>1
<1>8. CASE BracedOpen
  <2>1. Has(text, next, {"openBrace"}) /\ KeepColumns(next + 1) /\ braces' = braces + 1
    BY <1>8 DEF BracedOpen
  <2> QED
    BY <1>1, <1>7, <2>1
<1>9. CASE BracedClose
  <2>1. /\ Has(text, next, {"closeBrace"}) /\ KeepColumns(next + 1) /\ braces' = braces - 1
        /\ braces > 1
    BY <1>9 DEF BracedClose
  <2> QED
    BY <1>1, <1>7, <2>1
<1>10. CASE BracedText
  <2> DEFINE stops == {"backslash", "openBrace", "closeBrace"} \union LineEnds
             end == Before(text, next, stops)
  <2>1. Has(text, next, Chars \ stops) /\ KeepColumns(end) /\ braces' = braces
    BY <1>10 DEF BracedText
  <2>2. text[next] \notin stops /\ next <= Len(text)
    BY <2>1 DEF Has
  <2> HIDE DEF stops
  <2>3. end \in next..(Len(text) + 1) /\ end > next /\ \A k \in next..(end - 1) : text[k] \notin stops
    BY <1>1, <2>2, BeforeIs
  <2> HIDE DEF end
  <2>4. /\ end \in (next + 1)..(Len(text) + 1)
        /\ \A k \in next..(end - 1) : text[k] # "newline"
    BY <1>1, <2>3 DEF stops, LineEnds
  <2> QED
    BY <1>1, <1>5, <2>1, <2>4
<1>11. CASE BracedLines
  <2> DEFINE end == RunEnd(text, next, LineEnds)
  <2>1. /\ Has(text, next, LineEnds) /\ braces' = braces
        /\ MovesTo(end, AdvanceLines(at, text, next, end), condition) /\ Keep(end)
    BY <1>11 DEF BracedLines
  <2>2. end \in next..(Len(text) + 1) /\ end > next /\ \A k \in next..(end - 1) : text[k] \in LineEnds
    BY <1>1, <2>1, RunEndIs DEF Has
  <2> HIDE DEF end
  <2>3. end \in (next + 1)..(Len(text) + 1) /\ end \in Nat
    BY <1>1, <2>2
  <2>4. /\ buffer' \in Seq(Chars) /\ opened' = opened
        /\ SameGrammar /\ SameScript
    BY <1>4, <2>1, <2>3
  <2>5. AdvanceLines(at, text, next, end) \in Places
    BY <1>1, <2>2, <2>3, AdvanceTypes
  <2>6. NoReturns => PlaceOf(end) = AdvanceLines(PlaceOf(next), text, next, end)
    BY <1>1, <2>2, <2>3, PlaceOverLines
  <2>7. Reads /\ condition' = condition
    BY <1>1, <1>3, <2>1, <2>3, <2>4, <2>5, <2>6, MovesToReads
  <2> QED
    BY <1>3, <2>4, <2>7 DEF Collects
<1> QED
  BY <1>6, <1>8, <1>9, <1>10, <1>11

\* A braced word ends.
LEMMA BracedWordIs ==
  ASSUME TypeInv, BracedWord
  PROVE  Takes
<1>1. /\ Len(text) \in Nat /\ next \in Nat \ {0} /\ buffer \in Seq(Chars) /\ error \in Errors
  BY DEF TypeInv, TypeOK
<1>2. /\ Has(text, next, {"closeBrace"}) /\ mode = "scan" /\ condition = "BRACED_STATE"
      /\ MovesTo(next + 1, AdvanceColumns(at, next, next + 1), "INITIAL")
      /\ TakeWord("braced", opened, buffer)
      /\ braces' = 0 /\ buffer' = <<>> /\ opened' = opened /\ error' = error /\ SameScript
  BY Zenon DEF BracedWord, InBraces
<1>3. /\ next + 1 \in (next + 1)..(Len(text) + 1)
      /\ \A k \in next..((next + 1) - 1) : text[k] # "newline"
      /\ text[(next + 1) - 1] # "newline"
  BY <1>1, <1>2 DEF Has
<1>4. Reads /\ condition' = "INITIAL" /\ next' = next + 1
  <2>1. braces' \in Nat /\ buffer' \in Seq(Chars)
    BY <1>2
  <2> QED
    BY <1>2, <1>3, <2>1, ColumnsRead
<1>5. \E k \in Kinds, c \in Seq(Chars) :
        TakeWord(k, IF condition = "BRACED_STATE" THEN opened ELSE Here, c)
  <2>1. "braced" \in Kinds
    BY DEF Kinds
  <2> QED
    BY Zenon, <1>1, <1>2, <2>1
<1> QED
  BY <1>1, <1>2, <1>3, <1>4, <1>5 DEF Takes

\* The steps that give up the parse.
LEMMA FailsAre ==
  ASSUME TypeInv, UnterminatedQuote \/ InvalidToken \/ UnterminatedBrace \/ OutOfMemory
  PROVE  Fails
<1>1. /\ Len(text) \in Nat /\ next \in 1..(Len(text) + 1) /\ at \in Places
      /\ braces \in Nat /\ buffer \in Seq(Chars) /\ faulted \in BOOLEAN
  BY DEF TypeInv, TypeOK
<1>2. next \in next..(Len(text) + 1)
  BY <1>1
<1>3. CASE UnterminatedQuote \/ InvalidToken
  <2>1. /\ mode = "scan" /\ Refuse("lexical") /\ UNCHANGED lexer /\ SameScript
    BY <1>3 DEF UnterminatedQuote, InvalidToken, Matches
  <2>2. Scans /\ condition' = condition /\ opened' = opened
    BY <1>1, <1>2, <2>1 DEF lexer, SameScript, Scans
  <2> QED
    BY <2>1, <2>2, RefuseFails
<1>4. CASE UnterminatedBrace
  <2>1. /\ mode = "scan" /\ Refuse("lexical") /\ MovesTo(next, at, "INITIAL") /\ SameScript
        /\ braces' = 0 /\ buffer' = <<>> /\ opened' = opened
    BY <1>4 DEF UnterminatedBrace, InBraces
  <2>2. Scans /\ condition' = "INITIAL" /\ opened' = opened
    BY <1>1, <1>2, <2>1 DEF MovesTo, SameScript, Scans
  <2> QED
    BY <2>1, <2>2, RefuseFails
<1>5. CASE OutOfMemory
  <2>1. /\ mode = "scan" /\ Refuse("system") /\ next' = next /\ at' = at
        /\ condition' \in {condition, "INITIAL"}
        /\ opened' = opened /\ session' = session /\ text' = text /\ left' = left
    BY <1>5 DEF OutOfMemory, MovesTo
  <2>2. braces' \in Nat /\ buffer' \in Seq(Chars)
    <3>1. (braces' = 0 /\ buffer' = <<>>) \/ (braces' = braces /\ buffer' = buffer)
      BY <1>5 DEF OutOfMemory
    <3>2. 0 \in Nat /\ <<>> \in Seq(Chars)
      OBVIOUS
    <3> QED
      BY Zenon, <1>1, <3>1, <3>2
  <2>3. next' \in next..(Len(text) + 1) /\ at' \in Places
    BY <1>1, <1>2, <2>1
  <2>4. faulted' \in BOOLEAN
    BY <1>5 DEF OutOfMemory
  <2>5. Scans
    BY <2>1, <2>2, <2>3, <2>4 DEF Scans
  <2> QED
    BY <2>1, <2>5, RefuseFails
<1> QED
  BY <1>3, <1>4, <1>5

\* The end of the script ends a command.
LEMMA EndOfInputIs ==
  ASSUME TypeInv, EndOfInput
  PROVE  Finishes \/ Fails
<1>1. /\ Len(text) \in Nat /\ next \in 1..(Len(text) + 1) /\ at \in Places
      /\ braces \in Nat /\ buffer \in Seq(Chars) /\ faulted \in BOOLEAN
  BY DEF TypeInv, TypeOK
<1>2. /\ mode = "scan" /\ condition # "BRACED_STATE" /\ next > Len(text)
      /\ EndCommand("parsed") /\ UNCHANGED lexer /\ SameScript
  BY DEF EndOfInput
<1>3. Scans /\ next' = next /\ condition' = condition /\ opened' = opened
  <2>1. next \in next..(Len(text) + 1)
    BY <1>1
  <2> QED
    BY <1>1, <1>2, <2>1 DEF lexer, SameScript, Scans
<1>4. next = Len(text) + 1
  BY <1>1, <1>2
<1>5. CASE Refuse("syntax")
  BY <1>3, <1>5, RefuseFails
<1>6. CASE EndsCommand /\ mode' = "parsed"
  BY <1>3, <1>4, <1>6 DEF Finishes
<1> QED
  BY <1>2, <1>3, <1>5, <1>6, EndCommandIs

\* Every step is one of these, begins a parse, ends it, forgives it, or is none.
LEMMA StepsAre ==
  ASSUME TypeInv, [Next]_vars
  PROVE  ScanSteps \/ ParseScript \/ ReturnProgram \/ Forgive \/ UNCHANGED vars
BY SkipsAre, SeparatesAre, TakesAre, ExpandIs, UnquotedIs, OpensAre, CollectsAre, BracedWordIs,
   FailsAre, EndOfInputIs DEF Next, AllParsed, ScanSteps

------------------------------------------------------------------------------
\* Where the part of the script begins that no word and no gap has taken yet.
Limit == IF prefix # <<>> THEN Head(prefix).position
         ELSE IF condition = "BRACED_STATE" THEN opened.position
         ELSE next

LimitPlace == IF prefix # <<>> THEN Head(prefix).at
              ELSE IF condition = "BRACED_STATE" THEN opened.at
              ELSE at

\* The place of the last character before a place in its line.
PlaceBack(place) == [place EXCEPT !.column = IF @ > 1 THEN @ - 1 ELSE @]

\* A place stays one when it goes back.
LEMMA BackIs ==
  ASSUME NEW place \in Places
  PROVE  PlaceBack(place) \in Places
<1>1. PICK l \in Nat \ {0}, c \in Nat \ {0} : place = [line |-> l, column |-> c]
  BY DEF Places
<1>2. PlaceBack(place) = [line |-> l, column |-> IF c > 1 THEN c - 1 ELSE c]
  BY <1>1 DEF PlaceBack
<1>3. (IF c > 1 THEN c - 1 ELSE c) \in Nat \ {0}
  OBVIOUS
<1> QED
  BY <1>2, <1>3 DEF Places

\* The word that is taken.
LEMMA TakesIs ==
  ASSUME TypeInv, Takes
  PROVE  /\ mode' = "scan" /\ prefix' = <<>> /\ program' = program
         /\ \E word \in Words : /\ words' = Append(words, word)
                                /\ word.from = Limit /\ word.at = LimitPlace
                                /\ word.to = next' - 1 /\ word.end = PlaceBack(at')
<1>1. /\ Len(text) \in Nat /\ next \in 1..(Len(text) + 1) /\ at \in Places
      /\ prefix = <<>> \/ \E spot \in Spots : prefix = <<spot>>
      /\ condition = "BRACED_STATE" => opened \in Spots
  BY DEF TypeInv, TypeOK
<1> DEFINE first == IF condition = "BRACED_STATE" THEN opened ELSE Here
           start == IF prefix # <<>> THEN Head(prefix) ELSE first
           expanded == prefix # <<>>
<1>2. PICK kind \in Kinds, contents \in Seq(Chars) : TakeWord(kind, first, contents)
  BY Zenon DEF Takes
<1> DEFINE back == PlaceBack(at')
           word == [kind |-> kind, expanded |-> expanded, contents |-> contents,
                    from |-> start.position, at |-> start.at, to |-> next' - 1, end |-> back]
<1>3. /\ words' = Append(words, word) /\ mode' = mode /\ prefix' = <<>> /\ program' = program
  BY Zenon, <1>2 DEF TakeWord, WordAppended, PlaceBack
<1>4. mode = "scan" /\ next' \in next..(Len(text) + 1) /\ next < next' /\ at' \in Places
  BY DEF Takes, Reads, Scans
<1>5. start \in Spots /\ start.position = Limit /\ start.at = LimitPlace
  <2>1. Here \in Spots /\ Here.position = next /\ Here.at = at
    BY <1>1 DEF Here, Spots
  <2>2. first \in Spots
    BY <1>1, <2>1
  <2> QED
    BY <1>1, <2>1, <2>2 DEF Limit, LimitPlace
<1>6. start.position \in Nat /\ start.at \in Places
  BY <1>5 DEF Spots
<1>7. back \in Places
  BY <1>4, BackIs
<1>8. next' - 1 \in Nat
  <2> DEFINE n == next'
             m == Len(text)
  <2> HIDE DEF n, m
  <2>1. m \in Nat /\ next \in 1..(m + 1) /\ n \in next..(m + 1)
    BY <1>1, <1>4 DEF n, m
  <2>2. n - 1 \in Nat
    BY ONLY <2>1
  <2> QED
    BY <2>2 DEF n
<1>9. expanded \in BOOLEAN
  OBVIOUS
<1>10. start.position = Limit /\ start.at = LimitPlace
  BY <1>5
<1> HIDE DEF start, expanded, back
<1>11. /\ word \in Words
       /\ word.from = start.position /\ word.at = start.at
       /\ word.to = next' - 1 /\ word.end = back
  BY <1>6, <1>7, <1>8, <1>9 DEF Words
<1> HIDE DEF word
<1> QED
  BY <1>3, <1>4, <1>10, <1>11 DEF back

\* The types of the words and commands.
LEMMA EndsCommandTypes ==
  ASSUME TypeInv, EndsCommand
  PROVE  words' \in Seq(Words) /\ program' \in Seq(Seq(Words)) /\ error' \in Errors
<1>1. words \in Seq(Words) /\ program \in Seq(Seq(Words)) /\ error \in Errors
  BY DEF TypeInv, TypeOK
<1>2. Append(program, words) \in Seq(Seq(Words))
  BY <1>1, AppendProperties
<1> QED
  BY <1>1, <1>2 DEF EndsCommand, CommandAppended

\* What is left to show of the types in a step of a scan.
LEMMA TypesFollow ==
  ASSUME TypeInv, Scans,
         mode' \in {"scan", "failed", "parsed"}, condition' \in {"CMDSTART", "INITIAL", "BRACED_STATE"},
         words' \in Seq(Words), program' \in Seq(Seq(Words)), error' \in Errors,
         condition' = "BRACED_STATE" => opened' \in Spots,
         prefix' = <<>> \/ \E spot \in Spots : prefix' = <<spot>>
  PROVE  TypeInv'
<1>1. /\ text \in Seq(Chars) /\ session \in Seq(Seq(Chars)) /\ session # <<>> /\ Prepared(text)
      /\ next \in 1..(Len(text) + 1)
      /\ text' = text /\ session' = session /\ left' \in Errors /\ faulted' \in BOOLEAN
      /\ next' \in next..(Len(text) + 1)
      /\ at' \in Places
      /\ braces' \in Nat /\ buffer' \in Seq(Chars)
  BY DEF TypeInv, TypeOK, Scans
<1>2. next' \in 1..(Len(text') + 1)
  <2> DEFINE n == next'
             m == Len(text)
  <2> HIDE DEF n, m
  <2>1. m \in Nat /\ next \in 1..(m + 1) /\ n \in next..(m + 1)
    BY <1>1 DEF n, m
  <2>2. n \in 1..(m + 1)
    BY ONLY <2>1
  <2> QED
    BY <1>1, <2>2 DEF n, m
<1>3. TypeOK'
  BY <1>1, <1>2 DEF TypeOK
<1> QED
  BY <1>1, <1>3 DEF TypeInv, Prepared

\* Types are inductive.
LEMMA StepKeepsTypes == TypeInv /\ [Next]_vars => TypeInv'
<1> SUFFICES ASSUME TypeInv, [Next]_vars PROVE TypeInv'
  OBVIOUS
<1>1. /\ words \in Seq(Words) /\ program \in Seq(Seq(Words)) /\ error \in Errors
      /\ condition \in {"CMDSTART", "INITIAL", "BRACED_STATE"}
      /\ prefix = <<>> \/ \E spot \in Spots : prefix = <<spot>>
      /\ condition = "BRACED_STATE" => opened \in Spots
  BY DEF TypeInv, TypeOK
<1>2. Here \in Spots
  BY DEF TypeInv, TypeOK, Here, Spots
<1>3. CASE Fails
  BY <1>1, <1>3, TypesFollow DEF Fails
<1>4. ASSUME Reads \/ Scans PROVE Scans /\ mode = "scan"
  BY <1>4 DEF Reads, Scans
<1>5. CASE Skips
  BY <1>1, <1>4, <1>5, TypesFollow DEF Skips, SameGrammar
<1>6. CASE Separates
  BY <1>1, <1>4, <1>6, TypesFollow, EndsCommandTypes DEF Separates, EndsCommand
<1>7. CASE Finishes
  BY <1>1, <1>4, <1>7, TypesFollow, EndsCommandTypes DEF Finishes, EndsCommand
<1>8. CASE Takes
  <2>1. PICK word \in Words : words' = Append(words, word)
    BY <1>8, TakesIs
  <2>2. words' \in Seq(Words)
    BY <1>1, <2>1, AppendProperties
  <2>3. Scans /\ condition' = "INITIAL" /\ error' \in Errors
    BY <1>4, <1>8 DEF Takes
  <2>4. mode' = "scan" /\ prefix' = <<>> /\ program' = program
    BY <1>8, TakesIs
  <2> QED
    BY <1>1, <2>2, <2>3, <2>4, TypesFollow
<1>9. CASE Prefixes
  BY <1>1, <1>2, <1>4, <1>9, TypesFollow DEF Prefixes
<1>10. CASE Opens
  BY <1>1, <1>2, <1>4, <1>10, TypesFollow DEF Opens, SameGrammar
<1>11. CASE Collects
  BY <1>1, <1>4, <1>11, TypesFollow DEF Collects, SameGrammar
<1>12. CASE ParseScript
  <2>1. Head(session) \in Seq(Chars) /\ session \in Seq(Seq(Chars)) /\ session # <<>>
    BY <1>12 DEF TypeInv, ParseScript
  <2>2. Preprocess(Head(session)) \in Seq(Chars) /\ Prepared(Preprocess(Head(session)))
    BY <2>1, PreprocessIs
  <2>3. /\ mode' = "scan" /\ text' = Preprocess(Head(session)) /\ next' = 1 /\ condition' = "CMDSTART"
        /\ at' = Origin /\ braces' = 0 /\ buffer' = <<>> /\ prefix' = <<>> /\ words' = <<>>
        /\ program' = <<>> /\ error' = error /\ left' = error /\ session' = session
    BY <1>12 DEF ParseScript
  <2>4. faulted' \in BOOLEAN
    BY <1>12 DEF ParseScript
  <2>5. at' \in Places
    BY <2>3, OriginAssumption DEF Places
  <2>6. text' \in Seq(Chars) /\ next' \in 1..(Len(text') + 1)
    BY <2>2, <2>3
  <2>7. TypeOK'
    BY <1>1, <2>3, <2>4, <2>5, <2>6 DEF TypeOK
  <2> QED
    BY <2>1, <2>2, <2>3, <2>7 DEF TypeInv, Prepared
<1>13. CASE ReturnProgram
  <2>1. /\ mode' \in {"idle", "refused"} /\ session' = Tail(session) /\ program' = <<>>
        /\ text' = text /\ next' = next /\ condition' = condition /\ at' = at
        /\ braces' = braces /\ buffer' = buffer /\ opened' = opened /\ prefix' = prefix
        /\ words' = words /\ error' = error /\ left' = left
    BY <1>13 DEF ReturnProgram, lexer
  <2>2. session' \in Seq(Seq(Chars))
    <3>1. session # <<>> /\ session \in Seq(Seq(Chars))
      BY <1>13 DEF ReturnProgram, TypeInv
    <3> QED
      BY <2>1, <3>1, HeadTailProperties
  <2>3. faulted' \in BOOLEAN
    BY <1>13 DEF ReturnProgram, TypeInv, TypeOK
  <2>4. TypeOK'
    BY <2>1, <2>3 DEF TypeInv, TypeOK
  <2> QED
    BY <2>1, <2>2, <2>4 DEF TypeInv, Prepared
<1>14. CASE UNCHANGED vars
  BY <1>14 DEF vars, lexer, grammar, TypeInv, TypeOK, Prepared
<1>15. CASE Forgive
  <2>1. TypeOK'
    BY <1>15 DEF Forgive, lexer, grammar, TypeInv, TypeOK, Errors
  <2> QED
    BY <1>15, <2>1 DEF Forgive, lexer, grammar, TypeInv, Prepared
<1> QED
  BY <1>3, <1>5, <1>6, <1>7, <1>8, <1>9, <1>10, <1>11, <1>12, <1>13, <1>14, <1>15, StepsAre DEF ScanSteps

\* Types hold at first.
LEMMA InitTypes == Init => TypeInv
<1> SUFFICES ASSUME Init PROVE TypeInv
  OBVIOUS
<1>1. /\ mode = "idle" /\ text = <<>> /\ next = 1 /\ condition = "INITIAL"
      /\ at = [line |-> 1, column |-> 1] /\ braces = 0 /\ buffer = <<>> /\ prefix = <<>>
      /\ words = <<>> /\ program = <<>> /\ error = "none" /\ left = "none"
  BY DEF Init
<1>2. faulted \in BOOLEAN
  BY DEF Init
<1>3. session \in Seq(Seq(Chars))
  BY SessionsAssumption DEF Init
<1>4. at \in Places
  BY <1>1 DEF Places
<1>5. text \in Seq(Chars) /\ next \in 1..(Len(text) + 1)
  BY <1>1
<1>6. TypeOK
  BY <1>1, <1>2, <1>4, <1>5 DEF TypeOK, Errors
<1> QED
  BY <1>1, <1>3, <1>6 DEF TypeInv, Prepared

\* Every position, place, word and command of every parse is of its type, and the
\* lexer never reads further than behind the last character.
THEOREM TypesHold == Spec => []TypeOK
<1>1. TypeInv => TypeOK
  BY DEF TypeInv
<1> QED
  BY <1>1, InitTypes, StepKeepsTypes, PTL DEF Spec

------------------------------------------------------------------------------
\* Inductive by itself: the lexer agrees with the grammar and failures are
\* reported; words is a sequence.
IInv ==
  /\ StartAgrees
  /\ FailureIsReported
  /\ \E S : words \in Seq(S)

\* Refusing leaves a reason.
LEMMA RefuseKeeps ==
  ASSUME IInv, mode = "scan", NEW kind \in {"lexical", "syntax", "system"}, Refuse(kind)
  PROVE  IInv'
<1>1. words' = words /\ mode' = "failed"
  BY DEF Refuse
<1>2. error' # "none"
  BY DEF Refuse, First
<1> QED
  BY <1>1, <1>2 DEF IInv, StartAgrees, FailureIsReported

\* A word is taken behind which no command can start.
LEMMA TakeWordKeeps ==
  ASSUME IInv, mode = "scan", NEW kind, NEW first, NEW contents,
         TakeWord(kind, first, contents), condition' = "INITIAL",
         error' \in {"none", "syntax"}
  PROVE  IInv'
<1> DEFINE word == [kind |-> kind, expanded |-> prefix # <<>>, contents |-> contents,
                    from |-> (IF prefix # <<>> THEN Head(prefix) ELSE first).position,
                    at |-> (IF prefix # <<>> THEN Head(prefix) ELSE first).at,
                    to |-> next' - 1,
                    end |-> [at' EXCEPT !.column = IF @ > 1 THEN @ - 1 ELSE @]]
<1>1. words' = Append(words, word) /\ mode' = "scan"
  BY Zenon DEF TakeWord, WordAppended
<1> HIDE DEF word
<1>2. PICK S : words \in Seq(S)
  BY DEF IInv
<1>3. words \in Seq(S \union {word}) /\ word \in S \union {word}
  BY <1>2, SeqMonotonic
<1>4. words' \in Seq(S \union {word}) /\ words' # <<>>
  BY <1>1, <1>3, AppendProperties
<1>5. StartAgrees' /\ FailureIsReported'
  BY <1>1, <1>4 DEF StartAgrees, FailureIsReported
<1> QED
  BY <1>4, <1>5 DEF IInv

\* A command ends, and the next one may start.
LEMMA EndCommandKeeps ==
  ASSUME IInv, mode = "scan", NEW newMode \in {"scan", "parsed"}, EndCommand(newMode),
         newMode = "scan" => condition' = "CMDSTART"
  PROVE  IInv'
<1>1. CASE prefix # <<>>
  <2>1. Refuse("syntax")
    BY <1>1 DEF EndCommand
  <2> QED
    BY <2>1, RefuseKeeps
<1>2. CASE prefix = <<>>
  <2>1. words' = <<>> /\ mode' = newMode /\ prefix' = <<>> /\ error' = error
    BY <1>2 DEF EndCommand
  <2>2. error \in {"none", "syntax"}
    BY DEF IInv, FailureIsReported
  <2>3. StartAgrees' /\ FailureIsReported'
    BY <2>1, <2>2 DEF StartAgrees, FailureIsReported
  <2>4. words' \in Seq({})
    BY <2>1
  <2> QED
    BY <2>3, <2>4 DEF IInv
<1> QED
  BY <1>1, <1>2

\* Nothing happens for the grammar: blanks, comments, and what is in braces.
LEMMA SameGrammarKeeps ==
  ASSUME IInv, mode = "scan", SameGrammar,
         condition' = condition \/ condition' = "BRACED_STATE"
  PROVE  IInv'
<1>1. words' = words /\ prefix' = prefix /\ error' = error /\ mode' = mode
  BY DEF SameGrammar
<1> QED
  BY <1>1 DEF IInv, StartAgrees, FailureIsReported

------------------------------------------------------------------------------
\* The patterns outside braces.
LEMMA TokensKeep ==
  ASSUME IInv,
         Blanks \/ Comment \/ Semicolons \/ Lines \/ Quoted \/ UnterminatedQuote \/ Expand
         \/ Variable \/ BracedVariable \/ Unquoted \/ InvalidToken \/ OpenBracedWord
  PROVE  IInv'
<1> USE DEF Matches, MovesTo
<1>1. ASSUME mode = "scan" PROVE error \in {"none", "syntax"}
  BY <1>1 DEF IInv, FailureIsReported
<1>2. ASSUME Blanks PROVE IInv'
  BY <1>2, SameGrammarKeeps DEF Blanks
<1>3. ASSUME Comment PROVE IInv'
  BY <1>3, SameGrammarKeeps DEF Comment
<1>4. ASSUME Semicolons PROVE IInv'
  BY <1>4, EndCommandKeeps DEF Semicolons
<1>5. ASSUME Lines PROVE IInv'
  BY <1>5, EndCommandKeeps DEF Lines
<1>6. ASSUME Quoted PROVE IInv'
  BY Zenon, <1>1, <1>6, TakeWordKeeps DEF Quoted
<1>7. ASSUME UnterminatedQuote PROVE IInv'
  BY <1>7, RefuseKeeps DEF UnterminatedQuote
<1>8. ASSUME Expand PROVE IInv'
  <2>1. mode = "scan" /\ condition' = "INITIAL"
    BY <1>8 DEF Expand, IsExpand
  <2>2. CASE Refuse("syntax")
    BY <2>1, <2>2, RefuseKeeps
  <2>3. CASE TakeWord("expandEmpty", Here, <<>>) /\ UNCHANGED error
    BY Zenon, <1>1, <2>1, <2>3, TakeWordKeeps
  <2>4. CASE prefix' = <<Here>> /\ UNCHANGED <<words, program, error, mode>>
    <3>1. prefix' # <<>> /\ words' = words /\ error' = error /\ mode' = mode
      BY <2>4
    <3> QED
      BY <2>1, <3>1 DEF IInv, StartAgrees, FailureIsReported
  <2> QED
    BY Zenon, <1>8, <2>2, <2>3, <2>4 DEF Expand
<1>9. ASSUME Variable PROVE IInv'
  BY Zenon, <1>1, <1>9, TakeWordKeeps DEF Variable
<1>10. ASSUME BracedVariable PROVE IInv'
  BY Zenon, <1>1, <1>10, TakeWordKeeps DEF BracedVariable
<1>11. ASSUME Unquoted PROVE IInv'
  <2> DEFINE word == UnquotedWord(text, next, UnquotedPattern)
  <2>1. mode = "scan"
    BY <1>11 DEF Unquoted, IsUnquoted
  <2>2. \/ Refuse("system")
        \/ /\ condition' = "INITIAL"
           /\ TakeWord("string", Here, SubSeq(text, next, word.end - 1))
           /\ error' = IF word.delimited THEN error ELSE First("syntax")
    BY Zenon, <1>11 DEF Unquoted
  <2>3. First("syntax") \in {"none", "syntax"}
    BY <1>1, <2>1 DEF First
  <2> HIDE DEF word
  <2>4. CASE Refuse("system")
    BY <2>1, <2>4, RefuseKeeps
  <2>5. CASE /\ condition' = "INITIAL"
             /\ TakeWord("string", Here, SubSeq(text, next, word.end - 1))
             /\ error' = IF word.delimited THEN error ELSE First("syntax")
    <3>1. error' \in {"none", "syntax"}
      BY <1>1, <2>1, <2>3, <2>5
    <3> QED
      BY Zenon, <2>1, <2>5, <3>1, TakeWordKeeps
  <2> QED
    BY <2>2, <2>4, <2>5
<1>12. ASSUME InvalidToken PROVE IInv'
  BY <1>12, RefuseKeeps DEF InvalidToken
<1>13. ASSUME OpenBracedWord PROVE IInv'
  BY <1>13, SameGrammarKeeps DEF OpenBracedWord
<1> QED
  BY <1>2, <1>3, <1>4, <1>5, <1>6, <1>7, <1>8, <1>9, <1>10, <1>11, <1>12, <1>13

\* The patterns within braces.
LEMMA BracesKeep ==
  ASSUME IInv,
         BracedEscape \/ BracedOpen \/ BracedText \/ BracedLines \/ BracedClose \/ BracedWord
         \/ UnterminatedBrace
  PROVE  IInv'
<1> USE DEF InBraces, MovesTo
<1>1. ASSUME mode = "scan" PROVE error \in {"none", "syntax"}
  BY <1>1 DEF IInv, FailureIsReported
<1>2. ASSUME BracedEscape \/ BracedOpen \/ BracedText \/ BracedLines \/ BracedClose PROVE IInv'
  <2>1. mode = "scan" /\ condition' = condition /\ SameGrammar
    BY <1>2 DEF BracedEscape, BracedOpen, BracedText, BracedLines, BracedClose, KeepColumns, Keep
  <2> QED
    BY <2>1, SameGrammarKeeps
<1>3. ASSUME BracedWord PROVE IInv'
  BY Zenon, <1>1, <1>3, TakeWordKeeps DEF BracedWord
<1>4. ASSUME UnterminatedBrace PROVE IInv'
  BY <1>4, RefuseKeeps DEF UnterminatedBrace
<1> QED
  BY <1>2, <1>3, <1>4

\* The beginning and the end of a parse, and what its caller makes of it.
LEMMA ParsesKeep ==
  ASSUME IInv, ParseScript \/ EndOfInput \/ OutOfMemory \/ ReturnProgram \/ Forgive
  PROVE  IInv'
<1>1. ASSUME ParseScript PROVE IInv'
  <2>1. /\ mode' = "scan" /\ condition' = "CMDSTART" /\ error' \in {"none", "syntax"}
        /\ words' = <<>> /\ prefix' = <<>>
    BY <1>1 DEF ParseScript, IInv, FailureIsReported
  <2>2. words' \in Seq({})
    BY <2>1
  <2> QED
    BY <2>1, <2>2 DEF IInv, StartAgrees, FailureIsReported
<1>2. ASSUME EndOfInput PROVE IInv'
  BY <1>2, EndCommandKeeps DEF EndOfInput
<1>3. ASSUME OutOfMemory PROVE IInv'
  BY <1>3, RefuseKeeps DEF OutOfMemory
<1>4. ASSUME ReturnProgram PROVE IInv'
  <2>1. words' = words /\ error' = error
    BY <1>4 DEF ReturnProgram
  <2>2. CASE mode' = "refused" /\ error # "none"
    BY <2>1, <2>2 DEF IInv, StartAgrees, FailureIsReported
  <2>3. CASE mode' = "idle" /\ (mode = "parsed" \/ error = "none")
    BY <2>1, <2>3 DEF IInv, StartAgrees, FailureIsReported
  <2> QED
    BY <1>4, <2>2, <2>3 DEF ReturnProgram, TakenForFailure
<1>5. ASSUME Forgive PROVE IInv'
  BY <1>5 DEF Forgive, grammar, IInv, StartAgrees, FailureIsReported
<1> QED
  BY <1>1, <1>2, <1>3, <1>4, <1>5

\* The invariant is inductive.
LEMMA StepKeepsIInv == IInv /\ [Next]_vars => IInv'
<1> SUFFICES ASSUME IInv, [Next]_vars PROVE IInv'
  OBVIOUS
<1>1. ASSUME UNCHANGED vars PROVE IInv'
  BY <1>1 DEF vars, lexer, grammar, IInv, StartAgrees, FailureIsReported
<1>2. AllParsed => IInv'
  BY <1>1 DEF AllParsed
<1> QED
  BY Zenon, <1>1, <1>2, TokensKeep, BracesKeep, ParsesKeep DEF Next

\* It holds before the first parse.
LEMMA InitIInv == Init => IInv
<1> SUFFICES ASSUME Init PROVE IInv
  OBVIOUS
<1>1. words \in Seq({}) /\ mode = "idle" /\ error = "none"
  BY DEF Init
<1> QED
  BY <1>1 DEF IInv, StartAgrees, FailureIsReported

------------------------------------------------------------------------------
\* The start condition of the lexer and the words of the grammar agree at every
\* token of every script: a # is a comment exactly where a command starts
\* (lexer.l:408-427, README.md:35).
THEOREM CommentsStartCommands == Spec => []StartAgrees
<1>1. IInv => StartAgrees
  BY DEF IInv
<1> QED
  BY <1>1, InitIInv, StepKeepsIInv, PTL DEF Spec

\* A parse never fails without an error in the record, from which the validator
\* tells a failure from an empty script (text.c:330), and no other error than
\* that of an open bracket is left by one that goes on.
THEOREM ErrorsAreReported == Spec => []FailureIsReported
<1>1. IInv => FailureIsReported
  BY DEF IInv
<1> QED
  BY <1>1, InitIInv, StepKeepsIInv, PTL DEF Spec

------------------------------------------------------------------------------
\* The words of commands, one by one.
LEMMA WordsAre ==
  ASSUME NEW commands, NEW S, commands \in Seq(Seq(S)), NEW w
  PROVE  w \in WordsOf(commands) <=>
           \E c \in 1..Len(commands) : \E v \in 1..Len(commands[c]) : w = commands[c][v]
<1>1. ASSUME NEW c \in 1..Len(commands)
      PROVE  w \in Range(commands[c]) <=> \E v \in 1..Len(commands[c]) : w = commands[c][v]
  <2>1. commands[c] \in Seq(S)
    OBVIOUS
  <2>2. DOMAIN commands[c] = 1..Len(commands[c])
    BY <2>1
  <2> QED
    BY <2>2 DEF Range
<1> QED
  BY <1>1 DEF WordsOf

\* A word behind the others.
LEMMA OneMoreWord ==
  ASSUME NEW S, NEW q \in Seq(Seq(S)), NEW ws \in Seq(S), NEW w \in S
  PROVE  /\ WordsOf(Append(q, Append(ws, w))) = WordsOf(Append(q, ws)) \union {w}
         /\ InOrder(Append(q, ws)) /\ (\A u \in WordsOf(Append(q, ws)) : u.to < w.from)
              => InOrder(Append(q, Append(ws, w)))
<1> DEFINE old == Append(q, ws)
           more == Append(ws, w)
           new == Append(q, more)
           last == Len(q) + 1
<1>1. more \in Seq(S) /\ Len(more) = Len(ws) + 1 /\ more[Len(ws) + 1] = w /\ Len(ws) \in Nat
      /\ \A v \in 1..Len(ws) : more[v] = ws[v]
  BY AppendProperties
<1>2. old \in Seq(Seq(S)) /\ Len(old) = last /\ old[last] = ws /\ Len(q) \in Nat
      /\ \A c \in 1..Len(q) : old[c] = q[c]
  BY AppendProperties
<1> HIDE DEF more
<1>3. new \in Seq(Seq(S)) /\ Len(new) = last /\ new[last] = more
      /\ \A c \in 1..Len(q) : new[c] = q[c]
  BY <1>1, AppendProperties
<1> HIDE DEF old, new
<1>4. ASSUME NEW u PROVE u \in WordsOf(new) <=> u \in WordsOf(old) \/ u = w
  <2>1. u \in WordsOf(new) <=> \E c \in 1..Len(new) : \E v \in 1..Len(new[c]) : u = new[c][v]
    <3>1. new \in Seq(Seq(S))
      BY <1>3
    <3> QED
      BY <3>1, WordsAre
  <2>2. u \in WordsOf(old) <=> \E c \in 1..Len(old) : \E v \in 1..Len(old[c]) : u = old[c][v]
    BY <1>2, WordsAre
  <2>3. ASSUME u \in WordsOf(new) PROVE u \in WordsOf(old) \/ u = w
    <3>1. PICK c \in 1..last : \E v \in 1..Len(new[c]) : u = new[c][v]
      BY <1>3, <2>1, <2>3
    <3>2. PICK v \in 1..Len(new[c]) : u = new[c][v]
      BY <3>1
    <3>3. CASE c = last
      BY <1>1, <1>2, <1>3, <2>2, <3>2, <3>3
    <3>4. CASE c # last
      <4>1. c \in 1..Len(q)
        BY <1>2, <3>4
      <4> QED
        BY <1>2, <1>3, <2>2, <3>2, <4>1
    <3> QED
      BY <3>3, <3>4
  <2>4. ASSUME u \in WordsOf(old) PROVE u \in WordsOf(new)
    <3>1. PICK c \in 1..last : \E v \in 1..Len(old[c]) : u = old[c][v]
      BY <1>2, <2>2, <2>4
    <3>2. PICK v \in 1..Len(old[c]) : u = old[c][v]
      BY <3>1
    <3>3. CASE c = last
      <4>1. v \in 1..Len(new[c]) /\ u = new[c][v]
        BY <1>1, <1>2, <1>3, <3>2, <3>3
      <4> QED
        BY <1>3, <2>1, <4>1
    <3>4. CASE c # last
      <4>1. c \in 1..Len(q)
        BY <1>2, <3>4
      <4> QED
        BY <1>2, <1>3, <2>1, <3>2, <4>1
    <3> QED
      BY <3>3, <3>4
  <2>5. w \in WordsOf(new)
    <3>1. last \in 1..Len(new) /\ Len(ws) + 1 \in 1..Len(new[last]) /\ w = new[last][Len(ws) + 1]
      BY <1>1, <1>2, <1>3
    <3>2. \E c \in 1..Len(new) : \E v \in 1..Len(new[c]) : w = new[c][v]
      BY Zenon, <3>1
    <3> QED
      BY Zenon, <1>3, <3>2, WordsAre
  <2> QED
    BY <2>3, <2>4, <2>5
<1>5. ASSUME InOrder(old), \A u \in WordsOf(old) : u.to < w.from
      PROVE  InOrder(new)
  <2> SUFFICES ASSUME NEW c \in 1..last, NEW d \in 1..last,
                      NEW v \in 1..Len(new[c]), NEW x \in 1..Len(new[d]),
                      c < d \/ (c = d /\ v < x)
               PROVE  new[c][v].to < new[d][x].from
    BY <1>3 DEF InOrder
  <2>1. v \in 1..Len(old[c]) /\ old[c][v] = new[c][v]
    <3>1. CASE c = last
      <4>1. c = d
        BY <1>2, <3>1
      <4> QED
        BY <1>1, <1>2, <1>3, <3>1, <4>1
    <3>2. CASE c # last
      <4>1. c \in 1..Len(q)
        BY <1>2, <3>2
      <4> QED
        BY <1>2, <1>3, <4>1
    <3> QED
      BY <3>1, <3>2
  <2>2. new[c][v] \in WordsOf(old)
    <3>1. \E a \in 1..Len(old) : \E b \in 1..Len(old[a]) : new[c][v] = old[a][b]
      BY <1>2, <2>1
    <3> QED
      BY Zenon, <1>2, <3>1, WordsAre
  <2>3. CASE d = last /\ x = Len(ws) + 1
    <3>1. new[d][x] = w
      BY <1>1, <1>3, <2>3
    <3> QED
      BY <1>5, <2>2, <3>1
  <2>4. CASE ~(d = last /\ x = Len(ws) + 1)
    <3>1. x \in 1..Len(old[d]) /\ old[d][x] = new[d][x]
      <4>1. CASE d = last
        <5>1. x \in 1..(Len(ws) + 1) /\ x # Len(ws) + 1
          BY <1>1, <1>3, <2>4, <4>1
        <5>2. x \in 1..Len(ws)
          BY <1>1, <5>1
        <5> QED
          BY <1>1, <1>2, <1>3, <4>1, <5>2
      <4>2. CASE d # last
        <5>1. d \in 1..Len(q)
          BY <1>2, <4>2
        <5> QED
          BY <1>2, <1>3, <5>1
      <4> QED
        BY <4>1, <4>2
    <3> QED
      BY <1>2, <1>5, <2>1, <3>1 DEF InOrder
  <2> QED
    BY <2>3, <2>4
<1>6. WordsOf(new) = WordsOf(old) \union {w}
  BY Zenon, <1>4
<1> QED
  BY <1>5, <1>6 DEF old, new, more

\* A command without words changes nothing.
LEMMA NoMoreWords ==
  ASSUME NEW S, NEW q \in Seq(Seq(S))
  PROVE  /\ WordsOf(Append(q, <<>>)) = WordsOf(q)
         /\ InOrder(q) <=> InOrder(Append(q, <<>>))
<1> DEFINE new == Append(q, <<>>)
           last == Len(q) + 1
<1>1. <<>> \in Seq(S)
  OBVIOUS
<1>2. new \in Seq(Seq(S)) /\ Len(new) = last /\ new[last] = <<>> /\ Len(q) \in Nat
      /\ \A c \in 1..Len(q) : new[c] = q[c]
  BY <1>1, AppendProperties
<1> HIDE DEF new
<1>3. ASSUME NEW c \in 1..last, NEW v \in 1..Len(new[c]) PROVE c \in 1..Len(q)
  BY <1>2, <1>3
<1>4. \A c \in 1..Len(q) : c \in 1..last
  BY <1>2
<1>5. ASSUME NEW u PROVE u \in WordsOf(new) <=> u \in WordsOf(q)
  <2>1. u \in WordsOf(new) <=> \E c \in 1..last : \E v \in 1..Len(new[c]) : u = new[c][v]
    BY <1>2, WordsAre
  <2>2. u \in WordsOf(q) <=> \E c \in 1..Len(q) : \E v \in 1..Len(q[c]) : u = q[c][v]
    BY WordsAre
  <2> HIDE DEF last
  <2> QED
    BY Zenon, <1>2, <1>3, <1>4, <2>1, <2>2
<1>6. WordsOf(new) = WordsOf(q)
  BY Zenon, <1>5
<1>7. InOrder(q) <=> InOrder(new)
  <2> HIDE DEF last
  <2>1. ASSUME InOrder(new) PROVE InOrder(q)
    BY Zenon, <1>2, <1>4, <2>1 DEF InOrder
  <2>2. ASSUME InOrder(q) PROVE InOrder(new)
    BY Zenon, <1>2, <1>3, <2>2 DEF InOrder
  <2> QED
    BY <2>1, <2>2
<1> QED
  BY <1>6, <1>7 DEF new

\* The words taken so far, those of the current command included.
Taken == Append(program, words)
All == WordsOf(Taken)

\* While a script is read, everything before the limit is accounted for.
Accounted(i, all) == InWord(i, all) \/ text[i] \in Delimiters \/ InComment(i, all)

Lossless ==
  mode = "scan" =>
    /\ Limit \in 1..next
    /\ prefix # <<>> /\ condition # "BRACED_STATE" => ~Has(text, next, Delimiters)
    /\ \A w \in All : w.from <= w.to /\ w.to < Limit
    /\ InOrder(Taken)
    /\ \A i \in 1..(Limit - 1) : Accounted(i, All)
    /\ condition = "CMDSTART" =>
         StartsCommand(next, All) \/ ~Has(text, next, Chars \ LineEnds)

\* Nothing of this depends on more than the text.
LEMMA SameAccount ==
  ASSUME text' = text
  PROVE  /\ \A i, all : Accounted(i, all)' <=> Accounted(i, all)
         /\ \A i, all : StartsCommand(i, all)' <=> StartsCommand(i, all)
<1>1. \A i, all : StartsCommand(i, all)' <=> StartsCommand(i, all)
  BY DEF StartsCommand, InWord, Within
<1>2. \A i, all : InComment(i, all)' <=> InComment(i, all)
  BY <1>1 DEF InComment, InWord, Within
<1> QED
  BY <1>1, <1>2 DEF Accounted, InWord, Within

\* The words taken so far are words.
LEMMA TakenTypes ==
  ASSUME TypeInv
  PROVE  /\ Taken \in Seq(Seq(Words)) /\ program \in Seq(Seq(Words)) /\ words \in Seq(Words)
         /\ \A w \in All : w \in Words
<1>1. program \in Seq(Seq(Words)) /\ words \in Seq(Words)
  BY DEF TypeInv, TypeOK
<1>2. Taken \in Seq(Seq(Words))
  BY <1>1, AppendProperties DEF Taken
<1>3. ASSUME NEW w \in All PROVE w \in Words
  <2>1. PICK c \in 1..Len(Taken) : \E v \in 1..Len(Taken[c]) : w = Taken[c][v]
    <3>1. PICK c \in 1..Len(Taken) : w \in Range(Taken[c])
      BY <1>3 DEF All, WordsOf
    <3>2. Taken[c] \in Seq(Words)
      BY <1>2
    <3>3. DOMAIN Taken[c] = 1..Len(Taken[c])
      BY <3>2
    <3> QED
      BY <3>1, <3>3 DEF Range
  <2>2. PICK v \in 1..Len(Taken[c]) : w = Taken[c][v]
    BY <2>1
  <2>3. Taken[c] \in Seq(Words)
    BY <1>2
  <2> QED
    BY <2>2, <2>3, ElementOfSeq
<1> QED
  BY <1>1, <1>2, <1>3

\* A word behind them leaves the words and comments before it as they are.
LEMMA AccountGrows ==
  ASSUME NEW all, NEW word, NEW i \in Nat \ {0}, word.from \in Nat, i < word.from,
         Accounted(i, all)
  PROVE  Accounted(i, all \union {word})
<1>1. ASSUME NEW k \in Nat, k <= i, ~InWord(k, all) PROVE ~InWord(k, all \union {word})
  BY <1>1 DEF InWord, Within
<1>2. InWord(i, all) => InWord(i, all \union {word})
  BY DEF InWord
<1>3. ASSUME InComment(i, all) PROVE InComment(i, all \union {word})
  <2>1. PICK j \in 1..i : /\ text[j] = "hash"
                          /\ \A k \in j..i : text[k] \notin LineEnds
                          /\ ~InWord(j, all)
                          /\ StartsCommand(j, all)
    BY <1>3 DEF InComment
  <2>2. PICK k \in 0..(j - 1) :
           /\ \A m \in (k + 1)..(j - 1) : text[m] = "blank"
           /\ k > 0 => text[k] \in LineEnds \union {"semicolon"} /\ ~InWord(k, all)
    BY <2>1 DEF StartsCommand
  <2>3. k \in Nat /\ k <= i /\ j \in Nat /\ j <= i
    OBVIOUS
  <2>4. /\ k > 0 => text[k] \in LineEnds \union {"semicolon"} /\ ~InWord(k, all \union {word})
        /\ ~InWord(j, all \union {word})
    BY <1>1, <2>1, <2>2, <2>3
  <2>5. StartsCommand(j, all \union {word})
    BY <2>2, <2>4 DEF StartsCommand
  <2> QED
    BY <2>1, <2>4, <2>5 DEF InComment
<1> QED
  BY <1>2, <1>3 DEF Accounted

\* No prefix waits for its word where something is skipped.
LEMMA NoneWaits ==
  ASSUME TypeInv, StartAgrees, Lossless, Skips
  PROVE  prefix = <<>>
<1>1. PICK n \in Nat : n = next'
  BY DEF Skips, Reads, Scans, TypeInv, TypeOK
<1>2. /\ Len(text) \in Nat /\ next \in Nat \ {0}
      /\ mode = "scan" /\ condition # "BRACED_STATE"
      /\ n \in next..(Len(text) + 1) /\ next < n
  BY <1>1 DEF Skips, Reads, Scans, TypeInv, TypeOK
<1>3. (\A k \in next..(n - 1) : text[k] = "blank") \/ condition = "CMDSTART"
  BY <1>1 DEF Skips
<1>4. ASSUME \A k \in next..(n - 1) : text[k] = "blank" PROVE prefix = <<>>
  <2>1. text[next] = "blank" /\ next <= Len(text)
    BY <1>2, <1>4
  <2>2. Has(text, next, Delimiters)
    BY <2>1 DEF Has, Delimiters
  <2> QED
    BY <1>2, <2>2 DEF Lossless
<1>5. condition = "CMDSTART" => prefix = <<>>
  BY <1>2 DEF StartAgrees
<1> QED
  BY Zenon, <1>3, <1>4, <1>5

\* What the limit passes without a word is a delimiter or a comment.
LEMMA SkipsKeepLossless ==
  ASSUME TypeInv, StartAgrees, Lossless, Skips
  PROVE  Lossless'
<1>1. PICK n \in Nat : n = next'
  BY DEF Skips, Reads, Scans, TypeInv, TypeOK
<1>2. /\ Len(text) \in Nat /\ next \in Nat \ {0} /\ text \in Seq(Chars)
      /\ mode = "scan" /\ condition # "BRACED_STATE"
      /\ n \in next..(Len(text) + 1) /\ next < n /\ text' = text
  BY <1>1 DEF Skips, Reads, Scans, TypeInv, TypeOK
<1>3. /\ condition' = condition /\ mode' = mode /\ prefix' = prefix /\ words' = words
      /\ program' = program /\ opened' = opened
  BY DEF Skips, SameGrammar
<1>4. /\ prefix = <<>>
      /\ \/ \A k \in next..(n - 1) : text[k] = "blank"
         \/ /\ condition = "CMDSTART" /\ text[next] = "hash"
            /\ \A k \in next..(n - 1) : text[k] \notin LineEnds
            /\ ~Has(text, n, Chars \ LineEnds)
  BY <1>1, NoneWaits DEF Skips
<1>5. Limit = next /\ Limit' = n
  BY <1>1, <1>2, <1>3, <1>4 DEF Limit
<1>6. Taken' = Taken /\ All' = All
  BY <1>3 DEF Taken, All, WordsOf, Range
<1>7. /\ \A w \in All : w \in Words /\ w.from <= w.to /\ w.to < next
      /\ InOrder(Taken)
      /\ \A i \in 1..(next - 1) : Accounted(i, All)
      /\ condition = "CMDSTART" =>
           StartsCommand(next, All) \/ ~Has(text, next, Chars \ LineEnds)
  BY <1>2, <1>5, TakenTypes DEF Lossless
<1>8. \A w \in All : w.from \in Nat /\ w.to \in Nat
  BY <1>7 DEF Words
<1>9. ASSUME NEW i \in next..(n - 1)
      PROVE  Accounted(i, All)
  <2>1. CASE \A k \in next..(n - 1) : text[k] = "blank"
    BY <1>9, <2>1 DEF Accounted, Delimiters
  <2>2. CASE /\ condition = "CMDSTART" /\ text[next] = "hash"
             /\ \A k \in next..(n - 1) : text[k] \notin LineEnds
    <3>1. ~InWord(next, All)
      BY <1>2, <1>7, <1>8 DEF InWord, Within
    <3>2. next <= Len(text) /\ text[next] \in Chars \ LineEnds
      BY <1>2, <2>2 DEF LineEnds, Chars
    <3>3. StartsCommand(next, All)
      BY <1>7, <2>2, <3>2 DEF Has
    <3>4. next \in 1..i /\ \A k \in next..i : k \in next..(n - 1)
      BY <1>2, <1>9
    <3>5. \A k \in next..i : text[k] \notin LineEnds
      BY <2>2, <3>4
    <3> QED
      BY <2>2, <3>1, <3>3, <3>4, <3>5 DEF Accounted, InComment
  <2> QED
    BY <1>4, <2>1, <2>2
<1>10. condition = "CMDSTART" => StartsCommand(n, All) \/ ~Has(text, n, Chars \ LineEnds)
  <2> SUFFICES ASSUME condition = "CMDSTART", Has(text, n, Chars \ LineEnds)
               PROVE  StartsCommand(n, All)
    OBVIOUS
  <2>1. \A k \in next..(n - 1) : text[k] = "blank"
    BY <1>4
  <2>2. next <= Len(text) /\ text[next] = "blank"
    BY <1>2, <2>1
  <2>3. Has(text, next, Chars \ LineEnds)
    BY <2>2 DEF Has, Chars, LineEnds
  <2>4. PICK k \in 0..(next - 1) :
           /\ \A m \in (k + 1)..(next - 1) : text[m] = "blank"
           /\ k > 0 => text[k] \in LineEnds \union {"semicolon"} /\ ~InWord(k, All)
    BY <1>7, <2>3 DEF StartsCommand
  <2>5. k \in 0..(n - 1) /\ \A m \in (k + 1)..(n - 1) : text[m] = "blank"
    BY <1>2, <2>1, <2>4
  <2> QED
    BY <2>4, <2>5 DEF StartsCommand
<1>11. \A i \in 1..(n - 1) : Accounted(i, All)
  BY <1>2, <1>7, <1>9
<1> QED
  <2>1. Limit' \in 1..next'
    BY <1>1, <1>2, <1>5
  <2>2. prefix' = <<>>
    BY <1>3, <1>4
  <2>3. \A w \in All' : w.from <= w.to /\ w.to < Limit'
    BY <1>2, <1>5, <1>6, <1>7, <1>8
  <2>4. InOrder(Taken)'
    BY <1>6, <1>7 DEF InOrder
  <2>5. \A i \in 1..(Limit' - 1) : Accounted(i, All)'
    BY <1>2, <1>5, <1>6, <1>11, SameAccount
  <2>6. condition' = "CMDSTART" => StartsCommand(next, All)' \/ ~Has(text', next', Chars \ LineEnds)
    BY <1>1, <1>2, <1>3, <1>6, <1>10, SameAccount
  <2>7. Has(text', next', Chars \ LineEnds) <=> Has(text, next, Chars \ LineEnds)'
    BY DEF Has
  <2> QED
    BY <2>1, <2>2, <2>3, <2>4, <2>5, <2>6, <2>7 DEF Lossless

\* The words that are taken become a command.
LEMMA CommandEnds ==
  ASSUME TypeInv, EndsCommand
  PROVE  /\ WordsOf(program') = All /\ (InOrder(Taken) => InOrder(program'))
         /\ WordsOf(Append(program', words')) = All
         /\ InOrder(Taken) => InOrder(Append(program', words'))
<1>1. /\ program \in Seq(Seq(Words)) /\ words \in Seq(Words) /\ Taken \in Seq(Seq(Words))
      /\ program' = (IF words = <<>> THEN program ELSE Taken) /\ words' = <<>>
  BY TakenTypes DEF EndsCommand, CommandAppended, Taken
<1> DEFINE q == IF words = <<>> THEN program ELSE Taken
<1>2. q \in Seq(Seq(Words))
  BY <1>1
<1>3. WordsOf(q) = All /\ (InOrder(Taken) => InOrder(q))
  <2>1. CASE words = <<>>
    <3>1. Taken = Append(program, <<>>) /\ q = program
      BY <2>1 DEF Taken
    <3> QED
      BY <1>1, <3>1, NoMoreWords DEF All
  <2>2. CASE words # <<>>
    BY <2>2 DEF All
  <2> QED
    BY <2>1, <2>2
<1> HIDE DEF q
<1>4. WordsOf(Append(q, <<>>)) = WordsOf(q) /\ (InOrder(q) <=> InOrder(Append(q, <<>>)))
  BY <1>2, NoMoreWords
<1>5. program' = q /\ words' = <<>>
  BY <1>1 DEF q
<1> QED
  BY <1>3, <1>4, <1>5

\* What is common to the steps: numbers for the positions.
LEMMA ScansIs ==
  ASSUME TypeInv, Scans
  PROVE  /\ Len(text) \in Nat /\ next \in Nat \ {0} /\ text \in Seq(Chars) /\ mode = "scan"
         /\ text' = text
         /\ \E n \in Nat : n = next' /\ n \in next..(Len(text) + 1)
BY DEF Scans, TypeInv, TypeOK

\* Before any step of a scan.
LEMMA LosslessIs ==
  ASSUME TypeInv, Lossless, mode = "scan"
  PROVE  /\ Limit \in Nat \ {0} /\ Limit <= next /\ next \in Nat
         /\ prefix # <<>> /\ condition # "BRACED_STATE" => ~Has(text, next, Delimiters)
         /\ \A w \in All : w.from \in Nat /\ w.to \in Nat /\ w.from <= w.to /\ w.to < Limit
         /\ InOrder(Taken)
         /\ \A i \in 1..(Limit - 1) : Accounted(i, All)
         /\ condition = "CMDSTART" =>
              StartsCommand(next, All) \/ ~Has(text, next, Chars \ LineEnds)
<1>1. next \in Nat /\ Limit \in 1..next
  BY DEF TypeInv, TypeOK, Lossless
<1>2. \A w \in All : w.from \in Nat /\ w.to \in Nat
  BY TakenTypes DEF Words
<1> QED
  BY <1>1, <1>2 DEF Lossless

\* Separators are delimiters, and a command may start behind them.
LEMMA SeparatesKeepsLossless ==
  ASSUME TypeInv, Lossless, Separates
  PROVE  Lossless'
<1>1. Scans /\ next < next'
  BY DEF Separates, Reads
<1>2. PICK n \in Nat : n = next' /\ n \in next..(Len(text) + 1) /\ next < n
  BY <1>1, ScansIs
<1>3. Len(text) \in Nat /\ next \in Nat \ {0} /\ mode = "scan" /\ text' = text
  BY <1>1, ScansIs
<1>4. /\ EndsCommand /\ prefix = <<>> /\ prefix' = <<>> /\ condition # "BRACED_STATE"
      /\ condition' = "CMDSTART"
      /\ \A k \in next..(n - 1) : text[k] \in {"semicolon"} \union LineEnds
  BY <1>2 DEF Separates, EndsCommand
<1>5. Limit = next /\ Limit' = n
  BY <1>2, <1>4 DEF Limit
<1>6. All' = All /\ InOrder(Taken)'
  <2>1. InOrder(Taken)' <=> InOrder(Append(program', words'))
    BY DEF InOrder, Taken
  <2>2. All' = WordsOf(Append(program', words'))
    BY DEF All, Taken, WordsOf, Range
  <2> QED
    BY <1>3, <1>4, <2>1, <2>2, LosslessIs, CommandEnds
<1>7. \A i \in 1..(n - 1) : Accounted(i, All)
  <2>1. ASSUME NEW i \in 1..(n - 1) PROVE Accounted(i, All)
    <3>1. CASE i < next
      BY <1>3, <1>5, <3>1, LosslessIs
    <3>2. CASE i >= next
      BY <1>3, <1>4, <3>2 DEF Accounted, Delimiters
    <3> QED
      BY <1>3, <3>1, <3>2
  <2> QED
    BY <2>1
<1>8. StartsCommand(n, All)
  <2>0. n \in Nat /\ next \in Nat \ {0} /\ next < n
    BY <1>2, <1>3
  <2>1. n - 1 \in 0..(n - 1) /\ \A m \in ((n - 1) + 1)..(n - 1) : text[m] = "blank"
    BY ONLY <2>0
  <2>2. n - 1 \in next..(n - 1)
    BY ONLY <2>0
  <2>3. ~InWord(n - 1, All)
    BY <1>2, <1>3, <1>5, LosslessIs DEF InWord, Within
  <2> QED
    BY <1>4, <2>1, <2>2, <2>3 DEF StartsCommand
<1> QED
  <2>1. Limit' \in 1..next'
    BY <1>2, <1>3, <1>5
  <2>2. \A w \in All' : w.from <= w.to /\ w.to < Limit'
    BY <1>2, <1>3, <1>5, <1>6, LosslessIs
  <2>3. \A i \in 1..(Limit' - 1) : Accounted(i, All)'
    BY <1>3, <1>5, <1>6, <1>7, SameAccount
  <2>4. StartsCommand(next, All)'
    BY <1>2, <1>3, <1>6, <1>8, SameAccount
  <2> QED
    BY <1>4, <1>6, <2>1, <2>2, <2>3, <2>4 DEF Lossless

\* A word takes everything from the limit on.
LEMMA TakesKeepsLossless ==
  ASSUME TypeInv, Lossless, Takes
  PROVE  Lossless'
<1>1. Scans /\ next < next' /\ condition' = "INITIAL"
  BY DEF Takes, Reads
<1>2. PICK n \in Nat : n = next' /\ n \in next..(Len(text) + 1) /\ next < n
  BY <1>1, ScansIs
<1>3. Len(text) \in Nat /\ next \in Nat \ {0} /\ mode = "scan" /\ text' = text
  BY <1>1, ScansIs
<1>4. /\ Limit \in Nat \ {0} /\ Limit <= next
      /\ \A w \in All : w.from \in Nat /\ w.to \in Nat /\ w.from <= w.to /\ w.to < Limit
      /\ InOrder(Taken)
      /\ \A i \in 1..(Limit - 1) : Accounted(i, All)
  BY <1>3, LosslessIs
<1>5. prefix' = <<>> /\ program' = program
  BY TakesIs
<1>6. PICK word \in Words : /\ words' = Append(words, word)
                            /\ word.from = Limit /\ word.to = n - 1
  BY <1>2, TakesIs
<1>7. Limit' = n
  BY <1>1, <1>2, <1>5 DEF Limit
<1>8. All' = All \union {word} /\ InOrder(Taken)'
  <2>1. InOrder(Taken)' <=> InOrder(Append(program, Append(words, word)))
    BY <1>5, <1>6 DEF InOrder, Taken
  <2>2. All' = WordsOf(Append(program, Append(words, word)))
    BY <1>5, <1>6 DEF All, Taken, WordsOf, Range
  <2>3. program \in Seq(Seq(Words)) /\ words \in Seq(Words)
    BY TakenTypes
  <2>4. \A u \in WordsOf(Append(program, words)) : u.to < word.from
    BY <1>4, <1>6 DEF All, Taken
  <2> QED
    BY <1>4, <2>1, <2>2, <2>3, <2>4, OneMoreWord DEF All, Taken
<1>9. \A i \in 1..(n - 1) : Accounted(i, All \union {word})
  <2>1. ASSUME NEW i \in 1..(n - 1) PROVE Accounted(i, All \union {word})
    <3>1. CASE i < Limit
      <4>1. Accounted(i, All) /\ i \in Nat \ {0} /\ word.from \in Nat /\ i < word.from
        BY <1>4, <1>6, <3>1
      <4> QED
        BY <4>1, AccountGrows
    <3>2. CASE i >= Limit
      <4>1. i \in word.from..word.to
        BY <1>4, <1>6, <3>2
      <4> QED
        BY <4>1 DEF Accounted, InWord, Within
    <3> QED
      BY <1>4, <3>1, <3>2
  <2> QED
    BY <2>1
<1> QED
  <2>1. Limit' \in 1..next'
    BY <1>2, <1>3, <1>7
  <2>2. \A w \in All' : w.from <= w.to /\ w.to < Limit'
    <3>1. word.from <= word.to /\ word.to < n
      <4>1. n \in Nat /\ next \in Nat \ {0} /\ next < n /\ Limit \in Nat /\ Limit <= next
        BY <1>2, <1>3, <1>4
      <4>2. Limit <= n - 1 /\ n - 1 < n
        BY ONLY <4>1
      <4> QED
        BY <1>6, <4>2
    <3>2. \A w \in All : w.to < n
      BY <1>2, <1>3, <1>4
    <3> QED
      BY <1>4, <1>7, <1>8, <3>1, <3>2
  <2>3. \A i \in 1..(Limit' - 1) : Accounted(i, All)'
    BY <1>3, <1>7, <1>8, <1>9, SameAccount
  <2> QED
    BY <1>1, <1>5, <1>8, <2>1, <2>2, <2>3 DEF Lossless

\* The limit and the words stay.
LEMMA StayKeepsLossless ==
  ASSUME TypeInv, Lossless, Prefixes \/ Opens \/ Collects
  PROVE  Lossless'
<1>1. Scans /\ next < next' /\ words' = words /\ program' = program
  BY DEF Prefixes, Opens, Collects, Reads, SameGrammar
<1>2. PICK n \in Nat : n = next' /\ n \in next..(Len(text) + 1) /\ next < n
  BY <1>1, ScansIs
<1>3. Len(text) \in Nat /\ next \in Nat \ {0} /\ mode = "scan" /\ text' = text
  BY <1>1, ScansIs
<1>4. /\ Limit \in Nat \ {0} /\ Limit <= next
      /\ \A w \in All : w.from \in Nat /\ w.to \in Nat /\ w.from <= w.to /\ w.to < Limit
      /\ InOrder(Taken)
      /\ \A i \in 1..(Limit - 1) : Accounted(i, All)
  BY <1>3, LosslessIs
<1>5. Taken' = Taken /\ All' = All
  BY <1>1 DEF Taken, All, WordsOf, Range
<1>6. Limit' = Limit /\ condition' # "CMDSTART"
  <2>1. Here.position = next
    BY DEF Here
  <2>2. CASE Prefixes
    <3>1. prefix = <<>> /\ condition # "BRACED_STATE" /\ prefix' = <<Here>> /\ condition' = "INITIAL"
      BY <2>2 DEF Prefixes
    <3>2. Limit = next
      BY <3>1 DEF Limit
    <3>3. Head(prefix') = Here /\ prefix' # <<>>
      BY <3>1
    <3> QED
      BY <2>1, <3>1, <3>2, <3>3 DEF Limit
  <2>3. CASE Opens
    BY <2>1, <2>3 DEF Opens, SameGrammar, Limit
  <2>4. CASE Collects
    BY <2>4 DEF Collects, SameGrammar, Limit
  <2> QED
    BY <2>2, <2>3, <2>4
<1>7. prefix' # <<>> /\ condition' # "BRACED_STATE" => ~Has(text, next, Delimiters)'
  <2>1. CASE Prefixes
    BY <1>3, <2>1 DEF Prefixes, Has
  <2>2. CASE Opens \/ Collects
    BY <2>2 DEF Opens, Collects
  <2> QED
    BY <2>1, <2>2
<1> QED
  <2>1. Limit' \in 1..next'
    BY <1>2, <1>3, <1>4, <1>6
  <2>2. \A w \in All' : w.from <= w.to /\ w.to < Limit'
    BY <1>4, <1>5, <1>6
  <2>3. \A i \in 1..(Limit' - 1) : Accounted(i, All)'
    BY <1>3, <1>4, <1>5, <1>6, SameAccount
  <2>4. InOrder(Taken)'
    BY <1>4, <1>5 DEF InOrder
  <2> QED
    BY <1>6, <1>7, <2>1, <2>2, <2>3, <2>4 DEF Lossless

\* A parse begins with nothing to account for.
LEMMA BeginIsLossless ==
  ASSUME ParseScript
  PROVE  Lossless'
<1>1. /\ next' = 1 /\ condition' = "CMDSTART" /\ prefix' = <<>> /\ words' = <<>> /\ program' = <<>>
  BY DEF ParseScript
<1>2. Limit' = 1
  BY <1>1 DEF Limit
<1>3. WordsOf(Append(<<>>, <<>>)) = {} /\ InOrder(Append(<<>>, <<>>))
  <2>1. <<>> \in Seq(Seq({}))
    OBVIOUS
  <2>2. WordsOf(<<>>) = {} /\ InOrder(<<>>)
    BY DEF WordsOf, InOrder
  <2> QED
    BY <2>1, <2>2, NoMoreWords
<1>4. All' = {} /\ InOrder(Taken)'
  <2>1. InOrder(Taken)' <=> InOrder(Append(<<>>, <<>>))
    BY <1>1 DEF InOrder, Taken
  <2>2. All' = WordsOf(Append(<<>>, <<>>))
    BY <1>1 DEF All, Taken, WordsOf, Range
  <2> QED
    BY <1>3, <2>1, <2>2
<1>5. StartsCommand(next, All)'
  <2>1. 0 \in 0..(1 - 1) /\ \A j \in (0 + 1)..(1 - 1) : FALSE
    OBVIOUS
  <2> QED
    BY <1>1, <2>1 DEF StartsCommand
<1>6. \A i \in 1..(Limit' - 1) : Accounted(i, All)'
  BY <1>2
<1> QED
  BY <1>1, <1>2, <1>4, <1>5, <1>6 DEF Lossless

\* At the end everything is accounted for.
LEMMA EndIsLossless ==
  ASSUME TypeInv, Lossless, Finishes
  PROVE  NothingIsLost'
<1>1. Scans /\ EndsCommand /\ condition # "BRACED_STATE" /\ prefix = <<>> /\ next = Len(text) + 1
  BY DEF Finishes, EndsCommand
<1>2. Len(text) \in Nat /\ mode = "scan" /\ text' = text
  BY <1>1, ScansIs
<1>3. Limit = Len(text) + 1
  BY <1>1 DEF Limit
<1>4. WordsOf(program)' = All /\ InOrder(program)'
  <2>1. InOrder(program)' <=> InOrder(program')
    BY DEF InOrder
  <2>2. WordsOf(program)' = WordsOf(program')
    BY DEF WordsOf, Range
  <2> QED
    BY <1>1, <1>2, <2>1, <2>2, LosslessIs, CommandEnds
<1>5. \A word \in WordsOf(program)' : word.from <= word.to
  BY <1>2, <1>4, LosslessIs
<1>6. ASSUME NEW i \in 1..Len(text')
      PROVE  \/ InWord(i, WordsOf(program))'
             \/ text'[i] \in Delimiters
             \/ InComment(i, WordsOf(program))'
  <2>1. Accounted(i, All)
    <3>1. i \in 1..(Limit - 1)
      BY <1>2, <1>3, <1>6
    <3> QED
      BY <1>2, <3>1, LosslessIs
  <2>2. Accounted(i, WordsOf(program))'
    BY <1>2, <1>4, <2>1, SameAccount
  <2> QED
    BY <2>2 DEF Accounted
<1> QED
  BY <1>4, <1>5, <1>6 DEF NothingIsLost

------------------------------------------------------------------------------
\* The lexer's place, where the limit is, and where the words are.
Placed ==
  mode = "scan" /\ NoReturns =>
    /\ at = PlaceOf(next)
    /\ LimitPlace = PlaceOf(Limit)
    /\ \A w \in All : w.at = PlaceOf(w.from) /\ (error = "none" => w.end = PlaceOf(w.to))

\* Places depend on the text only.
LEMMA SamePlaces ==
  ASSUME text' = text
  PROVE  (\A i : PlaceOf(i)' = PlaceOf(i)) /\ (NoReturns' <=> NoReturns)
BY DEF PlaceOf, NoReturns

\* Steps that take no word, and leave the limit or move it with the lexer.
LEMMA MovesKeepPlaced ==
  ASSUME TypeInv, Placed, Reads, All' = All, error' = "none" => error = "none",
         \/ Limit' = Limit /\ LimitPlace' = LimitPlace
         \/ Limit' = next' /\ LimitPlace' = at'
  PROVE  Placed'
<1>1. mode = "scan" /\ text' = text
  BY DEF Reads, Scans
<1> SUFFICES ASSUME NoReturns
             PROVE  /\ at' = PlaceOf(next)'
                    /\ LimitPlace' = PlaceOf(Limit)'
                    /\ \A w \in All' : w.at = PlaceOf(w.from)' /\ (error' = "none" => w.end = PlaceOf(w.to)')
  BY <1>1, SamePlaces DEF Placed
<1>2. at = PlaceOf(next) /\ LimitPlace = PlaceOf(Limit)
      /\ \A w \in All : w.at = PlaceOf(w.from) /\ (error = "none" => w.end = PlaceOf(w.to))
  BY <1>1 DEF Placed
<1>3. at' = PlaceOf(next')
  BY <1>2 DEF Reads
<1>4. \A i : PlaceOf(i)' = PlaceOf(i)
  BY <1>1, SamePlaces
<1>5. LimitPlace' = PlaceOf(Limit')
  BY <1>2, <1>3
<1>6. at' = PlaceOf(next)' /\ LimitPlace' = PlaceOf(Limit)'
  BY <1>3, <1>4, <1>5
<1>7. \A w \in All' : w.at = PlaceOf(w.from)' /\ (error' = "none" => w.end = PlaceOf(w.to)')
  BY <1>2, <1>4
<1> QED
  BY <1>6, <1>7

\* A word begins at the limit and ends before the lexer's new place.
LEMMA TakesKeepsPlaced ==
  ASSUME TypeInv, Placed, Takes
  PROVE  Placed'
<1>1. Reads /\ Scans /\ next < next' /\ condition' = "INITIAL"
  BY DEF Takes, Reads
<1>2. PICK n \in Nat : n = next' /\ n \in next..(Len(text) + 1) /\ next < n
  BY <1>1, ScansIs
<1>3. Len(text) \in Nat /\ next \in Nat \ {0} /\ mode = "scan" /\ text' = text
  BY <1>1, ScansIs
<1> SUFFICES ASSUME NoReturns
             PROVE  /\ at' = PlaceOf(next)'
                    /\ LimitPlace' = PlaceOf(Limit)'
                    /\ \A w \in All' : w.at = PlaceOf(w.from)' /\ (error' = "none" => w.end = PlaceOf(w.to)')
  BY <1>3, SamePlaces DEF Placed
<1>4. at = PlaceOf(next) /\ LimitPlace = PlaceOf(Limit)
      /\ \A w \in All : w.at = PlaceOf(w.from) /\ (error = "none" => w.end = PlaceOf(w.to))
  BY <1>3 DEF Placed
<1>5. at' = PlaceOf(n)
  BY <1>1, <1>2, <1>4 DEF Reads
<1>6. \A i : PlaceOf(i)' = PlaceOf(i)
  BY <1>3, SamePlaces
<1>7. prefix' = <<>> /\ program' = program
  BY TakesIs
<1>8. PICK word \in Words : /\ words' = Append(words, word)
                            /\ word.from = Limit /\ word.at = LimitPlace
                            /\ word.to = n - 1 /\ word.end = PlaceBack(at')
  BY <1>2, TakesIs
<1>9. Limit' = n /\ LimitPlace' = at'
  BY <1>1, <1>2, <1>7 DEF Limit, LimitPlace
<1>10. All' = All \union {word}
  <2>1. All' = WordsOf(Append(program, Append(words, word)))
    BY <1>7, <1>8 DEF All, Taken, WordsOf, Range
  <2>2. program \in Seq(Seq(Words)) /\ words \in Seq(Words)
    BY TakenTypes
  <2> QED
    BY <2>1, <2>2, OneMoreWord DEF All, Taken
<1>11. error' = "none" => error = "none" /\ word.end = PlaceOf(word.to)
  <2> SUFFICES ASSUME error' = "none" PROVE error = "none" /\ word.end = PlaceOf(word.to)
    OBVIOUS
  <2>1. error = "none" /\ text[n - 1] # "newline"
    BY <1>2 DEF Takes
  <2>2. n \in Nat /\ next \in Nat \ {0} /\ next < n
    BY <1>2, <1>3
  <2>3. n - 1 \in Nat \ {0} /\ (n - 1) + 1 = n
    BY ONLY <2>2
  <2>4. PlaceOf(n - 1) = PlaceBack(PlaceOf((n - 1) + 1))
    BY Zenon, <2>1, <2>3, PlaceBefore DEF PlaceBack
  <2> QED
    BY <1>5, <1>8, <2>1, <2>3, <2>4
<1>12. at' = PlaceOf(next)' /\ LimitPlace' = PlaceOf(Limit)'
  BY <1>2, <1>5, <1>6, <1>9
<1>13. \A w \in All' : w.at = PlaceOf(w.from)' /\ (error' = "none" => w.end = PlaceOf(w.to)')
  BY <1>4, <1>6, <1>8, <1>10, <1>11
<1> QED
  BY <1>12, <1>13

\* Every step of a scan keeps the places.
LEMMA ReadingKeepsPlaced ==
  ASSUME TypeInv, IInv, Lossless, Placed,
         Skips \/ Separates \/ Takes \/ Prefixes \/ Opens \/ Collects
  PROVE  Placed'
<1>1. CASE Takes
  BY <1>1, TakesKeepsPlaced
<1>2. CASE Skips
  <2>1. Reads /\ error' = error /\ words' = words /\ program' = program /\ prefix' = prefix
        /\ condition # "BRACED_STATE" /\ condition' = condition /\ mode = "scan"
    BY <1>2 DEF Skips, SameGrammar, Reads, Scans
  <2>2. prefix = <<>>
    BY <1>2, NoneWaits DEF IInv
  <2>3. Limit' = next' /\ LimitPlace' = at'
    BY <2>1, <2>2 DEF Limit, LimitPlace
  <2>4. All' = All
    BY <2>1 DEF All, Taken, WordsOf, Range
  <2> QED
    BY <2>1, <2>3, <2>4, MovesKeepPlaced
<1>3. CASE Separates
  <2>1. Reads /\ EndsCommand /\ error' = error /\ prefix' = <<>> /\ condition' = "CMDSTART"
    BY <1>3 DEF Separates, EndsCommand
  <2>2. Limit' = next' /\ LimitPlace' = at'
    BY <2>1 DEF Limit, LimitPlace
  <2>3. All' = All
    <3>1. All' = WordsOf(Append(program', words'))
      BY DEF All, Taken, WordsOf, Range
    <3> QED
      BY <2>1, <3>1, CommandEnds
  <2> QED
    BY <2>1, <2>2, <2>3, MovesKeepPlaced
<1>4. CASE Prefixes \/ Opens \/ Collects
  <2>1. Reads /\ error' = error /\ words' = words /\ program' = program
    BY <1>4 DEF Prefixes, Opens, Collects, SameGrammar
  <2>2. Limit' = Limit /\ LimitPlace' = LimitPlace
    <3>1. Here.position = next /\ Here.at = at
      BY DEF Here
    <3>2. CASE Prefixes
      <4>1. prefix = <<>> /\ condition # "BRACED_STATE" /\ prefix' = <<Here>> /\ condition' = "INITIAL"
        BY <3>2 DEF Prefixes
      <4>2. Head(prefix') = Here /\ prefix' # <<>>
        BY <4>1
      <4> QED
        BY <3>1, <4>1, <4>2 DEF Limit, LimitPlace
    <3>3. CASE Opens
      BY <3>1, <3>3 DEF Opens, SameGrammar, Limit, LimitPlace
    <3>4. CASE Collects
      BY <3>4 DEF Collects, SameGrammar, Limit, LimitPlace
    <3> QED
      BY <1>4, <3>2, <3>3, <3>4
  <2>3. All' = All
    BY <2>1 DEF All, Taken, WordsOf, Range
  <2> QED
    BY <2>1, <2>2, <2>3, MovesKeepPlaced
<1> QED
  BY <1>1, <1>2, <1>3, <1>4

\* A parse begins at the origin.
LEMMA BeginIsPlaced ==
  ASSUME TypeInv, ParseScript
  PROVE  Placed'
<1>1. /\ next' = 1 /\ at' = Origin /\ condition' = "CMDSTART" /\ prefix' = <<>>
      /\ words' = <<>> /\ program' = <<>>
  BY DEF ParseScript
<1>2. Limit' = 1 /\ LimitPlace' = Origin
  BY <1>1 DEF Limit, LimitPlace
<1>3. PlaceOf(1)' = Origin
  <2>1. {k \in 1..(1 - 1) : text'[k] = "newline"} = {}
    OBVIOUS
  <2>2. PICK l \in Nat, c \in Nat : Origin = [line |-> l, column |-> c]
    BY OriginAssumption
  <2>3. PlaceOf(1)' = [Origin EXCEPT !.column = @ + 1 - 1]
    BY <2>1 DEF PlaceOf
  <2> QED
    BY <2>2, <2>3
<1>4. All' = {}
  <2>1. <<>> \in Seq(Seq({}))
    OBVIOUS
  <2>2. WordsOf(<<>>) = {}
    BY DEF WordsOf
  <2>3. WordsOf(Append(<<>>, <<>>)) = {}
    BY <2>1, <2>2, NoMoreWords
  <2>4. All' = WordsOf(Append(<<>>, <<>>))
    BY <1>1 DEF All, Taken, WordsOf, Range
  <2> QED
    BY <2>3, <2>4
<1>5. PlaceOf(next)' = PlaceOf(1)' /\ PlaceOf(Limit)' = PlaceOf(1)'
  BY <1>1, <1>2 DEF PlaceOf
<1> QED
  BY <1>1, <1>2, <1>3, <1>4, <1>5 DEF Placed

\* The words of the program are those that were taken.
LEMMA EndIsPlaced ==
  ASSUME TypeInv, Lossless, Placed, Finishes
  PROVE  PositionsHold'
<1>1. Scans /\ EndsCommand /\ text' = text /\ mode = "scan" /\ error' = error
  BY DEF Finishes, EndsCommand, Scans
<1>2. WordsOf(program)' = All
  <2>1. WordsOf(program)' = WordsOf(program')
    BY DEF WordsOf, Range
  <2> QED
    BY <1>1, <2>1, CommandEnds
<1> SUFFICES ASSUME NoReturns
             PROVE  \A w \in WordsOf(program)' :
                      w.at = PlaceOf(w.from)' /\ (error' = "none" => w.end = PlaceOf(w.to)')
  BY <1>1 DEF PositionsHold, NoReturns
<1>3. \A w \in All : w.at = PlaceOf(w.from) /\ (error = "none" => w.end = PlaceOf(w.to))
  BY <1>1 DEF Placed
<1>4. \A i : PlaceOf(i)' = PlaceOf(i)
  BY <1>1, SamePlaces
<1> QED
  BY <1>1, <1>2, <1>3, <1>4

\* The inductive invariant of the parses.
ParseInv ==
  /\ TypeInv
  /\ IInv
  /\ Lossless
  /\ Placed
  /\ NothingIsLost
  /\ PositionsHold

\* It is inductive.
LEMMA StepKeepsParses == ParseInv /\ [Next]_vars => ParseInv'
<1> SUFFICES ASSUME ParseInv, [Next]_vars PROVE ParseInv'
  OBVIOUS
<1> USE DEF ParseInv
<1>1. TypeInv' /\ IInv'
  BY StepKeepsTypes, StepKeepsIInv
<1>2. ASSUME mode' \in {"failed", "idle", "refused"} PROVE Lossless' /\ Placed' /\ NothingIsLost' /\ PositionsHold'
  BY <1>2 DEF Lossless, Placed, NothingIsLost, PositionsHold
<1>3. ASSUME mode' = "scan" PROVE NothingIsLost' /\ PositionsHold'
  BY <1>3 DEF NothingIsLost, PositionsHold
<1>4. ASSUME mode' = "parsed" PROVE Lossless' /\ Placed'
  BY <1>4 DEF Lossless, Placed
<1>5. CASE Fails
  BY <1>1, <1>2, <1>5 DEF Fails
<1>6. CASE ReturnProgram \/ Forgive
  BY <1>1, <1>2, <1>6 DEF ReturnProgram, Forgive
<1>7. CASE Skips \/ Separates \/ Takes \/ Prefixes \/ Opens \/ Collects
  <2>1. mode' = "scan"
    BY <1>7, TakesIs DEF Skips, Separates, Prefixes, Opens, Collects, SameGrammar, Reads, Scans
  <2>2. Lossless'
    BY <1>7, SkipsKeepLossless, SeparatesKeepsLossless, TakesKeepsLossless, StayKeepsLossless DEF IInv
  <2>3. Placed'
    BY <1>7, ReadingKeepsPlaced
  <2> QED
    BY <1>1, <1>3, <2>1, <2>2, <2>3
<1>8. CASE Finishes
  <2>1. mode' = "parsed"
    BY <1>8 DEF Finishes
  <2> QED
    BY <1>1, <1>4, <1>8, <2>1, EndIsLossless, EndIsPlaced
<1>9. CASE ParseScript
  <2>1. mode' = "scan"
    BY <1>9 DEF ParseScript
  <2> QED
    BY <1>1, <1>3, <1>9, <2>1, BeginIsLossless, BeginIsPlaced
<1>10. CASE UNCHANGED vars
  <2>1. /\ text' = text /\ mode' = mode /\ next' = next /\ condition' = condition /\ at' = at
        /\ opened' = opened /\ prefix' = prefix /\ words' = words /\ program' = program /\ error' = error
    BY <1>10 DEF vars, lexer, grammar
  <2>2. Limit' = Limit /\ LimitPlace' = LimitPlace /\ Taken' = Taken /\ All' = All
    BY <2>1 DEF Limit, LimitPlace, Taken, All, WordsOf, Range
  <2>3. WordsOf(program)' = WordsOf(program)
    BY <2>1 DEF WordsOf, Range
  <2>4. (InOrder(Taken)' <=> InOrder(Taken)) /\ (InOrder(program)' <=> InOrder(program))
    BY <2>1, <2>2 DEF InOrder
  <2>5. Lossless'
    BY <2>1, <2>2, <2>4, SameAccount DEF Lossless, Has
  <2>6. Placed'
    BY <2>1, <2>2, SamePlaces DEF Placed
  <2>7. NothingIsLost'
    BY <2>1, <2>3, <2>4, SameAccount DEF NothingIsLost, Accounted
  <2>8. PositionsHold'
    BY <2>1, <2>3, SamePlaces DEF PositionsHold
  <2> QED
    BY <1>1, <2>5, <2>6, <2>7, <2>8
<1> QED
  BY <1>5, <1>6, <1>7, <1>8, <1>9, <1>10, StepsAre DEF ScanSteps

\* It holds before the first parse.
LEMMA InitParses == Init => ParseInv
<1>1. Init => mode = "idle"
  BY DEF Init
<1> QED
  BY <1>1, InitTypes, InitIInv DEF ParseInv, Lossless, Placed, NothingIsLost, PositionsHold

\* No part of a script is lost, however it is split into blanks, comments and
\* words in quotes, braces and brackets: each of its characters is in a word of
\* its commands, a delimiter or in a comment where a command could start, and the
\* words follow each other without overlap (lexer.l:406-668).
THEOREM NothingIsEverLost == Spec => []NothingIsLost
<1>1. ParseInv => NothingIsLost
  BY DEF ParseInv
<1> QED
  BY <1>1, InitParses, StepKeepsParses, PTL DEF Spec

\* Every word of a program, also one behind lines in brackets and braces, has the
\* place where it begins and where it ends (README.md:49, README.md:51).
THEOREM PositionsAlwaysHold == Spec => []PositionsHold
<1>1. ParseInv => PositionsHold
  BY DEF ParseInv
<1> QED
  BY <1>1, InitParses, StepKeepsParses, PTL DEF Spec

------------------------------------------------------------------------------
\* A parse as a value: all that the rest of it depends on.  What the lexer keeps of
\* a braced word counts only within it.
Parse(t, i, c, p, b, g) ==
  [text |-> t, next |-> i, condition |-> c, at |-> p, braces |-> b, grammar |-> g]

Grammar(x, w, q, e, m) == [prefix |-> x, words |-> w, program |-> q, error |-> e, mode |-> m]

BracesNow == IF condition = "BRACED_STATE" THEN <<braces, buffer, opened>> ELSE <<>>
GrammarNow == Grammar(prefix, words, program, error, mode)
ParseNow == Parse(text, next, condition, at, BracesNow, GrammarNow)

Parses ==
  [text : Seq(Chars), next : Nat, condition : {"CMDSTART", "INITIAL", "BRACED_STATE"},
   at : Places, braces : {<<>>} \union (Nat \X Seq(Chars) \X Spots),
   grammar : [prefix : {<<>>} \union {<<spot>> : spot \in Spots}, words : Seq(Words),
              program : Seq(Seq(Words)), error : Errors,
              mode : {"idle", "scan", "failed", "parsed", "refused"}]]

\* Where parse_script begins with a script, and an error that is in the record.
Begin(script, e) ==
  Parse(Preprocess(script), 1, "CMDSTART", Origin, <<>>, Grammar(<<>>, <<>>, <<>>, e, "scan"))

\* What the grammar makes of a token.
Refused(g, kind) ==
  Grammar(g.prefix, g.words, g.program, IF g.error = "none" THEN kind ELSE g.error, "failed")

Ended(g, m) ==
  IF g.prefix # <<>> THEN Refused(g, "syntax")
  ELSE Grammar(g.prefix, <<>>, IF g.words = <<>> THEN g.program ELSE Append(g.program, g.words),
               g.error, m)

SpotAt(i, p) == [position |-> i, at |-> p]

WithWord(g, kind, first, contents, end, place, e) ==
  LET start == IF g.prefix # <<>> THEN Head(g.prefix) ELSE first
  IN Grammar(<<>>,
             Append(g.words, [kind |-> kind, expanded |-> g.prefix # <<>>, contents |-> contents,
                              from |-> start.position, at |-> start.at, to |-> end - 1,
                              end |-> PlaceBack(place)]),
             g.program, e, g.mode)

------------------------------------------------------------------------------
\* The parse behind the token at i, pattern by pattern.
BehindBlanks(t, i, c, p, g) ==
  LET end == RunEnd(t, i, {"blank"}) IN Parse(t, end, c, AdvanceColumns(p, i, end), <<>>, g)

BehindComment(t, i, c, p, g) ==
  LET end == Before(t, i, LineEnds) IN Parse(t, end, c, AdvanceColumns(p, i, end), <<>>, g)

BehindSemicolons(t, i, p, g) ==
  LET end == RunEnd(t, i, {"semicolon"})
  IN Parse(t, end, "CMDSTART", AdvanceColumns(p, i, end), <<>>, Ended(g, "scan"))

BehindLines(t, i, p, g) ==
  LET end == RunEnd(t, i, LineEnds)
  IN Parse(t, end, "CMDSTART", AdvanceLines(p, t, i, end), <<>>, Ended(g, "scan"))

BehindWord(t, i, p, g, kind, contents, end) ==
  LET place == AdvanceColumns(p, i, end)
  IN Parse(t, end, "INITIAL", place, <<>>,
           WithWord(g, kind, SpotAt(i, p), contents, end, place, g.error))

BehindQuote(t, i, c, p, g) ==
  LET end == QuotedEnd(t, i)
  IN IF end = 0 THEN Parse(t, i, c, p, <<>>, Refused(g, "lexical"))
     ELSE BehindWord(t, i, p, g, "quoted", SubSeq(t, i + 1, end - 2), end)

BehindExpand(t, i, p, g) ==
  LET place == AdvanceColumns(p, i, i + 3)
  IN Parse(t, i + 3, "INITIAL", place, <<>>,
           IF g.prefix # <<>> THEN Refused(g, "syntax")
           ELSE IF Has(t, i + 3, Delimiters)
           THEN WithWord(g, "expandEmpty", SpotAt(i, p), <<>>, i + 3, place, g.error)
           ELSE Grammar(<<SpotAt(i, p)>>, g.words, g.program, g.error, g.mode))

BehindOpenBrace(t, i, p, g) ==
  IF Has(t, i + 1, {"star"}) /\ Has(t, i + 2, {"closeBrace"}) THEN BehindExpand(t, i, p, g)
  ELSE Parse(t, i + 1, "BRACED_STATE", AdvanceColumns(p, i, i + 1), <<1, <<>>, SpotAt(i, p)>>, g)

PatternEnd(t, i) ==
  LET variable == IF t[i] = "dollar" THEN BracedVariableEnd(t, i) ELSE 0
  IN Before(t, IF variable = 0 THEN i ELSE variable, WordStops)

BehindUnquoted(t, i, c, p, g) ==
  LET word == UnquotedWord(t, i, PatternEnd(t, i))
      place == AdvanceOver(p, t, i, word.end)
  IN IF word.delimited \/ word.open
     THEN Parse(t, word.end, "INITIAL", place, <<>>,
                WithWord(g, "string", SpotAt(i, p), SubSeq(t, i, word.end - 1), word.end, place,
                         IF word.delimited THEN g.error
                         ELSE IF g.error = "none" THEN "syntax" ELSE g.error))
     ELSE Parse(t, word.end, c, place, <<>>, Refused(g, "system"))

BehindDollar(t, i, c, p, g) ==
  IF VariableEnd(t, i) # 0
  THEN BehindWord(t, i, p, g, "var", SubSeq(t, i + 1, VariableEnd(t, i) - 1), VariableEnd(t, i))
  ELSE IF BracedVariableEnd(t, i) # 0 /\ Has(t, BracedVariableEnd(t, i), WordStops)
  THEN BehindWord(t, i, p, g, "varBraced", SubSeq(t, i + 2, BracedVariableEnd(t, i) - 2),
                  BracedVariableEnd(t, i))
  ELSE BehindUnquoted(t, i, c, p, g)

BehindToken(t, i, c, p, g) ==
  IF i > Len(t) THEN Parse(t, i, c, p, <<>>, Ended(g, "parsed"))
  ELSE IF t[i] = "blank" THEN BehindBlanks(t, i, c, p, g)
  ELSE IF t[i] = "semicolon" THEN BehindSemicolons(t, i, p, g)
  ELSE IF t[i] \in LineEnds THEN BehindLines(t, i, p, g)
  ELSE IF t[i] = "quote" THEN BehindQuote(t, i, c, p, g)
  ELSE IF t[i] = "openBrace" THEN BehindOpenBrace(t, i, p, g)
  ELSE IF t[i] = "closeBrace" THEN Parse(t, i, c, p, <<>>, Refused(g, "lexical"))
  ELSE IF t[i] = "hash" /\ c = "CMDSTART" THEN BehindComment(t, i, c, p, g)
  ELSE IF t[i] = "dollar" THEN BehindDollar(t, i, c, p, g)
  ELSE BehindUnquoted(t, i, c, p, g)

\* The parse behind the next part of a braced word.
BehindPart(t, i, end, p, b, g, depth) ==
  Parse(t, end, "BRACED_STATE", p, <<depth, b[2] \o SubSeq(t, i, end - 1), b[3]>>, g)

BehindColumns(t, i, end, p, b, g, depth) ==
  BehindPart(t, i, end, AdvanceColumns(p, i, end), b, g, depth)

BehindBraced(t, i, p, b, g) ==
  LET place == AdvanceColumns(p, i, i + 1)
  IN Parse(t, i + 1, "INITIAL", place, <<>>,
           WithWord(g, "braced", b[3], b[2], i + 1, place, g.error))

InBracedWord(t, i, p, b, g) ==
  IF i > Len(t) THEN Parse(t, i, "INITIAL", p, <<>>, Refused(g, "lexical"))
  ELSE IF t[i] = "backslash"
  THEN BehindColumns(t, i, IF Has(t, i + 1, Chars \ LineEnds) THEN i + 2 ELSE i + 1, p, b, g, b[1])
  ELSE IF t[i] = "openBrace" THEN BehindColumns(t, i, i + 1, p, b, g, b[1] + 1)
  ELSE IF t[i] \in LineEnds
  THEN BehindPart(t, i, RunEnd(t, i, LineEnds), AdvanceLines(p, t, i, RunEnd(t, i, LineEnds)),
                  b, g, b[1])
  ELSE IF t[i] # "closeBrace"
  THEN BehindColumns(t, i, Before(t, i, {"backslash", "openBrace", "closeBrace"} \union LineEnds),
                     p, b, g, b[1])
  ELSE IF b[1] > 1 THEN BehindColumns(t, i, i + 1, p, b, g, b[1] - 1)
  ELSE BehindBraced(t, i, p, b, g)

\* The one step of a parse that runs.
StepOf(v) ==
  IF v.condition = "BRACED_STATE" THEN InBracedWord(v.text, v.next, v.at, v.braces, v.grammar)
  ELSE BehindToken(v.text, v.next, v.condition, v.at, v.grammar)

------------------------------------------------------------------------------
\* What parse_script returns when the parse is over.
Outcome(v) ==
  [error |-> v.grammar.error,
   program |-> IF v.grammar.mode = "parsed" THEN v.grammar.program ELSE <<>>]

Runs(v) == v.grammar.mode = "scan"

\* A set holds the parses that are over with an outcome, and with a parse those that
\* step to it; what is in every such set leads to the outcome.
ClosedFor(S, out) ==
  \A v \in Parses :
    IF Runs(v) THEN StepOf(v) \in S => v \in S ELSE Outcome(v) = out => v \in S

Leads(v, out) == \A S \in SUBSET Parses : ClosedFor(S, out) => v \in S

\* A parse that is over leads to its own outcome and to no other.
LEMMA LeadsToItself ==
  ASSUME NEW v \in Parses, ~Runs(v), NEW out
  PROVE  Leads(v, out) <=> out = Outcome(v)
<1>1. ASSUME out = Outcome(v) PROVE Leads(v, out)
  BY <1>1 DEF Leads, ClosedFor
<1>2. ASSUME Leads(v, out), out # Outcome(v) PROVE FALSE
  <2> DEFINE S == Parses \ {v}
  <2>1. ClosedFor(S, out)
    BY <1>2 DEF ClosedFor
  <2> QED
    BY <1>2, <2>1 DEF Leads
<1> QED
  BY <1>1, <1>2

\* A parse that runs leads to what its step leads to.
LEMMA LeadsOn ==
  ASSUME NEW v \in Parses, Runs(v), NEW out
  PROVE  Leads(v, out) <=> Leads(StepOf(v), out)
<1>1. ASSUME Leads(StepOf(v), out) PROVE Leads(v, out)
  BY <1>1 DEF Leads, ClosedFor
<1>2. ASSUME Leads(v, out), NEW S \in SUBSET Parses, ClosedFor(S, out), StepOf(v) \notin S PROVE FALSE
  <2> DEFINE R == S \ {v}
  <2>1. ClosedFor(R, out)
    BY <1>2 DEF ClosedFor
  <2> QED
    BY <1>2, <2>1 DEF Leads
<1> QED
  BY <1>1, <1>2 DEF Leads

\* The parts of the value.
LEMMA GrammarFields ==
  /\ GrammarNow.prefix = prefix /\ GrammarNow.words = words /\ GrammarNow.program = program
  /\ GrammarNow.error = error /\ GrammarNow.mode = mode
BY DEF GrammarNow, Grammar

\* A refused token, a command that ends and a word that is taken: the grammar's part
\* is what the operators above make of it.
LEMMA RefusedIs ==
  ASSUME NEW kind, Refuse(kind)
  PROVE  GrammarNow' = Refused(GrammarNow, kind)
<1>1. /\ prefix' = prefix /\ words' = words /\ program' = program /\ mode' = "failed"
      /\ error' = IF error = "none" THEN kind ELSE error
  BY DEF Refuse, First
<1>2. GrammarNow' = Grammar(prefix, words, program, IF error = "none" THEN kind ELSE error, "failed")
  BY <1>1 DEF GrammarNow
<1> QED
  BY <1>2, GrammarFields DEF Refused

\* The same for a command that ends.
LEMMA EndedIs ==
  ASSUME NEW m, EndCommand(m)
  PROVE  GrammarNow' = Ended(GrammarNow, m)
<1>1. CASE prefix # <<>>
  <2>1. Refuse("syntax")
    BY <1>1 DEF EndCommand
  <2>2. GrammarNow' = Refused(GrammarNow, "syntax")
    BY <2>1, RefusedIs
  <2> QED
    BY <1>1, <2>2, GrammarFields DEF Ended
<1>2. CASE prefix = <<>>
  <2>1. /\ prefix' = prefix /\ words' = <<>> /\ error' = error /\ mode' = m
        /\ program' = IF words = <<>> THEN program ELSE Append(program, words)
    BY <1>2 DEF EndCommand, CommandAppended
  <2>2. GrammarNow' = Grammar(prefix, <<>>, IF words = <<>> THEN program ELSE Append(program, words),
                              error, m)
    BY <2>1 DEF GrammarNow
  <2> QED
    BY <1>2, <2>2, GrammarFields DEF Ended
<1> QED
  BY <1>1, <1>2

\* The same for a word.
LEMMA WithWordIs ==
  ASSUME NEW kind, NEW first, NEW contents, TakeWord(kind, first, contents)
  PROVE  GrammarNow' = WithWord(GrammarNow, kind, first, contents, next', at', error')
<1> DEFINE start == IF prefix # <<>> THEN Head(prefix) ELSE first
           word == [kind |-> kind, expanded |-> prefix # <<>>, contents |-> contents,
                    from |-> start.position, at |-> start.at, to |-> next' - 1,
                    end |-> [at' EXCEPT !.column = IF @ > 1 THEN @ - 1 ELSE @]]
<1>1. /\ words' = Append(words, word) /\ prefix' = <<>> /\ program' = program /\ mode' = mode
  BY Zenon DEF TakeWord, WordAppended
<1>2. GrammarNow' = Grammar(<<>>, Append(words, word), program, error', mode)
  BY Zenon, <1>1 DEF GrammarNow
<1> QED
  BY Zenon, <1>2, GrammarFields DEF WithWord, PlaceBack

\* The lexer's part, outside of braces.
LEMMA NowIs ==
  ASSUME SameScript, condition' # "BRACED_STATE", NEW g, GrammarNow' = g
  PROVE  ParseNow' = Parse(text, next', condition', at', <<>>, g)
<1>1. text' = text /\ BracesNow' = <<>>
  BY DEF SameScript, BracesNow
<1> QED
  BY Zenon, <1>1 DEF ParseNow

\* The lexer's part in braces.
LEMMA NowInBraces ==
  ASSUME SameScript, condition' = "BRACED_STATE", NEW g, GrammarNow' = g
  PROVE  ParseNow' = Parse(text, next', "BRACED_STATE", at', <<braces', buffer', opened'>>, g)
<1>1. text' = text /\ BracesNow' = <<braces', buffer', opened'>>
  BY DEF SameScript, BracesNow
<1> QED
  BY Zenon, <1>1 DEF ParseNow

\* The grammar sees no token.
LEMMA SameGrammarIs == SameGrammar => GrammarNow' = GrammarNow
BY DEF SameGrammar, GrammarNow

\* What an action may assume outside of braces.
Outside == mode = "scan" /\ condition # "BRACED_STATE" /\ text \in Seq(Chars) /\ next \in Nat \ {0}

\* Action by action, a step outside of braces is the one that the text asks for.
LEMMA BlanksBehind ==
  ASSUME Outside, Blanks
  PROVE  ParseNow' = BehindToken(text, next, condition, at, GrammarNow)
<1>1. next <= Len(text) /\ text[next] = "blank" /\ SameScript /\ SameGrammar
  BY DEF Blanks, Matches, Has
<1>2. /\ next' = RunEnd(text, next, {"blank"}) /\ condition' = condition
      /\ at' = AdvanceColumns(at, next, RunEnd(text, next, {"blank"}))
  BY DEF Blanks, MovesTo
<1>3. ParseNow' = Parse(text, next', condition', at', <<>>, GrammarNow)
  BY <1>1, <1>2, NowIs, SameGrammarIs DEF Outside
<1>4. ParseNow' = BehindBlanks(text, next, condition, at, GrammarNow)
  BY Zenon, <1>2, <1>3 DEF BehindBlanks
<1>5. ~(next > Len(text))
  BY <1>1 DEF Outside
<1> QED
  BY <1>1, <1>4, <1>5 DEF BehindToken

\* The same for a comment: only where a command may start.
LEMMA CommentBehind ==
  ASSUME Outside, Comment
  PROVE  ParseNow' = BehindToken(text, next, condition, at, GrammarNow)
<1>1. next <= Len(text) /\ text[next] = "hash" /\ condition = "CMDSTART" /\ SameScript /\ SameGrammar
  BY DEF Comment, Matches, Has
<1>2. /\ next' = Before(text, next, LineEnds) /\ condition' = condition
      /\ at' = AdvanceColumns(at, next, Before(text, next, LineEnds))
  BY DEF Comment, MovesTo
<1>3. ParseNow' = Parse(text, next', condition', at', <<>>, GrammarNow)
  BY <1>1, <1>2, NowIs, SameGrammarIs DEF Outside
<1>4. ParseNow' = BehindComment(text, next, condition, at, GrammarNow)
  BY Zenon, <1>2, <1>3 DEF BehindComment
<1>5. ~(next > Len(text))
  BY <1>1 DEF Outside
<1>6. "hash" \notin LineEnds
  BY DEF LineEnds
<1> QED
  BY <1>1, <1>4, <1>5, <1>6 DEF BehindToken

\* The same for semicolons.
LEMMA SemicolonsBehind ==
  ASSUME Outside, Semicolons
  PROVE  ParseNow' = BehindToken(text, next, condition, at, GrammarNow)
<1>1. next <= Len(text) /\ text[next] = "semicolon" /\ SameScript /\ EndCommand("scan")
  BY DEF Semicolons, Matches, Has
<1>2. /\ next' = RunEnd(text, next, {"semicolon"}) /\ condition' = "CMDSTART"
      /\ at' = AdvanceColumns(at, next, RunEnd(text, next, {"semicolon"}))
  BY DEF Semicolons, MovesTo
<1>3. GrammarNow' = Ended(GrammarNow, "scan")
  BY <1>1, EndedIs
<1>4. ParseNow' = Parse(text, next', condition', at', <<>>, Ended(GrammarNow, "scan"))
  BY <1>1, <1>2, <1>3, NowIs
<1>5. ParseNow' = BehindSemicolons(text, next, at, GrammarNow)
  BY Zenon, <1>2, <1>4 DEF BehindSemicolons
<1>6. ~(next > Len(text))
  BY <1>1 DEF Outside
<1> QED
  BY <1>1, <1>5, <1>6 DEF BehindToken

\* The same for line ends.
LEMMA LinesBehind ==
  ASSUME Outside, Lines
  PROVE  ParseNow' = BehindToken(text, next, condition, at, GrammarNow)
<1>1. next <= Len(text) /\ text[next] \in LineEnds /\ SameScript /\ EndCommand("scan")
  BY DEF Lines, Matches, Has
<1>2. /\ next' = RunEnd(text, next, LineEnds) /\ condition' = "CMDSTART"
      /\ at' = AdvanceLines(at, text, next, RunEnd(text, next, LineEnds))
  BY DEF Lines, MovesTo
<1>3. GrammarNow' = Ended(GrammarNow, "scan")
  BY <1>1, EndedIs
<1>4. ParseNow' = Parse(text, next', condition', at', <<>>, Ended(GrammarNow, "scan"))
  BY <1>1, <1>2, <1>3, NowIs
<1>5. ParseNow' = BehindLines(text, next, at, GrammarNow)
  BY Zenon, <1>2, <1>4 DEF BehindLines
<1>6. ~(next > Len(text)) /\ text[next] # "blank" /\ text[next] # "semicolon"
  BY <1>1 DEF Outside, LineEnds
<1> QED
  BY <1>1, <1>5, <1>6 DEF BehindToken

\* The same for the end.
LEMMA EndOfInputBehind ==
  ASSUME Outside, EndOfInput
  PROVE  ParseNow' = BehindToken(text, next, condition, at, GrammarNow)
<1>1. next > Len(text) /\ SameScript /\ EndCommand("parsed")
  BY DEF EndOfInput
<1>2. next' = next /\ condition' = condition /\ at' = at
  BY DEF EndOfInput, lexer
<1>3. GrammarNow' = Ended(GrammarNow, "parsed")
  BY <1>1, EndedIs
<1>4. ParseNow' = Parse(text, next', condition', at', <<>>, Ended(GrammarNow, "parsed"))
  BY <1>1, <1>2, <1>3, NowIs DEF Outside
<1> QED
  BY <1>1, <1>2, <1>4 DEF BehindToken

\* A word behind which the lexer goes on in INITIAL.
LEMMA WordBehind ==
  ASSUME SameScript, NEW kind, NEW contents, NEW end, TakeWord(kind, Here, contents),
         error' = error, MovesTo(end, AdvanceColumns(at, next, end), "INITIAL")
  PROVE  ParseNow' = BehindWord(text, next, at, GrammarNow, kind, contents, end)
<1>1. next' = end /\ at' = AdvanceColumns(at, next, end) /\ condition' = "INITIAL"
  BY DEF MovesTo
<1> DEFINE place == AdvanceColumns(at, next, end)
<1>2. GrammarNow' = WithWord(GrammarNow, kind, Here, contents, end, place, error)
  BY <1>1, WithWordIs
<1>3. ParseNow' = Parse(text, next', condition', at', <<>>,
                        WithWord(GrammarNow, kind, Here, contents, end, place, error))
  BY <1>1, <1>2, NowIs
<1>4. Here = SpotAt(next, at) /\ GrammarNow.error = error
  BY GrammarFields DEF Here, SpotAt
<1> QED
  BY Zenon, <1>1, <1>3, <1>4 DEF BehindWord

\* The same for a quote, terminated or not.
LEMMA QuoteBehind ==
  ASSUME Outside, Quoted \/ UnterminatedQuote
  PROVE  ParseNow' = BehindToken(text, next, condition, at, GrammarNow)
<1>1. next <= Len(text) /\ text[next] = "quote" /\ SameScript
  BY DEF Quoted, UnterminatedQuote, Matches, Has
<1> DEFINE end == QuotedEnd(text, next)
<1>2. ASSUME Quoted PROVE ParseNow' = BehindQuote(text, next, condition, at, GrammarNow)
  <2>1. /\ end # 0 /\ MovesTo(end, AdvanceColumns(at, next, end), "INITIAL")
        /\ TakeWord("quoted", Here, SubSeq(text, next + 1, end - 2)) /\ error' = error
    BY Zenon, <1>2 DEF Quoted
  <2>2. ParseNow' = BehindWord(text, next, at, GrammarNow, "quoted",
                               SubSeq(text, next + 1, end - 2), end)
    BY <1>1, <2>1, WordBehind
  <2> QED
    BY Zenon, <2>1, <2>2 DEF BehindQuote
<1>3. ASSUME UnterminatedQuote PROVE ParseNow' = BehindQuote(text, next, condition, at, GrammarNow)
  <2>1. /\ end = 0 /\ Refuse("lexical") /\ next' = next /\ condition' = condition /\ at' = at
    BY <1>3 DEF UnterminatedQuote, lexer
  <2>2. GrammarNow' = Refused(GrammarNow, "lexical")
    BY <2>1, RefusedIs
  <2>3. ParseNow' = Parse(text, next', condition', at', <<>>, Refused(GrammarNow, "lexical"))
    BY <1>1, <2>1, <2>2, NowIs DEF Outside
  <2> QED
    BY Zenon, <2>1, <2>3 DEF BehindQuote
<1>4. ParseNow' = BehindQuote(text, next, condition, at, GrammarNow)
  BY <1>2, <1>3
<1>5. ~(next > Len(text)) /\ text[next] \notin LineEnds
  BY <1>1 DEF Outside, LineEnds
<1> QED
  BY <1>1, <1>4, <1>5 DEF BehindToken

\* The same for {*}.
LEMMA ExpandBehind ==
  ASSUME Outside, Expand
  PROVE  ParseNow' = BehindToken(text, next, condition, at, GrammarNow)
<1> DEFINE place == AdvanceColumns(at, next, next + 3)
           g == IF GrammarNow.prefix # <<>> THEN Refused(GrammarNow, "syntax")
                ELSE IF Has(text, next + 3, Delimiters)
                THEN WithWord(GrammarNow, "expandEmpty", SpotAt(next, at), <<>>, next + 3, place,
                              GrammarNow.error)
                ELSE Grammar(<<SpotAt(next, at)>>, GrammarNow.words, GrammarNow.program,
                             GrammarNow.error, GrammarNow.mode)
<1>1. /\ next <= Len(text) /\ text[next] = "openBrace" /\ SameScript
      /\ Has(text, next + 1, {"star"}) /\ Has(text, next + 2, {"closeBrace"})
  BY DEF Expand, IsExpand, Matches, Has
<1>2. next' = next + 3 /\ at' = place /\ condition' = "INITIAL"
  BY DEF Expand, MovesTo
<1>3. Here = SpotAt(next, at)
  BY DEF Here, SpotAt
<1>4. GrammarNow' = g
  <2>1. CASE prefix # <<>>
    <3>1. Refuse("syntax")
      BY <2>1 DEF Expand
    <3> QED
      BY <2>1, <3>1, RefusedIs, GrammarFields
  <2>2. CASE prefix = <<>> /\ Has(text, next + 3, Delimiters)
    <3>1. TakeWord("expandEmpty", Here, <<>>) /\ error' = error
      BY <2>2 DEF Expand
    <3>2. GrammarNow' = WithWord(GrammarNow, "expandEmpty", Here, <<>>, next', at', error')
      BY <3>1, WithWordIs
    <3> QED
      BY <1>2, <1>3, <2>2, <3>1, <3>2, GrammarFields
  <2>3. CASE prefix = <<>> /\ ~Has(text, next + 3, Delimiters)
    <3>1. prefix' = <<Here>> /\ words' = words /\ program' = program /\ error' = error /\ mode' = mode
      BY <2>3 DEF Expand
    <3>2. GrammarNow' = Grammar(<<Here>>, words, program, error, mode)
      BY <3>1 DEF GrammarNow
    <3> QED
      BY <1>3, <2>3, <3>2, GrammarFields
  <2> QED
    BY <2>1, <2>2, <2>3
<1>5. ParseNow' = Parse(text, next', condition', at', <<>>, g)
  <2> HIDE DEF g, place
  <2> QED
    BY <1>1, <1>2, <1>4, NowIs
<1>6. ParseNow' = BehindExpand(text, next, at, GrammarNow)
  BY Zenon, <1>2, <1>5 DEF BehindExpand
<1>7. ParseNow' = BehindOpenBrace(text, next, at, GrammarNow)
  BY <1>1, <1>6 DEF BehindOpenBrace
<1>8. ~(next > Len(text)) /\ text[next] \notin LineEnds
  BY <1>1 DEF Outside, LineEnds
<1> QED
  BY <1>1, <1>7, <1>8 DEF BehindToken

\* The same for another open brace.
LEMMA OpenBracedWordBehind ==
  ASSUME Outside, OpenBracedWord
  PROVE  ParseNow' = BehindToken(text, next, condition, at, GrammarNow)
<1>1. /\ next <= Len(text) /\ text[next] = "openBrace" /\ SameScript /\ SameGrammar
      /\ ~(Has(text, next + 1, {"star"}) /\ Has(text, next + 2, {"closeBrace"}))
  BY DEF OpenBracedWord, IsExpand, Matches, Has
<1>2. /\ next' = next + 1 /\ at' = AdvanceColumns(at, next, next + 1)
      /\ condition' = "BRACED_STATE" /\ braces' = 1 /\ buffer' = <<>> /\ opened' = SpotAt(next, at)
  BY DEF OpenBracedWord, MovesTo, Here, SpotAt
<1>3. ParseNow' = Parse(text, next', "BRACED_STATE", at', <<braces', buffer', opened'>>, GrammarNow)
  BY <1>1, <1>2, NowInBraces, SameGrammarIs
<1>4. ParseNow' = BehindOpenBrace(text, next, at, GrammarNow)
  BY <1>1, <1>2, <1>3 DEF BehindOpenBrace
<1>5. ~(next > Len(text)) /\ text[next] \notin LineEnds
  BY <1>1 DEF Outside, LineEnds
<1> QED
  BY <1>1, <1>4, <1>5 DEF BehindToken

\* The same for a closing brace, which starts no token.
LEMMA InvalidTokenBehind ==
  ASSUME Outside, InvalidToken
  PROVE  ParseNow' = BehindToken(text, next, condition, at, GrammarNow)
<1>1. next <= Len(text) /\ text[next] = "closeBrace" /\ SameScript /\ Refuse("lexical")
  BY DEF InvalidToken, Matches, Has
<1>2. next' = next /\ condition' = condition /\ at' = at
  BY DEF InvalidToken, lexer
<1>3. ParseNow' = Parse(text, next', condition', at', <<>>, Refused(GrammarNow, "lexical"))
  BY <1>1, <1>2, RefusedIs, NowIs DEF Outside
<1>4. ~(next > Len(text)) /\ text[next] \notin LineEnds
  BY <1>1 DEF Outside, LineEnds
<1> QED
  BY <1>1, <1>2, <1>3, <1>4 DEF BehindToken

\* A token that begins with a dollar sign.
LEMMA DollarIs ==
  ASSUME Outside, next <= Len(text), text[next] = "dollar"
  PROVE  BehindToken(text, next, condition, at, GrammarNow)
           = BehindDollar(text, next, condition, at, GrammarNow)
<1>1. ~(next > Len(text)) /\ text[next] \notin LineEnds
  BY DEF Outside, LineEnds
<1> QED
  BY <1>1 DEF BehindToken

\* The same for a variable.
LEMMA VariableBehind ==
  ASSUME Outside, Variable
  PROVE  ParseNow' = BehindToken(text, next, condition, at, GrammarNow)
<1> DEFINE end == VariableEnd(text, next)
<1>1. next <= Len(text) /\ text[next] = "dollar" /\ SameScript
  BY DEF Variable, Matches, Has
<1>2. /\ end # 0 /\ MovesTo(end, AdvanceColumns(at, next, end), "INITIAL")
      /\ TakeWord("var", Here, SubSeq(text, next + 1, end - 1)) /\ error' = error
  BY Zenon DEF Variable
<1>3. ParseNow' = BehindWord(text, next, at, GrammarNow, "var", SubSeq(text, next + 1, end - 1), end)
  BY <1>1, <1>2, WordBehind
<1>4. ParseNow' = BehindDollar(text, next, condition, at, GrammarNow)
  BY Zenon, <1>2, <1>3 DEF BehindDollar
<1> QED
  BY <1>1, <1>4, DollarIs

\* A braced variable is no other one: no name can start with its brace.
LEMMA BracedVariableBehind ==
  ASSUME Outside, BracedVariable
  PROVE  ParseNow' = BehindToken(text, next, condition, at, GrammarNow)
<1> DEFINE end == BracedVariableEnd(text, next)
<1>1. next <= Len(text) /\ text[next] = "dollar" /\ SameScript
  BY DEF BracedVariable, Matches, Has
<1>2. /\ end # 0 /\ MovesTo(end, AdvanceColumns(at, next, end), "INITIAL")
      /\ Has(text, end, WordStops)
      /\ TakeWord("varBraced", Here, SubSeq(text, next + 2, end - 2)) /\ error' = error
  BY Zenon DEF BracedVariable
<1>3. ParseNow' = BehindWord(text, next, at, GrammarNow, "varBraced",
                             SubSeq(text, next + 2, end - 2), end)
  BY <1>1, <1>2, WordBehind
<1>4. VariableEnd(text, next) = 0
  <2>1. Has(text, next + 1, {"openBrace"})
    BY <1>2 DEF BracedVariableEnd
  <2> DEFINE name == RunEnd(text, next + 1, {"letter"})
  <2>2. /\ name \in (next + 1)..(Len(text) + 1)
        /\ \A k \in (next + 1)..(name - 1) : text[k] \in {"letter"}
    <3>1. Len(text) \in Nat /\ next + 1 \in Nat \ {0} /\ next + 1 <= Len(text) + 1
      BY <1>1 DEF Outside
    <3> QED
      BY <3>1, RunEndIs
  <2>3. ~(name > next + 1)
    <3> HIDE DEF name
    <3>1. ASSUME name > next + 1 PROVE FALSE
      <4>1. next + 1 \in (next + 1)..(name - 1)
        BY <2>2, <3>1 DEF Outside
      <4> QED
        BY <2>1, <2>2, <4>1 DEF Has
    <3> QED
      BY <3>1
  <2>4. name = next + 1
    <3> HIDE DEF name
    <3> QED
      BY <2>2, <2>3 DEF Outside
  <2> QED
    BY <2>4 DEF VariableEnd
<1>5. ParseNow' = BehindDollar(text, next, condition, at, GrammarNow)
  BY Zenon, <1>2, <1>3, <1>4 DEF BehindDollar
<1> QED
  BY <1>1, <1>5, DollarIs

\* The same for an unquoted word, and what no other pattern takes longer.
LEMMA UnquotedBehind ==
  ASSUME Outside, Unquoted
  PROVE  ParseNow' = BehindToken(text, next, condition, at, GrammarNow)
<1> DEFINE word == UnquotedWord(text, next, UnquotedPattern)
           place == AdvanceOver(at, text, next, word.end)
           taken == word.delimited \/ word.open
<1>1. next <= Len(text) /\ text[next] \notin WordStops /\ SameScript
  BY DEF Unquoted, IsUnquoted, Matches, Has
<1>2. /\ MovesTo(word.end, place, IF taken THEN "INITIAL" ELSE condition)
      /\ IF taken
         THEN /\ TakeWord("string", Here, SubSeq(text, next, word.end - 1))
              /\ error' = IF word.delimited THEN error ELSE First("syntax")
         ELSE Refuse("system")
  BY Zenon DEF Unquoted
<1>3. UnquotedPattern = PatternEnd(text, next)
  BY Zenon DEF UnquotedPattern, PatternEnd
<1> DEFINE w == UnquotedWord(text, next, PatternEnd(text, next))
<1>4. word = w
  BY <1>3
<1> HIDE DEF word
<1>5. ASSUME taken
      PROVE  ParseNow' = Parse(text, word.end, "INITIAL", place, <<>>,
                WithWord(GrammarNow, "string", SpotAt(next, at), SubSeq(text, next, word.end - 1),
                         word.end, place,
                         IF word.delimited THEN GrammarNow.error
                         ELSE IF GrammarNow.error = "none" THEN "syntax" ELSE GrammarNow.error))
  <2> DEFINE e == IF word.delimited THEN error ELSE IF error = "none" THEN "syntax" ELSE error
  <2>1. /\ next' = word.end /\ at' = place /\ condition' = "INITIAL"
        /\ TakeWord("string", Here, SubSeq(text, next, word.end - 1)) /\ error' = e
    BY <1>2, <1>5 DEF MovesTo, First
  <2>2. Here = SpotAt(next, at) /\ GrammarNow.error = error
    BY GrammarFields DEF Here, SpotAt
  <2>3. GrammarNow' = WithWord(GrammarNow, "string", SpotAt(next, at),
                               SubSeq(text, next, word.end - 1), word.end, place, e)
    <3> HIDE DEF e, place, taken
    <3> QED
      BY <2>1, <2>2, WithWordIs
  <2> HIDE DEF place, taken
  <2>4. ParseNow' = Parse(text, next', condition', at', <<>>, GrammarNow')
    BY <1>1, <2>1, NowIs
  <2> QED
    BY Zenon, <2>1, <2>2, <2>3, <2>4
<1>6. ASSUME ~taken
      PROVE  ParseNow' = Parse(text, word.end, condition, place, <<>>, Refused(GrammarNow, "system"))
  <2>1. next' = word.end /\ at' = place /\ condition' = condition /\ Refuse("system")
    BY <1>2, <1>6 DEF MovesTo
  <2>2. GrammarNow' = Refused(GrammarNow, "system")
    BY <2>1, RefusedIs
  <2> HIDE DEF place, taken
  <2> QED
    BY <1>1, <2>1, <2>2, NowIs DEF Outside
<1>7. ParseNow' = BehindUnquoted(text, next, condition, at, GrammarNow)
  <2>1. CASE taken
    BY Zenon, <1>4, <1>5, <2>1 DEF BehindUnquoted
  <2>2. CASE ~taken
    BY Zenon, <1>4, <1>6, <2>2 DEF BehindUnquoted
  <2> QED
    BY <2>1, <2>2
<1>8. ~(text[next] = "hash" /\ condition = "CMDSTART")
  BY DEF Unquoted, IsUnquoted
<1>9. text[next] = "dollar" =>
        /\ VariableEnd(text, next) = 0
        /\ BracedVariableEnd(text, next) # 0 => ~Has(text, BracedVariableEnd(text, next), WordStops)
  BY Zenon DEF Unquoted, IsUnquoted
<1>10. CASE text[next] = "dollar"
  <2>1. BehindDollar(text, next, condition, at, GrammarNow)
          = BehindUnquoted(text, next, condition, at, GrammarNow)
    BY Zenon, <1>9, <1>10 DEF BehindDollar
  <2> QED
    BY <1>1, <1>7, <1>10, <2>1, DollarIs
<1>11. CASE text[next] # "dollar"
  <2>1. /\ ~(next > Len(text)) /\ text[next] # "blank" /\ text[next] # "semicolon"
        /\ text[next] \notin LineEnds /\ text[next] # "quote" /\ text[next] # "openBrace"
        /\ text[next] # "closeBrace"
    BY <1>1 DEF Outside, WordStops, Delimiters
  <2> QED
    BY <1>7, <1>8, <1>11, <2>1 DEF BehindToken
<1> QED
  BY <1>10, <1>11

\* What an action may assume within a braced word.
Inside == InBraces /\ text \in Seq(Chars) /\ next \in Nat \ {0} /\ braces \in Nat

\* What the lexer keeps of a braced word.
WordNow == <<braces, buffer, opened>>

\* The lexer keeps a part of a braced word.
LEMMA PartBehind ==
  ASSUME NEW end, NEW place, NEW depth, MovesTo(end, place, "BRACED_STATE"), Keep(end),
         braces' = depth
  PROVE  ParseNow' = BehindPart(text, next, end, place, WordNow, GrammarNow, depth)
<1>1. /\ next' = end /\ at' = place /\ condition' = "BRACED_STATE"
      /\ buffer' = buffer \o SubSeq(text, next, end - 1) /\ opened' = opened
      /\ SameScript /\ SameGrammar
  BY DEF MovesTo, Keep
<1>2. ParseNow' = Parse(text, next', "BRACED_STATE", at', <<braces', buffer', opened'>>, GrammarNow)
  BY <1>1, NowInBraces, SameGrammarIs
<1>3. WordNow[2] = buffer /\ WordNow[3] = opened
  BY DEF WordNow
<1> QED
  BY <1>1, <1>2, <1>3 DEF BehindPart

\* The same for a part that has no line end.
LEMMA ColumnsBehind ==
  ASSUME InBraces, NEW end, NEW depth, KeepColumns(end), braces' = depth
  PROVE  ParseNow' = BehindColumns(text, next, end, at, WordNow, GrammarNow, depth)
<1>1. Keep(end) /\ MovesTo(end, AdvanceColumns(at, next, end), "BRACED_STATE")
  BY DEF KeepColumns, InBraces
<1> QED
  BY <1>1, PartBehind DEF BehindColumns

\* Action by action, a step in braces is the one that the text asks for.
LEMMA PartsBehind ==
  ASSUME Inside,
         BracedEscape \/ BracedOpen \/ BracedText \/ BracedLines \/ BracedClose
  PROVE  ParseNow' = InBracedWord(text, next, at, WordNow, GrammarNow)
<1>1. WordNow[1] = braces /\ InBraces
  BY DEF WordNow, Inside
<1>2. next <= Len(text) /\ ~(next > Len(text))
  BY DEF Inside, BracedEscape, BracedOpen, BracedText, BracedLines, BracedClose, Has
<1>3. CASE BracedEscape
  <2> DEFINE end == IF Has(text, next + 1, Chars \ LineEnds) THEN next + 2 ELSE next + 1
  <2>1. text[next] = "backslash" /\ KeepColumns(end) /\ braces' = braces
    BY <1>3 DEF BracedEscape, Has
  <2>2. ParseNow' = BehindColumns(text, next, end, at, WordNow, GrammarNow, braces)
    <3> HIDE DEF end
    <3> QED
      BY <1>1, <2>1, ColumnsBehind
  <2> QED
    BY <1>1, <1>2, <2>1, <2>2 DEF InBracedWord
<1>4. CASE BracedOpen
  <2>1. text[next] = "openBrace" /\ KeepColumns(next + 1) /\ braces' = braces + 1
    BY <1>4 DEF BracedOpen, Has
  <2>2. ParseNow' = BehindColumns(text, next, next + 1, at, WordNow, GrammarNow, braces + 1)
    BY <1>1, <2>1, ColumnsBehind
  <2> QED
    BY <1>1, <1>2, <2>1, <2>2 DEF InBracedWord
<1>5. CASE BracedText
  <2> DEFINE end == Before(text, next, {"backslash", "openBrace", "closeBrace"} \union LineEnds)
  <2>1. /\ text[next] \notin {"backslash", "openBrace", "closeBrace"} \union LineEnds
        /\ KeepColumns(end) /\ braces' = braces
    BY <1>5 DEF BracedText, Has
  <2>2. ParseNow' = BehindColumns(text, next, end, at, WordNow, GrammarNow, braces)
    <3> HIDE DEF end
    <3> QED
      BY <1>1, <2>1, ColumnsBehind
  <2>3. /\ text[next] # "backslash" /\ text[next] # "openBrace" /\ text[next] # "closeBrace"
        /\ text[next] \notin LineEnds
    BY <2>1
  <2> QED
    BY <1>1, <1>2, <2>2, <2>3 DEF InBracedWord
<1>6. CASE BracedLines
  <2> DEFINE end == RunEnd(text, next, LineEnds)
             place == AdvanceLines(at, text, next, end)
  <2>1. /\ text[next] \in LineEnds /\ MovesTo(end, place, "BRACED_STATE") /\ Keep(end)
        /\ braces' = braces
    BY <1>1, <1>6 DEF BracedLines, Has, InBraces
  <2>2. ParseNow' = BehindPart(text, next, end, place, WordNow, GrammarNow, braces)
    <3> HIDE DEF end, place
    <3> QED
      BY <2>1, PartBehind
  <2>3. text[next] # "backslash" /\ text[next] # "openBrace"
    BY <2>1 DEF LineEnds
  <2> QED
    BY <1>1, <1>2, <2>1, <2>2, <2>3 DEF InBracedWord
<1>7. CASE BracedClose
  <2>1. text[next] = "closeBrace" /\ KeepColumns(next + 1) /\ braces' = braces - 1 /\ braces > 1
    BY <1>7 DEF BracedClose, Has
  <2>2. ParseNow' = BehindColumns(text, next, next + 1, at, WordNow, GrammarNow, braces - 1)
    BY <1>1, <2>1, ColumnsBehind
  <2>3. text[next] \notin LineEnds
    BY <2>1 DEF LineEnds
  <2> QED
    BY <1>1, <1>2, <2>1, <2>2, <2>3 DEF InBracedWord
<1> QED
  BY <1>3, <1>4, <1>5, <1>6, <1>7

\* The same for the last brace.
LEMMA BracedWordBehind ==
  ASSUME Inside, BracedWord
  PROVE  ParseNow' = InBracedWord(text, next, at, WordNow, GrammarNow)
<1> DEFINE place == AdvanceColumns(at, next, next + 1)
<1>1. /\ next <= Len(text) /\ text[next] = "closeBrace" /\ braces = 1 /\ SameScript
      /\ next' = next + 1 /\ at' = place /\ condition' = "INITIAL" /\ error' = error
      /\ TakeWord("braced", opened, buffer)
  BY DEF BracedWord, Has, MovesTo
<1>2. /\ WordNow[1] = braces /\ WordNow[2] = buffer /\ WordNow[3] = opened
  BY DEF WordNow
<1>3. GrammarNow' = WithWord(GrammarNow, "braced", opened, buffer, next + 1, place, GrammarNow.error)
  <2> HIDE DEF place
  <2> QED
    BY <1>1, WithWordIs, GrammarFields
<1>4. ParseNow' = Parse(text, next', condition', at', <<>>, GrammarNow')
  BY <1>1, NowIs
<1>5. ParseNow' = BehindBraced(text, next, at, WordNow, GrammarNow)
  BY Zenon, <1>1, <1>2, <1>3, <1>4 DEF BehindBraced
<1>6. text[next] \notin LineEnds /\ ~(next > Len(text)) /\ ~(WordNow[1] > 1)
  BY <1>1, <1>2 DEF LineEnds, Inside
<1> QED
  BY <1>1, <1>5, <1>6 DEF InBracedWord

\* The same for the end within braces.
LEMMA UnterminatedBraceBehind ==
  ASSUME Inside, UnterminatedBrace
  PROVE  ParseNow' = InBracedWord(text, next, at, WordNow, GrammarNow)
<1>1. /\ next > Len(text) /\ SameScript /\ next' = next /\ at' = at /\ condition' = "INITIAL"
      /\ Refuse("lexical")
  BY DEF UnterminatedBrace, MovesTo
<1>2. ParseNow' = Parse(text, next', condition', at', <<>>, Refused(GrammarNow, "lexical"))
  BY <1>1, RefusedIs, NowIs
<1> QED
  BY <1>1, <1>2 DEF InBracedWord

------------------------------------------------------------------------------
\* The actions of lexer and grammar, but for a failed allocation.
ScansOn ==
  \/ Blanks \/ Comment \/ Semicolons \/ Lines \/ Quoted \/ UnterminatedQuote
  \/ Expand \/ Variable \/ BracedVariable \/ Unquoted \/ InvalidToken \/ OpenBracedWord
  \/ BracedEscape \/ BracedOpen \/ BracedText \/ BracedLines \/ BracedClose
  \/ BracedWord \/ UnterminatedBrace \/ EndOfInput

\* Every action of the lexer but a failed allocation is the one step that a parse has.
LEMMA ScansOnSteps ==
  ASSUME TypeInv, ScansOn
  PROVE  mode = "scan" /\ ParseNow' = StepOf(ParseNow) /\ SameScript
<1>1. text \in Seq(Chars) /\ next \in Nat \ {0} /\ braces \in Nat
  BY DEF TypeInv, TypeOK
<1>2. /\ ParseNow.text = text /\ ParseNow.next = next /\ ParseNow.condition = condition
      /\ ParseNow.at = at /\ ParseNow.braces = BracesNow /\ ParseNow.grammar = GrammarNow
  BY Zenon DEF ParseNow, Parse
<1>3. ASSUME Blanks \/ Comment \/ Semicolons \/ Lines \/ Quoted \/ UnterminatedQuote
             \/ Expand \/ Variable \/ BracedVariable \/ Unquoted \/ InvalidToken \/ OpenBracedWord
             \/ EndOfInput
      PROVE  mode = "scan" /\ ParseNow' = StepOf(ParseNow) /\ SameScript
  <2>1. mode = "scan" /\ condition # "BRACED_STATE" /\ SameScript
    BY <1>3 DEF Blanks, Comment, Semicolons, Lines, Quoted, UnterminatedQuote,
                Expand, Variable, BracedVariable, Unquoted, InvalidToken, OpenBracedWord, EndOfInput,
                Matches, IsExpand, IsUnquoted
  <2>2. Outside
    BY <1>1, <2>1 DEF Outside
  <2>3. ParseNow' = BehindToken(text, next, condition, at, GrammarNow)
    BY <1>3, <2>2, BlanksBehind, CommentBehind, SemicolonsBehind, LinesBehind, QuoteBehind,
       ExpandBehind, VariableBehind, BracedVariableBehind, UnquotedBehind, InvalidTokenBehind,
       OpenBracedWordBehind, EndOfInputBehind
  <2> QED
    BY <1>2, <2>1, <2>3 DEF StepOf
<1>4. ASSUME BracedEscape \/ BracedOpen \/ BracedText \/ BracedLines \/ BracedClose
             \/ BracedWord \/ UnterminatedBrace
      PROVE  mode = "scan" /\ ParseNow' = StepOf(ParseNow) /\ SameScript
  <2>1. InBraces /\ SameScript
    BY <1>4 DEF BracedEscape, BracedOpen, BracedText, BracedLines, BracedClose, BracedWord,
                UnterminatedBrace, KeepColumns, Keep
  <2>2. Inside
    BY <1>1, <2>1 DEF Inside
  <2>3. ParseNow' = InBracedWord(text, next, at, WordNow, GrammarNow)
    BY <1>4, <2>2, PartsBehind, BracedWordBehind, UnterminatedBraceBehind
  <2>4. condition = "BRACED_STATE" /\ mode = "scan"
    BY <2>1 DEF InBraces
  <2>5. BracesNow = WordNow
    BY <2>4 DEF BracesNow, WordNow
  <2> QED
    BY <1>2, <2>1, <2>3, <2>4, <2>5 DEF StepOf
<1> QED
  BY <1>3, <1>4 DEF ScansOn

\* A parse is of its type.
LEMMA ParseType == TypeInv => ParseNow \in Parses
<1> SUFFICES ASSUME TypeInv PROVE ParseNow \in Parses
  OBVIOUS
<1>1. /\ text \in Seq(Chars) /\ next \in Nat /\ condition \in {"CMDSTART", "INITIAL", "BRACED_STATE"}
      /\ at \in Places /\ braces \in Nat /\ buffer \in Seq(Chars) /\ words \in Seq(Words)
      /\ program \in Seq(Seq(Words)) /\ error \in Errors
      /\ mode \in {"idle", "scan", "failed", "parsed", "refused"}
      /\ condition = "BRACED_STATE" => opened \in Spots
  BY DEF TypeInv, TypeOK
<1>2. prefix \in {<<>>} \union {<<spot>> : spot \in Spots}
  BY DEF TypeInv
<1>3. BracesNow \in {<<>>} \union (Nat \X Seq(Chars) \X Spots)
  BY <1>1 DEF BracesNow
<1>4. GrammarNow \in [prefix : {<<>>} \union {<<spot>> : spot \in Spots}, words : Seq(Words),
              program : Seq(Seq(Words)), error : Errors,
              mode : {"idle", "scan", "failed", "parsed", "refused"}]
  BY <1>1, <1>2 DEF GrammarNow, Grammar
<1> QED
  BY <1>1, <1>3, <1>4 DEF ParseNow, Parse, Parses

------------------------------------------------------------------------------
\* The same parse with another error in the record.
Recorded(g, e) == Grammar(g.prefix, g.words, g.program, e, g.mode)
WithRecord(v, e) == Parse(v.text, v.next, v.condition, v.at, v.braces, Recorded(v.grammar, e))

\* The two differ in the error at most.
ButForError(v, w) == \E f \in Errors : v = WithRecord(w, f)

\* If only the grammar's error differs, the parses differ in no more.
LEMMA ErrorOnly ==
  ASSUME NEW t, NEW i, NEW c, NEW p, NEW b, NEW g, NEW f \in Errors
  PROVE  ButForError(Parse(t, i, c, p, b, Recorded(g, f)), Parse(t, i, c, p, b, g))
<1> DEFINE w == Parse(t, i, c, p, b, g)
<1>1. /\ w.text = t /\ w.next = i /\ w.condition = c /\ w.at = p /\ w.braces = b /\ w.grammar = g
  BY DEF Parse
<1> HIDE DEF w
<1>2. Parse(t, i, c, p, b, Recorded(g, f)) = WithRecord(w, f)
  BY Zenon, <1>1 DEF WithRecord
<1> QED
  BY Zenon, <1>2 DEF ButForError, w

\* The parts of the grammar but the error.
LEMMA RecordedFields ==
  ASSUME NEW g, NEW e
  PROVE  /\ Recorded(g, e).prefix = g.prefix /\ Recorded(g, e).words = g.words
         /\ Recorded(g, e).program = g.program /\ Recorded(g, e).mode = g.mode
         /\ Recorded(g, e).error = e
BY DEF Recorded, Grammar

\* Refusing, the end of a command and a word do the same whatever is recorded.
LEMMA RefusedLike ==
  ASSUME NEW g, NEW e \in Errors, NEW kind \in Errors
  PROVE  \E f \in Errors : Refused(Recorded(g, e), kind) = Recorded(Refused(g, kind), f)
<1> DEFINE f == IF e = "none" THEN kind ELSE e
           r == Refused(g, kind)
<1>1. f \in Errors
  OBVIOUS
<1>2. /\ r.prefix = g.prefix /\ r.words = g.words /\ r.program = g.program /\ r.mode = "failed"
  BY DEF Refused, Grammar
<1>3. Refused(Recorded(g, e), kind) = Grammar(g.prefix, g.words, g.program, f, "failed")
  BY Zenon, RecordedFields DEF Refused
<1> HIDE DEF r, f
<1>4. Recorded(r, f) = Grammar(g.prefix, g.words, g.program, f, "failed")
  BY Zenon, <1>2 DEF Recorded
<1> QED
  BY Zenon, <1>1, <1>3, <1>4 DEF r

\* The same for a command that ends.
LEMMA EndedLike ==
  ASSUME NEW g, NEW e \in Errors, NEW m
  PROVE  \E f \in Errors : Ended(Recorded(g, e), m) = Recorded(Ended(g, m), f)
<1>1. CASE g.prefix # <<>>
  <2>1. Ended(g, m) = Refused(g, "syntax") /\ Ended(Recorded(g, e), m) = Refused(Recorded(g, e), "syntax")
    BY Zenon, <1>1, RecordedFields DEF Ended
  <2> QED
    BY <2>1, RefusedLike DEF Errors
<1>2. CASE g.prefix = <<>>
  <2> DEFINE commands == IF g.words = <<>> THEN g.program ELSE Append(g.program, g.words)
             r == Ended(g, m)
  <2>1. r = Grammar(g.prefix, <<>>, commands, g.error, m)
    BY Zenon, <1>2 DEF Ended
  <2>2. Ended(Recorded(g, e), m) = Grammar(g.prefix, <<>>, commands, e, m)
    BY Zenon, <1>2, RecordedFields DEF Ended
  <2> HIDE DEF commands, r
  <2>3. r.prefix = g.prefix /\ r.words = <<>> /\ r.program = commands /\ r.mode = m
    BY <2>1 DEF Grammar
  <2>4. Recorded(r, e) = Grammar(g.prefix, <<>>, commands, e, m)
    BY Zenon, <2>3 DEF Recorded
  <2> QED
    BY Zenon, <2>2, <2>4 DEF r
<1> QED
  BY <1>1, <1>2

\* The same for a word.
LEMMA WithWordLike ==
  ASSUME NEW g, NEW e, NEW kind, NEW first, NEW contents, NEW end, NEW place, NEW x, NEW y
  PROVE  WithWord(Recorded(g, e), kind, first, contents, end, place, x)
           = Recorded(WithWord(g, kind, first, contents, end, place, y), x)
<1> DEFINE start == IF g.prefix # <<>> THEN Head(g.prefix) ELSE first
           more == Append(g.words, [kind |-> kind, expanded |-> g.prefix # <<>>, contents |-> contents,
                                    from |-> start.position, at |-> start.at, to |-> end - 1,
                                    end |-> PlaceBack(place)])
           r == WithWord(g, kind, first, contents, end, place, y)
<1>1. r = Grammar(<<>>, more, g.program, y, g.mode)
  BY Zenon DEF WithWord
<1>2. WithWord(Recorded(g, e), kind, first, contents, end, place, x)
        = Grammar(<<>>, more, g.program, x, g.mode)
  BY Zenon, RecordedFields DEF WithWord
<1> HIDE DEF more, r
<1>3. r.prefix = <<>> /\ r.words = more /\ r.program = g.program /\ r.mode = g.mode
  BY <1>1 DEF Grammar
<1> QED
  BY Zenon, <1>2, <1>3 DEF Recorded, r

\* Token by token, the lexer reads the same whatever is recorded: a refusal,
LEMMA RefusalLike ==
  ASSUME NEW t, NEW i, NEW c, NEW p, NEW b, NEW g, NEW e \in Errors, NEW kind \in Errors
  PROVE  ButForError(Parse(t, i, c, p, b, Refused(Recorded(g, e), kind)),
                     Parse(t, i, c, p, b, Refused(g, kind)))
<1>1. PICK f \in Errors : Refused(Recorded(g, e), kind) = Recorded(Refused(g, kind), f)
  BY RefusedLike
<1> QED
  BY <1>1, ErrorOnly

\* the end of a command,
LEMMA EndLike ==
  ASSUME NEW t, NEW i, NEW c, NEW p, NEW b, NEW g, NEW e \in Errors, NEW m
  PROVE  ButForError(Parse(t, i, c, p, b, Ended(Recorded(g, e), m)),
                     Parse(t, i, c, p, b, Ended(g, m)))
<1>1. PICK f \in Errors : Ended(Recorded(g, e), m) = Recorded(Ended(g, m), f)
  BY EndedLike
<1> QED
  BY <1>1, ErrorOnly

\* and a word.
LEMMA WordLike ==
  ASSUME NEW t, NEW i, NEW p, NEW q, NEW g, NEW e, NEW kind, NEW first, NEW contents,
         NEW x \in Errors, NEW y
  PROVE  ButForError(Parse(t, i, "INITIAL", p, <<>>,
                           WithWord(Recorded(g, e), kind, first, contents, i, q, x)),
                     Parse(t, i, "INITIAL", p, <<>>,
                           WithWord(g, kind, first, contents, i, q, y)))
<1>1. WithWord(Recorded(g, e), kind, first, contents, i, q, x)
        = Recorded(WithWord(g, kind, first, contents, i, q, y), x)
  BY WithWordLike
<1> QED
  BY <1>1, ErrorOnly

\* A word whose error is the one that was recorded.
LEMMA BehindWordLike ==
  ASSUME NEW t, NEW i, NEW p, NEW g, NEW e \in Errors, NEW kind, NEW contents, NEW end
  PROVE  ButForError(BehindWord(t, i, p, Recorded(g, e), kind, contents, end),
                     BehindWord(t, i, p, g, kind, contents, end))
<1> DEFINE place == AdvanceColumns(p, i, end)
<1>1. BehindWord(t, i, p, Recorded(g, e), kind, contents, end)
        = Parse(t, end, "INITIAL", place, <<>>,
                WithWord(Recorded(g, e), kind, SpotAt(i, p), contents, end, place, e))
  BY Zenon, RecordedFields DEF BehindWord
<1>2. BehindWord(t, i, p, g, kind, contents, end)
        = Parse(t, end, "INITIAL", place, <<>>,
                WithWord(g, kind, SpotAt(i, p), contents, end, place, g.error))
  BY Zenon DEF BehindWord
<1> HIDE DEF place
<1> QED
  BY <1>1, <1>2, WordLike

\* A quoted word.
LEMMA BehindQuoteLike ==
  ASSUME NEW t, NEW i, NEW c, NEW p, NEW g, NEW e \in Errors
  PROVE  ButForError(BehindQuote(t, i, c, p, Recorded(g, e)), BehindQuote(t, i, c, p, g))
<1>1. CASE QuotedEnd(t, i) = 0
  <2>1. "lexical" \in Errors
    BY DEF Errors
  <2>2. /\ BehindQuote(t, i, c, p, Recorded(g, e)) = Parse(t, i, c, p, <<>>, Refused(Recorded(g, e), "lexical"))
        /\ BehindQuote(t, i, c, p, g) = Parse(t, i, c, p, <<>>, Refused(g, "lexical"))
    BY Zenon, <1>1 DEF BehindQuote
  <2> QED
    BY <2>1, <2>2, RefusalLike
<1>2. CASE QuotedEnd(t, i) # 0
  <2> DEFINE contents == SubSeq(t, i + 1, QuotedEnd(t, i) - 2)
  <2>1. /\ BehindQuote(t, i, c, p, Recorded(g, e))
             = BehindWord(t, i, p, Recorded(g, e), "quoted", contents, QuotedEnd(t, i))
        /\ BehindQuote(t, i, c, p, g) = BehindWord(t, i, p, g, "quoted", contents, QuotedEnd(t, i))
    BY Zenon, <1>2 DEF BehindQuote
  <2> HIDE DEF contents
  <2> QED
    BY <2>1, BehindWordLike
<1> QED
  BY <1>1, <1>2

\* An expansion prefix, or a braced word that begins.
LEMMA BehindOpenBraceLike ==
  ASSUME NEW t, NEW i, NEW p, NEW g, NEW e \in Errors
  PROVE  ButForError(BehindOpenBrace(t, i, p, Recorded(g, e)), BehindOpenBrace(t, i, p, g))
<1> DEFINE h == Recorded(g, e)
           place == AdvanceColumns(p, i, i + 3)
<1>1. ButForError(BehindExpand(t, i, p, h), BehindExpand(t, i, p, g))
  <2>1. CASE g.prefix # <<>>
    <3>1. /\ BehindExpand(t, i, p, h) = Parse(t, i + 3, "INITIAL", place, <<>>, Refused(h, "syntax"))
          /\ BehindExpand(t, i, p, g) = Parse(t, i + 3, "INITIAL", place, <<>>, Refused(g, "syntax"))
      BY Zenon, <2>1, RecordedFields DEF BehindExpand
    <3>2. "syntax" \in Errors
      BY DEF Errors
    <3> HIDE DEF place
    <3> QED
      BY <3>1, <3>2, RefusalLike
  <2>2. CASE g.prefix = <<>> /\ Has(t, i + 3, Delimiters)
    <3>1. /\ BehindExpand(t, i, p, h)
               = Parse(t, i + 3, "INITIAL", place, <<>>,
                       WithWord(h, "expandEmpty", SpotAt(i, p), <<>>, i + 3, place, e))
          /\ BehindExpand(t, i, p, g)
               = Parse(t, i + 3, "INITIAL", place, <<>>,
                       WithWord(g, "expandEmpty", SpotAt(i, p), <<>>, i + 3, place, g.error))
      BY Zenon, <2>2, RecordedFields DEF BehindExpand
    <3> HIDE DEF place
    <3> QED
      BY <3>1, WordLike
  <2>3. CASE g.prefix = <<>> /\ ~Has(t, i + 3, Delimiters)
    <3> DEFINE k == Grammar(<<SpotAt(i, p)>>, g.words, g.program, g.error, g.mode)
    <3>1. BehindExpand(t, i, p, g) = Parse(t, i + 3, "INITIAL", place, <<>>, k)
      BY Zenon, <2>3 DEF BehindExpand
    <3>2. BehindExpand(t, i, p, h)
            = Parse(t, i + 3, "INITIAL", place, <<>>,
                    Grammar(<<SpotAt(i, p)>>, g.words, g.program, e, g.mode))
      BY Zenon, <2>3, RecordedFields DEF BehindExpand
    <3>3. k.prefix = <<SpotAt(i, p)>> /\ k.words = g.words /\ k.program = g.program /\ k.mode = g.mode
      BY DEF Grammar
    <3> HIDE DEF k, place
    <3>4. Grammar(<<SpotAt(i, p)>>, g.words, g.program, e, g.mode) = Recorded(k, e)
      BY Zenon, <3>3 DEF Recorded
    <3> QED
      BY <3>1, <3>2, <3>4, ErrorOnly
  <2> QED
    BY Zenon, <2>1, <2>2, <2>3
<1>2. CASE Has(t, i + 1, {"star"}) /\ Has(t, i + 2, {"closeBrace"})
  BY Zenon, <1>1, <1>2 DEF BehindOpenBrace
<1>3. CASE ~(Has(t, i + 1, {"star"}) /\ Has(t, i + 2, {"closeBrace"}))
  <2> DEFINE q == AdvanceColumns(p, i, i + 1)
             b == <<1, <<>>, SpotAt(i, p)>>
  <2>1. /\ BehindOpenBrace(t, i, p, h) = Parse(t, i + 1, "BRACED_STATE", q, b, h)
        /\ BehindOpenBrace(t, i, p, g) = Parse(t, i + 1, "BRACED_STATE", q, b, g)
    BY Zenon, <1>3 DEF BehindOpenBrace
  <2> HIDE DEF q, b
  <2> QED
    BY <2>1, ErrorOnly
<1> QED
  BY Zenon, <1>2, <1>3

\* An unquoted word, with the error that it may record itself.
LEMMA BehindUnquotedLike ==
  ASSUME NEW t, NEW i, NEW c, NEW p, NEW g, NEW e \in Errors
  PROVE  ButForError(BehindUnquoted(t, i, c, p, Recorded(g, e)), BehindUnquoted(t, i, c, p, g))
<1> DEFINE h == Recorded(g, e)
           word == UnquotedWord(t, i, PatternEnd(t, i))
           place == AdvanceOver(p, t, i, word.end)
           contents == SubSeq(t, i, word.end - 1)
           x == IF word.delimited THEN e ELSE IF e = "none" THEN "syntax" ELSE e
           y == IF word.delimited THEN g.error ELSE IF g.error = "none" THEN "syntax" ELSE g.error
<1>1. x \in Errors /\ "system" \in Errors
  BY DEF Errors
<1>2. CASE word.delimited \/ word.open
  <2>1. /\ BehindUnquoted(t, i, c, p, h)
             = Parse(t, word.end, "INITIAL", place, <<>>,
                     WithWord(h, "string", SpotAt(i, p), contents, word.end, place, x))
        /\ BehindUnquoted(t, i, c, p, g)
             = Parse(t, word.end, "INITIAL", place, <<>>,
                     WithWord(g, "string", SpotAt(i, p), contents, word.end, place, y))
    BY Zenon, <1>2, RecordedFields DEF BehindUnquoted
  <2> HIDE DEF word, place, contents, x, y
  <2> QED
    BY <1>1, <2>1, WordLike
<1>3. CASE ~(word.delimited \/ word.open)
  <2>1. /\ BehindUnquoted(t, i, c, p, h) = Parse(t, word.end, c, place, <<>>, Refused(h, "system"))
        /\ BehindUnquoted(t, i, c, p, g) = Parse(t, word.end, c, place, <<>>, Refused(g, "system"))
    BY Zenon, <1>3 DEF BehindUnquoted
  <2> HIDE DEF word, place, x
  <2> QED
    BY <1>1, <2>1, RefusalLike
<1> QED
  BY Zenon, <1>2, <1>3

\* A variable, or an unquoted word that begins like one.
LEMMA BehindDollarLike ==
  ASSUME NEW t, NEW i, NEW c, NEW p, NEW g, NEW e \in Errors
  PROVE  ButForError(BehindDollar(t, i, c, p, Recorded(g, e)), BehindDollar(t, i, c, p, g))
<1> DEFINE h == Recorded(g, e)
           end == VariableEnd(t, i)
           braced == BracedVariableEnd(t, i)
<1>1. CASE end # 0
  <2> DEFINE contents == SubSeq(t, i + 1, end - 1)
  <2>1. /\ BehindDollar(t, i, c, p, h) = BehindWord(t, i, p, h, "var", contents, end)
        /\ BehindDollar(t, i, c, p, g) = BehindWord(t, i, p, g, "var", contents, end)
    BY Zenon, <1>1 DEF BehindDollar
  <2> HIDE DEF contents, end
  <2> QED
    BY <2>1, BehindWordLike
<1>2. CASE end = 0 /\ braced # 0 /\ Has(t, braced, WordStops)
  <2> DEFINE contents == SubSeq(t, i + 2, braced - 2)
  <2>1. /\ BehindDollar(t, i, c, p, h) = BehindWord(t, i, p, h, "varBraced", contents, braced)
        /\ BehindDollar(t, i, c, p, g) = BehindWord(t, i, p, g, "varBraced", contents, braced)
    BY Zenon, <1>2 DEF BehindDollar
  <2> HIDE DEF contents, braced
  <2> QED
    BY <2>1, BehindWordLike
<1>3. CASE end = 0 /\ ~(braced # 0 /\ Has(t, braced, WordStops))
  <2>1. /\ BehindDollar(t, i, c, p, h) = BehindUnquoted(t, i, c, p, h)
        /\ BehindDollar(t, i, c, p, g) = BehindUnquoted(t, i, c, p, g)
    BY Zenon, <1>3 DEF BehindDollar
  <2> QED
    BY Zenon, <2>1, BehindUnquotedLike
<1> QED
  BY Zenon, <1>1, <1>2, <1>3

\* What the lexer reads outside braces does not depend on what is recorded.
LEMMA BehindTokenLike ==
  ASSUME NEW t, NEW i, NEW c, NEW p, NEW g, NEW e \in Errors
  PROVE  ButForError(BehindToken(t, i, c, p, Recorded(g, e)), BehindToken(t, i, c, p, g))
<1> DEFINE h == Recorded(g, e)
<1>1. CASE i > Len(t)
  <2>1. /\ BehindToken(t, i, c, p, h) = Parse(t, i, c, p, <<>>, Ended(h, "parsed"))
        /\ BehindToken(t, i, c, p, g) = Parse(t, i, c, p, <<>>, Ended(g, "parsed"))
    BY Zenon, <1>1 DEF BehindToken
  <2> QED
    BY <2>1, EndLike
<1>2. CASE ~(i > Len(t)) /\ t[i] = "blank"
  <2> DEFINE end == RunEnd(t, i, {"blank"})
             q == AdvanceColumns(p, i, end)
  <2>1. /\ BehindToken(t, i, c, p, h) = Parse(t, end, c, q, <<>>, h)
        /\ BehindToken(t, i, c, p, g) = Parse(t, end, c, q, <<>>, g)
    BY Zenon, <1>2 DEF BehindToken, BehindBlanks
  <2> HIDE DEF end, q
  <2> QED
    BY <2>1, ErrorOnly
<1>3. CASE ~(i > Len(t)) /\ t[i] # "blank" /\ t[i] = "semicolon"
  <2> DEFINE end == RunEnd(t, i, {"semicolon"})
             q == AdvanceColumns(p, i, end)
  <2>1. /\ BehindToken(t, i, c, p, h) = Parse(t, end, "CMDSTART", q, <<>>, Ended(h, "scan"))
        /\ BehindToken(t, i, c, p, g) = Parse(t, end, "CMDSTART", q, <<>>, Ended(g, "scan"))
    BY Zenon, <1>3 DEF BehindToken, BehindSemicolons
  <2> HIDE DEF end, q
  <2> QED
    BY <2>1, EndLike
<1>4. CASE ~(i > Len(t)) /\ t[i] # "blank" /\ t[i] # "semicolon" /\ t[i] \in LineEnds
  <2> DEFINE end == RunEnd(t, i, LineEnds)
             q == AdvanceLines(p, t, i, end)
  <2>1. /\ BehindToken(t, i, c, p, h) = Parse(t, end, "CMDSTART", q, <<>>, Ended(h, "scan"))
        /\ BehindToken(t, i, c, p, g) = Parse(t, end, "CMDSTART", q, <<>>, Ended(g, "scan"))
    BY Zenon, <1>4 DEF BehindToken, BehindLines
  <2> HIDE DEF end, q
  <2> QED
    BY <2>1, EndLike
<1> DEFINE Starts == ~(i > Len(t)) /\ t[i] # "blank" /\ t[i] # "semicolon" /\ ~(t[i] \in LineEnds)
<1>5. CASE Starts /\ t[i] = "quote"
  <2>1. /\ BehindToken(t, i, c, p, h) = BehindQuote(t, i, c, p, h)
        /\ BehindToken(t, i, c, p, g) = BehindQuote(t, i, c, p, g)
    BY Zenon, <1>5 DEF BehindToken
  <2> QED
    BY Zenon, <2>1, BehindQuoteLike
<1>6. CASE Starts /\ t[i] # "quote" /\ t[i] = "openBrace"
  <2>1. /\ BehindToken(t, i, c, p, h) = BehindOpenBrace(t, i, p, h)
        /\ BehindToken(t, i, c, p, g) = BehindOpenBrace(t, i, p, g)
    BY Zenon, <1>6 DEF BehindToken
  <2> QED
    BY Zenon, <2>1, BehindOpenBraceLike
<1>7. CASE Starts /\ t[i] # "quote" /\ t[i] # "openBrace" /\ t[i] = "closeBrace"
  <2>1. /\ BehindToken(t, i, c, p, h) = Parse(t, i, c, p, <<>>, Refused(h, "lexical"))
        /\ BehindToken(t, i, c, p, g) = Parse(t, i, c, p, <<>>, Refused(g, "lexical"))
    BY Zenon, <1>7 DEF BehindToken
  <2>2. "lexical" \in Errors
    BY DEF Errors
  <2> QED
    BY <2>1, <2>2, RefusalLike
<1> DEFINE Plain == Starts /\ t[i] # "quote" /\ t[i] # "openBrace" /\ t[i] # "closeBrace"
<1>8. CASE Plain /\ t[i] = "hash" /\ c = "CMDSTART"
  <2> DEFINE end == Before(t, i, LineEnds)
             q == AdvanceColumns(p, i, end)
  <2>1. /\ BehindToken(t, i, c, p, h) = Parse(t, end, c, q, <<>>, h)
        /\ BehindToken(t, i, c, p, g) = Parse(t, end, c, q, <<>>, g)
    BY Zenon, <1>8 DEF BehindToken, BehindComment
  <2> HIDE DEF end, q
  <2> QED
    BY <2>1, ErrorOnly
<1>9. CASE Plain /\ ~(t[i] = "hash" /\ c = "CMDSTART") /\ t[i] = "dollar"
  <2>1. /\ BehindToken(t, i, c, p, h) = BehindDollar(t, i, c, p, h)
        /\ BehindToken(t, i, c, p, g) = BehindDollar(t, i, c, p, g)
    BY Zenon, <1>9 DEF BehindToken
  <2> QED
    BY Zenon, <2>1, BehindDollarLike
<1>10. CASE Plain /\ ~(t[i] = "hash" /\ c = "CMDSTART") /\ t[i] # "dollar"
  <2>1. /\ BehindToken(t, i, c, p, h) = BehindUnquoted(t, i, c, p, h)
        /\ BehindToken(t, i, c, p, g) = BehindUnquoted(t, i, c, p, g)
    BY Zenon, <1>10 DEF BehindToken
  <2> QED
    BY Zenon, <2>1, BehindUnquotedLike
<1> QED
  BY Zenon, <1>1, <1>2, <1>3, <1>4, <1>5, <1>6, <1>7, <1>8, <1>9, <1>10

\* A part of a braced word.
LEMMA PartLike ==
  ASSUME NEW t, NEW i, NEW end, NEW p, NEW b, NEW g, NEW e \in Errors, NEW depth
  PROVE  /\ ButForError(BehindPart(t, i, end, p, b, Recorded(g, e), depth),
                        BehindPart(t, i, end, p, b, g, depth))
         /\ ButForError(BehindColumns(t, i, end, p, b, Recorded(g, e), depth),
                        BehindColumns(t, i, end, p, b, g, depth))
<1> SUFFICES ASSUME NEW q
             PROVE  ButForError(BehindPart(t, i, end, q, b, Recorded(g, e), depth),
                                BehindPart(t, i, end, q, b, g, depth))
  BY Zenon DEF BehindColumns
<1> DEFINE more == <<depth, b[2] \o SubSeq(t, i, end - 1), b[3]>>
<1>1. /\ BehindPart(t, i, end, q, b, Recorded(g, e), depth)
           = Parse(t, end, "BRACED_STATE", q, more, Recorded(g, e))
      /\ BehindPart(t, i, end, q, b, g, depth) = Parse(t, end, "BRACED_STATE", q, more, g)
  BY Zenon DEF BehindPart
<1> HIDE DEF more
<1> QED
  BY <1>1, ErrorOnly

\* What it reads in braces does not depend on it either.
LEMMA InBracedWordLike ==
  ASSUME NEW t, NEW i, NEW p, NEW b, NEW g, NEW e \in Errors
  PROVE  ButForError(InBracedWord(t, i, p, b, Recorded(g, e)), InBracedWord(t, i, p, b, g))
<1> DEFINE h == Recorded(g, e)
           Columns(end, depth) == /\ InBracedWord(t, i, p, b, h) = BehindColumns(t, i, end, p, b, h, depth)
                                  /\ InBracedWord(t, i, p, b, g) = BehindColumns(t, i, end, p, b, g, depth)
<1>1. CASE i > Len(t)
  <2>1. /\ InBracedWord(t, i, p, b, h) = Parse(t, i, "INITIAL", p, <<>>, Refused(h, "lexical"))
        /\ InBracedWord(t, i, p, b, g) = Parse(t, i, "INITIAL", p, <<>>, Refused(g, "lexical"))
    BY Zenon, <1>1 DEF InBracedWord
  <2>2. "lexical" \in Errors
    BY DEF Errors
  <2> QED
    BY <2>1, <2>2, RefusalLike
<1>2. ASSUME NEW end, NEW depth, Columns(end, depth)
      PROVE  ButForError(InBracedWord(t, i, p, b, h), InBracedWord(t, i, p, b, g))
  BY Zenon, <1>2, PartLike
<1>3. CASE ~(i > Len(t)) /\ t[i] = "backslash"
  <2>1. Columns(IF Has(t, i + 1, Chars \ LineEnds) THEN i + 2 ELSE i + 1, b[1])
    BY Zenon, <1>3 DEF InBracedWord
  <2> QED
    BY Zenon, <1>2, <2>1
<1>4. CASE ~(i > Len(t)) /\ t[i] # "backslash" /\ t[i] = "openBrace"
  <2>1. Columns(i + 1, b[1] + 1)
    BY Zenon, <1>4 DEF InBracedWord
  <2> QED
    BY Zenon, <1>2, <2>1
<1> DEFINE Rest == ~(i > Len(t)) /\ t[i] # "backslash" /\ t[i] # "openBrace"
<1>5. CASE Rest /\ t[i] \in LineEnds
  <2> DEFINE end == RunEnd(t, i, LineEnds)
             q == AdvanceLines(p, t, i, end)
  <2>1. /\ InBracedWord(t, i, p, b, h) = BehindPart(t, i, end, q, b, h, b[1])
        /\ InBracedWord(t, i, p, b, g) = BehindPart(t, i, end, q, b, g, b[1])
    BY Zenon, <1>5 DEF InBracedWord
  <2> HIDE DEF end, q
  <2> QED
    BY Zenon, <2>1, PartLike
<1>6. CASE Rest /\ ~(t[i] \in LineEnds) /\ t[i] # "closeBrace"
  <2>1. Columns(Before(t, i, {"backslash", "openBrace", "closeBrace"} \union LineEnds), b[1])
    BY Zenon, <1>6 DEF InBracedWord
  <2> QED
    BY Zenon, <1>2, <2>1
<1>7. CASE Rest /\ ~(t[i] \in LineEnds) /\ t[i] = "closeBrace" /\ b[1] > 1
  <2>1. Columns(i + 1, b[1] - 1)
    BY Zenon, <1>7 DEF InBracedWord
  <2> QED
    BY Zenon, <1>2, <2>1
<1>8. CASE Rest /\ ~(t[i] \in LineEnds) /\ t[i] = "closeBrace" /\ ~(b[1] > 1)
  <2> DEFINE q == AdvanceColumns(p, i, i + 1)
  <2>1. /\ InBracedWord(t, i, p, b, h)
             = Parse(t, i + 1, "INITIAL", q, <<>>, WithWord(h, "braced", b[3], b[2], i + 1, q, e))
        /\ InBracedWord(t, i, p, b, g)
             = Parse(t, i + 1, "INITIAL", q, <<>>, WithWord(g, "braced", b[3], b[2], i + 1, q, g.error))
    BY Zenon, <1>8, RecordedFields DEF InBracedWord, BehindBraced
  <2> HIDE DEF q
  <2> QED
    BY <2>1, WordLike
<1> QED
  BY Zenon, <1>1, <1>3, <1>4, <1>5, <1>6, <1>7, <1>8

\* So no step depends on it.
LEMMA StepLike ==
  ASSUME NEW v, NEW e \in Errors
  PROVE  ButForError(StepOf(WithRecord(v, e)), StepOf(v))
<1> DEFINE w == WithRecord(v, e)
<1>1. /\ w.text = v.text /\ w.next = v.next /\ w.condition = v.condition /\ w.at = v.at
      /\ w.braces = v.braces /\ w.grammar = Recorded(v.grammar, e)
  BY DEF WithRecord, Parse
<1> HIDE DEF w
<1>2. CASE v.condition = "BRACED_STATE"
  <2>1. /\ StepOf(w) = InBracedWord(v.text, v.next, v.at, v.braces, Recorded(v.grammar, e))
        /\ StepOf(v) = InBracedWord(v.text, v.next, v.at, v.braces, v.grammar)
    BY Zenon, <1>1, <1>2 DEF StepOf
  <2> QED
    BY Zenon, <2>1, InBracedWordLike DEF w
<1>3. CASE v.condition # "BRACED_STATE"
  <2>1. /\ StepOf(w) = BehindToken(v.text, v.next, v.condition, v.at, Recorded(v.grammar, e))
        /\ StepOf(v) = BehindToken(v.text, v.next, v.condition, v.at, v.grammar)
    BY Zenon, <1>1, <1>3 DEF StepOf
  <2> QED
    BY Zenon, <2>1, BehindTokenLike DEF w
<1> QED
  BY Zenon, <1>2, <1>3

\* A parse with another error in the record is of its type, and runs as well.
LEMMA RecordType ==
  ASSUME NEW v \in Parses, NEW e \in Errors
  PROVE  WithRecord(v, e) \in Parses /\ (Runs(WithRecord(v, e)) <=> Runs(v))
<1>1. v.grammar.prefix \in {<<>>} \union {<<spot>> : spot \in Spots}
  BY DEF Parses
<1>2. WithRecord(v, e) \in Parses
  BY <1>1 DEF Parses, WithRecord, Parse, Recorded, Grammar
<1>3. WithRecord(v, e).grammar.mode = v.grammar.mode
  BY DEF WithRecord, Parse, Recorded, Grammar
<1> QED
  BY <1>2, <1>3 DEF Runs

\* What is recorded decides on the error that a parse leads to, not on its commands.
LEMMA CommandsDoNotDepend ==
  ASSUME NEW v \in Parses, NEW out, Leads(v, out), NEW e \in Errors
  PROVE  \E f \in Errors : Leads(WithRecord(v, e), [error |-> f, program |-> out.program])
<1> DEFINE Comes(w, d) == \E f \in Errors : Leads(WithRecord(w, d), [error |-> f, program |-> out.program])
           S == {w \in Parses : \A d \in Errors : Comes(w, d)}
<1>1. ASSUME NEW w \in Parses, Runs(w), StepOf(w) \in S, NEW d \in Errors PROVE Comes(w, d)
  <2>1. PICK f \in Errors : StepOf(WithRecord(w, d)) = WithRecord(StepOf(w), f)
    BY StepLike DEF ButForError
  <2>2. PICK k \in Errors : Leads(WithRecord(StepOf(w), f), [error |-> k, program |-> out.program])
    BY Zenon, <1>1
  <2>3. WithRecord(w, d) \in Parses /\ Runs(WithRecord(w, d))
    BY <1>1, RecordType
  <2>4. Leads(WithRecord(w, d), [error |-> k, program |-> out.program])
    BY Zenon, <2>1, <2>2, <2>3, LeadsOn
  <2> QED
    BY Zenon, <2>4
<1>2. ASSUME NEW w \in Parses, ~Runs(w), Outcome(w) = out, NEW d \in Errors PROVE Comes(w, d)
  <2>1. WithRecord(w, d) \in Parses /\ ~Runs(WithRecord(w, d))
    BY <1>2, RecordType
  <2>2. Outcome(WithRecord(w, d)) = [error |-> d, program |-> out.program]
    BY <1>2 DEF Outcome, WithRecord, Parse, Recorded, Grammar
  <2>3. Leads(WithRecord(w, d), [error |-> d, program |-> out.program])
    BY Zenon, <2>1, <2>2, LeadsToItself
  <2> QED
    BY Zenon, <2>3
<1>3. S \in SUBSET Parses
  OBVIOUS
<1>4. ClosedFor(S, out)
  <2> HIDE DEF Comes
  <2> QED
    BY <1>1, <1>2 DEF ClosedFor
<1>5. v \in S
  <2> HIDE DEF S
  <2> QED
    BY Zenon, <1>3, <1>4 DEF Leads
<1> QED
  BY Zenon, <1>5

------------------------------------------------------------------------------
\* What was returned is all that its script leads to, with the error it began with.
Returned(r) ==
  /\ r.script \in Seq(Chars) /\ r.left \in Errors
  /\ ~r.faulted => \A out : Leads(Begin(r.script, r.left), out)
                              <=> out = [error |-> r.error, program |-> r.program]

\* As long as no allocation failed, a parse leads to what its script leads to with the
\* error it began with, and so does what is returned.
Alike ==
  /\ mode \notin {"idle", "refused"} /\ ~faulted =>
       \A out : Leads(ParseNow, out) <=> Leads(Begin(Head(session), left), out)
  /\ \A r \in results : Returned(r)

\* Every step keeps that: one within a parse does not change what it leads to.
LEMMA StepKeepsAlike == TypeInv /\ Alike /\ [Next]_vars => Alike'
<1> SUFFICES ASSUME TypeInv, Alike, [Next]_vars PROVE Alike'
  OBVIOUS
<1>1. TypeInv'
  BY StepKeepsTypes
<1>2. ParseNow \in Parses /\ ParseNow' \in Parses
  <2>1. ParseNow \in Parses
    BY ParseType
  <2>2. (TypeInv => ParseNow \in Parses)'
    BY ParseType, PTL
  <2> QED
    BY <1>1, <2>1, <2>2
<1>3. \A r \in results : Returned(r)
  BY DEF Alike
<1>4. CASE ScansOn
  <2>1. mode = "scan" /\ ParseNow' = StepOf(ParseNow)
        /\ session' = session /\ results' = results /\ left' = left /\ faulted' = faulted
    BY <1>4, ScansOnSteps DEF SameScript
  <2>2. Runs(ParseNow)
    <3>1. ParseNow.grammar = GrammarNow
      BY Zenon DEF ParseNow, Parse
    <3> QED
      BY <2>1, <3>1, GrammarFields DEF Runs
  <2>3. \A out : Leads(ParseNow, out) <=> Leads(ParseNow', out)
    BY Zenon, <1>2, <2>1, <2>2, LeadsOn
  <2>4. mode \notin {"idle", "refused"}
    BY <2>1
  <2> QED
    BY Zenon, <2>1, <2>3, <2>4 DEF Alike
<1>5. CASE ParseScript
  <2>1. /\ text' = Preprocess(Head(session)) /\ next' = 1 /\ condition' = "CMDSTART"
        /\ at' = Origin /\ prefix' = <<>> /\ words' = <<>> /\ program' = <<>>
        /\ error' = error /\ left' = error
        /\ mode' = "scan" /\ session' = session /\ results' = results
    BY <1>5 DEF ParseScript
  <2>2. ParseNow' = Begin(Head(session)', left')
    <3>1. BracesNow' = <<>>
      BY <2>1 DEF BracesNow
    <3> QED
      BY Zenon, <2>1, <3>1 DEF ParseNow, GrammarNow, Begin
  <2> QED
    BY Zenon, <2>1, <2>2 DEF Alike
<1>6. CASE OutOfMemory
  <2>1. faulted' = TRUE /\ results' = results
    BY <1>6 DEF OutOfMemory
  <2> QED
    BY Zenon, <2>1 DEF Alike
<1>7. CASE ReturnProgram
  <2> DEFINE r == [script |-> Head(session), left |-> left, faulted |-> faulted, error |-> error,
                   program |-> IF mode = "parsed" THEN program ELSE <<>>]
  <2>1. /\ mode' \in {"idle", "refused"} /\ results' = results \union {r}
        /\ mode \in {"parsed", "failed"}
    BY <1>7 DEF ReturnProgram
  <2>2. /\ r.script = Head(session) /\ r.left = left /\ r.faulted = faulted /\ r.error = error
        /\ r.program = IF mode = "parsed" THEN program ELSE <<>>
    OBVIOUS
  <2>3. Outcome(ParseNow) = [error |-> r.error, program |-> r.program] /\ ~Runs(ParseNow)
    <3>1. ParseNow.grammar = GrammarNow
      BY Zenon DEF ParseNow, Parse
    <3> HIDE DEF r
    <3> QED
      BY <2>1, <2>2, <3>1, GrammarFields DEF Runs, Outcome
  <2>4. \A out : Leads(ParseNow, out) <=> out = Outcome(ParseNow)
    BY Zenon, <1>2, <2>3, LeadsToItself
  <2>5. left \in Errors /\ Head(session) \in Seq(Chars)
    BY <2>1 DEF TypeInv, TypeOK
  <2> HIDE DEF r
  <2>6. Returned(r)
    <3>1. ASSUME ~r.faulted
          PROVE  \A out : Leads(Begin(r.script, r.left), out)
                            <=> out = [error |-> r.error, program |-> r.program]
      <4>1. ~faulted /\ mode \notin {"idle", "refused"}
        BY <2>1, <2>2, <3>1
      <4>2. \A out : Leads(ParseNow, out) <=> Leads(Begin(Head(session), left), out)
        BY <4>1 DEF Alike
      <4> QED
        BY Zenon, <2>2, <2>3, <2>4, <4>2
    <3> QED
      BY Zenon, <2>2, <2>5, <3>1 DEF Returned
  <2>7. \A x \in results' : Returned(x)
    BY Zenon, <1>3, <2>1, <2>6
  <2> QED
    BY Zenon, <2>1, <2>7 DEF Alike
<1>8. CASE UNCHANGED vars
  <2>1. /\ ParseNow' = ParseNow /\ mode' = mode /\ faulted' = faulted /\ session' = session
        /\ left' = left /\ results' = results
    BY <1>8 DEF vars, lexer, grammar, ParseNow, BracesNow, GrammarNow
  <2> QED
    BY Zenon, <2>1 DEF Alike
<1>9. CASE Forgive
  <2>1. mode' = "idle" /\ results' = results
    BY <1>9 DEF Forgive
  <2>2. mode' \in {"idle", "refused"}
    BY <2>1
  <2> QED
    BY Zenon, <2>1, <2>2 DEF Alike
<1> QED
  BY Zenon, <1>4, <1>5, <1>6, <1>7, <1>8, <1>9 DEF Next, ScansOn, AllParsed

\* Where a script begins is of its type, and with another error it is the same.
LEMMA BeginType ==
  ASSUME NEW script \in Seq(Chars), NEW e \in Errors, NEW d \in Errors
  PROVE  Begin(script, e) \in Parses /\ Begin(script, d) = WithRecord(Begin(script, e), d)
<1>1. Preprocess(script) \in Seq(Chars) /\ Origin \in Places
  BY PreprocessIs, OriginAssumption DEF Places
<1>2. <<>> \in Seq(Words) /\ <<>> \in Seq(Seq(Words))
  OBVIOUS
<1> DEFINE t == Preprocess(script)
<1>3. Parse(t, 1, "CMDSTART", Origin, <<>>, Grammar(<<>>, <<>>, <<>>, e, "scan")) \in Parses
  <2> HIDE DEF t
  <2> QED
    BY <1>1, <1>2 DEF Parses, Parse, Grammar, t
<1>4. Parse(t, 1, "CMDSTART", Origin, <<>>, Grammar(<<>>, <<>>, <<>>, d, "scan"))
        = WithRecord(Parse(t, 1, "CMDSTART", Origin, <<>>, Grammar(<<>>, <<>>, <<>>, e, "scan")), d)
  <2> HIDE DEF t
  <2> QED
    BY DEF WithRecord, Recorded, Parse, Grammar
<1> QED
  BY Zenon, <1>3, <1>4 DEF Begin

\* However often a script is parsed, and whatever was parsed in between and however it
\* ended: parse_script returns the same commands, with the same places, and if the same
\* error was in the record before, the same is afterwards, unless an allocation failed
\* in that very parse.  What an earlier parse left in the record (lexer.l:232) does not
\* change the commands.
THEOREM ScriptsParseAlike == Spec => []ParsesAlike
<1>1. Init => Alike
  BY DEF Init, Alike
<1>2. ASSUME Alike PROVE ParsesAlike
  <2> SUFFICES ASSUME NEW r \in results, NEW s \in results, r.script = s.script, ~r.faulted, ~s.faulted
               PROVE  r.program = s.program /\ (r.left = s.left => r.error = s.error)
    BY DEF ParsesAlike
  <2> DEFINE a == [error |-> r.error, program |-> r.program]
             b == [error |-> s.error, program |-> s.program]
  <2>1. /\ r.script \in Seq(Chars) /\ r.left \in Errors /\ s.left \in Errors
        /\ \A out : Leads(Begin(r.script, r.left), out) <=> out = a
        /\ \A out : Leads(Begin(r.script, s.left), out) <=> out = b
    <3>1. Returned(r) /\ Returned(s)
      BY Zenon, <1>2 DEF Alike
    <3> QED
      BY Zenon, <3>1 DEF Returned
  <2>2. a.error = r.error /\ a.program = r.program /\ b.error = s.error /\ b.program = s.program
    OBVIOUS
  <2> HIDE DEF a, b
  <2>3. /\ Begin(r.script, r.left) \in Parses
        /\ Begin(r.script, s.left) = WithRecord(Begin(r.script, r.left), s.left)
    BY Zenon, <2>1, BeginType
  <2>4. Leads(Begin(r.script, r.left), a)
    BY Zenon, <2>1
  <2>5. PICK f \in Errors : Leads(Begin(r.script, s.left), [error |-> f, program |-> a.program])
    <3> DEFINE v == Begin(r.script, r.left)
               e == s.left
    <3>1. v \in Parses /\ Leads(v, a) /\ e \in Errors
      BY <2>1, <2>3, <2>4
    <3> HIDE DEF v, e
    <3>2. \E f \in Errors : Leads(WithRecord(v, e), [error |-> f, program |-> a.program])
      BY <3>1, CommandsDoNotDepend
    <3> QED
      BY Zenon, <2>3, <3>2 DEF v, e
  <2>6. b = [error |-> f, program |-> a.program]
    BY Zenon, <2>1, <2>5
  <2>7. r.program = s.program
    BY <2>2, <2>6
  <2>8. ASSUME r.left = s.left PROVE a = b
    BY Zenon, <2>1, <2>4, <2>8
  <2> QED
    BY <2>2, <2>7, <2>8
<1> QED
  BY <1>1, <1>2, InitTypes, StepKeepsTypes, StepKeepsAlike, PTL DEF Spec

------------------------------------------------------------------------------
\* What a step of the scan does to the position.
Consumes == mode' = "scan" /\ text' = text /\ next' \in (next + 1)..(Len(text) + 1)
IsOver == mode' \in {"failed", "parsed"}

\* Every match of the lexer takes a character of the script, or the parse is over: no
\* pattern and no hand-written scanner stays where it is, also not before an escape at
\* the end or a brace that is never closed (lexer.l:406-668).  So a parse takes no more
\* steps than its prepared script has characters, and one.
THEOREM EveryMatchReads == Spec => [][mode = "scan" => IsOver \/ Consumes]_vars
<1>1. ASSUME TypeInv, [Next]_vars PROVE [mode = "scan" => IsOver \/ Consumes]_vars
  <2> SUFFICES ASSUME mode = "scan", ~UNCHANGED vars, ~IsOver PROVE Consumes
    OBVIOUS
  <2>1. next \in Nat /\ Len(text) \in Nat
    BY <1>1 DEF TypeInv, TypeOK
  <2>2. Skips \/ Separates \/ Takes \/ Prefixes \/ Opens \/ Collects
    BY <1>1, StepsAre DEF ScanSteps, Fails, Finishes, ParseScript, ReturnProgram, Forgive, IsOver
  <2>3. Reads
    BY <2>2 DEF Skips, Separates, Takes, Prefixes, Opens, Collects
  <2>4. mode' = "scan"
    BY <1>1, <2>2, TakesIs DEF Skips, Separates, Prefixes, Opens, Collects, SameGrammar
  <2> QED
    BY <2>1, <2>3, <2>4 DEF Reads, Scans, Consumes
<1> QED
  BY <1>1, InitTypes, StepKeepsTypes, PTL DEF Spec

==============================================================================
