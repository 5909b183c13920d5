----------------------------- MODULE Texts_proofs -----------------------------
(***************************************************************************)
(* Lemmas about texts of every length: induction over their positions,     *)
(* where a search in them ends, and what backslash sequences become.       *)
(***************************************************************************)
EXTENDS Escapes, Scanning, FiniteSetTheorems, SequenceTheorems, WellFoundedInduction, TLAPS

\* Every set of natural numbers has a least element: what the proofs by
\* induction over a text or a list of tasks rest on.
LEMMA LeastElement ==
  ASSUME NEW A \in SUBSET Nat, A # {}
  PROVE  \E m \in A : \A k \in A : m <= k
<1> DEFINE R == OpToRel(<, Nat)
<1>1. IsWellFoundedOn(R, Nat)
  BY NatLessThanWellFounded
<1>2. \A x, y \in Nat : x < y => <<x, y>> \in R
  BY DEF OpToRel
<1> HIDE DEF R
<1>3. PICK m \in A : \A y \in A : ~(<<y, m>> \in R)
  BY <1>1, WFMin
<1>4. \A k \in A : k \in Nat /\ m \in Nat /\ ~(k < m)
  BY <1>2, <1>3
<1> QED
  BY <1>4

\* Induction: a set that has a first number and with each the next has all.
LEMMA Induction ==
  ASSUME NEW S, 0 \in S, \A n \in Nat : n \in S => n + 1 \in S
  PROVE  \A n \in Nat : n \in S
<1> DEFINE A == Nat \ S
<1> SUFFICES ASSUME A # {} PROVE FALSE
  OBVIOUS
<1>1. A \in SUBSET Nat
  OBVIOUS
<1>2. PICK m \in A : \A k \in A : m <= k
  BY <1>1, LeastElement
<1>3. m \in Nat /\ m # 0
  OBVIOUS
<1>4. m - 1 \in Nat /\ m - 1 \in S
  BY <1>2, <1>3
<1> QED
  BY <1>3, <1>4

\* A finite, non-empty set of integers between two bounds has a greatest element.
LEMMA GreatestElement ==
  ASSUME NEW n \in Nat, NEW A \in SUBSET (0..n), A # {}
  PROVE  \E m \in A : \A k \in A : k <= m
<1> DEFINE B == {d \in Nat : n - d \in A}
<1>1. PICK a \in A : TRUE
  OBVIOUS
<1>2. n - a \in B
  BY <1>1
<1>3. PICK d \in B : \A k \in B : d <= k
  BY <1>2, LeastElement
<1>4. ASSUME NEW k \in A PROVE k <= n - d
  <2>1. n - k \in B
    OBVIOUS
  <2> QED
    BY <1>3, <2>1
<1> QED
  BY <1>4

\* Induction from a first to a last number.
LEMMA BoundedInduction ==
  ASSUME NEW a \in Int, NEW b \in Int, NEW S, a \in S,
         \A i \in (a + 1)..b : i - 1 \in S => i \in S
  PROVE  \A i \in a..b : i \in S
<1> DEFINE T == {n \in Nat : a + n <= b => a + n \in S}
<1>1. 0 \in T
  OBVIOUS
<1>2. ASSUME NEW n \in Nat, n \in T PROVE n + 1 \in T
  <2>1. CASE a + (n + 1) <= b
    <3>1. a + n \in S /\ a + (n + 1) \in (a + 1)..b
      BY <1>2, <2>1
    <3>2. (a + (n + 1)) - 1 = a + n
      OBVIOUS
    <3> QED
      BY <3>1, <3>2
  <2> QED
    BY <2>1
<1> HIDE DEF T
<1>3. \A n \in Nat : n \in T
  BY <1>1, <1>2, Induction
<1>4. ASSUME NEW i \in a..b PROVE i \in S
  <2>1. i - a \in Nat /\ a + (i - a) = i /\ i <= b
    OBVIOUS
  <2>2. i - a \in T
    BY <1>3, <2>1
  <2> QED
    BY <2>1, <2>2 DEF T
<1> QED
  BY <1>4

\* Induction from the end.
LEMMA Backwards ==
  ASSUME NEW a \in Nat, NEW b \in Nat, NEW S,
         \A k \in a..b : (\A l \in (k + 1)..b : l \in S) => k \in S
  PROVE  \A k \in a..b : k \in S
<1> DEFINE A == {k \in a..b : k \notin S}
<1> SUFFICES ASSUME A # {} PROVE FALSE
  OBVIOUS
<1>1. A \in SUBSET (0..b)
  OBVIOUS
<1>2. PICK m \in A : \A k \in A : k <= m
  BY <1>1, GreatestElement
<1>3. \A l \in (m + 1)..b : l \in S
  <2> SUFFICES ASSUME NEW l \in (m + 1)..b, l \notin S PROVE FALSE
    OBVIOUS
  <2>1. l \in A
    OBVIOUS
  <2> QED
    BY <1>2, <2>1
<1> QED
  BY <1>3

\* A function that goes through the numbers from a to b by a table of steps.
GoesBy(g, a, b, V, base, step) ==
  /\ g \in [a..b -> V]
  /\ g[a] = base
  /\ \A i \in (a + 1)..b : g[i] = step[<<g[i - 1], i>>]

\* There is such a function: what a recursive definition describes exists.
LEMMA Recursion ==
  ASSUME NEW a \in Int, NEW b \in Int, a <= b, NEW V, NEW base \in V,
         NEW step, \A v \in V : \A i \in (a + 1)..b : step[<<v, i>>] \in V
  PROVE  \E g : GoesBy(g, a, b, V, base, step)
<1> DEFINE Solves(g, n) == GoesBy(g, a, n, V, base, step)
           S == {n \in a..b : \E g : Solves(g, n)}
<1> USE DEF GoesBy
<1>1. a \in S
  <2>1. Solves([i \in a..a |-> base], a)
    OBVIOUS
  <2>2. a \in a..b
    OBVIOUS
  <2> HIDE DEF Solves
  <2> QED
    BY <2>1, <2>2
<1>2. ASSUME NEW n \in (a + 1)..b, n - 1 \in S PROVE n \in S
  <2>1. PICK g : Solves(g, n - 1)
    BY <1>2
  <2> DEFINE last == step[<<g[n - 1], n>>]
             h == [i \in a..n |-> IF i < n THEN g[i] ELSE last]
  <2>2. last \in V
    BY <2>1
  <2>3. h \in [a..n -> V] /\ h[a] = base
    BY <2>1, <2>2
  <2>4. ASSUME NEW i \in (a + 1)..n PROVE h[i] = step[<<h[i - 1], i>>]
    <3>1. h[i - 1] = g[i - 1]
      OBVIOUS
    <3>2. CASE i < n
      BY <2>1, <3>1, <3>2
    <3>3. CASE i = n
      <4>1. h[n] = last
        OBVIOUS
      <4> HIDE DEF h
      <4> QED
        BY <3>1, <3>3, <4>1
    <3> QED
      BY <3>2, <3>3
  <2> HIDE DEF h
  <2>5. Solves(h, n)
    BY <2>3, <2>4
  <2> HIDE DEF Solves
  <2> QED
    BY <2>5
<1> HIDE DEF S
<1>3. \A n \in a..b : n \in S
  BY <1>1, <1>2, BoundedInduction
<1>4. b \in S
  BY <1>3
<1> QED
  BY <1>4 DEF S

------------------------------------------------------------------------------
\* The size of an interval.
LEMMA IntervalSize ==
  ASSUME NEW a \in Int, NEW b \in Int, a <= b + 1
  PROVE  IsFiniteSet(a..b) /\ Cardinality(a..b) = b + 1 - a
<1>1. IsFiniteSet(a..b) /\ Cardinality(a..b) = IF a > b THEN 0 ELSE b - a + 1
  BY ONLY FS_Interval
<1> QED
  BY <1>1

\* A search ends at the first position of the stops that is in the text, or
\* behind the text.
LEMMA FirstInIs ==
  ASSUME NEW t, Len(t) \in Nat, NEW i \in Nat \ {0}, i <= Len(t) + 1, NEW stops
  PROVE  /\ FirstIn(t, i, stops) \in i..(Len(t) + 1)
         /\ \A k \in i..(FirstIn(t, i, stops) - 1) : k \notin stops
         /\ FirstIn(t, i, stops) <= Len(t) => FirstIn(t, i, stops) \in stops
<1> DEFINE last == Len(t)
           A == {j \in i..last : (i..j) \intersect stops = {}}
           found == stops \intersect (i..last)
           n == Cardinality(A)
           e == i + n
           Goal == /\ e \in i..(last + 1)
                   /\ \A k \in i..(e - 1) : k \notin stops
                   /\ e <= last => e \in stops
<1>1. FirstIn(t, i, stops) = e
  BY DEF FirstIn
<1>2. last \in Nat /\ i \in Int /\ i >= 1 /\ i <= last + 1
  OBVIOUS
<1>3. Goal
  <2> HIDE DEF last
  <2>1. CASE found = {}
    <3>1. A = i..last
      BY <1>2, <2>1
    <3> HIDE DEF A
    <3>2. n = last + 1 - i
      BY <1>2, <3>1, IntervalSize
    <3> HIDE DEF n
    <3> QED
      BY <1>2, <2>1, <3>2
  <2>2. CASE found # {}
    <3>1. found \in SUBSET Nat
      BY <1>2
    <3> HIDE DEF found
    <3>2. PICK m \in found : \A k \in found : m <= k
      BY ONLY <2>2, <3>1, LeastElement
    <3> USE DEF found
    <3>3. m \in Int /\ i <= m /\ m <= last /\ m \in stops
      BY <1>2
    <3>4. \A k \in i..(m - 1) : k \notin stops
      BY <1>2, <3>2, <3>3
    <3> HIDE DEF found
    <3>5. A = i..(m - 1)
      BY <1>2, <3>3, <3>4
    <3> HIDE DEF A
    <3>6. n = (m - 1) + 1 - i
      <4>1. m - 1 \in Int /\ i <= (m - 1) + 1
        BY <1>2, <3>3
      <4> DEFINE p == m - 1
      <4>2. p \in Int /\ i <= p + 1 /\ A = i..p
        BY <4>1, <3>5
      <4> HIDE DEF p
      <4>3. n = p + 1 - i
        BY <1>2, <4>2, IntervalSize
      <4> QED
        BY <4>3 DEF p
    <3> HIDE DEF n
    <3>7. e = m
      BY <1>2, <3>3, <3>6
    <3> QED
      BY <1>2, <3>3, <3>4, <3>7
  <2> QED
    BY <2>1, <2>2
<1> HIDE DEF e
<1> QED
  BY <1>1, <1>3

\* A search from behind the text ends where it begins.
LEMMA FirstInBehind ==
  ASSUME NEW t, Len(t) \in Nat, NEW i \in Nat, i > Len(t), NEW stops
  PROVE  FirstIn(t, i, stops) = i
<1>1. {j \in i..Len(t) : (i..j) \intersect stops = {}} = {}
  OBVIOUS
<1> QED
  BY <1>1, FS_EmptySet DEF FirstIn

\* The characters of a class that start at a position are those up to its end.
LEMMA RunEndIs ==
  ASSUME NEW t, Len(t) \in Nat, NEW i \in Nat \ {0}, i <= Len(t) + 1, NEW class
  PROVE  /\ RunEnd(t, i, class) \in i..(Len(t) + 1)
         /\ \A k \in i..(RunEnd(t, i, class) - 1) : t[k] \in class
         /\ RunEnd(t, i, class) <= Len(t) => t[RunEnd(t, i, class)] \notin class
         /\ Has(t, i, class) => RunEnd(t, i, class) > i
<1> DEFINE stops == {k \in i..Len(t) : t[k] \notin class}
           e == FirstIn(t, i, stops)
<1>1. /\ e \in i..(Len(t) + 1)
      /\ \A k \in i..(e - 1) : k \notin stops
      /\ e <= Len(t) => e \in stops
  BY FirstInIs
<1>2. RunEnd(t, i, class) = e
  BY DEF RunEnd
<1> HIDE DEF e
<1>3. \A k \in i..(e - 1) : t[k] \in class
  BY <1>1
<1>4. Has(t, i, class) => e > i
  BY <1>1 DEF Has
<1> QED
  BY <1>1, <1>2, <1>3, <1>4

------------------------------------------------------------------------------
\* The bytes of a codepoint: at most four, one for ASCII, at most two below 2048.
LEMMA EncodingLength ==
  ASSUME NEW cp \in Nat
  PROVE  /\ EncodeUtf8(cp) \in Seq(Byte)
         /\ Len(EncodeUtf8(cp)) \in 1..4
         /\ cp <= 127 => Len(EncodeUtf8(cp)) = 1
         /\ cp <= 255 => Len(EncodeUtf8(cp)) <= 2
<1> DEFINE c == IF cp > LastCodepoint \/ cp \in Surrogates THEN Replacement ELSE cp
           T(n) == 128 + (n % 64)
<1>1. c \in Nat /\ c <= 1114111 /\ (cp <= 255 => c = cp)
  BY DEF LastCodepoint, Surrogates, Replacement
<1>2. \A n \in Nat : T(n) \in Byte
  BY DEF Byte
<1> HIDE DEF c
<1>3. c \div 64 \in Nat /\ c \div 4096 \in Nat /\ c \div 262144 \in Nat
  BY <1>1
<1>4. T(c) \in Byte /\ T(c \div 64) \in Byte /\ T(c \div 4096) \in Byte
  BY <1>1, <1>2, <1>3
<1> HIDE DEF T
<1>5. EncodeUtf8(cp) =
        IF c <= 127 THEN <<c>>
        ELSE IF c <= 2047 THEN <<192 + (c \div 64), T(c)>>
        ELSE IF c <= 65535 THEN <<224 + (c \div 4096), T(c \div 64), T(c)>>
        ELSE <<240 + (c \div 262144), T(c \div 4096), T(c \div 64), T(c)>>
  BY DEF EncodeUtf8, c, T
<1>6. CASE c <= 127
  BY <1>1, <1>5, <1>6 DEF Byte
<1>7. CASE c > 127 /\ c <= 2047
  <2>1. 192 + (c \div 64) \in Byte
    BY <1>1, <1>7 DEF Byte
  <2> QED
    BY <2>1, <1>1, <1>4, <1>5, <1>7
<1>8. CASE c > 2047 /\ c <= 65535
  <2>1. 224 + (c \div 4096) \in Byte
    BY <1>1, <1>8 DEF Byte
  <2> QED
    BY <2>1, <1>1, <1>4, <1>5, <1>8
<1>9. CASE c > 65535
  <2>1. 240 + (c \div 262144) \in Byte
    BY <1>1, <1>9 DEF Byte
  <2> QED
    BY <2>1, <1>1, <1>4, <1>5, <1>9
<1> QED
  BY <1>1, <1>6, <1>7, <1>8, <1>9

\* What a C string shows is a prefix of what was written.
LEMMA CStringType ==
  ASSUME NEW bytes \in Seq(Byte)
  PROVE  CString(bytes) \in Seq(Byte)
<1> DEFINE S == {i \in 1..Len(bytes) : \A j \in 1..i : bytes[j] # 0}
           n == Cardinality(S)
<1>1. Len(bytes) \in Nat
  OBVIOUS
<1>2. IsFiniteSet(1..Len(bytes)) /\ Cardinality(1..Len(bytes)) = Len(bytes)
  BY <1>1, FS_Interval
<1>3. S \in SUBSET (1..Len(bytes))
  OBVIOUS
<1>4. n \in Nat /\ n <= Len(bytes)
  BY <1>2, <1>3, FS_Subset, FS_CardinalityType
<1>5. CString(bytes) = SubSeq(bytes, 1, n)
  BY DEF CString
<1> HIDE DEF n
<1>6. \A i \in 1..n : bytes[i] \in Byte
  BY <1>1, <1>4, ElementOfSeq
<1> QED
  BY <1>4, <1>5, <1>6, SubSeqProperties

\* The rules of the digits.
LEMMA RuleBounds ==
  ASSUME NEW rule \in Rules
  PROVE  rule.base \in {8, 16} /\ rule.most \in 0..8 /\ rule.limit \in Nat
BY DEF Rules, Octal, Hex, Unicode, LongUnicode

LEMMA DigitType == \A c : Digit(c) \in Nat
BY DEF Digit

\* One more digit stays within the rule's limits.
LEMMA DigitKeepsBounds ==
  ASSUME NEW rule \in Rules, NEW d \in Scanned, NEW at \in Nat, NEW t, Len(t) \in Nat,
         TakesDigit(t, at, rule, d),
         d.count <= rule.most, d.value <= rule.limit, d.count = 0 => d.value = 0
  PROVE  LET taken == TakeDigit(t, at, rule, d)
         IN /\ taken \in Scanned
            /\ taken.count <= rule.most /\ taken.value <= rule.limit
            /\ taken.count = 1 => taken.value <= 15
            /\ taken.count = 0 => taken.value = 0
            /\ at + taken.count <= Len(t) + 1
<1> DEFINE digit == Digit(t[at + d.count])
           v == d.value
           n == d.count
           base == rule.base
           most == rule.most
           limit == rule.limit
<1>1. /\ base \in {8, 16} /\ most \in 0..8 /\ limit \in Nat
  BY RuleBounds
<1>2. v \in Nat /\ n \in 0..8
  BY DEF Scanned
<1>3. /\ at + n <= Len(t) /\ n < most
      /\ digit < base /\ v <= (limit - digit) \div base
      /\ n = 0 => v = 0
  BY DEF TakesDigit
<1>4. digit \in Nat
  BY DigitType
<1>5. TakeDigit(t, at, rule, d) = [value |-> v * base + digit, count |-> n + 1]
  BY DEF TakeDigit
<1> HIDE DEF digit, v, n, base, most, limit
<1>6. v * base + digit \in Nat /\ v * base + digit <= limit
  <2>1. CASE base = 8
    BY <2>1, <1>1, <1>2, <1>3, <1>4
  <2>2. CASE base = 16
    BY <2>2, <1>1, <1>2, <1>3, <1>4
  <2> QED
    BY <1>1, <2>1, <2>2
<1>7. n + 1 \in 1..8 /\ n + 1 <= most /\ at + (n + 1) <= Len(t) + 1
  BY <1>1, <1>2, <1>3
<1>8. n + 1 = 1 => v * base + digit <= 15
  BY <1>1, <1>2, <1>3, <1>4
<1> QED
  BY <1>5, <1>6, <1>7, <1>8 DEF Scanned, most, limit

\* The bytes that replace an escape at i in a text of n characters are no more
\* than its characters, and it ends in the text.
LEMMA EscapeShrinks ==
  ASSUME NEW n \in Nat, NEW i \in Nat, i >= 1, i < n, NEW next \in Character,
         NEW d \in Scanned,
         DigitsAt(next, i) + d.count <= n + 1,
         d.value <= DigitRule(next).limit,
         d.count = 1 => d.value <= 15
  PROVE  /\ Output(next, d) \in Seq(Byte)
         /\ Len(Output(next, d)) <= Consumed(next, d)
         /\ Consumed(next, d) \in Nat
         /\ i + Consumed(next, d) \in 1..(n + 1)
         /\ Consumed(next, d) >= 1
<1>1. d.value \in Nat /\ d.count \in 0..8
  BY DEF Scanned
<1>2. Named(next) \in Byte
  BY DEF Named, Byte, Character
<1>3. /\ DigitsAt(next, i) = i + DigitsAt(next, 0)
      /\ DigitsAt(next, 0) \in 1..2
      /\ next \notin {120, 117, 85} => DigitsAt(next, 0) = 1 /\ DigitRule(next).limit = 255
      /\ next = 120 => DigitsAt(next, 0) = 2 /\ DigitRule(next).limit = 255
      /\ next \in {117, 85} => DigitsAt(next, 0) = 2
  BY DEF DigitsAt, DigitRule, Hex, Unicode, LongUnicode, Octal, Character
<1> DEFINE taken == Consumed(next, d)
           bytes == Output(next, d)
<1>4. CASE d.count = 0
  <2>1. bytes = <<Named(next)>> /\ taken = 2
    BY <1>4 DEF Output, Consumed
  <2> HIDE DEF bytes, taken
  <2>2. bytes \in Seq(Byte) /\ Len(bytes) <= taken /\ taken \in Nat
        /\ i + taken \in 1..(n + 1) /\ taken >= 1
    BY <2>1, <1>2
  <2> QED
    BY <2>2 DEF bytes, taken
<1>5. CASE d.count # 0
  <2>1. bytes = EncodeUtf8(d.value)
    BY <1>5 DEF Output
  <2>2. taken = DigitsAt(next, 0) + d.count
    BY <1>5 DEF Consumed
  <2> HIDE DEF bytes, taken
  <2>3. /\ bytes \in Seq(Byte)
        /\ Len(bytes) \in 1..4
        /\ d.value <= 127 => Len(bytes) = 1
        /\ d.value <= 255 => Len(bytes) <= 2
    BY <1>1, <2>1, EncodingLength
  <2>4. Len(bytes) <= taken
    <3> DEFINE k == DigitsAt(next, 0)
               l == DigitRule(next).limit
               m == Len(bytes)
               v == d.value
               w == d.count
    <3> HIDE DEF k, l, m, v, w
    <3>1. /\ m \in 1..4 /\ k \in 1..2 /\ w \in 1..8 /\ v \in Nat
          /\ v <= 127 => m = 1
          /\ v <= 255 => m <= 2
          /\ w = 1 => v <= 15
          /\ k = 2 \/ l = 255
          /\ v <= l
      BY <1>1, <1>3, <1>5, <2>3 DEF k, l, m, v, w
    <3>2. m <= k + w
      BY <3>1
    <3> QED
      BY <3>2, <2>2 DEF k, m, w
  <2>5. i + taken \in 1..(n + 1) /\ taken \in Nat /\ taken >= 1
    <3> DEFINE k == DigitsAt(next, 0)
               w == d.count
    <3>1. i \in Nat /\ i >= 1 /\ k \in 1..2 /\ w \in 0..8
      BY <1>1, <1>3
    <3>2. i + k + w <= n + 1
      BY <1>1, <1>3
    <3>3. taken = k + w
      BY <2>2
    <3> HIDE DEF k, w
    <3>4. i + taken \in 1..(n + 1) /\ taken \in Nat /\ taken >= 1
      BY <3>1, <3>2, <3>3
    <3> QED
      BY <3>4
  <2> QED
    BY <2>3, <2>4, <2>5 DEF bytes, taken
<1> QED
  BY <1>4, <1>5

------------------------------------------------------------------------------
\* A table of steps that gives each value of a function from those behind it, and
\* a function with these values.
LooksAhead(a, b, V, step) ==
  \A f, g \in [a..b -> V] : \A k \in a..b :
    /\ step[<<f, k>>] \in V
    /\ (\A l \in (k + 1)..b : f[l] = g[l]) => step[<<f, k>>] = step[<<g, k>>]

FilledBy(g, a, b, V, step) == g \in [a..b -> V] /\ \A k \in a..b : g[k] = step[<<g, k>>]

\* There is such a function, whatever the first value is that it is filled with.
LEMMA RecursionAhead ==
  ASSUME NEW a \in Int, NEW b \in Int, a <= b, NEW V, NEW v \in V, NEW step,
         LooksAhead(a, b, V, step)
  PROVE  \E g : FilledBy(g, a, b, V, step)
<1> USE DEF LooksAhead
<1> DEFINE N == b + 1 - a
           Filled(f, m) == \A k \in (b + 1 - m)..b : f[k] = step[<<f, k>>]
           S == {m \in 0..N : \E f \in [a..b -> V] : Filled(f, m)}
<1>1. N \in Nat
  OBVIOUS
<1>2. 0 \in S
  <2>1. [k \in a..b |-> v] \in [a..b -> V]
    OBVIOUS
  <2>2. Filled([k \in a..b |-> v], 0)
    OBVIOUS
  <2>3. 0 \in 0..N
    BY <1>1
  <2> HIDE DEF Filled
  <2> QED
    BY <2>1, <2>2, <2>3
<1>3. ASSUME NEW m \in (0 + 1)..N, m - 1 \in S PROVE m \in S
  <2>1. PICK f \in [a..b -> V] : Filled(f, m - 1)
    BY Zenon, <1>3
  <2> DEFINE j == b + 1 - m
             entry == step[<<f, j>>]
             g == [f EXCEPT ![j] = entry]
  <2>2. j \in a..b /\ b + 1 - (m - 1) = j + 1
    BY <1>1
  <2>3. entry \in V
    BY <2>2
  <2> HIDE DEF entry
  <2>4. g \in [a..b -> V] /\ g[j] = entry /\ \A k \in (j + 1)..b : g[k] = f[k]
    BY <2>2, <2>3
  <2> HIDE DEF g
  <2>5. ASSUME NEW k \in j..b PROVE g[k] = step[<<g, k>>]
    <3>1. k \in a..b /\ \A l \in (k + 1)..b : l \in (j + 1)..b
      BY <2>2
    <3>2. \A l \in (k + 1)..b : f[l] = g[l]
      BY <2>4, <3>1
    <3>3. step[<<f, k>>] = step[<<g, k>>]
      BY <2>4, <3>1, <3>2
    <3>4. CASE k = j
      BY <2>4, <3>3, <3>4 DEF entry
    <3>5. CASE k # j
      <4>1. k \in (j + 1)..b
        BY <2>2, <3>5
      <4>2. k \in (b + 1 - (m - 1))..b
        BY <2>2, <4>1
      <4>3. f[k] = step[<<f, k>>]
        BY <2>1, <4>2
      <4> QED
        BY <2>4, <3>3, <4>1, <4>3
    <3> QED
      BY <3>4, <3>5
  <2>6. Filled(g, m)
    BY <2>5
  <2>7. m \in 0..N
    BY <1>1
  <2> HIDE DEF Filled
  <2> QED
    BY <2>4, <2>6, <2>7
<1> HIDE DEF S
<1>4. \A m \in 0..N : m \in S
  BY <1>1, <1>2, <1>3, BoundedInduction
<1>5. N \in S
  BY <1>1, <1>4
<1>6. PICK f \in [a..b -> V] : Filled(f, N)
  BY <1>5 DEF S
<1> QED
  BY <1>6 DEF FilledBy

==============================================================================
