----------------------------- MODULE Lists_proofs -----------------------------
(***************************************************************************)
(* Theorems about the escapes and the list parsers, for texts of every     *)
(* length: the encoding of a codepoint, the type invariant, that no item   *)
(* is written behind its buffer, that the items of an ASCII text are       *)
(* UTF-8, that both parsers cut a text at the same places, and that each   *)
(* of their turns comes closer to its end.                                 *)
(***************************************************************************)
EXTENDS Lists, Texts_proofs

------------------------------------------------------------------------------
\* The bytes of a codepoint that may be encoded.
Tail6(n) == 128 + (n % 64)
Encoded(cp) ==
  IF cp <= 127 THEN <<cp>>
  ELSE IF cp <= 2047 THEN <<192 + (cp \div 64), Tail6(cp)>>
  ELSE IF cp <= 65535 THEN <<224 + (cp \div 4096), Tail6(cp \div 64), Tail6(cp)>>
  ELSE <<240 + (cp \div 262144), Tail6(cp \div 4096), Tail6(cp \div 64), Tail6(cp)>>

WellFormed(bytes) ==
  /\ LeadLength(bytes[1]) = Len(bytes)
  /\ \A i \in 2..Len(bytes) : bytes[i] \in 128..191

\* The codepoint that some bytes spell.
Value2(a, b) == (a - 192) * 64 + (b - 128)
Value3(a, b, c) == (a - 224) * 4096 + (b - 128) * 64 + (c - 128)
Value4(a, b, c, d) == (a - 240) * 262144 + (b - 128) * 4096 + (c - 128) * 64 + (d - 128)

\* One lemma for each number of bytes.
LEMMA OneByte ==
  ASSUME NEW a \in 0..127
  PROVE  Spelled(<<a>>) = a /\ WellFormed(<<a>>)
<1>1. LeadLength(a) = 1
  BY SMT DEF LeadLength
<1> QED
  BY SMT, <1>1 DEF Spelled, WellFormed

LEMMA TwoBytes ==
  ASSUME NEW a \in 192..223, NEW b \in 128..191
  PROVE  /\ Spelled(<<a, b>>) = Value2(a, b)
         /\ WellFormed(<<a, b>>)
<1>1. LeadLength(a) = 2
  BY SMT DEF LeadLength
<1> QED
  BY SMT, <1>1 DEF Spelled, WellFormed, Value2

LEMMA ThreeBytes ==
  ASSUME NEW a \in 224..239, NEW b \in 128..191, NEW c \in 128..191
  PROVE  /\ Spelled(<<a, b, c>>) = Value3(a, b, c)
         /\ WellFormed(<<a, b, c>>)
<1>1. LeadLength(a) = 3
  BY SMT DEF LeadLength
<1> QED
  BY SMT, <1>1 DEF Spelled, WellFormed, Value3

LEMMA FourBytes ==
  ASSUME NEW a \in 240..247,
         NEW b \in 128..191, NEW c \in 128..191, NEW d \in 128..191
  PROVE  /\ Spelled(<<a, b, c, d>>) = Value4(a, b, c, d)
         /\ WellFormed(<<a, b, c, d>>)
<1>1. LeadLength(a) = 4
  BY SMT DEF LeadLength
<1> QED
  BY SMT, <1>1 DEF Spelled, WellFormed, Value4

LEMMA EncodedRoundTrips ==
  ASSUME NEW cp \in Nat, cp <= LastCodepoint
  PROVE  Spelled(Encoded(cp)) = cp /\ WellFormed(Encoded(cp))
<1> DEFINE q == cp \div 64
           r == cp \div 4096
           s == cp \div 262144
           b == Tail6(cp)
           c == Tail6(q)
           d == Tail6(r)
<1>1. Encoded(cp) = IF cp <= 127 THEN <<cp>>
                    ELSE IF cp <= 2047 THEN <<192 + q, b>>
                    ELSE IF cp <= 65535 THEN <<224 + r, c, b>>
                    ELSE <<240 + s, d, c, b>>
  BY SMT DEF Encoded
<1>2. cp \in Nat /\ q \in Nat /\ r \in Nat /\ s \in Nat /\ q \div 64 = r /\ r \div 64 = s
  BY SMT DEF LastCodepoint
<1>3. /\ cp <= 2047 => q <= 31
      /\ cp <= 65535 => r <= 15
      /\ s <= 7
  BY SMT DEF LastCodepoint
<1>4. /\ cp = q * 64 + (b - 128)
      /\ b \in 128..191
  BY SMT DEF LastCodepoint, Tail6
<1> HIDE DEF b, q
<1>5. /\ q = r * 64 + (c - 128)
      /\ c \in 128..191
  BY SMT, <1>2 DEF Tail6
<1> HIDE DEF c, r
<1>6. /\ r = s * 64 + (d - 128)
      /\ d \in 128..191
  BY SMT, <1>2 DEF Tail6
<1> HIDE DEF d, s
<1>7. CASE cp <= 127
  <2>1. Encoded(cp) = <<cp>>
    BY SMT, <1>1, <1>2, <1>7
  <2>2. cp \in 0..127
    BY SMT, <1>2, <1>7
  <2>3. Spelled(<<cp>>) = cp /\ WellFormed(<<cp>>)
    BY Zenon, <2>2, OneByte
  <2> QED
    BY Zenon, <2>1, <2>3
<1>8. CASE cp > 127 /\ cp <= 2047
  <2> DEFINE a == 192 + q
  <2>1. Encoded(cp) = <<a, b>>
    BY SMT, <1>1, <1>2, <1>8
  <2>2. a \in 192..223 /\ Value2(a, b) = cp
    BY SMT, <1>2, <1>3, <1>4, <1>8 DEF Value2
  <2> HIDE DEF a
  <2>3. Spelled(<<a, b>>) = cp /\ WellFormed(<<a, b>>)
    BY Zenon, <2>2, <1>4, TwoBytes
  <2> QED
    BY Zenon, <2>1, <2>3
<1>9. CASE cp > 2047 /\ cp <= 65535
  <2> DEFINE a == 224 + r
  <2>1. Encoded(cp) = <<a, c, b>>
    BY SMT, <1>1, <1>2, <1>9
  <2>2. a \in 224..239 /\ Value3(a, c, b) = cp
    BY SMT, <1>2, <1>3, <1>4, <1>5, <1>9 DEF Value3
  <2> HIDE DEF a
  <2>3. Spelled(<<a, c, b>>) = cp /\ WellFormed(<<a, c, b>>)
    BY Zenon, <2>2, <1>4, <1>5, ThreeBytes
  <2> QED
    BY Zenon, <2>1, <2>3
<1>10. CASE cp > 65535
  <2> DEFINE a == 240 + s
  <2>1. Encoded(cp) = <<a, d, c, b>>
    BY SMT, <1>1, <1>2, <1>10
  <2>2. a \in 240..247 /\ Value4(a, d, c, b) = cp
    BY SMT, <1>2, <1>3, <1>4, <1>5, <1>6 DEF Value4
  <2> HIDE DEF a
  <2>3. Spelled(<<a, d, c, b>>) = cp /\ WellFormed(<<a, d, c, b>>)
    BY Zenon, <2>2, <1>4, <1>5, <1>6, FourBytes
  <2> QED
    BY Zenon, <2>1, <2>3
<1> QED
  BY SMT, <1>2, <1>7, <1>8, <1>9, <1>10

\* Whatever number an escape names, its bytes spell a codepoint that may be
\* encoded - that number, or U+FFFD for surrogates and numbers beyond the last
\* plane; the first byte tells how many they are and the others are
\* continuation bytes (encode_utf8).
THEOREM EncodingIsWellFormed ==
  ASSUME NEW n \in Nat
  PROVE  /\ Spelled(EncodeUtf8(n)) \in Nat
         /\ Spelled(EncodeUtf8(n)) <= LastCodepoint
         /\ Spelled(EncodeUtf8(n)) \notin Surrogates
         /\ n <= LastCodepoint /\ n \notin Surrogates => Spelled(EncodeUtf8(n)) = n
         /\ WellFormed(EncodeUtf8(n))
<1> DEFINE c == IF n > LastCodepoint \/ n \in Surrogates THEN Replacement ELSE n
<1>1. c \in Nat /\ c <= LastCodepoint
  BY SMT DEF LastCodepoint, Surrogates, Replacement
<1>2. c \notin Surrogates
  BY SMT DEF LastCodepoint, Surrogates, Replacement
<1>3. n <= LastCodepoint /\ n \notin Surrogates => c = n
  BY SMT DEF LastCodepoint, Surrogates, Replacement
<1>4. EncodeUtf8(n) = Encoded(c)
  BY SMT DEF EncodeUtf8, Encoded, Tail6
<1> HIDE DEF c
<1>5. Spelled(Encoded(c)) = c /\ WellFormed(Encoded(c))
  BY Zenon, <1>1, EncodedRoundTrips
<1> QED
  BY Zenon, <1>1, <1>2, <1>3, <1>4, <1>5

------------------------------------------------------------------------------
\* A character of the text is a byte.
LEMMA CharactersAreBytes ==
  ASSUME TypeOK
  PROVE  /\ text \in Seq(Character) /\ text \in Seq(Byte) /\ Len(text) \in Nat
         /\ \A i \in 1..Len(text) : text[i] \in Character /\ text[i] \in Byte
<1>1. text \in Seq(Character)
  BY DEF TypeOK
<1>2. Character \subseteq Byte
  BY DEF Character, Byte
<1> QED
  BY <1>1, <1>2, SeqMonotonic, ElementOfSeq, LenProperties

\* Where the item's buffer stands: its room is the rest of the text and a
\* terminator, and no more was written than was read.
Room ==
  mode \in {"quoted", "unquoted"} =>
    /\ capacity = Len(text) - start + 2
    /\ start + Len(buffer) <= index

\* A half read escape: the digits lie in the text, and one digit is below 16.
EscapeBounded ==
  scanning =>
    /\ mode \in {"quoted", "unquoted"}
    /\ index < Len(text)
    /\ DigitsAt(text[index + 1], index) + scanned.count <= Len(text) + 1
    /\ scanned.count <= DigitRule(text[index + 1]).most
    /\ scanned.value <= DigitRule(text[index + 1]).limit
    /\ scanned.count = 1 => scanned.value <= 15
    /\ scanned.count = 0 => scanned.value = 0

BraceOpen == mode = "braced" => depth >= 1

IInv == TypeOK /\ Room /\ EscapeBounded /\ BraceOpen

\* Room is what keeps the writes in the buffer.
LEMMA RoomSuffices == IInv => WritesFit
BY DEF IInv, TypeOK, Room, WritesFit

\* The same for the escape at index.
LEMMA ItemEscapeShrinks ==
  ASSUME IInv, scanning, NEW next, next = text[index + 1]
  PROVE  /\ Output(next, scanned) \in Seq(Byte)
         /\ Len(Output(next, scanned)) <= Consumed(next, scanned)
         /\ Consumed(next, scanned) \in Nat
         /\ index + Consumed(next, scanned) \in 1..(Len(text) + 1)
<1>1. /\ index \in Nat /\ index >= 1 /\ index < Len(text) /\ Len(text) \in Nat
      /\ next \in Character
  <2>1. index \in 1..(Len(text) + 1) /\ TypeOK
    BY DEF IInv, TypeOK
  <2>2. index < Len(text)
    BY DEF IInv, EscapeBounded
  <2> QED
    BY <2>1, <2>2, CharactersAreBytes
<1>2. scanned \in Scanned
  BY DEF IInv, TypeOK
<1>3. /\ DigitsAt(next, index) + scanned.count <= Len(text) + 1
      /\ scanned.value <= DigitRule(next).limit
      /\ scanned.count = 1 => scanned.value <= 15
  BY DEF IInv, EscapeBounded
<1> QED
  BY <1>1, <1>2, <1>3, EscapeShrinks

------------------------------------------------------------------------------
\* A returned item is recorded with the reader's other items.
LEMMA EndItemKeeps ==
  ASSUME TypeOK, NEW next \in 1..(Len(text) + 1), NEW value \in Seq(Byte),
         EndItem(next, value)
  PROVE  TypeOK' /\ mode' = "between" /\ scanning' = scanning
<1>1. CString(value) \in Seq(Byte)
  BY CStringType
<1>2. start \in Nat /\ next \in Nat
  BY CharactersAreBytes DEF TypeOK
<1>3. [first |-> start, next |-> next, value |-> CString(value)] \in Item
  BY <1>1, <1>2 DEF Item
<1>4. items[reader] \in Seq(Item)
  BY DEF TypeOK
<1>5. items' \in [Readers -> Seq(Item)]
  BY <1>3, <1>4 DEF TypeOK, EndItem
<1> QED
  BY <1>5 DEF TypeOK, EndItem

\* A reader's verdict; the other reader starts, or both are done.
LEMMA EndListKeeps ==
  ASSUME IInv, ~scanning, NEW outcome \in {"ok", "malformed"}, EndList(outcome)
  PROVE  IInv'
<1>1. TypeOK'
  <2>1. verdict' \in [Readers -> {"none", "ok", "malformed"}] /\ reader' \in Readers
    BY DEF IInv, TypeOK, EndList, Readers
  <2>2. Len(text) \in Nat
    BY DEF IInv, TypeOK
  <2>3. index' \in 1..(Len(text) + 1) /\ joining' \in BOOLEAN
    <3>1. index' = 1 /\ joining' = FALSE
      BY DEF EndList
    <3>2. 1 \in 1..(Len(text) + 1)
      BY <2>2
    <3> QED
      BY <3>1, <3>2
  <2>4. mode' \in {"between", "braced", "quoted", "unquoted", "done"}
    BY DEF EndList
  <2>5. /\ text' = text /\ start' = start /\ depth' = depth /\ scanning' = scanning
        /\ scanned' = scanned /\ capacity' = capacity /\ buffer' = buffer /\ items' = items
    BY DEF EndList
  <2> QED
    BY <2>1, <2>3, <2>4, <2>5 DEF IInv, TypeOK
<1>2. mode' \in {"between", "done"} /\ ~scanning'
  BY DEF EndList
<1> QED
  BY <1>1, <1>2 DEF IInv, Room, EscapeBounded, BraceOpen

\* Nothing is open at the start.
LEMMA InitIInv == Init => IInv
<1> SUFFICES ASSUME Init PROVE IInv
  OBVIOUS
<1>1. TypeOK
  <2>1. text \in Seq(Character) /\ Len(text) \in Nat
    BY TextsAssumption, LenProperties DEF Init
  <2>2. index \in 1..(Len(text) + 1) /\ start \in 1..(Len(text) + 1) /\ depth \in Nat
    BY <2>1 DEF Init
  <2>3. scanned \in Scanned
    BY DEF Init, Scanned, NoDigits
  <2>4. items \in [Readers -> Seq(Item)] /\ buffer \in Seq(Byte)
    BY EmptySeq DEF Init
  <2> QED
    BY <2>1, <2>2, <2>3, <2>4 DEF Init, TypeOK, Readers
<1>2. mode = "between" /\ scanning = FALSE
  BY DEF Init
<1> QED
  BY <1>1, <1>2 DEF IInv, Room, EscapeBounded, BraceOpen

\* What the actions inside an item need to know of the types.
LEMMA Facts ==
  ASSUME IInv
  PROVE  /\ Len(text) \in Nat /\ index \in Nat /\ index >= 1 /\ index <= Len(text) + 1
         /\ start \in Nat /\ start >= 1 /\ start <= Len(text) + 1
         /\ Len(buffer) \in Nat /\ depth \in Nat
         /\ index <= Len(text) => text[index] \in Byte
         /\ index < Len(text) => text[index + 1] \in Byte
<1>1. TypeOK
  BY DEF IInv
<1>2. Len(text) \in Nat /\ \A i \in 1..Len(text) : text[i] \in Byte
  BY <1>1, CharactersAreBytes
<1>3. index \in 1..(Len(text) + 1) /\ start \in 1..(Len(text) + 1) /\ Len(buffer) \in Nat
  BY <1>1, LenProperties DEF TypeOK
<1>4. /\ index \in Nat /\ index >= 1 /\ index <= Len(text) + 1
      /\ start \in Nat /\ start >= 1 /\ start <= Len(text) + 1
  BY <1>2, <1>3
<1>5. index <= Len(text) => text[index] \in Byte
  BY <1>2, <1>4
<1>6. index < Len(text) => text[index + 1] \in Byte
  BY <1>2, <1>4
<1> QED
  BY <1>1, <1>2, <1>3, <1>4, <1>5, <1>6 DEF TypeOK

\* A step inside an item that reads no digit.
LEMMA CopyKeeps ==
  ASSUME IInv, mode \in {"quoted", "unquoted"}, CopyUnchanged,
         index' \in Nat, index' >= index, index' <= Len(text) + 1,
         buffer' \in Seq(Byte), Len(buffer') - Len(buffer) <= index' - index,
         scanning' = FALSE, scanned' = scanned, joining' \in BOOLEAN
  PROVE  IInv'
<1>1. TypeOK'
  <2>1. index' \in 1..(Len(text') + 1)
    BY Facts DEF CopyUnchanged
  <2> QED
    BY <2>1 DEF IInv, TypeOK, CopyUnchanged
<1>2. Room'
  <2>1. Len(buffer') \in Nat
    BY LenProperties
  <2>2. capacity = Len(text) - start + 2 /\ start + Len(buffer) <= index
    BY DEF IInv, Room
  <2>3. start + Len(buffer') <= index'
    BY <2>1, <2>2, Facts
  <2> QED
    BY <2>2, <2>3 DEF Room, CopyUnchanged
<1> QED
  BY <1>1, <1>2 DEF IInv, EscapeBounded, BraceOpen, CopyUnchanged

\* A buffer that takes one more byte.
LEMMA AppendKeeps ==
  ASSUME IInv, NEW b \in Byte
  PROVE  Append(buffer, b) \in Seq(Byte) /\ Len(Append(buffer, b)) = Len(buffer) + 1
<1>1. buffer \in Seq(Byte)
  BY DEF IInv, TypeOK
<1> QED
  BY <1>1

\* Every step of the parsers keeps the types, the room left in the buffer and the
\* bounds of a half read escape.
THEOREM StepKeepsIInv == IInv /\ [Next]_vars => IInv'
<1> SUFFICES ASSUME IInv, [Next]_vars PROVE IInv'
  OBVIOUS
<1>1. CASE SkipSpace
  <2>1. TypeOK'
    <3>1. index' \in 1..(Len(text') + 1)
      BY <1>1, Facts DEF SkipSpace, AtEnd
    <3> QED
      BY <1>1, <3>1 DEF SkipSpace, IInv, TypeOK
  <2> QED
    BY <1>1, <2>1 DEF SkipSpace, IInv, Room, EscapeBounded, BraceOpen
<1>2. CASE BeginItem
  <2>1. mode' \in {"braced", "quoted", "unquoted"} /\ ~scanning /\ scanning' = scanning
    BY <1>2 DEF BeginItem, IInv, EscapeBounded
  <2>2. /\ start' \in 1..(Len(text) + 1) /\ index' = start'
        /\ capacity' = Len(text) - start' + 2
        /\ capacity' \in Nat
    <3>1. index <= Len(text) /\ (start' = index \/ start' = index + 1)
      BY <1>2, Facts DEF BeginItem, AtEnd
    <3>2. index' = start' /\ capacity' = Len(text) - start' + 2
      BY <1>2 DEF BeginItem
    <3> QED
      BY <3>1, <3>2, Facts
  <2>3. depth' \in Nat /\ (mode' = "braced" => depth' = 1)
    BY <1>2 DEF BeginItem
  <2>4. buffer' = <<>> /\ buffer' \in Seq(Byte) /\ Len(buffer') = 0
    BY <1>2, EmptySeq DEF BeginItem
  <2>5. TypeOK'
    BY <1>2, <2>1, <2>2, <2>3, <2>4 DEF BeginItem, IInv, TypeOK
  <2>6. Room'
    BY <1>2, <2>2, <2>4, Facts DEF BeginItem, Room
  <2> QED
    BY <2>1, <2>3, <2>5, <2>6 DEF IInv, EscapeBounded, BraceOpen
<1>3. CASE ListEnds \/ ListIsMalformed
  <2>1. ~scanning
    BY <1>3 DEF ListEnds, ListIsMalformed, IInv, EscapeBounded
  <2> QED
    BY <1>3, <2>1, EndListKeeps DEF ListEnds, ListIsMalformed
<1>4. CASE BracedCharacter
  <2>1. ~scanning
    BY <1>4 DEF BracedCharacter, IInv, EscapeBounded
  <2>2. index' \in 1..(Len(text) + 1)
    BY <1>4, Facts DEF BracedCharacter, AtEnd
  <2>3. depth >= 1
    BY <1>4 DEF BracedCharacter, IInv, BraceOpen
  <2>4. depth' \in Nat /\ depth' >= 1
    BY <1>4, <2>3, Facts DEF BracedCharacter, OpenBrace, CloseBrace
  <2>5. TypeOK'
    BY <1>4, <2>2, <2>4 DEF BracedCharacter, BracedUnchanged, IInv, TypeOK
  <2> QED
    BY <1>4, <2>1, <2>4, <2>5
    DEF BracedCharacter, BracedUnchanged, IInv, Room, EscapeBounded, BraceOpen
<1>5. CASE BracedEnds
  <2>1. ~scanning
    BY <1>5 DEF BracedEnds, IInv, EscapeBounded
  <2>2. TypeOK
    BY DEF IInv
  <2>3. index + 1 \in 1..(Len(text) + 1)
    BY <1>5, Facts DEF BracedEnds, AtEnd
  <2>4. SubSeq(text, start, index - 1) \in Seq(Byte)
    <3>1. \A i \in start..(index - 1) : text[i] \in Byte
      BY <2>2, CharactersAreBytes, Facts
    <3> QED
      BY <3>1, Facts, SubSeqProperties
  <2>5. TypeOK' /\ mode' = "between" /\ scanning' = scanning
    BY <1>5, <2>2, <2>3, <2>4, EndItemKeeps DEF BracedEnds
  <2> QED
    BY <2>1, <2>5 DEF IInv, Room, EscapeBounded, BraceOpen
<1>6. CASE JoinBlank
  <2>1. /\ ~scanning /\ mode \in {"quoted", "unquoted"} /\ CopyUnchanged
        /\ buffer' = buffer /\ index' = index + 1 /\ index <= Len(text)
        /\ scanning' = scanning /\ scanned' = scanned /\ joining' = joining
    BY <1>6, Facts DEF JoinBlank, Copying, Joining, AtEnd
  <2>2. /\ buffer' \in Seq(Byte) /\ scanning' = FALSE /\ joining' \in BOOLEAN
    BY <2>1 DEF IInv, TypeOK
  <2>3. Len(buffer') = Len(buffer) /\ index' = index + 1 /\ index <= Len(text)
    BY <2>1
  <2>4. /\ index' \in Nat /\ index' >= index /\ index' <= Len(text) + 1
        /\ Len(buffer') - Len(buffer) <= index' - index
    BY <2>3, Facts
  <2> QED
    BY <2>1, <2>2, <2>4, CopyKeeps
<1>7. CASE CopyCharacter
  <2>1. /\ ~scanning /\ mode \in {"quoted", "unquoted"} /\ CopyUnchanged
        /\ index <= Len(text)
        /\ scanning' = scanning /\ scanned' = scanned /\ joining' = FALSE
    BY <1>7, Facts DEF CopyCharacter, Copying, AtEnd
  <2>2. \/ buffer' = Append(buffer, text[index]) /\ index' = index + 1
        \/ /\ index < Len(text)
           /\ buffer' = Append(buffer, text[index + 1]) /\ index' = index + 2
    BY <1>7 DEF CopyCharacter, Next1
  <2>3. /\ index' \in Nat /\ index' >= index + 1 /\ index' <= Len(text) + 1
    BY <2>1, <2>2, Facts
  <2>4. \E b \in Byte : buffer' = Append(buffer, b)
    BY <2>1, <2>2, Facts
  <2>5. buffer' \in Seq(Byte) /\ Len(buffer') = Len(buffer) + 1
    BY <2>4, AppendKeeps
  <2>6. Len(buffer') - Len(buffer) <= index' - index /\ index' >= index
    BY <2>3, <2>5, Facts
  <2>7. scanning' = FALSE /\ joining' \in BOOLEAN
    BY <2>1 DEF IInv, TypeOK
  <2> QED
    BY <2>1, <2>3, <2>5, <2>6, <2>7, CopyKeeps
<1>8. CASE JoinLine
  <2>1. /\ ~scanning /\ mode \in {"quoted", "unquoted"} /\ CopyUnchanged
        /\ index < Len(text) /\ buffer' = Append(buffer, Space)
        /\ index' = index + 1 + LineEndLength(text, index + 1)
        /\ scanning' = scanning /\ scanned' = scanned /\ joining' = TRUE
    BY <1>8 DEF JoinLine, AtEscape, Copying
  <2>2. LineEndLength(text, index + 1) \in 1..2
        /\ (LineEndLength(text, index + 1) = 2 => index + 1 < Len(text))
    BY DEF LineEndLength
  <2>3. /\ index' \in Nat /\ index' >= index + 1 /\ index' <= Len(text) + 1
    BY <2>1, <2>2, Facts
  <2>4. Space \in Byte
    BY DEF Space, Byte
  <2>5. buffer' \in Seq(Byte) /\ Len(buffer') = Len(buffer) + 1
    BY <2>1, <2>4, AppendKeeps
  <2>6. Len(buffer') - Len(buffer) <= index' - index /\ index' >= index
    BY <2>3, <2>5, Facts
  <2>7. scanning' = FALSE /\ joining' \in BOOLEAN
    BY <2>1 DEF IInv, TypeOK
  <2> QED
    BY <2>1, <2>3, <2>5, <2>6, <2>7, CopyKeeps
<1>9. CASE BeginEscape
  <2>1. /\ mode \in {"quoted", "unquoted"} /\ CopyUnchanged /\ index < Len(text)
        /\ index' = index /\ buffer' = buffer /\ joining' = FALSE
        /\ scanning' = TRUE /\ scanned' = NoDigits
    BY <1>9 DEF BeginEscape, AtEscape, Copying
  <2>2. scanned' \in Scanned /\ scanned'.count = 0 /\ scanned'.value = 0
    BY <2>1 DEF Scanned, NoDigits
  <2>3. TypeOK'
    BY <2>1, <2>2 DEF IInv, TypeOK, CopyUnchanged
  <2>4. /\ DigitsAt(text[index + 1], index) \in Nat
        /\ DigitsAt(text[index + 1], index) <= Len(text) + 1
    BY <2>1, Facts DEF DigitsAt
  <2>5. DigitRule(text[index + 1]) \in Rules
    BY DEF DigitRule, Rules
  <2>6. EscapeBounded'
    BY <2>1, <2>2, <2>4, <2>5, RuleBounds DEF EscapeBounded, CopyUnchanged
  <2> QED
    BY <2>1, <2>3, <2>6 DEF IInv, Room, BraceOpen, CopyUnchanged
<1>10. CASE ScanDigit
  <2> DEFINE next == text[index + 1]
             at == DigitsAt(next, index)
             rule == DigitRule(next)
  <2>1. /\ scanning' /\ scanning /\ CopyUnchanged /\ index' = index
        /\ buffer' = buffer /\ joining' = joining
        /\ scanned' = TakeDigit(text, at, rule, scanned)
        /\ TakesDigit(text, at, rule, scanned)
    BY <1>10 DEF ScanDigit, MoreDigits, IInv, TypeOK
  <2>2. /\ scanned \in Scanned /\ rule \in Rules
        /\ scanned.count <= rule.most /\ scanned.value <= rule.limit
        /\ scanned.count = 0 => scanned.value = 0
    BY <2>1 DEF IInv, TypeOK, EscapeBounded, DigitRule, Rules
  <2>3. at \in Nat
    BY Facts DEF DigitsAt
  <2> HIDE DEF at, rule, next
  <2>4. /\ scanned' \in Scanned
        /\ scanned'.count <= rule.most /\ scanned'.value <= rule.limit
        /\ scanned'.count = 1 => scanned'.value <= 15
        /\ scanned'.count = 0 => scanned'.value = 0
        /\ at + scanned'.count <= Len(text) + 1
    BY <2>1, <2>2, <2>3, Facts, DigitKeepsBounds
  <2>5. TypeOK'
    BY <2>1, <2>4 DEF IInv, TypeOK, CopyUnchanged
  <2>6. EscapeBounded'
    BY <2>1, <2>4 DEF IInv, EscapeBounded, CopyUnchanged, at, rule, next
  <2> QED
    BY <2>1, <2>5, <2>6 DEF IInv, Room, BraceOpen, CopyUnchanged
<1>11. CASE EndEscape
  <2> DEFINE bytes == Output(text[index + 1], scanned)
             taken == Consumed(text[index + 1], scanned)
  <2>1. /\ scanning /\ CopyUnchanged /\ index' = index + taken
        /\ buffer' = buffer \o bytes
        /\ scanning' = FALSE /\ scanned' = scanned /\ joining' = joining
    BY <1>11 DEF EndEscape
  <2>2. /\ bytes \in Seq(Byte) /\ Len(bytes) <= taken /\ taken \in Nat
        /\ index + taken \in 1..(Len(text) + 1)
    BY <2>1, ItemEscapeShrinks
  <2>3. mode \in {"quoted", "unquoted"} /\ joining' \in BOOLEAN /\ buffer \in Seq(Byte)
    BY <2>1 DEF IInv, EscapeBounded, TypeOK
  <2> HIDE DEF bytes, taken
  <2>4. buffer' \in Seq(Byte) /\ Len(buffer') = Len(buffer) + Len(bytes)
        /\ Len(bytes) \in Nat
    BY <2>1, <2>2, <2>3, ConcatProperties, LenProperties
  <2>5. /\ index' \in Nat /\ index' >= index /\ index' <= Len(text) + 1
        /\ Len(buffer') - Len(buffer) <= index' - index
    BY <2>1, <2>2, <2>4, Facts
  <2> QED
    BY <2>1, <2>3, <2>4, <2>5, CopyKeeps
<1>12. CASE CopyEnds
  <2>1. ~scanning /\ TypeOK /\ buffer \in Seq(Byte)
    BY <1>12 DEF CopyEnds, Copying, IInv, TypeOK
  <2> DEFINE next == IF mode = "quoted" THEN index + 1 ELSE index
  <2>2. EndItem(next, buffer)
    BY <1>12 DEF CopyEnds
  <2>3. mode = "quoted" => index <= Len(text)
    BY <1>12, Facts DEF CopyEnds, ItemEnds, AtEnd
  <2>4. next \in 1..(Len(text) + 1)
    BY <2>3, Facts
  <2>5. TypeOK' /\ mode' = "between" /\ scanning' = scanning
    BY <2>1, <2>2, <2>4, EndItemKeeps
  <2> QED
    BY <2>1, <2>5 DEF IInv, Room, EscapeBounded, BraceOpen
<1>13. CASE Done \/ UNCHANGED vars
  <2>1. UNCHANGED vars
    BY <1>13 DEF Done
  <2>2. TypeOK /\ Room /\ EscapeBounded /\ BraceOpen
    BY DEF IInv
  <2>3. TypeOK'
    BY <2>1, <2>2 DEF vars, TypeOK
  <2>4. Room' /\ BraceOpen'
    BY <2>1, <2>2 DEF vars, Room, BraceOpen
  <2>5. EscapeBounded'
    BY <2>1, <2>2 DEF vars, EscapeBounded
  <2> QED
    BY <2>3, <2>4, <2>5 DEF IInv
<1> QED
  BY <1>1, <1>2, <1>3, <1>4, <1>5, <1>6, <1>7, <1>8, <1>9, <1>10, <1>11, <1>12, <1>13
  DEF Next

\* Every state of the parsers has its type: among others, the next character
\* is never read behind the end of the text.
THEOREM TypeCorrect == Spec => []TypeOK
<1>1. IInv => TypeOK
  BY DEF IInv
<1> QED
  BY InitIInv, StepKeepsIInv, <1>1, PTL DEF Spec

\* No item of any text, with any escapes, is written behind its buffer.
THEOREM BufferNeverOverflows == Spec => []WritesFit
BY InitIInv, StepKeepsIInv, RoomSuffices, PTL DEF Spec

------------------------------------------------------------------------------
\* A continuation byte.
Continues(b) == b \in 128..191

\* What IsUtf8 says of each byte.
Utf8At(bytes, i) ==
  IF Continues(bytes[i])
  THEN \E k \in 1..3 : /\ i > k
                       /\ LeadLength(bytes[i - k]) > k
                       /\ \A j \in (i - k + 1)..i : Continues(bytes[j])
  ELSE LET last == i + LeadLength(bytes[i]) - 1
       IN /\ last \in i..Len(bytes)
          /\ \A j \in (i + 1)..last : Continues(bytes[j])
          /\ Spelled(SubSeq(bytes, i, last)) \notin Surrogates
          /\ EncodeUtf8(Spelled(SubSeq(bytes, i, last))) = SubSeq(bytes, i, last)

\* IsUtf8 taken byte by byte.
LEMMA Utf8ByByte == \A bytes : IsUtf8(bytes) <=> \A i \in 1..Len(bytes) : Utf8At(bytes, i)
BY Zenon DEF IsUtf8, Utf8At, Continues

\* No sequence is longer than four bytes.
LEMMA LeadIs == \A b : LeadLength(b) \in 0..4
BY DEF LeadLength

\* The same part of two sequences.
LEMMA SameParts ==
  ASSUME NEW a \in Seq(Byte), NEW b \in Seq(Byte), NEW off \in Nat,
         NEW i \in Nat \ {0}, NEW last \in Nat, i <= last, last <= Len(a), off + last <= Len(b),
         \A k \in i..last : b[off + k] = a[k]
  PROVE  SubSeq(b, off + i, off + last) = SubSeq(a, i, last)
<1> DEFINE p == SubSeq(a, i, last)
           q == SubSeq(b, off + i, off + last)
<1>1. Len(a) \in Nat /\ Len(b) \in Nat
  OBVIOUS
<1>2. /\ p \in Seq(Byte) /\ Len(p) = last - i + 1
      /\ \A k \in 1..(last - i + 1) : p[k] = a[i + k - 1]
  <2>1. \A k \in i..last : a[k] \in Byte
    BY <1>1, ElementOfSeq
  <2> QED
    BY <2>1, SubSeqProperties
<1>3. /\ q \in Seq(Byte) /\ Len(q) = last - i + 1
      /\ \A k \in 1..(last - i + 1) : q[k] = b[off + i + k - 1]
  <2>1. \A k \in (off + i)..(off + last) : b[k] \in Byte
    BY <1>1, ElementOfSeq
  <2> QED
    BY <2>1, SubSeqProperties
<1> HIDE DEF p, q
<1>4. \A k \in 1..(last - i + 1) : q[k] = p[k]
  <2>1. ASSUME NEW k \in 1..(last - i + 1) PROVE q[k] = p[k]
    <3>1. i + k - 1 \in i..last /\ off + i + k - 1 = off + (i + k - 1)
      OBVIOUS
    <3> QED
      BY <1>2, <1>3, <3>1
  <2> QED
    BY <2>1
<1>5. p = q
  BY <1>2, <1>3, <1>4, SeqEqual
<1> QED
  BY <1>5 DEF p, q

\* A byte stays where it is in a sequence that has the other as a part.
LEMMA Utf8Embeds ==
  ASSUME NEW a \in Seq(Byte), NEW b \in Seq(Byte), NEW off \in Nat,
         off + Len(a) <= Len(b), \A k \in 1..Len(a) : b[off + k] = a[k],
         NEW i \in 1..Len(a), Utf8At(a, i)
  PROVE  Utf8At(b, off + i)
<1>1. Len(a) \in Nat /\ Len(b) \in Nat /\ b[off + i] = a[i]
  OBVIOUS
<1>2. CASE Continues(a[i])
  <2>1. PICK k \in 1..3 : /\ i > k
                          /\ LeadLength(a[i - k]) > k
                          /\ \A j \in (i - k + 1)..i : Continues(a[j])
    BY <1>2 DEF Utf8At
  <2>2. off + i > k /\ b[(off + i) - k] = a[i - k]
    <3>1. i - k \in 1..Len(a) /\ off + (i - k) = (off + i) - k
      BY <2>1
    <3> QED
      BY <2>1, <3>1
  <2>3. \A j \in ((off + i) - k + 1)..(off + i) : Continues(b[j])
    <3>1. ASSUME NEW j \in ((off + i) - k + 1)..(off + i) PROVE Continues(b[j])
      <4>1. j - off \in (i - k + 1)..i /\ j - off \in 1..Len(a) /\ off + (j - off) = j
        BY <2>1
      <4> QED
        BY <2>1, <4>1
    <3> QED
      BY <3>1
  <2>4. LeadLength(b[(off + i) - k]) > k
    BY <2>1, <2>2
  <2> QED
    BY <1>1, <1>2, <2>2, <2>3, <2>4 DEF Utf8At
<1>3. CASE ~Continues(a[i])
  <2> DEFINE l == LeadLength(a[i])
             last == i + l - 1
  <2>1. l \in 0..4
    BY LeadIs
  <2>2. /\ last \in i..Len(a)
        /\ \A j \in (i + 1)..last : Continues(a[j])
        /\ Spelled(SubSeq(a, i, last)) \notin Surrogates
        /\ EncodeUtf8(Spelled(SubSeq(a, i, last))) = SubSeq(a, i, last)
    BY <1>3 DEF Utf8At
  <2>3. (off + i) + LeadLength(b[off + i]) - 1 = off + last
    BY <1>1, <2>1
  <2> HIDE DEF l, last
  <2>4. off + last \in (off + i)..Len(b)
    BY <1>1, <2>2
  <2>5. \A j \in ((off + i) + 1)..(off + last) : Continues(b[j])
    <3>1. ASSUME NEW j \in ((off + i) + 1)..(off + last) PROVE Continues(b[j])
      <4>1. j - off \in (i + 1)..last /\ j - off \in 1..Len(a) /\ off + (j - off) = j
        BY <1>1, <2>2
      <4> QED
        BY <2>2, <4>1
    <3> QED
      BY <3>1
  <2>6. SubSeq(b, off + i, off + last) = SubSeq(a, i, last)
    <3>1. \A k \in i..last : b[off + k] = a[k]
      BY <1>1, <2>2
    <3>2. i \in Nat \ {0} /\ last \in Nat /\ i <= last /\ last <= Len(a) /\ off + last <= Len(b)
      BY <1>1, <2>2, <2>4
    <3> QED
      BY <3>1, <3>2, SameParts
  <2>7. ~Continues(b[off + i])
    BY <1>1, <1>3
  <2> QED
    BY <2>2, <2>3, <2>4, <2>5, <2>6, <2>7 DEF Utf8At
<1> QED
  BY <1>2, <1>3

\* UTF-8 behind UTF-8 is UTF-8: both parts keep their sequences.
LEMMA Utf8Concat ==
  ASSUME NEW a \in Seq(Byte), NEW b \in Seq(Byte), IsUtf8(a), IsUtf8(b)
  PROVE  IsUtf8(a \o b)
<1> DEFINE c == a \o b
<1>1. /\ c \in Seq(Byte) /\ Len(c) = Len(a) + Len(b) /\ Len(a) \in Nat /\ Len(b) \in Nat
      /\ \A k \in 1..Len(a) : c[k] = a[k]
      /\ \A k \in 1..Len(b) : c[Len(a) + k] = b[k]
  BY ConcatProperties
<1> HIDE DEF c
<1>2. ASSUME NEW i \in 1..Len(c) PROVE Utf8At(c, i)
  <2>1. CASE i <= Len(a)
    <3>1. i \in 1..Len(a) /\ Utf8At(a, i)
      BY <1>1, <2>1, Utf8ByByte
    <3>2. 0 \in Nat /\ 0 + Len(a) <= Len(c) /\ (\A k \in 1..Len(a) : c[0 + k] = a[k]) /\ 0 + i = i
      BY <1>1
    <3>3. Utf8At(c, 0 + i)
      BY <1>1, <3>1, <3>2, Utf8Embeds
    <3> QED
      BY <3>2, <3>3
  <2>2. CASE i > Len(a)
    <3>1. PICK off \in Nat : off = Len(a)
      BY <1>1
    <3>2. PICK k \in Nat : k = i - off
      <4>1. i \in Nat /\ i > off
        BY <1>1, <2>2, <3>1
      <4>2. i - off \in Nat
        BY ONLY <4>1, off \in Nat
      <4> QED
        BY Zenon, <4>2
    <3>3. k \in 1..Len(b) /\ i = off + k /\ off + Len(b) <= Len(c)
      BY <1>1, <2>2, <3>1, <3>2
    <3>4. \A j \in 1..Len(b) : c[off + j] = b[j]
      BY <1>1, <3>1
    <3>5. Utf8At(b, k)
      BY <3>3, Utf8ByByte
    <3> QED
      BY <1>1, <3>1, <3>3, <3>4, <3>5, Utf8Embeds
  <2> QED
    BY <1>1, <2>1, <2>2
<1> QED
  BY <1>2, Utf8ByByte DEF c

\* A character of ASCII is its own encoding.
LEMMA AsciiByte ==
  ASSUME NEW c \in 0..127
  PROVE  LeadLength(c) = 1 /\ ~Continues(c) /\ c \notin Surrogates /\ EncodeUtf8(c) = <<c>>
<1>1. c <= 127 /\ ~(c > LastCodepoint) /\ c \notin Surrogates
  BY DEF LastCodepoint, Surrogates
<1>2. EncodeUtf8(c) = <<c>>
  BY <1>1 DEF EncodeUtf8
<1> QED
  BY <1>1, <1>2 DEF LeadLength, Continues

\* ASCII is UTF-8.
LEMMA AsciiIs ==
  ASSUME NEW a \in Seq(0..127)
  PROVE  IsUtf8(a)
<1>1. ASSUME NEW i \in 1..Len(a) PROVE Utf8At(a, i)
  <2>1. PICK c \in 0..127 : c = a[i]
    BY ElementOfSeq
  <2>2. i \in Nat /\ i >= 1 /\ i <= Len(a) /\ Len(a) \in Nat
    OBVIOUS
  <2>3. SubSeq(a, i, i) = <<c>>
    <3> DEFINE p == SubSeq(a, i, i)
               q == <<c>>
    <3>1. p \in Seq(0..127) /\ Len(p) = i - i + 1 /\ \A k \in 1..(i - i + 1) : p[k] = a[i + k - 1]
      <4>1. \A k \in i..i : a[k] \in 0..127
        BY <2>1, <2>2
      <4> QED
        BY <2>2, <4>1, SubSeqProperties
    <3>2. q \in Seq(0..127) /\ Len(q) = 1 /\ q[1] = c
      BY <2>1
    <3> HIDE DEF p, q
    <3>3. i - i + 1 = 1 /\ i + 1 - 1 = i
      BY <2>2
    <3>4. Len(p) = 1 /\ p[1] = c
      BY <2>1, <3>1, <3>3
    <3>5. p = q
      BY <3>1, <3>2, <3>4, SeqEqual
    <3> QED
      BY <3>5 DEF p, q
  <2>4. Spelled(<<c>>) = c
    BY OneByte
  <2>5. LeadLength(a[i]) = 1 /\ ~Continues(a[i])
    BY <2>1, AsciiByte
  <2>6. c \notin Surrogates /\ EncodeUtf8(c) = <<c>>
    BY AsciiByte
  <2>7. i + LeadLength(a[i]) - 1 = i
    BY <2>2, <2>5
  <2>8. i \in i..Len(a) /\ \A j \in (i + 1)..i : FALSE
    BY <2>2
  <2> QED
    BY <2>3, <2>4, <2>5, <2>6, <2>7, <2>8 DEF Utf8At
<1> QED
  BY <1>1, Utf8ByByte

\* So are the bytes of an escape.
LEMMA EncodedIsUtf8 ==
  ASSUME NEW n \in Nat
  PROVE  IsUtf8(EncodeUtf8(n))
<1> DEFINE e == EncodeUtf8(n)
           cp == Spelled(e)
<1>1. e \in Seq(Byte) /\ Len(e) \in 1..4
  BY EncodingLength
<1>2. cp \in Nat /\ cp <= LastCodepoint /\ cp \notin Surrogates /\ WellFormed(e)
  BY EncodingIsWellFormed
<1>3. EncodeUtf8(cp) = e
  <2>1. e = Encoded(cp)
    <3> DEFINE c == IF n > LastCodepoint \/ n \in Surrogates THEN Replacement ELSE n
    <3>1. e = Encoded(c)
      BY DEF EncodeUtf8, Encoded, Tail6
    <3>2. c \in Nat /\ c <= LastCodepoint
      BY DEF LastCodepoint, Surrogates, Replacement
    <3> HIDE DEF c, e
    <3>3. Spelled(Encoded(c)) = c
      BY Zenon, <3>2, EncodedRoundTrips
    <3> QED
      BY <3>1, <3>3
  <2> HIDE DEF cp, e
  <2>2. ~(cp > LastCodepoint) /\ cp \notin Surrogates
    BY <1>2 DEF LastCodepoint
  <2>3. EncodeUtf8(cp) = Encoded(cp)
    BY <2>2 DEF EncodeUtf8, Encoded, Tail6
  <2> QED
    BY <2>1, <2>3
<1> HIDE DEF e, cp
<1>4. /\ LeadLength(e[1]) = Len(e)
      /\ \A i \in 2..Len(e) : Continues(e[i])
  BY <1>2 DEF WellFormed, Continues
<1>5. ~Continues(e[1])
  <2>1. PICK b \in Byte : b = e[1]
    BY <1>1, ElementOfSeq
  <2>2. LeadLength(b) # 0
    BY <1>1, <1>4, <2>1
  <2>3. b \in 128..191 => LeadLength(b) = 0
    BY <2>1 DEF LeadLength, Byte
  <2> QED
    BY <2>1, <2>2, <2>3 DEF Continues
<1>6. ASSUME NEW i \in 1..Len(e) PROVE Utf8At(e, i)
  <2>1. CASE i = 1
    <3>1. SubSeq(e, 1, Len(e)) = e
      BY <1>1
    <3>2. 1 + LeadLength(e[1]) - 1 = Len(e)
      BY <1>1, <1>4
    <3>3. Len(e) \in 1..Len(e) /\ \A j \in (1 + 1)..Len(e) : Continues(e[j])
      BY <1>1, <1>4
    <3> QED
      BY <1>2, <1>3, <1>5, <2>1, <3>1, <3>2, <3>3 DEF Utf8At, cp
  <2>2. CASE i # 1
    <3>1. i - 1 \in 1..3 /\ i > i - 1 /\ i - (i - 1) = 1 /\ Len(e) > i - 1
      <4>1. PICK l \in 1..4 : l = Len(e)
        BY <1>1
      <4>2. i \in 1..l
        BY <4>1
      <4>3. i - 1 \in 1..3 /\ i > i - 1 /\ i - (i - 1) = 1 /\ l > i - 1
        BY ONLY <2>2, <4>2, l \in 1..4
      <4> QED
        BY <4>1, <4>3
    <3>2. \A j \in (i - (i - 1) + 1)..i : Continues(e[j])
      BY <1>1, <1>4, <2>2
    <3>3. Continues(e[i])
      BY <1>4, <2>2
    <3>4. LeadLength(e[i - (i - 1)]) > i - 1
      BY <1>4, <3>1
    <3> QED
      BY <3>1, <3>2, <3>3, <3>4 DEF Utf8At
  <2> QED
    BY <2>1, <2>2
<1> QED
  BY <1>6, Utf8ByByte DEF e

\* What a C string shows of UTF-8 is UTF-8: no sequence has a byte 0 behind its
\* first byte.
LEMMA CStringCuts ==
  ASSUME NEW b \in Seq(Byte)
  PROVE  \E n \in 0..Len(b) : /\ CString(b) = SubSeq(b, 1, n)
                              /\ \A k \in 1..n : b[k] # 0
                              /\ n < Len(b) => b[n + 1] = 0
<1> DEFINE stops == {k \in 1..Len(b) : b[k] = 0}
           z == FirstIn(b, 1, stops)
           S == {i \in 1..Len(b) : \A j \in 1..i : b[j] # 0}
<1>1. Len(b) \in Nat
  OBVIOUS
<1>2. /\ z \in 1..(Len(b) + 1) /\ (\A k \in 1..(z - 1) : k \notin stops)
      /\ z <= Len(b) => z \in stops
  <2>1. 1 \in Nat \ {0} /\ 1 <= Len(b) + 1
    BY <1>1
  <2> QED
    BY <1>1, <2>1, FirstInIs
<1>3. z = 1 + Cardinality(S)
  <2>1. {j \in 1..Len(b) : (1..j) \intersect stops = {}} = S
    <3>1. ASSUME NEW j \in 1..Len(b)
          PROVE  (1..j) \intersect stops = {} <=> \A k \in 1..j : b[k] # 0
      <4>1. \A k \in 1..j : k \in 1..Len(b)
        BY <1>1
      <4> QED
        BY <4>1
    <3> QED
      BY <3>1
  <2> QED
    BY <2>1 DEF FirstIn
<1> DEFINE n == Cardinality(S)
<1>4. CString(b) = SubSeq(b, 1, n)
  BY DEF CString
<1>5. IsFiniteSet(S) /\ n \in Nat
  <2>1. S \in SUBSET (1..Len(b)) /\ IsFiniteSet(1..Len(b))
    BY <1>1, FS_Interval
  <2> HIDE DEF S
  <2> QED
    BY <2>1, FS_Subset, FS_CardinalityType
<1> HIDE DEF n, z
<1>6. n = z - 1 /\ n \in 0..Len(b)
  BY <1>1, <1>2, <1>3, <1>5 DEF n
<1>7. \A k \in 1..n : b[k] # 0
  BY <1>1, <1>2, <1>6
<1>8. n < Len(b) => b[n + 1] = 0
  BY <1>1, <1>2, <1>6
<1> QED
  BY <1>4, <1>6, <1>7, <1>8

\* So the part of UTF-8 that a C string shows is UTF-8.
LEMMA CStringIsUtf8 ==
  ASSUME NEW b \in Seq(Byte), IsUtf8(b)
  PROVE  IsUtf8(CString(b))
<1>1. PICK n \in 0..Len(b) : /\ CString(b) = SubSeq(b, 1, n)
                             /\ \A k \in 1..n : b[k] # 0
                             /\ n < Len(b) => b[n + 1] = 0
  BY CStringCuts
<1> DEFINE p == SubSeq(b, 1, n)
<1>2. /\ p \in Seq(Byte) /\ Len(p) = n /\ \A k \in 1..n : p[k] = b[k]
  <2>1. \A k \in 1..n : b[k] \in Byte
    BY ElementOfSeq
  <2>2. /\ p \in Seq(Byte) /\ Len(p) = n - 1 + 1 /\ \A k \in 1..(n - 1 + 1) : p[k] = b[1 + k - 1]
    BY <2>1, SubSeqProperties
  <2>3. n - 1 + 1 = n /\ \A k \in 1..n : 1 + k - 1 = k
    OBVIOUS
  <2> HIDE DEF p
  <2> QED
    BY <2>2, <2>3
<1> HIDE DEF p
<1>3. ASSUME NEW i \in 1..Len(p) PROVE Utf8At(p, i)
  <2>1. i \in 1..n /\ i \in 1..Len(b) /\ p[i] = b[i]
    BY <1>2
  <2>2. Utf8At(b, i)
    BY <2>1, Utf8ByByte
  <2>3. CASE Continues(b[i])
    <3>1. PICK k \in 1..3 : /\ i > k
                            /\ LeadLength(b[i - k]) > k
                            /\ \A j \in (i - k + 1)..i : Continues(b[j])
      BY <2>2, <2>3 DEF Utf8At
    <3>2. i - k \in 1..n
      BY <2>1, <3>1
    <3>3. \A j \in (i - k + 1)..i : j \in 1..n
      BY <2>1, <3>1
    <3> QED
      BY <1>2, <2>1, <2>3, <3>1, <3>2, <3>3 DEF Utf8At
  <2>4. CASE ~Continues(b[i])
    <3>1. PICK l \in 0..4 : l = LeadLength(b[i])
      BY LeadIs
    <3>2. PICK last \in Int : last = i + l - 1
      BY <2>1
    <3>3. /\ last \in i..Len(b)
          /\ \A j \in (i + 1)..last : Continues(b[j])
          /\ Spelled(SubSeq(b, i, last)) \notin Surrogates
          /\ EncodeUtf8(Spelled(SubSeq(b, i, last))) = SubSeq(b, i, last)
      BY <2>2, <2>4, <3>1, <3>2 DEF Utf8At
    <3>4. last <= n
      <4>1. SUFFICES ASSUME n < last PROVE FALSE
        BY <3>2
      <4>2. n + 1 \in (i + 1)..last /\ n < Len(b)
        BY <2>1, <3>3, <4>1
      <4>3. Continues(b[n + 1]) /\ b[n + 1] = 0
        BY <1>1, <3>3, <4>2
      <4> QED
        BY <4>3 DEF Continues
    <3>5. SubSeq(p, i, last) = SubSeq(b, i, last)
      <4>1. \A k \in i..last : b[0 + k] = p[k]
        BY <1>2, <2>1, <3>4
      <4>2. /\ 0 \in Nat /\ i \in Nat \ {0} /\ last \in Nat /\ i <= last /\ last <= Len(p)
            /\ 0 + last <= Len(b)
        BY <1>2, <2>1, <3>3, <3>4
      <4>3. SubSeq(b, 0 + i, 0 + last) = SubSeq(p, i, last)
        BY <1>2, <4>1, <4>2, SameParts
      <4>4. 0 + i = i /\ 0 + last = last
        BY <4>2
      <4> QED
        BY <4>3, <4>4
    <3>6. last \in i..Len(p) /\ \A j \in (i + 1)..last : Continues(p[j])
      BY <1>2, <2>1, <3>3, <3>4
    <3> QED
      BY <2>1, <2>4, <3>1, <3>2, <3>3, <3>5, <3>6 DEF Utf8At
  <2> QED
    BY <2>3, <2>4
<1> QED
  BY <1>1, <1>3, Utf8ByByte DEF p

------------------------------------------------------------------------------
\* The texts ItemsAreUtf8 speaks of.
Ascii == \A i \in 1..Len(text) : text[i] <= 127

\* What the executor has written to an item's buffer is UTF-8 after every
\* character and every whole escape.
BufferIsUtf8 == reader = "executor" /\ mode \in {"quoted", "unquoted"} => IsUtf8(buffer)

\* The items the executor has returned.
ItemsSoFar == \A i \in 1..Len(items["executor"]) : IsUtf8(items["executor"][i].value)

Utf8Inv == IInv /\ (Ascii => BufferIsUtf8 /\ ItemsSoFar)

\* An item begins with nothing.
LEMMA EmptyIsUtf8 == IsUtf8(<<>>)
BY DEF IsUtf8

\* What is read from such a text is ASCII.
LEMMA AsciiAt ==
  ASSUME IInv, Ascii
  PROVE  /\ text \in Seq(0..127)
         /\ \A i \in 1..Len(text) : text[i] \in 0..127
<1>1. text \in Seq(Byte) /\ Len(text) \in Nat /\ \A i \in 1..Len(text) : text[i] \in Byte
  BY CharactersAreBytes DEF IInv
<1>2. \A i \in 1..Len(text) : text[i] \in 0..127
  <2>1. ASSUME NEW i \in 1..Len(text) PROVE text[i] \in 0..127
    <3>1. PICK b \in Byte : b = text[i]
      BY <1>1
    <3>2. b <= 127
      BY <3>1 DEF Ascii
    <3>3. b \in 0..127
      BY ONLY <3>2, b \in Byte DEF Byte
    <3> QED
      BY <3>1, <3>3
  <2> QED
    BY <2>1
<1>3. text = [i \in 1..Len(text) |-> text[i]]
  BY <1>1, LenProperties
<1>4. text \in [1..Len(text) -> 0..127]
  BY <1>2, <1>3
<1> QED
  BY <1>1, <1>2, <1>4, SeqDef

\* A copied character keeps a buffer UTF-8 ...
LEMMA AppendAscii ==
  ASSUME NEW s \in Seq(Byte), IsUtf8(s), NEW c \in 0..127
  PROVE  IsUtf8(Append(s, c))
<1>1. <<c>> \in Seq(0..127) /\ <<c>> \in Seq(Byte)
  BY DEF Byte
<1>2. IsUtf8(<<c>>)
  BY <1>1, AsciiIs
<1>3. IsUtf8(s \o <<c>>)
  BY <1>1, <1>2, Utf8Concat
<1>4. Append(s, c) = s \o <<c>>
  BY <1>1, AppendIsConcat
<1> QED
  BY <1>3, <1>4

\* ... and so does what replaces an escape.
LEMMA OutputIsUtf8 ==
  ASSUME NEW next \in 1..127, NEW d \in Scanned
  PROVE  IsUtf8(Output(next, d))
<1>1. CASE d.count = 0
  <2>1. Named(next) \in 0..127
    BY DEF Named
  <2>2. <<Named(next)>> \in Seq(0..127)
    BY <2>1
  <2> QED
    BY <1>1, <2>2, AsciiIs DEF Output
<1>2. CASE d.count # 0
  <2>1. d.value \in Nat
    BY DEF Scanned
  <2> QED
    BY <1>2, <2>1, EncodedIsUtf8 DEF Output
<1> QED
  BY <1>1, <1>2

\* A new item's value shows bytes that are UTF-8.
LEMMA EndItemUtf8 ==
  ASSUME Utf8Inv, NEW next, NEW value \in Seq(Byte),
         Ascii /\ reader = "executor" => IsUtf8(value),
         EndItem(next, value)
  PROVE  Ascii' => BufferIsUtf8' /\ ItemsSoFar'
<1> SUFFICES ASSUME Ascii' PROVE BufferIsUtf8' /\ ItemsSoFar'
  OBVIOUS
<1>1. Ascii /\ ItemsSoFar /\ mode' = "between" /\ text' = text
  BY DEF EndItem, Ascii, Utf8Inv
<1>2. BufferIsUtf8'
  BY <1>1 DEF BufferIsUtf8
<1> DEFINE v == CString(value)
           item == [first |-> start, next |-> next, value |-> v]
           list == items["executor"]
<1>3. reader = "executor" => IsUtf8(v)
  BY <1>1, CStringIsUtf8
<1> HIDE DEF v
<1>4. list \in Seq(Item) /\ items \in [Readers -> Seq(Item)] /\ reader \in Readers
  BY DEF Utf8Inv, IInv, TypeOK, Readers
<1>5. items' = [items EXCEPT ![reader] = Append(@, item)]
  BY DEF EndItem, v
<1>6. CASE reader = "executor"
  <2>1. items'["executor"] = Append(list, item)
    BY <1>4, <1>5, <1>6 DEF Readers
  <2>2. item.value = v
    OBVIOUS
  <2> HIDE DEF item, list
  <2>3. /\ Len(Append(list, item)) = Len(list) + 1 /\ Len(list) \in Nat
        /\ \A i \in 1..Len(list) : Append(list, item)[i] = list[i]
        /\ Append(list, item)[Len(list) + 1] = item
    BY <1>4, AppendProperties
  <2>4. \A i \in 1..Len(list) : IsUtf8(list[i].value)
    BY <1>1 DEF ItemsSoFar, list
  <2>5. IsUtf8(item.value)
    BY <1>3, <1>6, <2>2
  <2>6. ASSUME NEW i \in 1..(Len(list) + 1) PROVE IsUtf8(Append(list, item)[i].value)
    <3>1. i \in 1..Len(list) \/ i = Len(list) + 1
      BY <2>3
    <3> QED
      BY <2>3, <2>4, <2>5, <3>1
  <2>7. \A i \in 1..Len(items'["executor"]) : IsUtf8(items'["executor"][i].value)
    BY <2>1, <2>3, <2>6
  <2> QED
    BY <1>2, <2>7 DEF ItemsSoFar
<1>7. CASE reader # "executor"
  <2>1. items'["executor"] = list
    BY <1>4, <1>5, <1>7 DEF Readers
  <2> QED
    BY <1>1, <1>2, <2>1 DEF ItemsSoFar
<1> QED
  BY <1>6, <1>7

\* An action inside an item that leaves the reader's items alone.
LEMMA WritesUtf8 ==
  ASSUME Utf8Inv, text' = text, items' = items, reader' = reader, mode' = mode,
         Ascii /\ BufferIsUtf8 => BufferIsUtf8'
  PROVE  Ascii' => BufferIsUtf8' /\ ItemsSoFar'
BY DEF Utf8Inv, Ascii, ItemsSoFar

\* No step of either parser breaks a sequence: a character is copied or an escape
\* is replaced as a whole, and the terminator cuts only behind whole sequences.
THEOREM StepKeepsUtf8 == Utf8Inv /\ [Next]_vars => Utf8Inv'
<1> SUFFICES ASSUME Utf8Inv, [Next]_vars PROVE Ascii' => BufferIsUtf8' /\ ItemsSoFar'
  BY StepKeepsIInv DEF Utf8Inv
<1>0. /\ IInv /\ TypeOK /\ buffer \in Seq(Byte) /\ scanned \in Scanned
      /\ Len(text) \in Nat /\ index \in Nat /\ index >= 1
  BY Facts DEF Utf8Inv, IInv, TypeOK
<1>1. CASE SkipSpace \/ ListEnds \/ ListIsMalformed \/ BeginItem
  <2>1. /\ text' = text /\ items' = items
        /\ (mode' \in {"quoted", "unquoted"} /\ reader' = "executor" => buffer' = <<>>)
    BY <1>1 DEF SkipSpace, ListEnds, ListIsMalformed, BeginItem, EndList
  <2>2. BufferIsUtf8'
    BY <2>1, EmptyIsUtf8 DEF BufferIsUtf8
  <2> QED
    BY <2>1, <2>2 DEF Utf8Inv, Ascii, ItemsSoFar
<1>2. CASE BracedCharacter
  <2>1. text' = text /\ items' = items /\ reader' = reader /\ mode' = mode /\ mode = "braced"
    BY <1>2 DEF BracedCharacter, BracedUnchanged
  <2>2. BufferIsUtf8'
    BY <2>1 DEF BufferIsUtf8
  <2> QED
    BY <2>1, <2>2, WritesUtf8
<1>3. CASE BracedEnds
  <2> DEFINE value == SubSeq(text, start, index - 1)
  <2>1. start \in Nat /\ start >= 1 /\ index <= Len(text)
    BY <1>0, <1>3, Facts DEF BracedEnds, AtEnd
  <2>2. value \in Seq(Byte)
    <3>1. \A i \in start..(index - 1) : text[i] \in Byte
      BY <1>0, <2>1, CharactersAreBytes
    <3> QED
      BY <1>0, <2>1, <3>1, SubSeqProperties
  <2>3. Ascii => IsUtf8(value)
    <3>1. SUFFICES ASSUME Ascii PROVE IsUtf8(value)
      OBVIOUS
    <3>2. \A i \in start..(index - 1) : text[i] \in 0..127
      <4>1. \A i \in 1..Len(text) : text[i] \in 0..127
        BY <1>0, <3>1, AsciiAt
      <4>2. \A i \in start..(index - 1) : i \in 1..Len(text)
        BY <1>0, <2>1
      <4> QED
        BY <4>1, <4>2
    <3>3. value \in Seq(0..127)
      BY <1>0, <2>1, <3>2, SubSeqProperties
    <3> HIDE DEF value
    <3> QED
      BY <3>3, AsciiIs
  <2>4. EndItem(index + 1, value)
    BY <1>3 DEF BracedEnds
  <2> HIDE DEF value
  <2> QED
    BY <2>2, <2>3, <2>4, EndItemUtf8
<1>4. CASE JoinBlank \/ BeginEscape \/ ScanDigit
  <2>1. text' = text /\ items' = items /\ reader' = reader /\ mode' = mode /\ buffer' = buffer
    BY <1>4 DEF JoinBlank, BeginEscape, ScanDigit, CopyUnchanged
  <2>2. BufferIsUtf8 => BufferIsUtf8'
    BY <2>1 DEF BufferIsUtf8
  <2> QED
    BY <2>1, <2>2, WritesUtf8
<1>5. CASE CopyCharacter \/ JoinLine
  <2>1. text' = text /\ items' = items /\ reader' = reader /\ mode' = mode
    BY <1>5 DEF CopyCharacter, JoinLine, CopyUnchanged
  <2>2. ASSUME Ascii, BufferIsUtf8, reader = "executor", mode \in {"quoted", "unquoted"}
        PROVE  IsUtf8(buffer')
    <3>1. IsUtf8(buffer)
      BY <2>2 DEF BufferIsUtf8
    <3>2. \E c \in 0..127 : buffer' = Append(buffer, c)
      <4>1. CASE JoinLine
        BY <4>1 DEF JoinLine, Space
      <4>2. CASE CopyCharacter
        <5>1. buffer' = Append(buffer, text[index]) /\ index <= Len(text)
          BY <1>0, <2>2, <4>2 DEF CopyCharacter, Next1, AtEnd
        <5>2. text[index] \in 0..127
          BY <1>0, <2>2, <5>1, AsciiAt
        <5> QED
          BY <5>1, <5>2
      <4> QED
        BY <1>5, <4>1, <4>2
    <3> QED
      BY <1>0, <3>1, <3>2, AppendAscii
  <2>3. Ascii /\ BufferIsUtf8 => BufferIsUtf8'
    BY <2>1, <2>2 DEF BufferIsUtf8
  <2> QED
    BY <2>1, <2>3, WritesUtf8
<1>6. CASE EndEscape
  <2> DEFINE bytes == Output(text[index + 1], scanned)
  <2>1. text' = text /\ items' = items /\ reader' = reader /\ mode' = mode
    BY <1>6 DEF EndEscape, CopyUnchanged
  <2>2. buffer' = buffer \o bytes /\ scanning
    BY <1>6 DEF EndEscape
  <2>3. bytes \in Seq(Byte) /\ index < Len(text)
    BY <1>0, <2>2, ItemEscapeShrinks DEF IInv, EscapeBounded
  <2>4. ASSUME Ascii, BufferIsUtf8, reader = "executor", mode \in {"quoted", "unquoted"}
        PROVE  IsUtf8(buffer')
    <3>1. IsUtf8(buffer)
      BY <2>4 DEF BufferIsUtf8
    <3>2. text[index + 1] \in 1..127
      <4>1. index + 1 \in 1..Len(text)
        BY <1>0, <2>3
      <4>2. text[index + 1] \in 0..127 /\ text[index + 1] \in Character
        BY <1>0, <2>4, <4>1, AsciiAt, CharactersAreBytes
      <4> QED
        BY <4>2 DEF Character
    <3>3. IsUtf8(bytes)
      BY <1>0, <3>2, OutputIsUtf8
    <3> HIDE DEF bytes
    <3> QED
      BY <1>0, <2>2, <2>3, <3>1, <3>3, Utf8Concat
  <2>5. Ascii /\ BufferIsUtf8 => BufferIsUtf8'
    BY <2>1, <2>4 DEF BufferIsUtf8
  <2> QED
    BY <2>1, <2>5, WritesUtf8
<1>7. CASE CopyEnds
  <2>1. EndItem(IF mode = "quoted" THEN index + 1 ELSE index, buffer)
    BY <1>7 DEF CopyEnds
  <2>2. mode \in {"quoted", "unquoted"}
    BY <1>7 DEF CopyEnds, Copying
  <2>3. Ascii /\ reader = "executor" => IsUtf8(buffer)
    BY <2>2 DEF Utf8Inv, BufferIsUtf8
  <2> QED
    BY <1>0, <2>1, <2>3, EndItemUtf8
<1>8. CASE Done \/ UNCHANGED vars
  <2>1. UNCHANGED vars
    BY <1>8 DEF Done
  <2>2. text' = text /\ items' = items /\ reader' = reader /\ mode' = mode /\ buffer' = buffer
    BY <2>1 DEF vars
  <2>3. BufferIsUtf8 => BufferIsUtf8'
    BY <2>2 DEF BufferIsUtf8
  <2> QED
    BY <2>2, <2>3, WritesUtf8
<1> QED
  BY <1>1, <1>2, <1>3, <1>4, <1>5, <1>6, <1>7, <1>8 DEF Next

\* There is nothing at the start.
LEMMA InitUtf8 == Init => Utf8Inv
<1> SUFFICES ASSUME Init PROVE Utf8Inv
  OBVIOUS
<1>1. IInv
  BY InitIInv
<1>2. mode = "between" /\ Len(items["executor"]) = 0
  BY DEF Init, Readers
<1> QED
  BY <1>1, <1>2 DEF Utf8Inv, BufferIsUtf8, ItemsSoFar

\* Whatever codepoints its escapes name, a {*} word of ASCII is split into items
\* that are UTF-8 (split_list_for_expansion and decode_backslash_sequence).
THEOREM ItemsStayUtf8 == Spec => []ItemsAreUtf8
<1>1. Utf8Inv => ItemsAreUtf8
  BY DEF Utf8Inv, Ascii, ItemsSoFar, ItemsAreUtf8
<1> QED
  BY InitUtf8, StepKeepsUtf8, <1>1, PTL DEF Spec

------------------------------------------------------------------------------
\* Where a parser of a text stands, as far as cutting it goes: the kind of item,
\* the first character of its contents, the next character, the open braces, and
\* the items it has found.  What it does next depends on nothing else; that the
\* reader is not a part of it is what both parsers have in common.
Cut(k, s, i, d, b) == [kind |-> k, first |-> s, at |-> i, open |-> d, found |-> b]
Cuts == [kind : {"between", "braced", "quoted", "unquoted", "ok", "malformed"},
         first : Nat, at : Nat, open : Nat, found : Seq(Nat \X Nat)]
Kinds == {"between", "braced", "quoted", "unquoted"}

Over(outcome, m) == Cut(outcome, 1, 1, 0, m.found)
Found(m, next) == Cut("between", 1, next, 0, Append(m.found, <<m.first, next>>))
Ahead(m, k) == Cut(m.kind, m.first, m.at + k, m.open, m.found)

\* A backslash is stepped over with the character behind it.
StepLength(t, m) == IF t[m.at] = Backslash /\ m.at < Len(t) THEN 2 ELSE 1

\* At the end of the text, between items, and in the three kinds of item.
AfterEnd(m) ==
  IF m.kind = "between" THEN Over("ok", m)
  ELSE IF m.kind = "unquoted" THEN Found(m, m.at)
  ELSE Over("malformed", m)

AfterBetween(t, m) ==
  IF IsSpace(t[m.at]) THEN Ahead(m, 1)
  ELSE IF t[m.at] = OpenBrace THEN Cut("braced", m.at + 1, m.at + 1, 1, m.found)
  ELSE IF t[m.at] = Quote THEN Cut("quoted", m.at + 1, m.at + 1, 0, m.found)
  ELSE Cut("unquoted", m.at, m.at, 0, m.found)

AfterBraced(t, m) ==
  IF t[m.at] = CloseBrace /\ m.open = 1 THEN Found(m, m.at + 1)
  ELSE Cut("braced", m.first, m.at + StepLength(t, m),
           IF t[m.at] = OpenBrace THEN m.open + 1
           ELSE IF t[m.at] = CloseBrace THEN m.open - 1 ELSE m.open,
           m.found)

AfterQuoted(t, m) ==
  IF t[m.at] = Quote THEN Found(m, m.at + 1) ELSE Ahead(m, StepLength(t, m))

AfterUnquoted(t, m) ==
  IF IsSpace(t[m.at]) THEN Found(m, m.at) ELSE Ahead(m, StepLength(t, m))

After(t, m) ==
  IF m.at > Len(t) THEN AfterEnd(m)
  ELSE IF m.kind = "between" THEN AfterBetween(t, m)
  ELSE IF m.kind = "braced" THEN AfterBraced(t, m)
  ELSE IF m.kind = "quoted" THEN AfterQuoted(t, m)
  ELSE AfterUnquoted(t, m)

\* Everything a parser can come to from m: the smallest set with m that is closed.
Closed(t, S) == \A m \in S : m.kind \in Kinds /\ After(t, m) \in Cuts => After(t, m) \in S
Reach(t, m) == {x \in Cuts : \A S \in SUBSET Cuts : m \in S /\ Closed(t, S) => x \in S}

\* What is reached contains its start and is closed.
LEMMA ReachSteps ==
  ASSUME NEW t, NEW m \in Cuts
  PROVE  /\ m \in Reach(t, m) /\ Reach(t, m) \in SUBSET Cuts
         /\ Closed(t, Reach(t, m))
<1>1. m \in Reach(t, m) /\ Reach(t, m) \in SUBSET Cuts
  BY Zenon DEF Reach
<1>2. ASSUME NEW x \in Reach(t, m), x.kind \in Kinds, After(t, x) \in Cuts
      PROVE  After(t, x) \in Reach(t, m)
  <2>1. ASSUME NEW S \in SUBSET Cuts, m \in S, Closed(t, S) PROVE After(t, x) \in S
    <3>1. x \in S
      BY Zenon, <1>2, <2>1 DEF Reach
    <3> QED
      BY Zenon, <1>2, <2>1, <3>1 DEF Closed
  <2> QED
    BY Zenon, <1>2, <2>1 DEF Reach
<1> QED
  BY Zenon, <1>1, <1>2 DEF Closed

\* Two parsers that start alike and both come to an end come to the same end.
LEMMA EndsAgree ==
  ASSUME NEW t, NEW m \in Cuts,
         NEW e \in Reach(t, m), e.kind \notin Kinds,
         NEW f \in Reach(t, m), f.kind \notin Kinds
  PROVE  e = f
<1> DEFINE S == {x \in Reach(t, m) : e \in Reach(t, x)}
<1>1. m \in S /\ S \in SUBSET Cuts
  BY Zenon, ReachSteps
<1>2. ASSUME NEW x \in S, x.kind \in Kinds, After(t, x) \in Cuts PROVE After(t, x) \in S
  <2> DEFINE y == After(t, x)
             T == {x} \union Reach(t, y)
  <2>1. x \in Cuts /\ x \in Reach(t, m) /\ e \in Reach(t, x)
    BY Zenon, <1>1
  <2>2. y \in Reach(t, m)
    BY Zenon, <1>2, <2>1, ReachSteps DEF Closed
  <2>3. y \in Reach(t, y) /\ Reach(t, y) \in SUBSET Cuts /\ Closed(t, Reach(t, y))
    BY Zenon, <1>2, ReachSteps
  <2>4. T \in SUBSET Cuts /\ x \in T
    BY Zenon, <2>1, <2>3
  <2>5. Closed(t, T)
    <3>1. ASSUME NEW z \in T, z.kind \in Kinds, After(t, z) \in Cuts PROVE After(t, z) \in T
      <4>1. CASE z = x
        BY Zenon, <2>3, <4>1
      <4>2. CASE z \in Reach(t, y)
        BY Zenon, <2>3, <3>1, <4>2 DEF Closed
      <4> QED
        BY Zenon, <4>1, <4>2
    <3> QED
      BY Zenon, <3>1 DEF Closed
  <2>6. e \in T
    BY Zenon, <2>1, <2>4, <2>5 DEF Reach
  <2>7. e # x
    BY Zenon, <1>2
  <2>8. e \in Reach(t, y)
    BY Zenon, <2>6, <2>7
  <2> QED
    BY Zenon, <2>2, <2>8
<1>3. Closed(t, S)
  BY Zenon, <1>2 DEF Closed
<1>4. f \in S
  BY Zenon, <1>1, <1>3 DEF Reach
<1>5. f \in Cuts /\ e \in Reach(t, f)
  BY Zenon, <1>4, <1>1
<1>6. {f} \in SUBSET Cuts /\ f \in {f} /\ Closed(t, {f})
  BY Zenon, <1>5 DEF Closed
<1> QED
  BY Zenon, <1>5, <1>6 DEF Reach

------------------------------------------------------------------------------
\* Where the running parser stands.  An escape that is being read was stepped
\* over as far as its digits are known.
Position ==
  IF scanning THEN index + Consumed(text[index + 1], scanned) ELSE index
Now ==
  Cut(mode, IF mode = "between" THEN 1 ELSE start, Position,
      IF mode = "braced" THEN depth ELSE 0, Bounds(items[reader]))

EndOf(r) == Cut(verdict[r], 1, 1, 0, Bounds(items[r]))
Whole == Cut("between", 1, 1, 0, <<>>)

\* The running parser, and the end of the one that has run, are on the way of
\* every parser - unless a continued line is in the text.
CutAlike ==
  ~HasContinuation =>
    /\ ~joining
    /\ mode # "done" => Now \in Reach(text, Whole)
    /\ reader = "executor" => items["validator"] = <<>> /\ mode # "done"
    /\ reader = "validator" => EndOf("executor") \in Reach(text, Whole)
                               /\ verdict["executor"] \in {"ok", "malformed"}
    /\ mode = "done" => EndOf("validator") \in Reach(text, Whole)
                        /\ verdict["validator"] \in {"ok", "malformed"}

CutInv == IInv /\ CutAlike

------------------------------------------------------------------------------
\* The cuts of a list of items ...
LEMMA BoundsType ==
  ASSUME NEW list \in Seq(Item)
  PROVE  /\ Bounds(list) \in Seq(Nat \X Nat) /\ Len(Bounds(list)) = Len(list)
         /\ \A i \in 1..Len(list) : Bounds(list)[i] = <<list[i].first, list[i].next>>
<1>1. Len(list) \in Nat /\ \A i \in 1..Len(list) : list[i].first \in Nat /\ list[i].next \in Nat
  <2>1. ASSUME NEW i \in 1..Len(list) PROVE list[i] \in Item
    BY ElementOfSeq
  <2> QED
    BY <2>1 DEF Item
<1>2. Bounds(list) \in [1..Len(list) -> Nat \X Nat]
  BY <1>1 DEF Bounds
<1>3. \A i \in 1..Len(list) : Bounds(list)[i] = <<list[i].first, list[i].next>>
  BY DEF Bounds
<1>4. DOMAIN Bounds(list) = 1..Len(list)
  BY <1>2
<1>5. Bounds(list) \in Seq(Nat \X Nat)
  <2> DEFINE b == Bounds(list)
             n == Len(list)
             T == Nat \X Nat
  <2>1. n \in Nat /\ b \in [1..n -> T]
    BY <1>1, <1>2
  <2> HIDE DEF b, n, T
  <2>2. b \in Seq(T)
    BY <2>1, SeqDef, SMTT(30)
  <2> QED
    BY <2>2 DEF b, T
<1>6. Len(Bounds(list)) = Len(list)
  <2> DEFINE b == Bounds(list)
             n == Len(list)
  <2>1. n \in Nat /\ DOMAIN b = 1..n
    BY <1>1, <1>2
  <2>2. Len(b) \in Nat /\ DOMAIN b = 1..Len(b)
    BY <1>5, LenProperties
  <2> HIDE DEF b, n
  <2>3. Len(b) = n
    BY <2>1, <2>2
  <2> QED
    BY <2>3 DEF b, n
<1> QED
  BY Zenon, <1>3, <1>5, <1>6

\* ... grow with the list.
LEMMA BoundsAppend ==
  ASSUME NEW list \in Seq(Item), NEW item \in Item
  PROVE  Bounds(Append(list, item)) = Append(Bounds(list), <<item.first, item.next>>)
<1> DEFINE longer == Append(list, item)
           b == Bounds(list)
           c == Bounds(longer)
           pair == <<item.first, item.next>>
           d == Append(b, pair)
<1>1. pair \in Nat \X Nat
  BY DEF Item
<1>2. /\ longer \in Seq(Item) /\ Len(longer) = Len(list) + 1 /\ Len(list) \in Nat
      /\ \A i \in 1..Len(list) : longer[i] = list[i]
      /\ longer[Len(list) + 1] = item
  BY AppendProperties
<1> HIDE DEF longer
<1>3. /\ b \in Seq(Nat \X Nat) /\ Len(b) = Len(list)
      /\ \A i \in 1..Len(list) : b[i] = <<list[i].first, list[i].next>>
  BY BoundsType
<1>4. /\ c \in Seq(Nat \X Nat) /\ Len(c) = Len(longer)
      /\ \A i \in 1..Len(longer) : c[i] = <<longer[i].first, longer[i].next>>
  BY <1>2, BoundsType
<1> HIDE DEF b, c
<1>5. /\ d \in Seq(Nat \X Nat) /\ Len(d) = Len(b) + 1
      /\ \A i \in 1..Len(b) : d[i] = b[i]
      /\ d[Len(b) + 1] = pair
  <2> HIDE DEF pair
  <2> QED
    BY <1>1, <1>3, AppendProperties
<1> HIDE DEF d
<1>6. ASSUME NEW i \in 1..Len(longer) PROVE c[i] = d[i]
  <2>1. i \in 1..Len(list) \/ i = Len(list) + 1
    BY <1>2
  <2> QED
    BY <1>2, <1>3, <1>4, <1>5, <2>1
<1>7. c = d
  BY <1>2, <1>3, <1>4, <1>5, <1>6, SeqEqual
<1> QED
  BY <1>7 DEF b, c, d, pair, longer

\* The running parser always stands somewhere.
NowTyped == mode # "done" => Now \in Cuts /\ Now.kind \in Kinds
EndsTyped == \A r \in Readers : verdict[r] \in {"ok", "malformed"} => EndOf(r) \in Cuts

\* They are what the invariant says.
LEMMA NowIsCut == IInv => NowTyped
<1> SUFFICES ASSUME IInv, mode # "done" PROVE Now \in Cuts /\ Now.kind \in Kinds
  BY DEF NowTyped
<1>1. Bounds(items[reader]) \in Seq(Nat \X Nat)
  BY BoundsType DEF IInv, TypeOK
<1>2. Position \in Nat
  <2>1. CASE scanning
    <3>1. index + Consumed(text[index + 1], scanned) \in 1..(Len(text) + 1)
      BY <2>1, ItemEscapeShrinks
    <3> QED
      BY <2>1, <3>1, Facts DEF Position
  <2>2. CASE ~scanning
    BY <2>2, Facts DEF Position
  <2> QED
    BY <2>1, <2>2
<1>3. start \in Nat /\ depth \in Nat /\ mode \in Kinds
  BY Facts DEF IInv, TypeOK, Kinds
<1> QED
  BY <1>1, <1>2, <1>3 DEF Now, NowTyped, Cut, Cuts, Kinds

\* So does one that has come to an end.
LEMMA EndIsCut == IInv => EndsTyped
<1> SUFFICES ASSUME IInv, NEW r \in Readers, verdict[r] \in {"ok", "malformed"}
             PROVE  EndOf(r) \in Cuts
  BY DEF EndsTyped
<1>1. Bounds(items[r]) \in Seq(Nat \X Nat)
  BY BoundsType DEF IInv, TypeOK
<1> QED
  BY <1>1 DEF EndOf, Cut, Cuts

\* Where both start.
LEMMA WholeIsCut == Whole \in Cuts
BY EmptySeq DEF Whole, Cut, Cuts

\* The same after a step.
LEMMA CutTypesAfter == IInv' => NowTyped' /\ EndsTyped'
BY NowIsCut, EndIsCut, PTL

------------------------------------------------------------------------------
\* A step inside the text or between its items moves the parser on, or leaves it
\* where it stands.
LEMMA MoveKeeps ==
  ASSUME IInv, IInv', CutAlike, ~HasContinuation, mode # "done", mode' # "done",
         text' = text, reader' = reader, verdict' = verdict, ~joining',
         \A r \in Readers : r # reader => items'[r] = items[r],
         Now' = Now \/ Now' = After(text, Now)
  PROVE  CutAlike'
<1>1. /\ Now \in Reach(text, Whole) /\ ~joining
      /\ reader = "executor" => items["validator"] = <<>>
      /\ reader = "validator" => EndOf("executor") \in Reach(text, Whole)
                                 /\ verdict["executor"] \in {"ok", "malformed"}
  BY DEF CutAlike
<1>2. Now' \in Cuts /\ Now.kind \in Kinds
  BY CutTypesAfter, NowIsCut DEF NowTyped
<1>3. Now' \in Reach(text, Whole)
  BY <1>1, <1>2, ReachSteps, WholeIsCut DEF Closed
<1>4. reader \in Readers
  BY DEF IInv, TypeOK
<1>5. reader = "executor" => items'["validator"] = <<>>
  BY <1>1 DEF Readers
<1>6. reader = "validator" => EndOf("executor")' = EndOf("executor")
  BY DEF EndOf, Readers
<1> QED
  BY <1>1, <1>3, <1>5, <1>6 DEF CutAlike

\* The end of a list is where its parser comes to next.
LEMMA EndKeeps ==
  ASSUME IInv, IInv', CutAlike, ~HasContinuation, mode # "done", ~scanning,
         NEW outcome \in {"ok", "malformed"}, EndList(outcome),
         After(text, Now) = Over(outcome, Now)
  PROVE  CutAlike'
<1>1. /\ Now \in Reach(text, Whole) /\ ~joining
      /\ reader = "executor" => items["validator"] = <<>>
      /\ reader = "validator" => EndOf("executor") \in Reach(text, Whole)
                                 /\ verdict["executor"] \in {"ok", "malformed"}
  BY DEF CutAlike
<1>2. /\ verdict' = [verdict EXCEPT ![reader] = outcome] /\ reader' = "validator" /\ index' = 1
      /\ mode' = IF reader = "executor" THEN "between" ELSE "done"
      /\ text' = text /\ items' = items /\ joining' = FALSE /\ scanning' = scanning
  BY DEF EndList
<1>3. reader \in Readers /\ verdict \in [Readers -> {"none", "ok", "malformed"}]
  BY DEF IInv, TypeOK
<1>4. EndsTyped' /\ NowTyped'
  BY CutTypesAfter
<1>5. verdict'[reader] = outcome
  BY <1>2, <1>3
<1>6. ASSUME NEW r \in Readers, r = reader
      PROVE  EndOf(r)' \in Cuts /\ EndOf(r)' \in Reach(text, Whole)
  <2>1. EndOf(r)' = After(text, Now)
    <3>1. EndOf(r)' = Cut(outcome, 1, 1, 0, Bounds(items[r]))
      BY <1>2, <1>5, <1>6 DEF EndOf
    <3>2. Now.found = Bounds(items[r])
      BY <1>6 DEF Now, Cut
    <3> QED
      BY <3>1, <3>2 DEF Over
  <2>2. EndOf(r)' \in Cuts
    BY <1>4, <1>5, <1>6 DEF EndsTyped
  <2>3. Now \in Cuts /\ Now.kind \in Kinds
    BY NowIsCut DEF NowTyped
  <2> QED
    BY <1>1, <2>1, <2>2, <2>3, ReachSteps, WholeIsCut DEF Closed
<1>7. CASE reader = "executor"
  <2>1. EndOf("executor")' \in Reach(text, Whole) /\ verdict'["executor"] \in {"ok", "malformed"}
    BY <1>3, <1>5, <1>6, <1>7
  <2>2. Now' = Whole
    <3>1. /\ mode' = "between" /\ items'[reader'] = <<>> /\ Position' = 1
      BY <1>1, <1>2, <1>7 DEF Position
    <3>2. Bounds(<<>>) = <<>>
      <4>1. Bounds(<<>>) \in Seq(Nat \X Nat) /\ Len(Bounds(<<>>)) = 0
        BY BoundsType, EmptySeq
      <4> QED
        BY <4>1, EmptySeq
    <3>3. Now' = Cut("between", 1, 1, 0, Bounds(<<>>))
      BY <3>1 DEF Now
    <3> QED
      BY <3>2, <3>3 DEF Whole
  <2>3. Now' \in Reach(text, Whole)
    BY <2>2, ReachSteps, WholeIsCut
  <2> QED
    BY <1>1, <1>2, <1>7, <2>1, <2>3 DEF CutAlike
<1>8. CASE reader = "validator"
  <2>1. EndOf("validator")' \in Reach(text, Whole) /\ verdict'["validator"] \in {"ok", "malformed"}
    BY <1>3, <1>5, <1>6, <1>8
  <2>2. EndOf("executor")' = EndOf("executor") /\ verdict'["executor"] = verdict["executor"]
    BY <1>2, <1>3, <1>8 DEF EndOf, Readers
  <2> QED
    BY <1>1, <1>2, <1>8, <2>1, <2>2 DEF CutAlike
<1> QED
  BY <1>3, <1>7, <1>8 DEF Readers

\* A returned item is cut off.
LEMMA EndItemCuts ==
  ASSUME IInv, mode \in {"braced", "quoted", "unquoted"}, ~scanning,
         NEW next \in 1..(Len(text) + 1), NEW value \in Seq(Byte), EndItem(next, value)
  PROVE  /\ Now' = Found(Now, next)
         /\ text' = text /\ reader' = reader /\ verdict' = verdict /\ ~joining'
         /\ mode' # "done"
         /\ \A r \in Readers : r # reader => items'[r] = items[r]
<1> DEFINE item == [first |-> start, next |-> next, value |-> CString(value)]
           list == items[reader]
<1>1. /\ mode' = "between" /\ index' = next /\ joining' = FALSE /\ text' = text
      /\ reader' = reader /\ verdict' = verdict /\ start' = start /\ scanning' = scanning
      /\ items' = [items EXCEPT ![reader] = Append(list, item)]
  BY DEF EndItem
<1>2. item \in Item /\ item.first = start /\ item.next = next
  BY CStringType, Facts DEF Item
<1>3. list \in Seq(Item) /\ reader \in Readers /\ items \in [Readers -> Seq(Item)]
  BY DEF IInv, TypeOK
<1> HIDE DEF item
<1>4. items'[reader'] = Append(list, item)
  BY <1>1, <1>3
<1>5. Bounds(items'[reader']) = Append(Bounds(list), <<start, next>>)
  BY <1>2, <1>3, <1>4, BoundsAppend
<1>6. Position' = next
  BY <1>1 DEF Position
<1>7. Now' = Cut("between", 1, next, 0, Append(Bounds(list), <<start, next>>))
  BY <1>1, <1>5, <1>6 DEF Now
<1>8. Now.first = start /\ Now.found = Bounds(list)
  BY DEF Now, Cut
<1> QED
  BY <1>1, <1>3, <1>7, <1>8 DEF Found

------------------------------------------------------------------------------
\* A step inside an item changes neither its first character nor the items.
LEMMA CopyNow ==
  ASSUME IInv, mode \in {"quoted", "unquoted"}, CopyUnchanged
  PROVE  /\ Now = Cut(mode, start, Position, 0, Bounds(items[reader]))
         /\ Now' = Cut(mode, start, Position', 0, Bounds(items[reader]))
         /\ text' = text /\ reader' = reader /\ verdict' = verdict
         /\ mode' = mode /\ mode' # "done"
         /\ \A r \in Readers : r # reader => items'[r] = items[r]
BY DEF Now, CopyUnchanged

\* How far an item's text is stepped over at a character that does not end it.
LEMMA CopyAfter ==
  ASSUME NEW t, NEW k \in {"quoted", "unquoted"}, NEW s, NEW p \in Nat, NEW b,
         p <= Len(t), k = "quoted" => t[p] # Quote, k = "unquoted" => ~IsSpace(t[p])
  PROVE  After(t, Cut(k, s, p, 0, b))
         = Cut(k, s, p + (IF t[p] = Backslash /\ p < Len(t) THEN 2 ELSE 1), 0, b)
<1> DEFINE m == Cut(k, s, p, 0, b)
<1>1. m.kind = k /\ m.first = s /\ m.at = p /\ m.open = 0 /\ m.found = b
  BY DEF Cut
<1> HIDE DEF m
<1>2. After(t, m) = Ahead(m, StepLength(t, m))
  <2>1. ~(m.at > Len(t)) /\ m.kind # "between" /\ m.kind # "braced"
    BY <1>1
  <2>2. CASE k = "quoted"
    BY <1>1, <2>1, <2>2 DEF After, AfterQuoted
  <2>3. CASE k = "unquoted"
    BY <1>1, <2>1, <2>3 DEF After, AfterUnquoted
  <2> QED
    BY <2>2, <2>3
<1>3. StepLength(t, m) = IF t[p] = Backslash /\ p < Len(t) THEN 2 ELSE 1
  BY <1>1 DEF StepLength
<1>4. Ahead(m, StepLength(t, m)) = Cut(k, s, p + StepLength(t, m), 0, b)
  BY <1>1 DEF Ahead
<1> QED
  BY <1>2, <1>3, <1>4 DEF m

\* A space between items is stepped over.
LEMMA SkipSpaceCuts ==
  ASSUME IInv, SkipSpace
  PROVE  Now' = After(text, Now) /\ mode # "done" /\ mode' # "done" /\ joining' = joining
<1>1. /\ mode = "between" /\ ~AtEnd /\ IsSpace(text[index]) /\ index' = index + 1
      /\ mode' = mode /\ scanning' = scanning /\ items' = items /\ reader' = reader
      /\ joining' = joining
  BY DEF SkipSpace, Next1
<1>2. ~scanning /\ ~(index > Len(text))
  BY <1>1 DEF IInv, EscapeBounded, AtEnd
<1>3. Now = Cut("between", 1, index, 0, Bounds(items[reader]))
  BY <1>1, <1>2 DEF Now, Position
<1>4. Now' = Cut("between", 1, index + 1, 0, Bounds(items[reader]))
  BY <1>1, <1>2 DEF Now, Position
<1> QED
  BY <1>1, <1>2, <1>3, <1>4 DEF After, AfterBetween, Ahead, Cut

\* An item begins where its first character says.
LEMMA BeginItemCuts ==
  ASSUME IInv, BeginItem
  PROVE  Now' = After(text, Now) /\ mode # "done" /\ mode' # "done" /\ joining' = joining
<1> DEFINE b == Bounds(items[reader])
<1>1. /\ mode = "between" /\ ~AtEnd /\ ~IsSpace(text[index]) /\ index' = start'
      /\ scanning' = scanning /\ items' = items /\ reader' = reader /\ joining' = joining
      /\ mode' = CASE text[index] = OpenBrace -> "braced" [] text[index] = Quote -> "quoted"
                   [] OTHER -> "unquoted"
      /\ start' = IF mode' = "unquoted" THEN index ELSE index + 1
      /\ depth' = IF mode' = "braced" THEN 1 ELSE 0
  BY DEF BeginItem, Next1
<1>2. ~scanning /\ ~(index > Len(text))
  BY <1>1 DEF IInv, EscapeBounded, AtEnd
<1>3. Now = Cut("between", 1, index, 0, b)
  BY <1>1, <1>2 DEF Now, Position
<1>4. Now' = Cut(mode', start', start', depth', b)
  BY <1>1, <1>2 DEF Now, Position
<1> HIDE DEF b
<1>5. After(text, Now) =
        IF text[index] = OpenBrace THEN Cut("braced", index + 1, index + 1, 1, b)
        ELSE IF text[index] = Quote THEN Cut("quoted", index + 1, index + 1, 0, b)
        ELSE Cut("unquoted", index, index, 0, b)
  <2>1. Now.kind = "between" /\ Now.at = index /\ Now.found = b
    BY <1>3 DEF Cut
  <2> QED
    BY <1>1, <1>2, <2>1 DEF After, AfterBetween
<1>6. OpenBrace # Quote
  BY DEF OpenBrace, Quote
<1>7. CASE text[index] = OpenBrace
  <2>1. mode' = "braced"
    BY <1>1, <1>6, <1>7
  <2> QED
    BY <1>1, <1>4, <1>5, <1>7, <2>1
<1>8. CASE text[index] = Quote
  <2>1. mode' = "quoted"
    BY <1>1, <1>6, <1>8
  <2> QED
    BY <1>1, <1>4, <1>5, <1>6, <1>8, <2>1
<1>9. CASE text[index] # OpenBrace /\ text[index] # Quote
  <2>1. mode' = "unquoted"
    BY <1>1, <1>9
  <2> QED
    BY <1>1, <1>4, <1>5, <1>9, <2>1
<1> QED
  BY <1>7, <1>8, <1>9

\* How a braced item goes on.
LEMMA BracedCuts ==
  ASSUME IInv, mode = "braced"
  PROVE  /\ Now = Cut("braced", start, index, depth, Bounds(items[reader]))
         /\ ~scanning
         /\ ~AtEnd => After(text, Now) =
              IF text[index] = CloseBrace /\ depth = 1 THEN Found(Now, index + 1)
              ELSE Cut("braced", start,
                       index + (IF text[index] = Backslash /\ index < Len(text) THEN 2 ELSE 1),
                       IF text[index] = OpenBrace THEN depth + 1
                       ELSE IF text[index] = CloseBrace THEN depth - 1 ELSE depth,
                       Bounds(items[reader]))
<1> DEFINE b == Bounds(items[reader])
<1>1. ~scanning
  BY DEF IInv, EscapeBounded
<1>2. Now = Cut("braced", start, index, depth, b)
  BY <1>1 DEF Now, Position
<1> HIDE DEF b
<1>3. /\ Now.kind = "braced" /\ Now.first = start /\ Now.at = index /\ Now.open = depth
      /\ Now.found = b
  BY <1>2 DEF Cut
<1>4. ~AtEnd => After(text, Now) = AfterBraced(text, Now)
  BY <1>3 DEF After, AtEnd
<1>5. AfterBraced(text, Now) =
              IF text[index] = CloseBrace /\ depth = 1 THEN Found(Now, index + 1)
              ELSE Cut("braced", start,
                       index + (IF text[index] = Backslash /\ index < Len(text) THEN 2 ELSE 1),
                       IF text[index] = OpenBrace THEN depth + 1
                       ELSE IF text[index] = CloseBrace THEN depth - 1 ELSE depth,
                       b)
  BY <1>3 DEF AfterBraced, StepLength
<1> QED
  BY <1>1, <1>2, <1>4, <1>5 DEF b

\* Both parsers step over braced text alike.
LEMMA BracedCharacterCuts ==
  ASSUME IInv, BracedCharacter
  PROVE  Now' = After(text, Now) /\ mode # "done" /\ mode' # "done" /\ joining' = joining
<1> DEFINE b == Bounds(items[reader])
<1>1. /\ mode = "braced" /\ mode' = mode /\ ~AtEnd /\ ~(text[index] = CloseBrace /\ depth = 1)
      /\ scanning' = scanning /\ items' = items /\ reader' = reader /\ joining' = joining
      /\ start' = start
  BY DEF BracedCharacter, BracedUnchanged, Next1
<1>2. /\ index' = index + (IF text[index] = Backslash /\ index < Len(text) THEN 2 ELSE 1)
      /\ depth' = IF text[index] = OpenBrace THEN depth + 1
                  ELSE IF text[index] = CloseBrace THEN depth - 1 ELSE depth
  BY DEF BracedCharacter, Next1, Backslash, OpenBrace, CloseBrace
<1>3. ~scanning /\ Now' = Cut("braced", start, index', depth', b)
  BY <1>1, BracedCuts DEF Now, Position
<1>4. After(text, Now) = Cut("braced", start, index', depth', b)
  BY <1>1, <1>2, BracedCuts
<1> QED
  BY <1>1, <1>3, <1>4

------------------------------------------------------------------------------
\* A copied character: the validator takes an escaped one with its backslash.
LEMMA CopyCharacterCuts ==
  ASSUME IInv, CopyCharacter
  PROVE  Now' = After(text, Now) /\ ~joining'
<1> DEFINE b == Bounds(items[reader])
           len == IF text[index] = Backslash /\ index < Len(text) THEN 2 ELSE 1
<1>1. /\ mode \in {"quoted", "unquoted"} /\ ~scanning /\ ~AtEnd /\ ~ItemEnds /\ CopyUnchanged
      /\ joining' = FALSE /\ scanning' = scanning
  BY DEF CopyCharacter, Copying
<1>2. index' = index + len
  <2>1. index <= Len(text)
    BY <1>1, Facts DEF AtEnd
  <2> QED
    BY <2>1, Facts DEF CopyCharacter, Next1
<1>3. Position = index /\ Position' = index'
  BY <1>1 DEF Position
<1>4. mode = "quoted" => text[index] # Quote
  BY <1>1 DEF ItemEnds, Next1
<1>5. mode = "unquoted" => ~IsSpace(text[index])
  BY <1>1 DEF ItemEnds, Next1
<1>6. index \in Nat /\ index <= Len(text)
  BY <1>1, Facts DEF AtEnd
<1> HIDE DEF b
<1>7. After(text, Cut(mode, start, index, 0, b)) = Cut(mode, start, index + len, 0, b)
  BY <1>1, <1>4, <1>5, <1>6, CopyAfter
<1>8. Now = Cut(mode, start, index, 0, b) /\ Now' = Cut(mode, start, index', 0, b)
  BY <1>1, <1>3, CopyNow DEF b
<1> HIDE DEF len
<1> QED
  BY <1>1, <1>2, <1>7, <1>8

\* A backslash ends no item.
LEMMA BackslashIsNoEnd == Backslash # Quote /\ ~IsSpace(Backslash)
BY DEF Backslash, Quote, IsSpace, Space

\* The executor takes a backslash with what is behind it ...
LEMMA BeginEscapeCuts ==
  ASSUME IInv, BeginEscape
  PROVE  Now' = After(text, Now) /\ ~joining'
<1> DEFINE b == Bounds(items[reader])
<1>1. /\ mode \in {"quoted", "unquoted"} /\ ~scanning /\ CopyUnchanged
      /\ text[index] = Backslash /\ index < Len(text)
      /\ joining' = FALSE /\ scanning' = TRUE /\ index' = index /\ scanned' = NoDigits
      /\ text' = text
  BY DEF BeginEscape, AtEscape, Copying, Next1, CopyUnchanged
<1>2. Position = index /\ Position' = index + 2
  BY <1>1 DEF Position, Consumed, NoDigits
<1>3. index \in Nat /\ index <= Len(text) /\ Len(text) \in Nat
  BY <1>1, Facts
<1> HIDE DEF b
<1>4. After(text, Cut(mode, start, index, 0, b)) = Cut(mode, start, index + 2, 0, b)
  <2>1. /\ mode = "quoted" => text[index] # Quote
        /\ mode = "unquoted" => ~IsSpace(text[index])
    BY <1>1, BackslashIsNoEnd
  <2>2. After(text, Cut(mode, start, index, 0, b))
        = Cut(mode, start, index + (IF text[index] = Backslash /\ index < Len(text) THEN 2 ELSE 1), 0, b)
    BY <1>1, <1>3, <2>1, CopyAfter
  <2> QED
    BY <1>1, <2>2
<1>5. Now = Cut(mode, start, index, 0, b) /\ Now' = Cut(mode, start, index + 2, 0, b)
  BY <1>1, <1>2, CopyNow DEF b
<1> QED
  BY <1>1, <1>4, <1>5

\* Neither does a digit.
LEMMA DigitIsNoEnd ==
  ASSUME NEW c \in Byte, Digit(c) < 16
  PROVE  c # Quote /\ ~IsSpace(c) /\ c # Backslash
<1>1. c \in 48..57 \/ c \in 97..102 \/ c \in 65..70
  BY DEF Digit
<1> QED
  BY <1>1 DEF Backslash, Quote, IsSpace, Space

\* One more digit is one more character, except that the first digit of an
\* octal escape is the character behind the backslash.
LEMMA ScanDigitCuts ==
  ASSUME IInv, ScanDigit
  PROVE  (Now' = Now \/ Now' = After(text, Now)) /\ joining' = joining
<1> DEFINE b == Bounds(items[reader])
<1>1. /\ mode \in {"quoted", "unquoted"} /\ scanning /\ CopyUnchanged
      /\ joining' = joining /\ scanning' = scanning /\ index' = index
      /\ text' = text /\ MoreDigits /\ index < Len(text)
      /\ scanned' = TakeDigit(text, DigitsAt(text[index + 1], index), DigitRule(text[index + 1]), scanned)
  BY DEF ScanDigit, IInv, EscapeBounded, CopyUnchanged
<1>2. PICK next \in Byte : next = text[index + 1]
  BY <1>1, Facts
<1>3. PICK at \in Nat : at = DigitsAt(next, index) /\ (at = index + 1 \/ at = index + 2)
  BY Facts DEF DigitsAt
<1>4. PICK count \in 0..8 : count = scanned.count
  BY DEF IInv, TypeOK, Scanned
<1>5. scanned'.count = count + 1
  BY <1>1, <1>4 DEF TakeDigit
<1>6. at + count <= Len(text) /\ Digit(text[at + count]) < 16 /\ at + count \in 1..Len(text)
  <2>1. /\ at + count <= Len(text)
        /\ Digit(text[at + count]) < DigitRule(next).base
    BY <1>1, <1>2, <1>3, <1>4 DEF MoreDigits, TakesDigit
  <2>2. DigitRule(next) \in Rules
    BY DEF DigitRule, Rules
  <2>3. DigitRule(next).base \in {8, 16} /\ Digit(text[at + count]) \in Nat
    BY <2>2, RuleBounds, DigitType
  <2>4. at + count \in 1..Len(text)
    BY <1>3, <1>4, <2>1, Facts
  <2> QED
    BY <2>1, <2>3, <2>4
<1>7. Position' = at + count + 1
  <2>1. Position' = index + Consumed(next, scanned')
    BY <1>1, <1>2 DEF Position
  <2>2. Consumed(next, scanned') = DigitsAt(next, 0) + (count + 1)
    BY <1>4, <1>5 DEF Consumed
  <2>3. DigitsAt(next, index) = index + DigitsAt(next, 0) /\ DigitsAt(next, 0) \in Nat
    BY Facts DEF DigitsAt
  <2> QED
    BY <1>3, <1>4, <2>1, <2>2, <2>3, Facts
<1>8. Position = at + count \/ (count = 0 /\ at = index + 1 /\ Position = at + count + 1)
  <2>1. Position = index + Consumed(next, scanned)
    BY <1>1, <1>2 DEF Position
  <2>2. CASE count = 0
    <3>1. Position = index + 2
      BY <1>4, <2>1, <2>2 DEF Consumed
    <3> QED
      BY <1>3, <2>2, <3>1, Facts
  <2>3. CASE count # 0
    <3>1. Consumed(next, scanned) = DigitsAt(next, 0) + count
      BY <1>4, <2>3 DEF Consumed
    <3>2. DigitsAt(next, index) = index + DigitsAt(next, 0) /\ DigitsAt(next, 0) \in Nat
      BY Facts DEF DigitsAt
    <3> QED
      BY <1>3, <1>4, <2>1, <3>1, <3>2, Facts
  <2> QED
    BY <2>2, <2>3
<1> HIDE DEF b
<1>9. Now = Cut(mode, start, Position, 0, b) /\ Now' = Cut(mode, start, Position', 0, b)
  BY <1>1, CopyNow DEF b
<1>10. CASE Position # at + count
  BY <1>1, <1>7, <1>8, <1>9, <1>10
<1>11. CASE Position = at + count
  <2>1. PICK p \in Nat : p = at + count
    BY <1>3, <1>4
  <2>2. text[p] \in Byte
    BY <1>6, <2>1, CharactersAreBytes DEF IInv
  <2>3. text[p] # Quote /\ ~IsSpace(text[p]) /\ text[p] # Backslash
    BY <1>6, <2>1, <2>2, DigitIsNoEnd
  <2>4. After(text, Cut(mode, start, p, 0, b)) = Cut(mode, start, p + 1, 0, b)
    <3>1. p <= Len(text)
      BY <1>6, <2>1
    <3>2. After(text, Cut(mode, start, p, 0, b))
          = Cut(mode, start, p + (IF text[p] = Backslash /\ p < Len(text) THEN 2 ELSE 1), 0, b)
      BY <1>1, <2>3, <3>1, CopyAfter
    <3> QED
      BY <2>3, <3>2
  <2> QED
    BY <1>1, <1>7, <1>9, <1>11, <2>1, <2>4
<1> QED
  BY <1>10, <1>11

\* ... and stands where they end when it has decoded them.
LEMMA EndEscapeCuts ==
  ASSUME IInv, EndEscape
  PROVE  Now' = Now /\ joining' = joining
<1>1. /\ mode \in {"quoted", "unquoted"} /\ scanning /\ CopyUnchanged
      /\ joining' = joining /\ scanning' = FALSE
      /\ index' = index + Consumed(text[index + 1], scanned)
  BY DEF EndEscape, IInv, EscapeBounded
<1>2. Position' = Position
  BY <1>1 DEF Position
<1> QED
  BY <1>1, <1>2, CopyNow

\* An item is cut off where the moves say.
LEMMA CopyEndsCuts ==
  ASSUME IInv, CopyEnds
  PROVE  /\ Now' = After(text, Now)
         /\ text' = text /\ reader' = reader /\ verdict' = verdict /\ ~joining'
         /\ mode # "done" /\ mode' # "done"
         /\ \A r \in Readers : r # reader => items'[r] = items[r]
<1> DEFINE next == IF mode = "quoted" THEN index + 1 ELSE index
           b == Bounds(items[reader])
<1>1. /\ mode \in {"quoted", "unquoted"} /\ ~scanning /\ ItemEnds /\ EndItem(next, buffer)
  BY DEF CopyEnds, Copying
<1>2. next \in 1..(Len(text) + 1) /\ buffer \in Seq(Byte)
  BY <1>1, Facts DEF ItemEnds, AtEnd, IInv, TypeOK
<1>3. After(text, Now) = Found(Now, next)
  <2>1. Now = Cut(mode, start, index, 0, b)
    BY <1>1 DEF Now, Position
  <2> HIDE DEF b
  <2>2. Now.kind = mode /\ Now.at = index
    BY <2>1 DEF Cut
  <2>3. CASE AtEnd
    BY <1>1, <2>2, <2>3 DEF After, AfterEnd, ItemEnds, AtEnd
  <2>4. CASE ~AtEnd
    <3>1. CASE mode = "quoted"
      BY <1>1, <2>2, <2>4, <3>1 DEF After, AfterQuoted, ItemEnds, AtEnd, Next1
    <3>2. CASE mode = "unquoted"
      BY <1>1, <2>2, <2>4, <3>2 DEF After, AfterUnquoted, ItemEnds, AtEnd, Next1
    <3> QED
      BY <1>1, <3>1, <3>2
  <2> QED
    BY <2>3, <2>4
<1> HIDE DEF next
<1> QED
  BY <1>1, <1>2, <1>3, EndItemCuts

\* The same for a braced item.
LEMMA BracedEndsCuts ==
  ASSUME IInv, BracedEnds
  PROVE  /\ Now' = After(text, Now)
         /\ text' = text /\ reader' = reader /\ verdict' = verdict /\ ~joining'
         /\ mode # "done" /\ mode' # "done"
         /\ \A r \in Readers : r # reader => items'[r] = items[r]
<1> DEFINE value == SubSeq(text, start, index - 1)
<1>1. /\ mode = "braced" /\ ~AtEnd /\ text[index] = CloseBrace /\ depth = 1
      /\ EndItem(index + 1, value)
  BY DEF BracedEnds, Next1
<1>2. index + 1 \in 1..(Len(text) + 1)
  BY <1>1, Facts DEF AtEnd
<1>3. value \in Seq(Byte)
  <2>1. \A i \in start..(index - 1) : text[i] \in Byte
    BY <1>2, CharactersAreBytes, Facts DEF IInv
  <2> QED
    BY <2>1, Facts, SubSeqProperties
<1> HIDE DEF value
<1>4. ~scanning /\ After(text, Now) = Found(Now, index + 1)
  BY <1>1, BracedCuts
<1> QED
  BY <1>1, <1>2, <1>3, <1>4, EndItemCuts

------------------------------------------------------------------------------
\* Every step of either parser is a move of the common way or stays where it is.
THEOREM StepKeepsCuts == CutInv /\ [Next]_vars => CutInv'
<1> SUFFICES ASSUME CutInv, [Next]_vars, ~HasContinuation PROVE CutAlike'
  <2>1. CutInv /\ [Next]_vars => IInv'
    BY StepKeepsIInv DEF CutInv
  <2>2. [Next]_vars => HasContinuation' = HasContinuation
    <3>1. [Next]_vars => text' = text
      BY DEF Next, vars, SkipSpace, BeginItem, ListEnds, ListIsMalformed, EndList,
             BracedCharacter, BracedUnchanged, BracedEnds, EndItem, JoinBlank, CopyCharacter,
             CopyUnchanged, JoinLine, BeginEscape, ScanDigit, EndEscape, CopyEnds, Done
    <3> QED
      BY <3>1 DEF HasContinuation
  <2>3. HasContinuation' => CutAlike'
    BY DEF CutAlike
  <2> QED
    BY <2>1, <2>2, <2>3 DEF CutInv
<1>0. /\ IInv /\ CutAlike /\ IInv' /\ ~joining
      /\ verdict \in [Readers -> {"none", "ok", "malformed"}]
  BY StepKeepsIInv DEF CutInv, CutAlike, IInv, TypeOK
<1>1. CASE SkipSpace \/ BeginItem
  <2>1. Now' = After(text, Now) /\ mode # "done" /\ mode' # "done" /\ joining' = joining
    BY <1>0, <1>1, SkipSpaceCuts, BeginItemCuts
  <2>2. text' = text /\ reader' = reader /\ verdict' = verdict /\ items' = items
    BY <1>1 DEF SkipSpace, BeginItem
  <2> QED
    BY <1>0, <2>1, <2>2, MoveKeeps
<1>2. CASE ListEnds
  <2>1. mode = "between" /\ AtEnd /\ EndList("ok")
    BY <1>2 DEF ListEnds
  <2>2. ~scanning
    BY <1>0, <2>1 DEF IInv, EscapeBounded
  <2>3. After(text, Now) = Over("ok", Now)
    BY <2>1, <2>2 DEF After, AfterEnd, AtEnd, Now, Cut, Position
  <2> QED
    BY <1>0, <2>1, <2>2, <2>3, EndKeeps
<1>3. CASE ListIsMalformed
  <2>1. mode \in {"braced", "quoted"} /\ AtEnd /\ ~scanning /\ EndList("malformed")
    BY <1>3 DEF ListIsMalformed
  <2>2. After(text, Now) = Over("malformed", Now)
    BY <2>1 DEF After, AfterEnd, AtEnd, Now, Cut, Position
  <2> QED
    BY <1>0, <2>1, <2>2, EndKeeps
<1>4. CASE BracedCharacter
  <2>1. Now' = After(text, Now) /\ mode # "done" /\ mode' # "done" /\ joining' = joining
    BY <1>0, <1>4, BracedCharacterCuts
  <2>2. text' = text /\ reader' = reader /\ verdict' = verdict /\ items' = items
    BY <1>4 DEF BracedCharacter, BracedUnchanged
  <2> QED
    BY <1>0, <2>1, <2>2, MoveKeeps
<1>5. CASE BracedEnds \/ CopyEnds
  BY <1>0, <1>5, BracedEndsCuts, CopyEndsCuts, MoveKeeps
<1>6. CASE JoinBlank
  BY <1>0, <1>6 DEF JoinBlank, Joining
<1>7. CASE JoinLine
  <2>1. text[index] = Backslash /\ index < Len(text) /\ IsLineEnd(text[index + 1])
    BY <1>7 DEF JoinLine, AtEscape, Next1
  <2>2. index \in 1..(Len(text) - 1)
    BY <1>0, <2>1, Facts
  <2> QED
    BY <2>1, <2>2 DEF HasContinuation, IsLineEnd
<1>8. CASE CopyCharacter \/ BeginEscape \/ ScanDigit \/ EndEscape
  <2>1. /\ mode \in {"quoted", "unquoted"} /\ CopyUnchanged
    BY <1>0, <1>8
    DEF CopyCharacter, BeginEscape, AtEscape, Copying, ScanDigit, EndEscape, IInv, EscapeBounded
  <2>2. (Now' = Now \/ Now' = After(text, Now)) /\ ~joining'
    BY <1>0, <1>8, CopyCharacterCuts, BeginEscapeCuts, ScanDigitCuts, EndEscapeCuts
  <2>3. /\ text' = text /\ reader' = reader /\ verdict' = verdict
        /\ mode # "done" /\ mode' # "done"
        /\ \A r \in Readers : r # reader => items'[r] = items[r]
    BY <1>0, <2>1, CopyNow
  <2> QED
    BY <1>0, <2>2, <2>3, MoveKeeps
<1>9. CASE Done \/ UNCHANGED vars
  <2>1. UNCHANGED vars
    BY <1>9 DEF Done
  <2>2. /\ joining' = joining /\ mode' = mode /\ reader' = reader /\ verdict' = verdict
        /\ items' = items /\ text' = text /\ Position' = Position /\ start' = start
        /\ depth' = depth /\ HasContinuation' = HasContinuation
    BY <2>1 DEF vars, Position, HasContinuation
  <2>3. /\ Now' = Now /\ EndOf("executor")' = EndOf("executor")
        /\ EndOf("validator")' = EndOf("validator")
    BY <2>2 DEF Now, EndOf
  <2> QED
    BY <1>0, <2>2, <2>3 DEF CutAlike
<1> QED
  BY <1>1, <1>2, <1>3, <1>4, <1>5, <1>6, <1>7, <1>8, <1>9 DEF CutInv, Next

\* Both parsers start at the start.
LEMMA InitCuts == Init => CutInv
<1> SUFFICES ASSUME Init PROVE CutInv
  OBVIOUS
<1>1. IInv
  BY InitIInv
<1>2. /\ ~joining /\ mode = "between" /\ reader = "executor"
      /\ items["executor"] = <<>> /\ items["validator"] = <<>> /\ ~scanning /\ index = 1
  BY DEF Init, Readers
<1>3. Now = Whole
  <2>1. Bounds(<<>>) = <<>>
    <3>1. Bounds(<<>>) \in Seq(Nat \X Nat) /\ Len(Bounds(<<>>)) = 0
      BY BoundsType, EmptySeq
    <3> QED
      BY <3>1, EmptySeq
  <2>2. Position = 1
    BY <1>2 DEF Position
  <2> QED
    BY <1>2, <2>1, <2>2 DEF Now, Whole
<1>4. Now \in Reach(text, Whole)
  BY <1>3, ReachSteps, WholeIsCut
<1> QED
  BY <1>1, <1>2, <1>4 DEF CutInv, CutAlike

\* Two ways from one start with an end each have the same end.
LEMMA CutsSuffice == CutInv => SplitAlike
<1> SUFFICES ASSUME CutInv, mode = "done", ~HasContinuation
             PROVE  /\ verdict["executor"] = verdict["validator"]
                    /\ Bounds(items["executor"]) = Bounds(items["validator"])
  BY DEF SplitAlike
<1>1. reader = "validator"
  BY DEF CutInv, CutAlike, IInv, TypeOK, Readers
<1>2. \A r \in Readers : /\ EndOf(r) \in Reach(text, Whole)
                         /\ EndOf(r).kind = verdict[r] /\ EndOf(r).kind \notin Kinds
                         /\ EndOf(r).found = Bounds(items[r])
  BY <1>1 DEF CutInv, CutAlike, Readers, EndOf, Cut, Kinds
<1>3. EndOf("executor") = EndOf("validator")
  BY <1>2, EndsAgree, WholeIsCut DEF Readers
<1> QED
  BY <1>2, <1>3 DEF Readers

\* For every text without a continued line, the executor and the validator
\* refuse it both, or find as many items, with the same first and last
\* characters (split_list_for_expansion and validator_parse_list_item).
THEOREM BothSplitAlike == Spec => []SplitAlike
BY InitCuts, StepKeepsCuts, CutsSuffice, PTL DEF Spec

------------------------------------------------------------------------------
\* How far the splitting is from its end.  Where no character is read, something else
\* gets less: an item begins before what is no space, its escapes take a limited
\* number of digits, and it ends before a space.
Rank ==
  IF mode = "between" THEN IF AtEnd \/ IsSpace(Next1) THEN 0 ELSE 11
  ELSE IF scanning THEN 8 - scanned.count
  ELSE 10

Left ==
  IF mode = "done" THEN 0
  ELSE 1 + Rank + 12 * (Len(text) + 1 - index)
         + IF reader = "executor" THEN 12 * (Len(text) + 1) ELSE 0

\* The rank is that of one character, which the weight of the others outdoes.
LEMMA LeftIs ==
  ASSUME IInv
  PROVE  /\ Len(text) \in Nat /\ index \in 1..(Len(text) + 1)
         /\ Rank \in 0..11 /\ Left \in 0..(24 * (Len(text) + 1))
         /\ mode # "done" =>
              Left = 1 + Rank + 12 * (Len(text) + 1 - index)
                       + IF reader = "executor" THEN 12 * (Len(text) + 1) ELSE 0
<1>1. scanned.count \in 0..8 /\ Rank \in 0..11
  BY DEF IInv, TypeOK, Scanned, Rank
<1>2. Len(text) \in Nat /\ index \in 1..(Len(text) + 1)
  BY Facts
<1> DEFINE r == Rank
           n == Len(text)
           more == IF reader = "executor" THEN 12 * (n + 1) ELSE 0
<1>3. r \in 0..11 /\ n \in Nat /\ index \in 1..(n + 1) /\ more \in Nat /\ more <= 12 * (n + 1)
  BY <1>1, <1>2
<1>4. Left = IF mode = "done" THEN 0 ELSE 1 + r + 12 * (n + 1 - index) + more
  BY DEF Left
<1>5. Left \in 0..(24 * (n + 1))
  <2> HIDE DEF r, n, more
  <2> QED
    BY <1>3, <1>4
<1> QED
  BY Zenon, <1>1, <1>2, <1>4, <1>5

\* The step of a reader that goes on: a character is read, or none is and the rank gets less.
LEMMA ReadsCloser ==
  ASSUME IInv, IInv', mode # "done", mode' # "done", text' = text, reader' = reader,
         index' >= index + 1 \/ (index' = index /\ Rank' < Rank)
  PROVE  Left' < Left
<1>1. (IInv => /\ Len(text) \in Nat /\ index \in 1..(Len(text) + 1)
               /\ Rank \in 0..11
               /\ mode # "done" =>
                    Left = 1 + Rank + 12 * (Len(text) + 1 - index)
                             + IF reader = "executor" THEN 12 * (Len(text) + 1) ELSE 0)'
  BY LeftIs, PTL
<1> DEFINE r == Rank
           s == Rank'
           n == Len(text)
           i == index
           j == index'
           more == IF reader = "executor" THEN 12 * (n + 1) ELSE 0
<1>2. /\ r \in 0..11 /\ n \in Nat /\ i \in 1..(n + 1) /\ more \in Nat
      /\ Left = 1 + r + 12 * (n + 1 - i) + more
  BY LeftIs
<1>3. s \in 0..11 /\ j \in 1..(n + 1) /\ Left' = 1 + s + 12 * (n + 1 - j) + more
  BY <1>1
<1>4. j >= i + 1 \/ (j = i /\ s < r)
  OBVIOUS
<1> HIDE DEF r, s, n, i, j, more
<1> QED
  BY <1>2, <1>3, <1>4

\* The first parser is done, or both are.
LEMMA EndCloser ==
  ASSUME IInv, IInv', mode # "done", NEW outcome, EndList(outcome)
  PROVE  Left' < Left
<1>1. (IInv => /\ Len(text) \in Nat /\ index \in 1..(Len(text) + 1)
               /\ Rank \in 0..11
               /\ mode # "done" =>
                    Left = 1 + Rank + 12 * (Len(text) + 1 - index)
                             + IF reader = "executor" THEN 12 * (Len(text) + 1) ELSE 0)'
  BY LeftIs, PTL
<1> DEFINE r == Rank
           s == Rank'
           n == Len(text)
           i == index
<1>2. /\ r \in 0..11 /\ n \in Nat /\ i \in 1..(n + 1)
      /\ Left = 1 + r + 12 * (n + 1 - i) + IF reader = "executor" THEN 12 * (n + 1) ELSE 0
  BY LeftIs
<1>3. CASE reader = "executor"
  <2>1. s \in 0..11 /\ Left' = 1 + s + 12 * n
    <3>1. mode' = "between" /\ reader' = "validator" /\ index' = 1 /\ text' = text
      BY <1>3 DEF EndList
    <3>2. Left' = 1 + s + 12 * (n + 1 - 1) + 0
      BY <1>1, <3>1
    <3> QED
      BY <1>1, <1>2, <3>2
  <2>2. Left = 1 + r + 12 * (n + 1 - i) + 12 * (n + 1)
    BY <1>2, <1>3
  <2> HIDE DEF r, s, n, i
  <2> QED
    BY <1>2, <2>1, <2>2
<1>4. CASE reader # "executor"
  <2>1. Left' = 0
    BY <1>4 DEF EndList, Left
  <2>2. Left = 1 + r + 12 * (n + 1 - i) + 0
    BY <1>2, <1>4
  <2> HIDE DEF r, s, n, i
  <2> QED
    BY <1>2, <2>1, <2>2
<1> QED
  BY <1>3, <1>4

\* Every step comes closer to the end.
LEMMA StepCloser ==
  ASSUME IInv, IInv', Next, mode # "done"
  PROVE  Left' < Left
<1> USE DEF CopyUnchanged
<1>1. Len(text) \in Nat /\ index \in Nat /\ index <= Len(text) + 1 /\ scanned.count \in 0..8
  BY Facts DEF IInv, TypeOK, Scanned
<1>2. CASE SkipSpace
  BY <1>1, <1>2, ReadsCloser DEF SkipSpace
<1>3. CASE BeginItem
  <2>1. /\ text' = text /\ reader' = reader /\ mode' \in {"braced", "quoted", "unquoted"}
        /\ index' = index \/ index' = index + 1
        /\ scanning' = scanning
    BY <1>3 DEF BeginItem
  <2>2. ~scanning
    BY <1>3 DEF BeginItem, IInv, EscapeBounded
  <2>3. Rank = 11 /\ Rank' = 10
    BY <1>3, <2>1, <2>2 DEF BeginItem, Rank
  <2> QED
    BY <1>1, <2>1, <2>3, ReadsCloser
<1>4. CASE ListEnds \/ ListIsMalformed
  BY <1>4, EndCloser DEF ListEnds, ListIsMalformed
<1>5. CASE BracedCharacter
  BY <1>1, <1>5, ReadsCloser DEF BracedCharacter, BracedUnchanged
<1>6. CASE BracedEnds
  BY <1>1, <1>6, ReadsCloser DEF BracedEnds, EndItem
<1>7. CASE JoinBlank
  BY <1>1, <1>7, ReadsCloser DEF JoinBlank
<1>8. CASE CopyCharacter
  BY <1>1, <1>8, ReadsCloser DEF CopyCharacter
<1>9. CASE JoinLine
  <2>1. LineEndLength(text, index + 1) \in 1..2
    BY DEF LineEndLength
  <2> QED
    BY <1>1, <1>9, <2>1, ReadsCloser DEF JoinLine
<1>10. CASE BeginEscape
  <2>1. /\ text' = text /\ reader' = reader /\ mode' = mode /\ index' = index
        /\ ~scanning /\ scanning' /\ scanned'.count = 0 /\ mode \in {"quoted", "unquoted"}
    BY <1>10 DEF BeginEscape, AtEscape, Copying, NoDigits
  <2>2. Rank = 10 /\ Rank' = 8
    BY <2>1 DEF Rank
  <2> QED
    BY <2>1, <2>2, ReadsCloser
<1>11. CASE ScanDigit
  <2>1. /\ text' = text /\ reader' = reader /\ mode' = mode /\ index' = index
        /\ scanning /\ scanning' = scanning /\ scanned'.count = scanned.count + 1
    BY <1>11 DEF ScanDigit, TakeDigit
  <2>2. mode \in {"quoted", "unquoted"}
    BY <2>1 DEF IInv, EscapeBounded
  <2>3. Rank' < Rank
    BY <1>1, <2>1, <2>2 DEF Rank
  <2> QED
    BY <2>1, <2>2, <2>3, ReadsCloser
<1>12. CASE EndEscape
  <2>1. /\ text' = text /\ reader' = reader /\ mode' = mode
        /\ index' = index + Consumed(text[index + 1], scanned)
    BY <1>12 DEF EndEscape
  <2>2. Consumed(text[index + 1], scanned) \in Nat /\ Consumed(text[index + 1], scanned) >= 1
    BY <1>1 DEF Consumed, DigitsAt
  <2>3. index' >= index + 1
    BY <1>1, <2>1, <2>2
  <2> QED
    BY <2>1, <2>3, ReadsCloser
<1>13. CASE CopyEnds
  <2>1. /\ text' = text /\ reader' = reader /\ mode' = "between" /\ mode \in {"quoted", "unquoted"}
        /\ ~scanning /\ ItemEnds
        /\ index' = IF mode = "quoted" THEN index + 1 ELSE index
    BY <1>13 DEF CopyEnds, Copying, EndItem
  <2>2. CASE mode = "quoted"
    BY <1>1, <2>1, <2>2, ReadsCloser
  <2>3. CASE mode = "unquoted"
    <3>1. index' = index /\ (AtEnd \/ IsSpace(Next1))
      BY <2>1, <2>3 DEF ItemEnds
    <3>2. Rank = 10 /\ Rank' = 0
      BY <2>1, <2>3, <3>1 DEF Rank, AtEnd, Next1
    <3> QED
      BY <2>1, <3>1, <3>2, ReadsCloser
  <2> QED
    BY <2>1, <2>2, <2>3
<1>14. CASE Done
  BY <1>14 DEF Done
<1> QED
  BY <1>2, <1>3, <1>4, <1>5, <1>6, <1>7, <1>8, <1>9, <1>10, <1>11, <1>12, <1>13, <1>14 DEF Next

\* Splitting a text comes to an end, whatever is in it: each turn of either parser's
\* loops brings it closer, and 24 turns per character are enough for both, a lone
\* backslash, an open brace or the longest escape included (executor.c:132-958,
\* common.c:96-237).
THEOREM EveryTurnComesCloser ==
  Spec => /\ [](Left \in 0..(24 * (Len(text) + 1)))
          /\ [][mode # "done" => Left' < Left]_vars
<1>1. IInv => Left \in 0..(24 * (Len(text) + 1))
  BY LeftIs, Facts
<1>2. ASSUME IInv, IInv', [Next]_vars PROVE [mode # "done" => Left' < Left]_vars
  BY <1>2, StepCloser
<1> QED
  BY <1>1, <1>2, InitIInv, StepKeepsIInv, PTL DEF Spec

==============================================================================
