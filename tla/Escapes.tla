------------------------------- MODULE Escapes -------------------------------
(***************************************************************************)
(* Backslash sequences as the executor decodes them, and the UTF-8 bytes   *)
(* they become (decode_backslash_sequence and its helpers).  A character   *)
(* of a text is a byte.                                                    *)
(***************************************************************************)
EXTENDS Characters, Sequences, FiniteSets

Byte == 0..255
Character == 1..255

Tab == 9
LineFeed == 10
Return == 13
Space == 32

\* The part of the bytes that a C string shows: up to the first byte 0.
CString(bytes) ==
  SubSeq(bytes, 1, Cardinality({i \in 1..Len(bytes) : \A j \in 1..i : bytes[j] # 0}))

------------------------------------------------------------------------------
\* hex_digit_value; 16 stands for "no digit".  What is below 8 is exactly what
\* decode_octal_escape takes.
Digit(c) ==
  IF c \in 48..57 THEN c - 48
  ELSE IF c \in 97..102 THEN c - 87
  ELSE IF c \in 65..70 THEN c - 55
  ELSE 16

\* How many digits an escape takes, and the largest value it may reach.
Octal == [base |-> 8, most |-> 3, limit |-> 255]
Hex == [base |-> 16, most |-> 2, limit |-> 255]
Unicode == [base |-> 16, most |-> 4, limit |-> 65535]
LongUnicode == [base |-> 16, most |-> 8, limit |-> 1114111]
Rules == {Octal, Hex, Unicode, LongUnicode}

Scanned == [value : Nat, count : 0..8]
NoDigits == [value |-> 0, count |-> 0]

\* One turn of the loops of decode_octal_escape and decode_hex_escape; a turn
\* that takes no digit ends the loop.
TakesDigit(text, start, rule, d) ==
  /\ start + d.count <= Len(text)
  /\ d.count < rule.most
  /\ Digit(text[start + d.count]) < rule.base
  /\ d.value <= (rule.limit - Digit(text[start + d.count])) \div rule.base

TakeDigit(text, start, rule, d) ==
  [value |-> d.value * rule.base + Digit(text[start + d.count]),
   count |-> d.count + 1]

------------------------------------------------------------------------------
Replacement == 65533
LastCodepoint == 1114111
Surrogates == 55296..57343

\* A mutant of EncodeUtf8: surrogates are encoded like other codepoints.
EncodeSurrogates(codepoint) ==
  LET Tail6(n) == 128 + (n % 64)
  IN IF codepoint <= 127 THEN <<codepoint>>
     ELSE IF codepoint <= 2047 THEN <<192 + (codepoint \div 64), Tail6(codepoint)>>
     ELSE IF codepoint <= 65535
     THEN <<224 + (codepoint \div 4096), Tail6(codepoint \div 64), Tail6(codepoint)>>
     ELSE <<240 + (codepoint \div 262144), Tail6(codepoint \div 4096),
            Tail6(codepoint \div 64), Tail6(codepoint)>>

\* encode_utf8: the bytes of a codepoint.
EncodeUtf8(codepoint) ==
  LET cp == IF codepoint > LastCodepoint \/ codepoint \in Surrogates
            THEN Replacement ELSE codepoint
      Tail6(n) == 128 + (n % 64)
  IN IF cp <= 127 THEN <<cp>>
     ELSE IF cp <= 2047 THEN <<192 + (cp \div 64), Tail6(cp)>>
     ELSE IF cp <= 65535 THEN <<224 + (cp \div 4096), Tail6(cp \div 64), Tail6(cp)>>
     ELSE <<240 + (cp \div 262144), Tail6(cp \div 4096), Tail6(cp \div 64), Tail6(cp)>>

------------------------------------------------------------------------------
\* The letters that name a control character; every other character stands for
\* itself.
Named(c) ==
  CASE c = 97 -> 7 [] c = 98 -> 8 [] c = 102 -> 12 [] c = 110 -> 10
    [] c = 114 -> 13 [] c = 116 -> 9 [] c = 118 -> 11 [] OTHER -> c

\* The rule of the digits after a backslash and c, and where they start.
DigitRule(c) ==
  CASE c = 120 -> Hex [] c = 117 -> Unicode [] c = 85 -> LongUnicode [] OTHER -> Octal
DigitsAt(c, i) == IF c \in {120, 117, 85} THEN i + 2 ELSE i + 1

\* The end of decode_backslash_sequence for a backslash before "next": the bytes
\* that replace the escape and the number of characters it takes.
Output(next, d) == IF d.count = 0 THEN <<Named(next)>> ELSE EncodeUtf8(d.value)
Consumed(next, d) == IF d.count = 0 THEN 2 ELSE DigitsAt(next, 0) + d.count

\* An escaped line end is replaced by a space; it takes the whole line end, and
\* the blanks after it.
IsLineEnd(c) == c \in {LineFeed, Return}
LineEndLength(text, i) ==
  IF text[i] = Return /\ i < Len(text) /\ text[i + 1] = LineFeed THEN 2 ELSE 1

JoinedBlank(c) == c \in {Space, Tab}

==============================================================================
