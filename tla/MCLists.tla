------------------------------- MODULE MCLists -------------------------------
(***************************************************************************)
(* All short texts over the characters that structure a list, and longer   *)
(* ones that hold one escape with its digits, bare and in quotes.          *)
(***************************************************************************)
EXTENDS Lists

UpTo(set, n) == UNION {[1..k -> set] : k \in 0..n}

\* space, line end, quote, braces, backslash, the letter a
Structure == {32, 10, 34, 123, 125, 92, 97}

\* 0 1 7 8 D f, and g, which is no digit
DigitChars == {48, 49, 55, 56, 68, 102, 103}

\* Digits of \U before its last four: none, within and beyond the last plane.
Planes == {<<>>, <<48, 48, 48>>, <<48, 48, 48, 48>>, <<48, 48, 49, 48>>,
           <<48, 48, 49, 49>>, <<49, 48>>, <<102, 48>>}

Escaped ==
  {<<92>> \o d : d \in UpTo(DigitChars, 4)}
  \union {<<92, 120>> \o d : d \in UpTo(DigitChars, 3)}
  \union {<<92, 117>> \o d : d \in UpTo(DigitChars \ {103}, 4)}
  \union {<<92, 85>> \o p \o d : p \in Planes, d \in UpTo({48, 55, 68, 102}, 4)}
  \union {<<92>> \o <<c>> : c \in 1..127}
  \union {<<92, 13>> \o d : d \in UpTo({10, 9, 97}, 3)}

InQuotes(t) == <<34>> \o t \o <<34>>

MCTexts == UpTo(Structure, 5) \union Escaped \union {InQuotes(t) : t \in Escaped}

==============================================================================
