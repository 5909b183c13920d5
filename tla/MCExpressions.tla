---------------------------- MODULE MCExpressions ----------------------------
(***************************************************************************)
(* Short texts over five alphabets - operators that begin like others,     *)
(* words, numbers, nesting, quoting -, and longer expressions that are     *)
(* nested twice, whole and with one character left out.                    *)
(***************************************************************************)
EXTENDS ExprProperties

UpTo(set, n) == UNION {[1..k -> set] : k \in 0..n}

\* & * < = ! - | > between two operands, and with the digit 1 anywhere
SymbolTexts == {<<49>> \o x \o <<49>> : x \in UpTo({38, 42, 60, 61, 33, 45, 124, 62}, 3)}
               \union UpTo({49, 38, 42, 60, 61, 33, 45}, 4)

\* 1, blank, e, q, n, i, o
WordTexts == UpTo({49, 32, 101, 113, 110, 105, 111}, 4)

\* 0 8 x . e + $
NumberTexts == UpTo({48, 56, 120, 46, 101, 43, 36}, 4)

\* [ ] " { } $a ( ) \ 0x +
Pieces == {<<91>>, <<93>>, <<34>>, <<123>>, <<125>>, <<36, 97>>, <<40>>, <<41>>, <<92>>,
           <<48, 120>>, <<43>>}
QuotingTexts == {p \o q \o r : p, q, r \in Pieces \union {<<>>}}
                \union {<<c>> \o p \o q \o <<d>> : c \in {34, 91}, d \in {34, 93}, p, q \in Pieces}
                \union {<<36, 97, 40, 91>> \o p \o <<93, 41>> : p \in Pieces}

\* Expressions around others: ( ) - y( ) y( , ) ? : | *
Around1(x) == {<<40>> \o x \o <<41>>, <<45>> \o x, <<121, 40>> \o x \o <<41>>}
Around2(x, y) == {<<121, 40>> \o x \o <<44>> \o y \o <<41>>, x \o <<124>> \o y, x \o <<42>> \o y,
                  x \o <<32, 42, 42>> \o y, x \o <<63>> \o y \o <<58, 49>>,
                  <<49, 63>> \o x \o <<58>> \o y}
Once == {<<49>>} \union Around1(<<49>>) \union Around2(<<49>>, <<49>>)
Nested == Once \union UNION {Around1(x) : x \in Once}
          \union UNION {Around2(<<49>>, x) \union Around2(x, <<49>>) : x \in Once}

\* One character left out.
Without(t, k) == SubSeq(t, 1, k - 1) \o SubSeq(t, k + 1, Len(t))
Dropped == UNION {{Without(t, k) : k \in 1..Len(t)} : t \in Once}

\* $a([x]) and $a([$a])
IndexTexts == {<<36, 97, 40, 91>> \o p \o <<93, 41>> : p \in {<<120>>, <<36, 97>>}}

MCTexts == SymbolTexts \union WordTexts \union NumberTexts \union QuotingTexts
           \union Nested \union Dropped

==============================================================================
