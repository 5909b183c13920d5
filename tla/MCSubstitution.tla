---------------------------- MODULE MCSubstitution ----------------------------
(***************************************************************************)
(* Names of variables that are short texts over four alphabets, and words  *)
(* that refer to them.  b, b(1) and b(b) are variables before, and an      *)
(* element may be set that is there already.                               *)
(***************************************************************************)
EXTENDS SubstitutionProperties, TLC

UpTo(set, n) == UNION {[1..k -> set] : k \in 0..n}

A == 97
B == 98
One == 49
Zero == 48

ElementB(index) == <<B, OpenParen>> \o index \o <<CloseParen>>

MCStored ==
  (<<B>> :> <<CloseParen>>) @@ (ElementB(<<One>>) :> <<Dollar, B>>) @@ (ElementB(<<B>>) :> <<B>>)
MCValue == <<Dollar, B, Backslash>>

Indexes == UpTo({B, Dollar, OpenParen, CloseParen, Backslash, One}, 4)
           \union UpTo({Dollar, OpenBrace, CloseBrace, B, CloseParen}, 4)
           \union UpTo({Zero, One, Backslash}, 3)
           \union {<<Dollar>> \o ElementB(s) :
                     s \in UpTo({One, Dollar, Backslash, CloseParen, B}, 3)}
Elements == {<<A, OpenParen>> \o s \o <<CloseParen>> : s \in Indexes}
            \union {ElementB(s) : s \in UpTo({One, B}, 1) \union {<<Dollar>> \o ElementB(<<B>>)}}
            \union {<<OpenParen>> \o s \o <<CloseParen>> : s \in UpTo({B, Dollar, Backslash}, 2)}
Plain == UpTo({A, Colon, Dollar, B}, 4)

Pair(k, name, l, text) == [set |-> [kind |-> k, text |-> name], read |-> [kind |-> l, text |-> text]]

MCTests ==
  {Pair("string", s, "var", s) : s \in (Elements \union Plain) \ {<<>>}}
  \union {Pair("string", s, "quoted", <<Dollar>> \o s) : s \in Elements \union Plain}
  \union {Pair("braced", s, "varBraced", s) : s \in UpTo({A, Dollar, OpenParen, Backslash}, 3)}
  \union {Pair("braced", <<A>>, "varBraced", s) : s \in UpTo({A, B}, 2)}
  \union {Pair("string", <<A>>, "quoted", s) :
            s \in UpTo({A, Dollar, OpenBrace, CloseBrace, Colon}, 4)}

==============================================================================
