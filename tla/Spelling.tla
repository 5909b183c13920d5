-------------------------------- MODULE Spelling --------------------------------
(***************************************************************************)
(* What a word means, without the calls and steps that find it out: a      *)
(* relation between a text and the bytes that it spells, given by rules.   *)
(* "Substitution" computes it with a stack of calls; the proofs show that  *)
(* it hands out what the rules derive, and refuses what they do not.       *)
(***************************************************************************)
EXTENDS SubstitutionProperties

\* The variable of that name, and the name of an array's element
Holds(s, name, bytes) == name \in DOMAIN s /\ s[name] = bytes

ElementName(base, index) == base \o <<OpenParen>> \o CString(index) \o <<CloseParen>>

\* A backslash or a dollar with a character behind it
Escapes(t, i) == i \in 1..(Len(t) - 1) /\ t[i] = Backslash
Refers(t, i) == i \in 1..(Len(t) - 1) /\ t[i] = Dollar

\* A character that stands for itself
Copies(t, i, d, j, e, b) ==
  /\ i \in 1..Len(t) /\ ~Escapes(t, i) /\ ~Refers(t, i)
  /\ d = NoDigits /\ j = i + 1 /\ e = NoDigits /\ b = <<t[i]>>

\* One more digit d of an escape at i, and the end of it
Takes(t, i, d) == TakesDigit(t, DigitsAt(t[i + 1], i), DigitRule(t[i + 1]), d)

Scans(t, i, d, j, e, b) ==
  /\ Escapes(t, i) /\ Takes(t, i, d)
  /\ j = i /\ e = TakeDigit(t, DigitsAt(t[i + 1], i), DigitRule(t[i + 1]), d) /\ b = <<>>

Decodes(t, i, d, j, e, b) ==
  /\ Escapes(t, i) /\ ~Takes(t, i, d)
  /\ j = i + Consumed(t[i + 1], d) /\ e = NoDigits /\ b = Output(t[i + 1], d)

\* The name behind a dollar without an index, and where it ends
BraceEnd(t, i) == FirstIn(t, i + 2, {k \in 1..Len(t) : t[k] = CloseBrace})

Names(t, i, name, j) ==
  \/ /\ t[i + 1] = OpenBrace
     /\ BraceEnd(t, i) <= Len(t)
     /\ name = SubSeq(t, i + 2, BraceEnd(t, i) - 1) /\ j = BraceEnd(t, i) + 1
  \/ /\ t[i + 1] # OpenBrace
     /\ ~Has(t, NameEnd(t, i + 1), {OpenParen})
     /\ name = SubSeq(t, i + 1, NameEnd(t, i + 1) - 1) /\ j = NameEnd(t, i + 1)

\* A reference to a variable that is there; a dollar without a name is a dollar.
Reads(s, t, i, d, j, e, b) ==
  /\ Refers(t, i) /\ d = NoDigits /\ e = NoDigits
  /\ \E name : /\ Names(t, i, name, j)
               /\ \/ name = <<>> /\ b = <<Dollar>>
                  \/ name # <<>> /\ Holds(s, name, b)

\* A rule without premises: from position i and digits d to j and e, with bytes b.
Moves(s, t, i, d, j, e, b) ==
  \/ Copies(t, i, d, j, e, b)
  \/ Scans(t, i, d, j, e, b)
  \/ Decodes(t, i, d, j, e, b)
  \/ Reads(s, t, i, d, j, e, b)

\* A reference with an index
Calls(t, i, base, index, j) ==
  /\ Refers(t, i) /\ t[i + 1] # OpenBrace
  /\ Has(t, NameEnd(t, i + 1), {OpenParen})
  /\ IndexEnd(t, NameEnd(t, i + 1) + 1) <= Len(t)
  /\ base = SubSeq(t, i + 1, NameEnd(t, i + 1) - 1)
  /\ index = SubSeq(t, NameEnd(t, i + 1) + 1, IndexEnd(t, NameEnd(t, i + 1) + 1) - 1)
  /\ j = IndexEnd(t, NameEnd(t, i + 1) + 1) + 1

\* Sets of <<text, position, digits, bytes>> that the rules do not lead out of:
\* nothing is spelled behind the end; a move puts its bytes before the others; so
\* does a variable whose index, a text of its own, is spelled as its name says.
EndsIn(R) == \A t \in Seq(Character) : <<t, Len(t) + 1, NoDigits, <<>>>> \in R

MovesIn(R, s) ==
  \A t \in Seq(Character), i, j \in Nat, d, e \in Scanned, b, v \in Seq(Byte) :
    Moves(s, t, i, d, j, e, b) /\ <<t, j, e, v>> \in R => <<t, i, d, b \o v>> \in R

CallsIn(R, s) ==
  \A t, base, index \in Seq(Character), i, j \in Nat, w, b, v \in Seq(Byte) :
    /\ Calls(t, i, base, index, j) /\ <<index, 1, NoDigits, w>> \in R
    /\ Holds(s, ElementName(base, w), b) /\ <<t, j, NoDigits, v>> \in R
    => <<t, i, NoDigits, b \o v>> \in R

Closed(R, s) == EndsIn(R) /\ MovesIn(R, s) /\ CallsIn(R, s)

\* In the least such set: the text t, from position i on and with the digits d of an escape read, spells v.
Spells(s, t, i, d, v) == \A R : Closed(R, s) => <<t, i, d, v>> \in R

------------------------------------------------------------------------------
TextKinds == {"string", "quoted", "var"}
TextOf(word) == IF word.kind = "var" THEN <<Dollar>> \o word.text ELSE word.text

\* What a word means under the variables s
Means(s, word, value) ==
  \/ word.kind = "braced" /\ value = word.text
  \/ word.kind = "varBraced" /\ Holds(s, word.text, value)
  \/ /\ word.kind \in TextKinds
     /\ \E v \in Seq(Byte) : Spells(s, TextOf(word), 1, NoDigits, v) /\ value = CString(v)

\* The variables when the word of phase p is evaluated: "set" changes them at its end.
StoreOf(p) == IF p = "set" THEN Stored ELSE store

\* A word that is evaluated has the one value that it means, and a word is refused
\* only if it means none.
EvaluatedAsMeant ==
  \A p \in Phases :
    /\ outcomes[p].verdict = "ok" =>
         \A value : Means(StoreOf(p), test[p], value) <=> value = outcomes[p].value
    /\ outcomes[p].verdict \in {"semantic", "syntax"} =>
         \A value : ~Means(StoreOf(p), test[p], value)

==============================================================================
