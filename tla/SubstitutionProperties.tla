------------------------ MODULE SubstitutionProperties ------------------------
(***************************************************************************)
(* The properties of the values of words.                                  *)
(***************************************************************************)
EXTENDS Substitution

Verdicts == {"pending", "ok", "semantic", "syntax", "system"}
Outcome == [verdict : Verdicts, value : Seq(Byte)]

TypeOK ==
  /\ test \in [Phases -> Word]
  /\ phase \in Phases \union {"done"}
  /\ DOMAIN store \subseteq Seq(Byte)
  /\ \A name \in DOMAIN store : store[name] \in Seq(Byte)
  /\ frames \in Seq(Frame)
  /\ \A n \in 1..Len(frames) : frames[n].index \in 1..(Len(frames[n].text) + 1)
  /\ scanning \in BOOLEAN
  /\ scanned \in Scanned
  /\ outcomes \in [Phases -> Outcome]

\* resolve_string_text calls itself for an index, on the C stack: each call has
\* a text that is shorter by a dollar and two parentheses, whatever the
\* variables contain, so their number is bounded by a third of the word.
RecursionFollowsText ==
  \A n \in 1..Len(frames) : Len(frames[n].text) + 3 * (n - 1) <= Len(frames[1].text)

------------------------------------------------------------------------------
\* A name of one kind only: letters, or parts of them between two colons.
IsPlain(text) ==
  /\ text # <<>>
  /\ \A k \in 1..Len(text) :
       \/ text[k] \in NameChars
       \/ text[k] = Colon /\ \E m \in {k - 1, k + 1} : m \in 1..Len(text) /\ text[m] = Colon

\* The positions of a text that no backslash stands before; "open" says whether
\* the backslash before k is one that counts.
Plainly(text) ==
  LET open[k \in 0..Len(text)] == k > 0 /\ ~open[k - 1] /\ text[k] = Backslash
  IN {k \in 1..Len(text) : ~open[k - 1]}

\* Every parenthesis of the text closes one, or is closed, or has a backslash
\* before it; and the text does not end in the middle of an escape.
IsBalanced(text) ==
  LET plainly == Plainly(text)
      Depth(k) == Cardinality({j \in plainly : j <= k /\ text[j] = OpenParen})
                  - Cardinality({j \in plainly : j <= k /\ text[j] = CloseParen})
  IN /\ \A k \in 0..Len(text) : Depth(k) >= 0
     /\ Depth(Len(text)) = 0
     /\ text # <<>> => ~(text[Len(text)] = Backslash /\ Len(text) \in plainly)

\* The name of an array's element: no braces, and no digit 0 behind a backslash,
\* where it could be part of an escape that ends a string.
IsElement(text) ==
  \E k \in 1..Len(text) :
    /\ text[k] = OpenParen
    /\ k = 1 \/ IsPlain(SubSeq(text, 1, k - 1))
    /\ text[Len(text)] = CloseParen
    /\ IsBalanced(SubSeq(text, k + 1, Len(text) - 1))
    /\ \A j \in 1..Len(text) : text[j] \notin {OpenBrace, CloseBrace}
    /\ \A i, j \in 1..Len(text) : text[i] = Backslash /\ text[j] = 48 => j < i

\* The second word refers to the variable that the first one names.
RefersTo(name, reference) ==
  \/ name.kind = "braced" /\ reference.kind = "varBraced" /\ reference.text = name.text
  \/ /\ name.kind = "string"
     /\ IsPlain(name.text) \/ IsElement(name.text)
     /\ \/ reference.kind = "var" /\ reference.text = name.text
        \/ reference.kind \in {"string", "quoted"} /\ reference.text = <<Dollar>> \o name.text

\* A variable that was there before gets another value, and variables are read
\* for its name: it may be among them.
ChangesItsName ==
  LET name == outcomes["set"].value
  IN /\ test["set"].kind = "string"
     /\ \E k \in 1..Len(test["set"].text) : test["set"].text[k] = Dollar
     /\ name \in DOMAIN Stored /\ Stored[name] # Value

\* README.md:39: array elements are stored by their literal name, and all forms
\* of variables are substituted.  What "set a(index) value" stores, $a(index)
\* reads, as it is: the two evaluate the index by different code, but to the
\* same name, also with variables, escapes and parentheses in it; and a value
\* with dollars and backslashes is not substituted again.  (The name that is set
\* may be a variable of its own index; then the index has changed.)
ReadsWhatWasSet ==
  phase = "done" /\ outcomes["set"].verdict = "ok" /\ outcomes["read"].verdict # "system"
  /\ RefersTo(test["set"], test["read"]) /\ ~ChangesItsName
    => outcomes["read"] = [verdict |-> "ok", value |-> Value]

==============================================================================
