----------------------------- MODULE Substitution -----------------------------
(***************************************************************************)
(* The value of a word: what the executor puts in place of variables and   *)
(* escapes (evaluate_word and resolve_string_text).  The index of an array *)
(* variable is such a text again, so the function calls itself: a stack of *)
(* frames.                                                                 *)
(*                                                                         *)
(* Two words are evaluated, as in "set word value" and then "puts word":   *)
(* the first one names a variable, the second one should read it.          *)
(***************************************************************************)
EXTENDS Escapes, Scanning

CONSTANTS
  Tests,    \* the two words
  Stored,   \* the variables that are there before: a function of their names
  Value     \* what is stored under the name

Kinds == {"string", "quoted", "braced", "var", "varBraced"}
Word == [kind : Kinds, text : Seq(Character)]
Phases == {"set", "read"}

\* preprocess_script has joined the lines that end in a backslash.  (One at the very
\* end of the script, in a word that is never closed, it keeps: not modelled.)
IsJoined(text) ==
  \A k \in 1..(Len(text) - 1) : text[k] = Backslash => ~IsLineEnd(text[k + 1])

ASSUME TestsAssumption ==
  /\ Tests \subseteq [Phases -> Word]
  /\ \A t \in Tests : IsJoined(t["set"].text) /\ IsJoined(t["read"].text)

\* The variables are C strings: there is no byte 0 in them.
ASSUME StoredAssumption ==
  /\ DOMAIN Stored \subseteq Seq(Character)
  /\ Stored = [name \in DOMAIN Stored |-> Stored[name]]
  /\ \A name \in DOMAIN Stored : Stored[name] \in Seq(Character)
ASSUME ValueAssumption == Value \in Seq(Character)

VARIABLES
  test,       \* the two words
  phase,      \* which of them is evaluated
  store,      \* the variables
  frames,     \* the calls of resolve_string_text, the innermost last
  scanning,   \* the digits of an escape are being read ...
  scanned,    \* ... and what they are so far
  outcomes    \* what became of each word

vars == <<test, phase, store, frames, scanning, scanned, outcomes>>

Frame == [text : Seq(Character), index : Nat, buffer : Seq(Byte), base : Seq(Character)]

Dollar == 36
OpenParen == 40
CloseParen == 41
Colon == 58
NameChars == 48..57 \union 65..90 \union 97..122 \union {95}

Pending == [verdict |-> "pending", value |-> <<>>]

Init ==
  /\ test \in Tests
  /\ phase = "set"
  /\ store = Stored
  /\ frames = <<>>
  /\ scanning = FALSE
  /\ scanned = NoDigits
  /\ outcomes = [p \in Phases |-> Pending]

------------------------------------------------------------------------------
\* scan_variable_name: letters, digits and runs of at least two colons.
NameEnd(text, i) ==
  FirstIn(text, i, {k \in i..Len(text) :
    /\ text[k] \notin NameChars
    /\ text[k] = Colon => /\ k > i => text[k - 1] # Colon
                          /\ ~Has(text, k + 1, {Colon})})

\* An odd number of backslashes stands before position k: it is stepped over.
SteppedOver(text, i, k) ==
  Cardinality({j \in i..(k - 1) : \A m \in j..(k - 1) : text[m] = Backslash}) % 2 = 1

\* A mutant of IndexEnd: an index ends at the first parenthesis that closes.
IndexEndFlat(text, i) ==
  FirstIn(text, i, {k \in i..Len(text) : text[k] = CloseParen /\ ~SteppedOver(text, i, k)})

\* The parenthesis that closes an index which starts at i.
IndexEnd(text, i) ==
  LET Count(k, c) == Cardinality({j \in i..k : text[j] = c /\ ~SteppedOver(text, i, j)})
  IN FirstIn(text, i, {k \in i..Len(text) : Count(k, CloseParen) > Count(k, OpenParen)})

------------------------------------------------------------------------------
\* The word has a value; the first word's is the name that set stores under.
Finish(bytes) ==
  /\ outcomes' = [outcomes EXCEPT ![phase] = [verdict |-> "ok", value |-> bytes]]
  /\ store' = IF phase = "set"
              THEN [name \in DOMAIN store \union {bytes} |->
                      IF name = bytes THEN Value ELSE store[name]]
              ELSE store
  /\ phase' = IF phase = "set" THEN "read" ELSE "done"
  /\ frames' = <<>>
  /\ UNCHANGED <<test, scanning, scanned>>

\* The command fails, and no other is executed.
Fail(verdict) ==
  /\ outcomes' = [outcomes EXCEPT ![phase] = [verdict |-> verdict, value |-> <<>>]]
  /\ phase' = "done"
  /\ frames' = <<>>
  /\ scanning' = FALSE
  /\ UNCHANGED <<test, store, scanned>>

\* evaluate_word is called for the word of the phase.
Called(kinds) == phase # "done" /\ frames = <<>> /\ test[phase].kind \in kinds

Entered(text, base) == [text |-> text, index |-> 1, buffer |-> <<>>, base |-> base]

CopyBraced ==
  /\ Called({"braced"})
  /\ Finish(test[phase].text)

ReadBraced ==
  /\ Called({"varBraced"})
  /\ IF test[phase].text \in DOMAIN store
     THEN Finish(store[test[phase].text])
     ELSE Fail("semantic")

BeginText ==
  /\ Called({"string", "quoted", "var"})
  /\ LET text == test[phase].text
     IN frames' = <<Entered(IF test[phase].kind = "var" THEN <<Dollar>> \o text ELSE text, <<>>)>>
  /\ UNCHANGED <<test, phase, store, scanning, scanned, outcomes>>

------------------------------------------------------------------------------
Top == frames[Len(frames)]

\* resolve_string_text stands before a character, with no escape half read.
Resolving == frames # <<>> /\ ~scanning
At(class) == Resolving /\ Has(Top.text, Top.index, class)

\* The loop goes on at next, with more bytes in the buffer.
Advanced(f, next, bytes) ==
  [text |-> f.text, index |-> next, buffer |-> f.buffer \o bytes, base |-> f.base]

GoOn(next, bytes) ==
  frames' = [frames EXCEPT ![Len(frames)] = Advanced(Top, next, bytes)]

SameWord == UNCHANGED <<test, phase, store, outcomes>>
SameEscape == UNCHANGED <<scanning, scanned>>

CopyCharacter ==
  /\ At(Character \ {Backslash, Dollar})
  /\ GoOn(Top.index + 1, <<Top.text[Top.index]>>)
  /\ SameWord /\ SameEscape

\* A backslash or a dollar at the end of the text stands for itself.
CopyLast ==
  /\ At({Backslash, Dollar})
  /\ Top.index = Len(Top.text)
  /\ GoOn(Top.index + 1, <<Top.text[Top.index]>>)
  /\ SameWord /\ SameEscape

\* What stands behind the backslash: no line end, as parse_script has joined
\* all lines that a backslash ends.
Escaped == Top.text[Top.index + 1]

BeginEscape ==
  /\ At({Backslash})
  /\ Top.index < Len(Top.text)
  /\ scanning' = TRUE
  /\ scanned' = NoDigits
  /\ UNCHANGED frames
  /\ SameWord

MoreDigits ==
  TakesDigit(Top.text, DigitsAt(Escaped, Top.index), DigitRule(Escaped), scanned)

ScanDigit ==
  /\ scanning
  /\ MoreDigits
  /\ scanned' = TakeDigit(Top.text, DigitsAt(Escaped, Top.index), DigitRule(Escaped), scanned)
  /\ UNCHANGED <<frames, scanning>>
  /\ SameWord

EndEscape ==
  /\ scanning
  /\ ~MoreDigits
  /\ GoOn(Top.index + Consumed(Escaped, scanned), Output(Escaped, scanned))
  /\ scanning' = FALSE
  /\ UNCHANGED scanned
  /\ SameWord

------------------------------------------------------------------------------
\* The value of a variable is copied as it is; without a name it is a dollar.
Substitute(name, next) ==
  IF name = <<>> THEN GoOn(next, <<Dollar>>) /\ SameWord /\ SameEscape
  ELSE IF name \in DOMAIN store THEN GoOn(next, store[name]) /\ SameWord /\ SameEscape
  ELSE Fail("semantic")

AtReference == At({Dollar}) /\ Top.index < Len(Top.text)
InBraces == Top.text[Top.index + 1] = OpenBrace

\* A mutant of BracedReference: a name that never ends is taken.
BracedReferenceUnclosed ==
  /\ AtReference
  /\ InBraces
  /\ LET end == FirstIn(Top.text, Top.index + 2,
                        {k \in 1..Len(Top.text) : Top.text[k] = CloseBrace})
     IN Substitute(SubSeq(Top.text, Top.index + 2, end - 1), end + 1)

BracedReference ==
  /\ AtReference
  /\ InBraces
  /\ LET end == FirstIn(Top.text, Top.index + 2,
                        {k \in 1..Len(Top.text) : Top.text[k] = CloseBrace})
     IN IF end > Len(Top.text)
        THEN Fail("syntax")
        ELSE Substitute(SubSeq(Top.text, Top.index + 2, end - 1), end + 1)

\* Where the name ends that stands behind the dollar, and an index may begin.
BaseEnd == NameEnd(Top.text, Top.index + 1)
HasIndex == Has(Top.text, BaseEnd, {OpenParen})

NamedReference ==
  /\ AtReference
  /\ ~InBraces
  /\ ~HasIndex
  /\ Substitute(SubSeq(Top.text, Top.index + 1, BaseEnd - 1), BaseEnd)

\* A mutant of ElementReference: the whole reference is taken for its index.
ElementReferenceAgain ==
  /\ AtReference
  /\ ~InBraces
  /\ HasIndex
  /\ LET end == IndexEnd(Top.text, BaseEnd + 1)
     IN IF end > Len(Top.text)
        THEN Fail("syntax")
        ELSE /\ frames' = Append([frames EXCEPT ![Len(frames)] = Advanced(Top, end + 1, <<>>)],
                                 Entered(SubSeq(Top.text, Top.index, end),
                                         SubSeq(Top.text, Top.index + 1, BaseEnd - 1)))
             /\ SameWord /\ SameEscape

\* resolve_string_text is called for the index.
ElementReference ==
  /\ AtReference
  /\ ~InBraces
  /\ HasIndex
  /\ LET end == IndexEnd(Top.text, BaseEnd + 1)
     IN IF end > Len(Top.text)
        THEN Fail("syntax")
        ELSE /\ frames' = Append([frames EXCEPT ![Len(frames)] = Advanced(Top, end + 1, <<>>)],
                                 Entered(SubSeq(Top.text, BaseEnd + 1, end - 1),
                                         SubSeq(Top.text, Top.index + 1, BaseEnd - 1)))
             /\ SameWord /\ SameEscape

AtEnd == Resolving /\ Top.index > Len(Top.text)

\* The index has a value, and the caller a name.
EndIndex ==
  /\ AtEnd
  /\ Len(frames) > 1
  /\ LET name == Top.base \o <<OpenParen>> \o CString(Top.buffer) \o <<CloseParen>>
         caller == Len(frames) - 1
     IN IF name \in DOMAIN store
        THEN /\ frames' = [SubSeq(frames, 1, caller) EXCEPT
                          ![caller] = Advanced(@, @.index, store[name])]
             /\ SameWord /\ SameEscape
        ELSE Fail("semantic")

EndText ==
  /\ AtEnd
  /\ Len(frames) = 1
  /\ Finish(CString(Top.buffer))

\* An allocation fails: a buffer does not grow, or a name is not copied.
OutOfMemory ==
  /\ phase # "done"
  /\ ~scanning
  /\ Fail("system")

Done == phase = "done" /\ UNCHANGED vars

Next ==
  \/ CopyBraced
  \/ ReadBraced
  \/ BeginText
  \/ CopyCharacter
  \/ CopyLast
  \/ BeginEscape
  \/ ScanDigit
  \/ EndEscape
  \/ BracedReference
  \/ NamedReference
  \/ ElementReference
  \/ EndIndex
  \/ EndText
  \/ OutOfMemory
  \/ Done

Spec == Init /\ [][Next]_vars

==============================================================================
