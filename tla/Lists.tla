-------------------------------- MODULE Lists --------------------------------
(***************************************************************************)
(* A text split into the items of a Tcl list.  The program has two parsers *)
(* for that, written separately: the executor splits the value of a {*}    *)
(* word (split_list_for_expansion) and decodes escapes; the validator      *)
(* splits literal variable lists, argument lists and switch cases          *)
(* (validator_parse_list_item) and only drops backslashes.  Here one text  *)
(* is split by both, one after the other.                                  *)
(*                                                                         *)
(* An item is built in a buffer whose size is fixed when the item begins.  *)
(***************************************************************************)
EXTENDS Escapes

CONSTANT Texts   \* the texts to split; as C strings they hold no byte 0

ASSUME TextsAssumption == Texts \subseteq Seq(Character)

Readers == {"executor", "validator"}

VARIABLES
  text,      \* the text that is split
  reader,    \* whose parser is running
  mode,      \* where it is: between items or in one of the three kinds
  index,     \* the next character to read
  start,     \* the first character of the item's contents
  depth,     \* open braces of a braced item
  scanning,  \* the digits of an escape are being read ...
  scanned,   \* ... and what they are so far
  joining,   \* the blanks after an escaped line end are being skipped
  capacity,  \* the size of the item's buffer
  buffer,    \* what was written to it
  items,     \* the items each reader found
  verdict    \* what became of the list for each reader

vars == <<text, reader, mode, index, start, depth, scanning, scanned, joining, capacity,
          buffer, items, verdict>>

Item == [first : Nat, next : Nat, value : Seq(Byte)]

------------------------------------------------------------------------------
\* isspace in the C locale
IsSpace(c) == c \in 9..13 \union {Space}

Quote == 34

AtEnd == index > Len(text)
Next1 == text[index]

Init ==
  /\ text \in Texts
  /\ reader = "executor"
  /\ mode = "between"
  /\ index = 1
  /\ start = 1
  /\ depth = 0
  /\ scanning = FALSE
  /\ scanned = NoDigits
  /\ joining = FALSE
  /\ capacity = 0
  /\ buffer = <<>>
  /\ items = [r \in Readers |-> <<>>]
  /\ verdict = [r \in Readers |-> "none"]

------------------------------------------------------------------------------
SkipSpace ==
  /\ mode = "between"
  /\ ~AtEnd
  /\ IsSpace(Next1)
  /\ index' = index + 1
  /\ UNCHANGED <<text, reader, mode, start, depth, scanning, scanned, joining, capacity, buffer, items, verdict>>

\* A mutant of BeginItem: no room for the terminator.
BeginItemShort ==
  /\ mode = "between"
  /\ ~AtEnd
  /\ ~IsSpace(Next1)
  /\ mode' = CASE Next1 = OpenBrace -> "braced" [] Next1 = Quote -> "quoted"
               [] OTHER -> "unquoted"
  /\ start' = IF mode' = "unquoted" THEN index ELSE index + 1
  /\ index' = start'
  /\ depth' = IF mode' = "braced" THEN 1 ELSE 0
  /\ capacity' = Len(text) - start' + 1
  /\ buffer' = <<>>
  /\ UNCHANGED <<text, reader, scanning, scanned, joining, items, verdict>>

\* The kind of an item is told by its first character.  The buffer has room
\* for the rest of the text and a terminator; a braced item is copied at its end.
BeginItem ==
  /\ mode = "between"
  /\ ~AtEnd
  /\ ~IsSpace(Next1)
  /\ mode' = CASE Next1 = OpenBrace -> "braced" [] Next1 = Quote -> "quoted"
               [] OTHER -> "unquoted"
  /\ start' = IF mode' = "unquoted" THEN index ELSE index + 1
  /\ index' = start'
  /\ depth' = IF mode' = "braced" THEN 1 ELSE 0
  /\ capacity' = Len(text) - start' + 2
  /\ buffer' = <<>>
  /\ UNCHANGED <<text, reader, scanning, scanned, joining, items, verdict>>

\* The parser returns an item and is called again.
EndItem(next, value) ==
  /\ items' = [items EXCEPT ![reader] =
                 Append(@, [first |-> start, next |-> next, value |-> CString(value)])]
  /\ mode' = "between"
  /\ index' = next
  /\ joining' = FALSE
  /\ UNCHANGED <<text, reader, start, depth, scanning, scanned, capacity, buffer, verdict>>

\* A list ends; then the validator's parser is given the same text.
EndList(outcome) ==
  /\ verdict' = [verdict EXCEPT ![reader] = outcome]
  /\ mode' = IF reader = "executor" THEN "between" ELSE "done"
  /\ reader' = "validator"
  /\ index' = 1
  /\ joining' = FALSE
  /\ UNCHANGED <<text, start, depth, scanning, scanned, capacity, buffer, items>>

ListEnds == mode = "between" /\ AtEnd /\ EndList("ok")

\* A brace or a quote is open at the end of the text.
ListIsMalformed ==
  /\ mode \in {"braced", "quoted"}
  /\ ~scanning
  /\ AtEnd
  /\ EndList("malformed")

BracedUnchanged ==
  UNCHANGED <<text, reader, mode, start, scanning, scanned, joining, capacity, buffer, items,
              verdict>>

\* A mutant of BracedCharacter: a backslash is stepped over with what follows
\* even at the end of the text.
BracedEscapeAnywhere ==
  /\ mode = "braced"
  /\ ~AtEnd
  /\ ~(Next1 = CloseBrace /\ depth = 1)
  /\ index' = IF Next1 = Backslash THEN index + 2 ELSE index + 1
  /\ depth' = CASE Next1 = OpenBrace -> depth + 1
                [] Next1 = CloseBrace -> depth - 1
                [] OTHER -> depth
  /\ BracedUnchanged

\* parse_list_braced_item: what a backslash stands before is stepped over.
BracedCharacter ==
  /\ mode = "braced"
  /\ ~AtEnd
  /\ ~(Next1 = CloseBrace /\ depth = 1)
  /\ IF Next1 = Backslash /\ index < Len(text)
     THEN index' = index + 2 /\ UNCHANGED depth
     ELSE /\ index' = index + 1
          /\ depth' = CASE Next1 = OpenBrace -> depth + 1
                        [] Next1 = CloseBrace -> depth - 1
                        [] OTHER -> depth
  /\ BracedUnchanged

BracedEnds ==
  /\ mode = "braced"
  /\ ~AtEnd
  /\ Next1 = CloseBrace
  /\ depth = 1
  /\ EndItem(index + 1, SubSeq(text, start, index - 1))

------------------------------------------------------------------------------
\* The loops of the quoted and the unquoted items stand before a character,
\* with no escape half read.
Copying == mode \in {"quoted", "unquoted"} /\ ~scanning

\* Still inside the blanks that an escaped line end takes with it.
Joining == joining /\ ~AtEnd /\ JoinedBlank(Next1)

\* The item ends before this character.
ItemEnds ==
  IF AtEnd THEN mode = "unquoted"
  ELSE IF mode = "quoted" THEN Next1 = Quote ELSE IsSpace(Next1)

CopyUnchanged == UNCHANGED <<text, reader, mode, start, depth, capacity, items, verdict>>

\* A mutant of JoinBlank: the blank is not stepped over.
JoinBlankStuck ==
  /\ Copying
  /\ Joining
  /\ CopyUnchanged
  /\ UNCHANGED <<index, scanning, scanned, joining, buffer>>

JoinBlank ==
  /\ Copying
  /\ Joining
  /\ index' = index + 1
  /\ CopyUnchanged
  /\ UNCHANGED <<scanning, scanned, joining, buffer>>

\* A mutant of CopyCharacter: the validator drops the backslash, but looks at
\* the character after it again.
CopyEscapedAgain ==
  /\ Copying
  /\ ~AtEnd /\ ~Joining /\ ~ItemEnds
  /\ \/ /\ Next1 # Backslash \/ index = Len(text)
        /\ buffer' = Append(buffer, Next1)
        /\ index' = index + 1
     \/ /\ Next1 = Backslash /\ index < Len(text) /\ reader = "validator"
        /\ buffer' = buffer
        /\ index' = index + 1
  /\ joining' = FALSE
  /\ CopyUnchanged
  /\ UNCHANGED <<scanning, scanned>>

\* A character is copied; the validator copies an escaped one without its
\* backslash.  A backslash at the end of the text stands for itself.
CopyCharacter ==
  /\ Copying
  /\ ~AtEnd /\ ~Joining /\ ~ItemEnds
  /\ \/ /\ Next1 # Backslash \/ index = Len(text)
        /\ buffer' = Append(buffer, Next1)
        /\ index' = index + 1
     \/ /\ Next1 = Backslash /\ index < Len(text) /\ reader = "validator"
        /\ buffer' = Append(buffer, text[index + 1])
        /\ index' = index + 2
  /\ joining' = FALSE
  /\ CopyUnchanged
  /\ UNCHANGED <<scanning, scanned>>

\* The executor stands before a whole escape.
AtEscape ==
  /\ Copying
  /\ ~AtEnd /\ ~Joining
  /\ reader = "executor"
  /\ Next1 = Backslash /\ index < Len(text)

JoinLine ==
  /\ AtEscape
  /\ IsLineEnd(text[index + 1])
  /\ buffer' = Append(buffer, Space)
  /\ index' = index + 1 + LineEndLength(text, index + 1)
  /\ joining' = TRUE
  /\ CopyUnchanged
  /\ UNCHANGED <<scanning, scanned>>

BeginEscape ==
  /\ AtEscape
  /\ ~IsLineEnd(text[index + 1])
  /\ scanning' = TRUE
  /\ scanned' = NoDigits
  /\ joining' = FALSE
  /\ CopyUnchanged
  /\ UNCHANGED <<index, buffer>>

\* The escape at index could take one more digit.
MoreDigits ==
  LET next == text[index + 1]
  IN TakesDigit(text, DigitsAt(next, index), DigitRule(next), scanned)

ScanDigit ==
  /\ scanning
  /\ MoreDigits
  /\ LET next == text[index + 1]
     IN scanned' = TakeDigit(text, DigitsAt(next, index), DigitRule(next), scanned)
  /\ CopyUnchanged
  /\ UNCHANGED <<index, scanning, joining, buffer>>

EndEscape ==
  /\ scanning
  /\ ~MoreDigits
  /\ buffer' = buffer \o Output(text[index + 1], scanned)
  /\ index' = index + Consumed(text[index + 1], scanned)
  /\ scanning' = FALSE
  /\ CopyUnchanged
  /\ UNCHANGED <<scanned, joining>>

\* The buffer is terminated and returned; a closing quote is stepped over.
CopyEnds ==
  /\ Copying
  /\ ~Joining
  /\ ItemEnds
  /\ EndItem(IF mode = "quoted" THEN index + 1 ELSE index, buffer)

Done == mode = "done" /\ UNCHANGED vars

Next ==
  \/ SkipSpace
  \/ BeginItem
  \/ ListEnds
  \/ ListIsMalformed
  \/ BracedCharacter
  \/ BracedEnds
  \/ JoinBlank
  \/ CopyCharacter
  \/ JoinLine
  \/ BeginEscape
  \/ ScanDigit
  \/ EndEscape
  \/ CopyEnds
  \/ Done

Spec == Init /\ [][Next]_vars

\* One thread: the parser keeps running until the list is split.
FairSpec == Spec /\ WF_vars(Next)

------------------------------------------------------------------------------
TypeOK ==
  /\ text \in Seq(Character)
  /\ reader \in Readers
  /\ mode \in {"between", "braced", "quoted", "unquoted", "done"}
  /\ index \in 1..(Len(text) + 1)
  /\ start \in 1..(Len(text) + 1)
  /\ depth \in Nat
  /\ scanning \in BOOLEAN
  /\ scanned \in Scanned
  /\ joining \in BOOLEAN
  /\ capacity \in Nat
  /\ buffer \in Seq(Byte)
  /\ items \in [Readers -> Seq(Item)]
  /\ verdict \in [Readers -> {"none", "ok", "malformed"}]

\* Neither parser writes behind its buffer, which never grows: what is written
\* and the terminator fit, whatever the escapes become.  (A Unicode escape is
\* replaced by up to four bytes.)
WritesFit == mode \in {"quoted", "unquoted"} => Len(buffer) + 1 <= capacity

\* The text contains a backslash before a line end.
HasContinuation ==
  \E i \in 1..(Len(text) - 1) : text[i] = Backslash /\ text[i + 1] \in {LineFeed, Return}

Bounds(list) == [i \in 1..Len(list) |-> <<list[i].first, list[i].next>>]

\* Both parsers cut every text at the same places and refuse the same texts,
\* although one of them takes several characters for one escape - unless a
\* continued line is in it, which only the executor joins.
SplitAlike ==
  mode = "done" /\ ~HasContinuation =>
    /\ verdict["executor"] = verdict["validator"]
    /\ Bounds(items["executor"]) = Bounds(items["validator"])

------------------------------------------------------------------------------
\* How many bytes the sequence has that starts with b, if one can start with it.
LeadLength(b) ==
  CASE b \in 0..127 -> 1 [] b \in 192..223 -> 2 [] b \in 224..239 -> 3
    [] b \in 240..247 -> 4 [] OTHER -> 0

\* The codepoint that the bytes of a sequence spell.
Spelled(bytes) ==
  CASE Len(bytes) = 1 -> bytes[1]
    [] Len(bytes) = 2 -> (bytes[1] - 192) * 64 + (bytes[2] - 128)
    [] Len(bytes) = 3 -> (bytes[1] - 224) * 4096 + (bytes[2] - 128) * 64 + (bytes[3] - 128)
    [] OTHER -> (bytes[1] - 240) * 262144 + (bytes[2] - 128) * 4096
                + (bytes[3] - 128) * 64 + (bytes[4] - 128)

\* The bytes are UTF-8: every lead byte is followed by as many continuation
\* bytes as it says, they spell a codepoint in its shortest form, and no
\* continuation byte stands alone.
IsUtf8(bytes) ==
  LET Continues(b) == b \in 128..191
  IN \A i \in 1..Len(bytes) :
       IF Continues(bytes[i])
       THEN \E k \in 1..3 : /\ i > k
                            /\ LeadLength(bytes[i - k]) > k
                            /\ \A j \in (i - k + 1)..i : Continues(bytes[j])
       ELSE LET last == i + LeadLength(bytes[i]) - 1
            IN /\ last \in i..Len(bytes)
               /\ \A j \in (i + 1)..last : Continues(bytes[j])
               /\ Spelled(SubSeq(bytes, i, last)) \notin Surrogates
               /\ EncodeUtf8(Spelled(SubSeq(bytes, i, last))) = SubSeq(bytes, i, last)

\* The items of an ASCII text are UTF-8, whatever codepoints its escapes name.
ItemsAreUtf8 ==
  (\A i \in 1..Len(text) : text[i] <= 127) =>
    \A i \in 1..Len(items["executor"]) : IsUtf8(items["executor"][i].value)

\* Every text is split: each turn takes a character, also after an escape.
ListIsSplit == <>(mode = "done")

==============================================================================
