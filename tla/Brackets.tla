------------------------------ MODULE Brackets ------------------------------
(***************************************************************************)
(* One unquoted word of a script, seen twice.  First the lexer's           *)
(* scan_unquoted_word reads it character by character and decides where it *)
(* ends, keeping blanks that lie inside [ ].  Later the validator walks    *)
(* over the text of that word (validate_command_substitutions_in_text) and *)
(* looks for the end of every [ with find_matching_bracket, whose rules    *)
(* are written down a second time and differ inside quotes.                *)
(*                                                                         *)
(* Characters are abstracted to what the two scanners tell apart.  Plain   *)
(* stands for every ordinary character and Blank for every delimiter       *)
(* (space, tab, line end, semicolon).                                      *)
(***************************************************************************)
EXTENDS BracketState, Sequences

CONSTANT MaxLen   \* the longest word that is scanned (bound)

ASSUME MaxLenAssumption == MaxLen \in Nat

Chars == {"plain", "blank", "backslash", "quote", "openBrace", "closeBrace", "openBracket", "closeBracket"}

VARIABLES
  phase,      \* "scan" (lexer), "text" and "match" (validator), "done"
  word,       \* the characters of the word so far
  trail,      \* auxiliary: the lexer's bracket state before each character
              \* of word and, last, its current state
  lexError,   \* the lexer has recorded "unterminated command substitution"
  index,      \* the validator's position in word
  escaped,    \* its escape flag outside brackets
  open,       \* where the bracket stands whose end is looked for
  match,      \* the state of find_matching_bracket
  verdict     \* what became of the word

vars == <<phase, word, trail, lexError, index, escaped, open, match, verdict>>

\* The flags in_quote and escaped are ints, as in the code.
ScannerState == [bracket : Nat, brace : Nat, quote : {0, 1}, escaped : {0, 1}]

Verdicts == {"none", "accepted", "unterminated", "rejected", "outOfMemory"}

------------------------------------------------------------------------------
Init ==
  /\ phase = "scan"
  /\ word = <<>>
  /\ trail = <<Start>>
  /\ lexError = FALSE
  /\ index = 1
  /\ escaped = 0
  /\ open = 1
  /\ match = Start
  /\ verdict = "none"

Current == trail[Len(trail)]

\* The flex pattern that starts an unquoted word.
StartsWord(c) == c \notin {"blank", "quote", "openBrace", "closeBrace"}

\* is_word_delimiter outside brackets, not escaped.
EndsWord(c) == c = "blank" /\ Current.bracket = 0 /\ Current.escaped = 0

\* scan_unquoted_word appends a character; at the bound only the line end that
\* closes every script is left to read.
ScanCharacter(c) ==
  /\ phase = "scan"
  /\ word = <<>> => StartsWord(c)
  /\ ~EndsWord(c)
  /\ Len(word) < MaxLen \/ c = "blank"
  /\ Len(word) <= MaxLen
  /\ word' = Append(word, c)
  /\ trail' = Append(trail, UpdateBracketState(Current, c))
  /\ UNCHANGED <<phase, lexError, index, escaped, open, match, verdict>>

\* A delimiter that belongs to the next token is pushed back.
ScanDelimiter ==
  /\ phase = "scan"
  /\ word # <<>>
  /\ EndsWord("blank")
  /\ phase' = "text"
  /\ UNCHANGED <<word, trail, lexError, index, escaped, open, match, verdict>>

\* The input ends.  Its last character is the line end that preprocess_script
\* appends, so that character has just been taken into the word.  With an open
\* bracket the error is recorded and the token is still returned; without one
\* the caller takes the missing token for an allocation failure.
ScanEndOfInput ==
  /\ phase = "scan"
  /\ word # <<>>
  /\ word[Len(word)] = "blank"
  /\ IF Current.bracket > 0
     THEN /\ lexError' = TRUE
          /\ phase' = "text"
          /\ UNCHANGED verdict
     ELSE /\ verdict' = "outOfMemory"
          /\ phase' = "done"
          /\ UNCHANGED lexError
  /\ UNCHANGED <<word, trail, index, escaped, open, match>>

\* The walk of validate_command_substitutions_in_text outside brackets.
WalkText ==
  /\ phase = "text"
  /\ index <= Len(word)
  /\ index' = index + 1
  /\ IF escaped = 0 /\ word[index] = "openBracket"
     THEN /\ phase' = "match"
          /\ open' = index
          /\ match' = Opened
          /\ UNCHANGED escaped
     ELSE /\ escaped' = Flag(escaped = 0 /\ word[index] = "backslash")
          /\ UNCHANGED <<phase, open, match>>
  /\ UNCHANGED <<word, trail, lexError, verdict>>

\* A mutant of WalkMatch: an escaped character is not stepped over.
WalkMatchStuck ==
  /\ phase = "match"
  /\ index <= Len(word)
  /\ match' = MatchStep(match, word[index])
  /\ match'.bracket > 0
  /\ index' = IF word[index] = "backslash" THEN index ELSE index + 1
  /\ UNCHANGED <<phase, word, trail, lexError, escaped, open, verdict>>

\* find_matching_bracket looks at one more character ...
WalkMatch ==
  /\ phase = "match"
  /\ index <= Len(word)
  /\ match' = MatchStep(match, word[index])
  /\ match'.bracket > 0
  /\ index' = index + 1
  /\ UNCHANGED <<phase, word, trail, lexError, escaped, open, verdict>>

\* The text between the brackets starts with a closing brace or with a quote that
\* is never closed: the lexer rejects that text ("invalid token", "unterminated
\* quoted string").  Further words may be part of a comment.
HasBadToken(first, last) ==
  \E i \in first..last :
    /\ \A j \in first..(i - 1) : word[j] = "blank"
    /\ \/ word[i] = "closeBrace"
       \/ word[i] = "quote" /\ \A j \in (i + 1)..last : word[j] # "quote"

\* ... and finds the end of the substitution.  The text between the brackets
\* is validated as a script of its own, which may accept or reject it.
WalkMatched ==
  /\ phase = "match"
  /\ index <= Len(word)
  /\ match' = MatchStep(match, word[index])
  /\ match'.bracket = 0
  /\ index' = index + 1
  /\ \/ /\ ~HasBadToken(open + 1, index - 1)
        /\ phase' = "text"
        /\ UNCHANGED verdict
     \/ /\ phase' = "done"
        /\ verdict' = "rejected"
  /\ UNCHANGED <<word, trail, lexError, escaped, open>>

WalkTextEnd ==
  /\ phase = "text"
  /\ index > Len(word)
  /\ phase' = "done"
  /\ verdict' = "accepted"
  /\ UNCHANGED <<word, trail, lexError, index, escaped, open, match>>

WalkMatchEnd ==
  /\ phase = "match"
  /\ index > Len(word)
  /\ phase' = "done"
  /\ verdict' = "unterminated"
  /\ UNCHANGED <<word, trail, lexError, index, escaped, open, match>>

Done == phase = "done" /\ UNCHANGED vars

Next ==
  \/ \E c \in Chars : ScanCharacter(c)
  \/ ScanDelimiter
  \/ ScanEndOfInput
  \/ WalkText
  \/ WalkMatch
  \/ WalkMatched
  \/ WalkTextEnd
  \/ WalkMatchEnd
  \/ Done

Spec == Init /\ [][Next]_vars

\* The program is a single thread: it keeps running until the word is done.
FairSpec == Spec /\ WF_vars(Next)

------------------------------------------------------------------------------
HasQuote == \E i \in 1..Len(word) : word[i] = "quote"

TypeOK ==
  /\ phase \in {"scan", "text", "match", "done"}
  /\ word \in Seq(Chars)
  /\ trail \in Seq(ScannerState)
  /\ lexError \in BOOLEAN
  /\ index \in Nat \ {0}
  /\ escaped \in {0, 1}
  /\ open \in Nat \ {0}
  /\ match \in ScannerState
  /\ verdict \in Verdicts

\* Outside brackets the lexer counts no brace and remembers no quote, so the
\* word can always end: update_bracket_state never closes the last bracket
\* from within a brace or a quote.
OutsideIsClean ==
  \A i \in 1..Len(trail) :
    trail[i].bracket = 0 => trail[i].brace = 0 /\ trail[i].quote = 0

\* The two scanners are in the same state at every character ...
StatesAgree ==
  ~HasQuote =>
    /\ phase = "text" => /\ trail[index].bracket = 0
                         /\ trail[index].escaped = escaped
    /\ phase = "match" => trail[index] = match

\* ... and the validator reports a missing bracket exactly when the lexer did.
AgreeOnTermination ==
  ~HasQuote =>
    /\ verdict = "accepted" => ~lexError
    /\ verdict = "unterminated" => lexError

\* In a word without quotes the validator hands out exactly the substitutions
\* the lexer saw: the error the lexer leaves behind is never lost, and a word
\* that the lexer closed is never called unterminated.
ScannersAgree == StatesAgree /\ AgreeOnTermination

\* The comment in scan_unquoted_word: an unterminated substitution is left to
\* the validator, which reports a syntax error.
UnterminatedIsReported == lexError => verdict # "accepted"

\* Every character is looked at a bounded number of times.
WordIsDecided == <>(phase = "done")

==============================================================================
