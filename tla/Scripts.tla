-------------------------------- MODULE Scripts --------------------------------
(***************************************************************************)
(* Scripts are parsed one after the other: the program's own and those     *)
(* nested in its words.  A parse is parse_script, which prepares the text  *)
(* and drives the lexer and the grammar; both keep their state in static   *)
(* variables.  The grammar only collects words to commands, so it is part  *)
(* of the action of each pattern of the lexer.                             *)
(***************************************************************************)
EXTENDS LexerRules

CONSTANTS
  Sessions,   \* the sequences of scripts that are parsed
  Origin      \* the line and column of the first character of a script

ASSUME SessionsAssumption == Sessions \subseteq Seq(Seq(Chars))
ASSUME OriginAssumption == Origin \in [line : Nat \ {0}, column : Nat \ {0}]

VARIABLES
  session,    \* the scripts that are still to be parsed, the current one first
  mode,       \* "scan", then "failed" or "parsed" before the return; "idle", or
              \* "refused" if the caller takes what was returned for a failure
  text,       \* the prepared script
  next,       \* the character that the lexer reads next
  condition,  \* its start condition
  at,         \* its line and column
  braces,     \* s_braced_depth
  buffer,     \* s_braced_buffer
  opened,     \* where the braced word began: position and place
  prefix,     \* an expansion prefix that waits for its word, or none: its place
  words,      \* the words of the current command
  program,    \* the static list of commands
  error,      \* the record of the first error, which all parses share
  left,       \* auxiliary: what was in it when this parse began
  faulted,    \* auxiliary: an allocation failed in this parse
  results     \* auxiliary: what parse_script returned so far

lexer == <<next, condition, at, braces, buffer, opened>>
grammar == <<prefix, words, program>>
vars == <<session, mode, text, lexer, grammar, error, left, faulted, results>>

NoPlace == [position |-> 0, at |-> [line |-> 0, column |-> 0]]

\* tcl_error_set keeps the first error.
First(kind) == IF error = "none" THEN kind ELSE error

Init ==
  /\ session \in Sessions
  /\ mode = "idle"
  /\ text = <<>>
  /\ next = 1
  /\ condition = "INITIAL"
  /\ at = [line |-> 1, column |-> 1]
  /\ braces = 0
  /\ buffer = <<>>
  /\ opened = NoPlace
  /\ prefix = <<>>
  /\ words = <<>>
  /\ program = <<>>
  /\ error = "none"
  /\ left = "none"
  /\ faulted = FALSE
  /\ results = {}

------------------------------------------------------------------------------
\* A mutant of ParseScript: lexer_reset_state forgets the start condition.
ParseScriptKeepsCondition ==
  /\ mode = "idle"
  /\ session # <<>>
  /\ mode' = "scan"
  /\ text' = Preprocess(Head(session))
  /\ next' = 1
  /\ condition' = IF results = {} THEN "CMDSTART" ELSE condition
  /\ at' = Origin
  /\ braces' = 0
  /\ buffer' = <<>>
  /\ opened' = opened
  /\ prefix' = <<>>
  /\ words' = <<>>
  /\ program' = <<>>
  /\ left' = error
  /\ faulted' = FALSE
  /\ UNCHANGED <<session, error, results>>

\* parse_script begins.  Lexer and grammar are reset, the error record is not: a
\* parse that succeeded may have left an error there.
ParseScript ==
  /\ mode = "idle"
  /\ session # <<>>
  /\ mode' = "scan"
  /\ text' = Preprocess(Head(session))
  /\ next' = 1
  /\ condition' = "CMDSTART"
  /\ at' = Origin
  /\ braces' = 0
  /\ buffer' = <<>>
  /\ opened' = opened
  /\ prefix' = <<>>
  /\ words' = <<>>
  /\ program' = <<>>
  /\ left' = error
  /\ faulted' = FALSE
  /\ UNCHANGED <<session, error, results>>

\* The lexer moves on, in a start condition.
MovesTo(position, place, newCondition) ==
  /\ next' = position
  /\ at' = place
  /\ condition' = newCondition

SameBraces == UNCHANGED <<braces, buffer, opened>>
SameGrammar == UNCHANGED <<prefix, words, program, error, mode>>
SameScript == UNCHANGED <<session, text, left, faulted, results>>

\* The lexer is about to match a token that begins with a character of a class.
Matches(class) == mode = "scan" /\ condition # "BRACED_STATE" /\ Has(text, next, class)

\* A mutant of Refuse: a token that is no word has no message.
RefuseSilently(kind) ==
  /\ error' = IF kind = "lexical" THEN error ELSE First(kind)
  /\ mode' = "failed"
  /\ UNCHANGED <<prefix, words, program>>

\* INVALID, or a token the grammar has no use for: yyparse gives up.
Refuse(kind) ==
  /\ error' = First(kind)
  /\ mode' = "failed"
  /\ UNCHANGED <<prefix, words, program>>

\* ast_word_append behind the last word of the command, and ast_command_append at
\* the tail of the program.
WordAppended(word) == Append(words, word)
CommandAppended == Append(program, words)

\* The grammar takes a word, from a position and place to the lexer's new one.
TakeWord(kind, first, contents) ==
  LET expanded == prefix # <<>>
      start == IF expanded THEN Head(prefix) ELSE first
  IN /\ words' = WordAppended([kind |-> kind, expanded |-> expanded, contents |-> contents,
                                from |-> start.position, at |-> start.at,
                                to |-> next' - 1,
                                end |-> [at' EXCEPT !.column = IF @ > 1 THEN @ - 1 ELSE @]])
     /\ prefix' = <<>>
     /\ UNCHANGED <<program, mode>>

Here == [position |-> next, at |-> at]

\* CMDSEP or the end: the words are a command, and a prefix lacks its word.
EndCommand(newMode) ==
  IF prefix # <<>>
  THEN Refuse("syntax")
  ELSE /\ program' = IF words = <<>> THEN program ELSE CommandAppended
       /\ words' = <<>>
       /\ mode' = newMode
       /\ UNCHANGED <<prefix, error>>

------------------------------------------------------------------------------
Blanks ==
  /\ Matches({"blank"})
  /\ LET end == RunEnd(text, next, {"blank"})
     IN MovesTo(end, AdvanceColumns(at, next, end), condition)
  /\ SameBraces /\ SameGrammar /\ SameScript

\* A mutant of Comment: a comment may begin at any word.
CommentAnywhere ==
  /\ Matches({"hash"})
  /\ LET end == Before(text, next, LineEnds)
     IN MovesTo(end, AdvanceColumns(at, next, end), condition)
  /\ SameBraces /\ SameGrammar /\ SameScript

Comment ==
  /\ Matches({"hash"})
  /\ condition = "CMDSTART"
  /\ LET end == Before(text, next, LineEnds)
     IN MovesTo(end, AdvanceColumns(at, next, end), condition)
  /\ SameBraces /\ SameGrammar /\ SameScript

\* A mutant of Semicolons: the next word is not the first one of a command.
SemicolonsInCommand ==
  /\ Matches({"semicolon"})
  /\ LET end == RunEnd(text, next, {"semicolon"})
     IN MovesTo(end, AdvanceColumns(at, next, end), "INITIAL")
  /\ EndCommand("scan")
  /\ SameBraces /\ SameScript

Semicolons ==
  /\ Matches({"semicolon"})
  /\ LET end == RunEnd(text, next, {"semicolon"})
     IN MovesTo(end, AdvanceColumns(at, next, end), "CMDSTART")
  /\ EndCommand("scan")
  /\ SameBraces /\ SameScript

Lines ==
  /\ Matches(LineEnds)
  /\ LET end == RunEnd(text, next, LineEnds)
     IN MovesTo(end, AdvanceLines(at, text, next, end), "CMDSTART")
  /\ EndCommand("scan")
  /\ SameBraces /\ SameScript

Quoted ==
  /\ Matches({"quote"})
  /\ LET end == QuotedEnd(text, next)
     IN /\ end # 0
        /\ MovesTo(end, AdvanceColumns(at, next, end), "INITIAL")
        /\ TakeWord("quoted", Here, SubSeq(text, next + 1, end - 2))
  /\ UNCHANGED error
  /\ SameBraces /\ SameScript

\* What the match took of an unterminated quote does not matter any more.
UnterminatedQuote ==
  /\ Matches({"quote"})
  /\ QuotedEnd(text, next) = 0
  /\ Refuse("lexical")
  /\ UNCHANGED lexer
  /\ SameScript

IsExpand == /\ Matches({"openBrace"})
            /\ Has(text, next + 1, {"star"})
            /\ Has(text, next + 2, {"closeBrace"})

\* {*} is a word if nothing follows it, and else the prefix of one.
Expand ==
  /\ IsExpand
  /\ MovesTo(next + 3, AdvanceColumns(at, next, next + 3), "INITIAL")
  /\ IF prefix # <<>> THEN Refuse("syntax")
     ELSE IF Has(text, next + 3, Delimiters)
     THEN TakeWord("expandEmpty", Here, <<>>) /\ UNCHANGED error
     ELSE prefix' = <<Here>> /\ UNCHANGED <<words, program, error, mode>>
  /\ SameBraces /\ SameScript

Variable ==
  /\ Matches({"dollar"})
  /\ LET end == VariableEnd(text, next)
     IN /\ end # 0
        /\ MovesTo(end, AdvanceColumns(at, next, end), "INITIAL")
        /\ TakeWord("var", Here, SubSeq(text, next + 1, end - 1))
  /\ UNCHANGED error
  /\ SameBraces /\ SameScript

BracedVariable ==
  /\ Matches({"dollar"})
  /\ LET end == BracedVariableEnd(text, next)
     IN /\ end # 0
        /\ Has(text, end, WordStops)
        /\ MovesTo(end, AdvanceColumns(at, next, end), "INITIAL")
        /\ TakeWord("varBraced", Here, SubSeq(text, next + 2, end - 2))
  /\ UNCHANGED error
  /\ SameBraces /\ SameScript

\* What the pattern of an unquoted word takes, and a braced variable with text
\* behind it.
UnquotedPattern ==
  LET variable == IF text[next] = "dollar" THEN BracedVariableEnd(text, next) ELSE 0
  IN Before(text, IF variable = 0 THEN next ELSE variable, WordStops)

IsUnquoted ==
  /\ Matches(Chars \ WordStops)
  /\ ~(text[next] = "hash" /\ condition = "CMDSTART")
  /\ text[next] = "dollar" =>
       /\ VariableEnd(text, next) = 0
       /\ LET end == BracedVariableEnd(text, next) IN end # 0 => ~Has(text, end, WordStops)

\* A mutant of Unquoted: the lines in brackets are not counted.
UnquotedInLine ==
  /\ IsUnquoted
  /\ LET word == UnquotedWord(text, next, UnquotedPattern)
         taken == word.delimited \/ word.open
     IN /\ MovesTo(word.end, AdvanceColumns(at, next, word.end),
                   IF taken THEN "INITIAL" ELSE condition)
        /\ IF taken
           THEN /\ TakeWord("string", Here, SubSeq(text, next, word.end - 1))
                /\ error' = IF word.delimited THEN error ELSE First("syntax")
           ELSE Refuse("system")
  /\ SameBraces /\ SameScript

\* scan_unquoted_word; a word that never ends is taken for lack of memory.
Unquoted ==
  /\ IsUnquoted
  /\ LET word == UnquotedWord(text, next, UnquotedPattern)
         taken == word.delimited \/ word.open
     IN /\ MovesTo(word.end, AdvanceOver(at, text, next, word.end),
                   IF taken THEN "INITIAL" ELSE condition)
        /\ IF taken
           THEN /\ TakeWord("string", Here, SubSeq(text, next, word.end - 1))
                /\ error' = IF word.delimited THEN error ELSE First("syntax")
           ELSE Refuse("system")
  /\ SameBraces /\ SameScript

InvalidToken ==
  /\ Matches({"closeBrace"})
  /\ Refuse("lexical")
  /\ UNCHANGED lexer
  /\ SameScript

------------------------------------------------------------------------------
OpenBracedWord ==
  /\ Matches({"openBrace"})
  /\ ~IsExpand
  /\ MovesTo(next + 1, AdvanceColumns(at, next, next + 1), "BRACED_STATE")
  /\ braces' = 1
  /\ buffer' = <<>>
  /\ opened' = Here
  /\ SameGrammar /\ SameScript

InBraces == mode = "scan" /\ condition = "BRACED_STATE"

\* braced_append of the characters before end.
Keep(end) ==
  /\ buffer' = buffer \o SubSeq(text, next, end - 1)
  /\ UNCHANGED opened
  /\ SameGrammar /\ SameScript

KeepColumns(end) ==
  /\ MovesTo(end, AdvanceColumns(at, next, end), condition)
  /\ Keep(end)

BracedEscape ==
  /\ InBraces
  /\ Has(text, next, {"backslash"})
  /\ KeepColumns(IF Has(text, next + 1, Chars \ LineEnds) THEN next + 2 ELSE next + 1)
  /\ UNCHANGED braces

BracedOpen ==
  /\ InBraces
  /\ Has(text, next, {"openBrace"})
  /\ KeepColumns(next + 1)
  /\ braces' = braces + 1

BracedText ==
  /\ InBraces
  /\ Has(text, next, Chars \ ({"backslash", "openBrace", "closeBrace"} \union LineEnds))
  /\ KeepColumns(Before(text, next, {"backslash", "openBrace", "closeBrace"} \union LineEnds))
  /\ UNCHANGED braces

BracedLines ==
  /\ InBraces
  /\ Has(text, next, LineEnds)
  /\ LET end == RunEnd(text, next, LineEnds)
     IN MovesTo(end, AdvanceLines(at, text, next, end), condition) /\ Keep(end)
  /\ UNCHANGED braces

\* A mutant of BracedClose: the last brace is like the others.
BracedCloseAny ==
  /\ InBraces
  /\ Has(text, next, {"closeBrace"})
  /\ KeepColumns(next + 1)
  /\ braces' = braces - 1

BracedClose ==
  /\ InBraces
  /\ Has(text, next, {"closeBrace"})
  /\ braces > 1
  /\ KeepColumns(next + 1)
  /\ braces' = braces - 1

BracedWord ==
  /\ InBraces
  /\ Has(text, next, {"closeBrace"})
  /\ braces = 1
  /\ MovesTo(next + 1, AdvanceColumns(at, next, next + 1), "INITIAL")
  /\ TakeWord("braced", opened, buffer)
  /\ braces' = 0
  /\ buffer' = <<>>
  /\ UNCHANGED <<opened, error>>
  /\ SameScript

UnterminatedBrace ==
  /\ InBraces
  /\ next > Len(text)
  /\ MovesTo(next, at, "INITIAL")
  /\ braces' = 0
  /\ buffer' = <<>>
  /\ Refuse("lexical")
  /\ UNCHANGED opened
  /\ SameScript

------------------------------------------------------------------------------
EndOfInput ==
  /\ mode = "scan"
  /\ condition # "BRACED_STATE"
  /\ next > Len(text)
  /\ EndCommand("parsed")
  /\ UNCHANGED lexer
  /\ SameScript

\* An allocation of the lexer or the grammar fails: a word, a command, or the
\* buffer of a braced word, which is given up in its start condition.
OutOfMemory ==
  /\ mode = "scan"
  /\ next <= Len(text)
  /\ Refuse("system")
  /\ \E c \in {condition, "INITIAL"} : MovesTo(next, at, c)
  /\ IF InBraces THEN braces' = 0 /\ buffer' = <<>> ELSE UNCHANGED <<braces, buffer>>
  /\ faulted' = TRUE
  /\ UNCHANGED <<opened, session, text, left, results>>

\* The caller takes it for a failure that no commands come back, if there is an error.
TakenForFailure(commands) == commands = <<>> /\ error # "none"

\* parse_script returns the commands, or frees those it has.
ReturnProgram ==
  /\ mode \in {"parsed", "failed"}
  /\ LET commands == IF mode = "parsed" THEN program ELSE <<>>
     IN /\ results' = results \union {[script |-> Head(session), left |-> left, faulted |-> faulted,
                                       error |-> error, program |-> commands]}
        /\ mode' = IF TakenForFailure(commands) THEN "refused" ELSE "idle"
  /\ session' = Tail(session)
  /\ program' = <<>>
  /\ UNCHANGED <<text, lexer, prefix, words, error, left, faulted>>

\* The failure of an expression is forgiven: that of a script in it that was
\* refused, or another behind scripts that were not.  The error is cleared, whose
\* ever it is.
Forgive ==
  /\ mode \in {"idle", "refused"}
  /\ error # "none"
  /\ error' = "none"
  /\ mode' = "idle"
  /\ UNCHANGED <<session, text, lexer, grammar, left, faulted, results>>

AllParsed == mode = "idle" /\ session = <<>> /\ UNCHANGED vars

Next ==
  \/ ParseScript
  \/ Blanks
  \/ Comment
  \/ Semicolons
  \/ Lines
  \/ Quoted
  \/ UnterminatedQuote
  \/ Expand
  \/ Variable
  \/ BracedVariable
  \/ Unquoted
  \/ InvalidToken
  \/ OpenBracedWord
  \/ BracedEscape
  \/ BracedOpen
  \/ BracedText
  \/ BracedLines
  \/ BracedClose
  \/ BracedWord
  \/ UnterminatedBrace
  \/ EndOfInput
  \/ OutOfMemory
  \/ ReturnProgram
  \/ Forgive
  \/ AllParsed

Spec == Init /\ [][Next]_vars

==============================================================================
