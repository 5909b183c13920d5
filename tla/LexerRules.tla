------------------------------ MODULE LexerRules ------------------------------
(***************************************************************************)
(* The patterns of the lexer and what becomes of a script before the lexer *)
(* sees it.  Characters are abstracted to what the patterns tell apart: a  *)
(* letter stands for those of a name, other for all that mean nothing.     *)
(***************************************************************************)
EXTENDS Scanning, BracketState

Chars == {"letter", "other", "blank", "newline", "return", "semicolon", "hash", "quote",
          "openBrace", "closeBrace", "star", "backslash", "dollar", "openBracket",
          "closeBracket", "openParen", "closeParen"}

LineEnds == {"newline", "return"}
Delimiters == {"blank", "semicolon"} \union LineEnds
WordStops == Delimiters \union {"quote", "openBrace", "closeBrace"}

\* The first character of a class from i on.
Before(text, i, class) == RunEnd(text, i, Chars \ class)

------------------------------------------------------------------------------
\* preprocess_script: a backslash before a line end becomes a blank and takes
\* the line end and the blanks behind it; a newline is added.
Joins(script, i) == script[i] = "backslash" /\ Has(script, i + 1, LineEnds)

JoinedEnd(script, i) ==
  LET line == IF script[i + 1] = "return" /\ Has(script, i + 2, {"newline"}) THEN i + 3 ELSE i + 2
  IN RunEnd(script, line, {"blank"})

Preprocess(script) ==
  LET joined == {i \in 1..Len(script) : Joins(script, i)}
      dropped == UNION {(i + 1)..(JoinedEnd(script, i) - 1) : i \in joined}
      output[i \in 0..Len(script)] ==
        IF i = 0 THEN <<>>
        ELSE IF i \in dropped THEN output[i - 1]
        ELSE Append(output[i - 1], IF i \in joined THEN "blank" ELSE script[i])
  IN Append(output[Len(script)], "newline")

------------------------------------------------------------------------------
\* An odd number of backslashes stands before position k.
Escaped(text, i, k) ==
  Cardinality({j \in i..(k - 1) : \A m \in j..(k - 1) : text[m] = "backslash"}) % 2 = 1

\* A word in quotes that opens at i ends in its line, or not at all: 0.
QuotedEnd(text, i) ==
  LET line == Before(text, i + 1, {"newline"})
      last == FirstIn(text, i + 1, {k \in (i + 1)..(line - 1) :
                                      text[k] = "quote" /\ ~Escaped(text, i + 1, k)})
  IN IF last < line THEN last + 1 ELSE 0

\* A variable: a name, with an index in parentheses or without, that is as
\* long as what the rule of unquoted words would take; or 0.
VariableEnd(text, i) ==
  LET name == RunEnd(text, i + 1, {"letter"})
      run == Before(text, i, WordStops)
  IN IF name = i + 1 THEN 0
     ELSE IF run = name \/ (text[name] = "openParen" /\ name < run - 1
                            /\ text[run - 1] = "closeParen")
     THEN run
     ELSE 0

\* A variable in braces, which are not empty; or 0.
BracedVariableEnd(text, i) ==
  LET last == Before(text, i + 2, {"closeBrace"} \union LineEnds)
  IN IF Has(text, i + 1, {"openBrace"}) /\ Has(text, last, {"closeBrace"}) /\ last > i + 2
     THEN last + 1
     ELSE 0

\* scan_unquoted_word, for a word that opens at i and whose pattern took what
\* is before from: it goes on to a delimiter that is neither escaped nor in
\* brackets.  Without one the word is taken if a bracket is open.
UnquotedWord(text, i, from) ==
  LET state[k \in (i - 1)..Len(text)] ==
        IF k < i THEN Start ELSE UpdateBracketState(state[k - 1], text[k])
      end == FirstIn(text, from, {k \in from..Len(text) :
                                    /\ text[k] \in Delimiters
                                    /\ state[k - 1].bracket = 0
                                    /\ state[k - 1].escaped = 0})
  IN [end |-> end,
      delimited |-> end <= Len(text),
      open |-> state[Len(text)].bracket > 0]

------------------------------------------------------------------------------
\* Where a position comes to lie after the characters from i to j - 1, if each
\* line end begins a line (advance_position_char).
AdvanceOver(at, text, i, j) ==
  LET breaks == {k \in i..(j - 1) : text[k] \in LineEnds}
  IN IF breaks = {} THEN [at EXCEPT !.column = @ + (j - i)]
     ELSE [line |-> at.line + Cardinality(breaks),
           column |-> j - (CHOOSE k \in breaks : \A m \in breaks : m <= k)]

\* The same for a run of line ends, where a return and a newline are one
\* (advance_line).
AdvanceLines(at, text, i, j) ==
  LET breaks == {k \in i..(j - 1) : ~(text[k] = "newline" /\ k > i /\ text[k - 1] = "return")}
  IN [line |-> at.line + Cardinality(breaks), column |-> 1]

\* YY_USER_ACTION: every match moves the column by its length.
AdvanceColumns(at, i, j) == [at EXCEPT !.column = @ + (j - i)]

==============================================================================
