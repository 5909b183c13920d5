--------------------------- MODULE ScriptProperties ---------------------------
(***************************************************************************)
(* The properties of the parses.                                           *)
(***************************************************************************)
EXTENDS Scripts, Sanitizer, Functions

Places == [line : Nat \ {0}, column : Nat \ {0}]
Kinds == {"string", "quoted", "braced", "var", "varBraced", "expandEmpty"}
Words == [kind : Kinds, expanded : BOOLEAN, contents : Seq(Chars), from : Nat, at : Places,
          to : Nat, end : Places]
Errors == {"none", "lexical", "syntax", "system"}

TypeOK ==
  /\ mode \in {"idle", "scan", "failed", "parsed", "refused"}
  /\ text \in Seq(Chars)
  /\ next \in 1..(Len(text) + 1)
  /\ condition \in {"CMDSTART", "INITIAL", "BRACED_STATE"}
  /\ at \in Places
  /\ braces \in Nat
  /\ buffer \in Seq(Chars)
  /\ words \in Seq(Words)
  /\ program \in Seq(Seq(Words))
  /\ error \in Errors
  /\ left \in Errors
  /\ faulted \in BOOLEAN

\* README.md:35: # starts a comment only when the first word of a command is
\* expected.  The lexer knows of that by its start condition only, the grammar
\* by the words it has: the two agree between any two tokens.
StartAgrees ==
  mode = "scan" /\ condition # "BRACED_STATE" =>
    (condition = "CMDSTART" <=> words = <<>> /\ prefix = <<>>)

\* A failed parse, and a refused one, has a reason.  One that runs, and what is
\* left between two parses, is no error but that of a bracket that is never closed,
\* which the validator finds again.
FailureIsReported ==
  /\ mode \in {"failed", "refused"} => error # "none"
  /\ mode \in {"idle", "scan", "parsed"} => error \in {"none", "syntax"}

\* A script parses to the same commands whatever was parsed before, also when
\* that was given up within braces or for lack of memory: the static variables
\* of lexer and grammar carry nothing over.  The error record does, and this is
\* the only way in which an earlier parse decides on the error of a later one.
ParsesAlike ==
  \A r, s \in results :
    r.script = s.script /\ ~r.faulted /\ ~s.faulted =>
      /\ r.program = s.program
      /\ r.left = s.left => r.error = s.error

\* fg_course_report.typ:345: a program may be empty.  So a script that parses to
\* no command is not taken for one that fails.
EmptyIsAccepted == mode = "parsed" => ~TakenForFailure(program)

\* The words of some commands.
WordsOf(commands) == UNION {Range(commands[c]) : c \in 1..Len(commands)}

Within(i, word) == i \in word.from..word.to

InWord(i, all) == \E word \in all : Within(i, word)

\* The words of the commands follow each other without overlap.
InOrder(commands) ==
  \A c, d \in 1..Len(commands) :
    \A v \in 1..Len(commands[c]), w \in 1..Len(commands[d]) :
      c < d \/ (c = d /\ v < w) => commands[c][v].to < commands[d][w].from

\* Only blanks are between position i and the start of its command.
StartsCommand(i, all) ==
  \E k \in 0..(i - 1) : /\ \A j \in (k + 1)..(i - 1) : text[j] = "blank"
                        /\ k > 0 => text[k] \in LineEnds \union {"semicolon"} /\ ~InWord(k, all)

\* Behind a # where a command would start, in its line.
InComment(i, all) ==
  \E j \in 1..i : /\ text[j] = "hash"
                  /\ \A k \in j..i : text[k] \notin LineEnds
                  /\ ~InWord(j, all)
                  /\ StartsCommand(j, all)

\* No part of a script is lost: what is in no word of its commands is a blank,
\* a separator or a comment; and the words follow each other without overlap.
NothingIsLost ==
  mode = "parsed" =>
    LET all == WordsOf(program)
    IN /\ \A word \in all : word.from <= word.to
       /\ InOrder(program)
       /\ \A i \in 1..Len(text) :
            \/ InWord(i, all)
            \/ text[i] \in Delimiters
            \/ InComment(i, all)

\* The place of a character: how many lines are before it, and how many
\* characters in its own.
PlaceOf(i) ==
  LET before == {k \in 1..(i - 1) : text[k] = "newline"}
  IN IF before = {} THEN [Origin EXCEPT !.column = @ + i - 1]
     ELSE [line |-> Origin.line + Cardinality(before),
           column |-> i - (CHOOSE k \in before : \A m \in before : m <= k)]

\* README.md:49 and :51: words have the place where they begin and end, also
\* behind lines in brackets and braces.  (In the prepared script: a line that
\* was joined to the one before is not counted; and without returns, which two
\* parts of the lexer count differently.)
PositionsHold ==
  mode = "parsed" /\ (\A i \in 1..Len(text) : text[i] # "return") =>
    \A word \in WordsOf(program) :
      /\ word.at = PlaceOf(word.from)
      /\ error = "none" => word.end = PlaceOf(word.to)

\* README.md:35: in a nested script, too, # starts a comment where a command is
\* expected; no script in it is validated, and no bracket in it has to be closed.
CommentsAreSkipped ==
  mode = "parsed" =>
    LET sanitized == Sanitize(Head(session))
    IN /\ sanitized.closed
       /\ \A i \in sanitized.brackets : ~InComment(i, WordsOf(program))

==============================================================================
