------------------------------ MODULE Validator ------------------------------
(***************************************************************************)
(* The recursive validator (src/runtime/validator) as an agenda.  In the   *)
(* code scripts, commands, words and expressions call each other; here the *)
(* pending work of all active calls is one sequence of tasks, the next one *)
(* first.  A call that returns 0 makes all its callers return 0, up to one *)
(* that clears the error and goes on: a failure drops the tasks up to the  *)
(* next Otherwise.                                                         *)
(*                                                                         *)
(* The procedure table and the error are shared by all of them, so what a  *)
(* nested script leaves there is seen by everything validated after it.    *)
(***************************************************************************)
EXTENDS CommandPlans

CONSTANTS
  Parsed,       \* what the texts of a source can be, as scripts
  Sources,      \* the sources that are looked at: from texts to keys of Parsed
  ArgumentList  \* what parse_proc_args finds in a text

\* What parse_script makes of a text after validator_sanitize_script_text:
\* subs, the scripts in the brackets that stand outside braces; torn, one of
\* these brackets has no end; parse, the outcome of the grammar; leftover, the
\* lexer has recorded an error and gone on; and commands.
Outcomes == {"commands", "empty", "refused"}
Arguments == {"required", "optional", "args", "malformed"}

ScriptText == [subs : Seq(STRING), torn : BOOLEAN, parse : Outcomes, leftover : BOOLEAN,
               commands : Seq(Command)]

ASSUME ParsedTexts ==
  /\ Parsed \in [DOMAIN Parsed -> ScriptText]
  /\ \A k \in DOMAIN Parsed : Parsed[k].parse = "commands" <=> Parsed[k].commands # <<>>

ASSUME SourceTexts ==
  \A s \in Sources : s \in [DOMAIN s -> DOMAIN Parsed] /\ IsFiniteSet(DOMAIN s)

ASSUME ArgumentLists == ArgumentList \in [DOMAIN ArgumentList -> Seq(Arguments)]

VARIABLES
  source,     \* the texts of this script
  agenda,     \* the pending tasks
  procs,      \* context->procedures: from names to signatures
  error,      \* the TclError of main: the first one recorded since it was cleared
  verdict,    \* what the outermost call returns
  visited     \* auxiliary: the scripts whose validation was begun

validatorVars == <<source, agenda, procs, error, verdict, visited>>

Signature == [required : Nat, max : Nat, variadic : BOOLEAN]

NoError == <<"none", "">>
SyntaxError == <<"syntax", "">>
LexicalError == <<"lexical", "">>
UnknownCommand(n) == <<"unknown", n>>

\* tcl_error_set: the first error stays.
Recorded(e) == IF error = NoError THEN e ELSE error

------------------------------------------------------------------------------
\* A text that is no key of the source is a name: as a script, a call of it.
ScriptOf(t) ==
  IF t \in DOMAIN source THEN Parsed[source[t]]
  ELSE [subs |-> <<>>, torn |-> FALSE, parse |-> "commands", leftover |-> FALSE,
        commands |-> << <<MakeWord("string", t)>> >>]

ArgumentsOf(t) ==
  IF t \in DOMAIN ArgumentList THEN ArgumentList[t]
  ELSE IF t = "args" THEN <<"args">> ELSE <<"required">>

\* parse_proc_args: args is the last one, if it occurs.
GoodArguments(t) ==
  \A i \in DOMAIN ArgumentsOf(t) :
    /\ ArgumentsOf(t)[i] # "malformed"
    /\ ArgumentsOf(t)[i] = "args" => i = Len(ArgumentsOf(t))

SignatureOf(t) ==
  LET count(S) == Cardinality({i \in DOMAIN ArgumentsOf(t) : ArgumentsOf(t)[i] \in S})
  IN [required |-> count({"required"}),
      max      |-> count({"required", "optional"}),
      variadic |-> count({"args"}) > 0]

\* The commands that validator_collect_proc_definitions takes for definitions
Declares(c) ==
  Len(c) = 4 /\ Keyword(c[1], "proc") /\ LiteralName(c[2]) /\ LiteralScript(c[3])

\* A mutant of Collected: only the definitions that open the program are found.
CollectedInFront(program) ==
  {i \in DOMAIN program :
     \A j \in 1..i : Declares(program[j]) /\ GoodArguments(program[j][3].text)}

\* The definitions of a program up to the first one with bad arguments.
Collected(program) ==
  {i \in DOMAIN program :
     /\ Declares(program[i])
     /\ \A j \in 1..i : Declares(program[j]) => GoodArguments(program[j][3].text)}

CollectFails(program) ==
  \E i \in DOMAIN program : Declares(program[i]) /\ ~ GoodArguments(program[i][3].text)

\* A mutant of Updated: a program finds no procedures but its own.
UpdatedAfresh(table, program) ==
  LET named(n) == {i \in Collected(program) : program[i][2].text = n}
      last(n) == CHOOSE i \in named(n) : \A j \in named(n) : j <= i
  IN [n \in {program[i][2].text : i \in Collected(program)} |->
        SignatureOf(program[last(n)][3].text)]

\* validator_add_or_update_procedure for each of them: the last one counts.
Updated(table, program) ==
  LET named(n) == {i \in Collected(program) : program[i][2].text = n}
      names == {program[i][2].text : i \in Collected(program)}
      last(n) == CHOOSE i \in named(n) : \A j \in named(n) : j <= i
  IN [n \in DOMAIN table \union names |->
        IF n \in names THEN SignatureOf(program[last(n)][3].text) ELSE table[n]]

------------------------------------------------------------------------------
ProgramTask(t) == MakeTask("program", t)
ParseTask(t) == MakeTask("parse", t)

\* Two tasks about the command at place i of the script t
CommandTask(t, i) == [MakeTask("command", t) EXCEPT !.at = i]
DispatchTask(t, i) == [MakeTask("dispatch", t) EXCEPT !.at = i]

WordsOf(task) == ScriptOf(task.text).commands[task.at]

Pending(do) == verdict = "busy" /\ agenda # <<>> /\ Head(agenda).do = do

\* The first task is replaced by the ones it consists of.
Expand(tasks) == agenda' = tasks \o Tail(agenda)

\* A mutant of Failed: a call returns 0 without an error.
FailedSilently(e) ==
  LET marks == {i \in DOMAIN agenda : agenda[i].do = "otherwise"}
      next == CHOOSE i \in marks : \A j \in marks : i <= j
  IN IF marks = {}
     THEN verdict' = "refused" /\ agenda' = <<>> /\ error' = error
     ELSE /\ agenda' = ExprWordPlans(agenda[next].words)
                         \o SubSeq(agenda, next + 1, Len(agenda))
          /\ error' = NoError
          /\ verdict' = verdict

\* A mutant of Failed: the error stays recorded when the validation goes on.
FailedKeepsError(e) ==
  LET marks == {i \in DOMAIN agenda : agenda[i].do = "otherwise"}
      next == CHOOSE i \in marks : \A j \in marks : i <= j
  IN IF marks = {}
     THEN verdict' = "refused" /\ agenda' = <<>> /\ error' = Recorded(e)
     ELSE /\ agenda' = ExprWordPlans(agenda[next].words)
                         \o SubSeq(agenda, next + 1, Len(agenda))
          /\ error' = Recorded(e)
          /\ verdict' = verdict

\* The callers return 0 one after the other, up to the next one that clears the
\* error (tcl_error_clear) and goes on with something else.
Failed(e) ==
  LET marks == {i \in DOMAIN agenda : agenda[i].do = "otherwise"}
      next == CHOOSE i \in marks : \A j \in marks : i <= j
  IN IF marks = {}
     THEN verdict' = "refused" /\ agenda' = <<>> /\ error' = Recorded(e)
     ELSE /\ agenda' = ExprWordPlans(agenda[next].words)
                         \o SubSeq(agenda, next + 1, Len(agenda))
          /\ error' = NoError
          /\ verdict' = verdict

------------------------------------------------------------------------------
\* validator_validate_script_text: validator_sanitize_script_text validates the
\* scripts in brackets first, then the rest is parsed.
SanitizeScript ==
  /\ Pending("script")
  /\ LET t == Head(agenda).text IN
       /\ Expand(Scripts(ScriptOf(t).subs) \o
                 (IF ScriptOf(t).torn THEN <<Fail>> ELSE <<ParseTask(t)>>))
       /\ visited' = visited \union {t}
  /\ UNCHANGED <<source, procs, error, verdict>>

\* The result of parse_script is NULL for an empty script too: then an error
\* that was recorded before counts as one of this script.
ParseScript ==
  /\ Pending("parse")
  /\ LET s == ScriptOf(Head(agenda).text)
         found == IF s.leftover \/ s.parse = "refused" THEN Recorded(LexicalError) ELSE error
     IN IF s.parse # "commands" /\ found # NoError
        THEN Failed(found)
        ELSE /\ Expand(<<ProgramTask(Head(agenda).text)>>)
             /\ error' = found
             /\ verdict' = verdict
  /\ UNCHANGED <<source, procs, visited>>

\* validator_validate_program: all definitions of the program come first.
CollectProcedures ==
  /\ Pending("program")
  /\ LET program == ScriptOf(Head(agenda).text).commands IN
       /\ procs' = Updated(procs, program)
       /\ IF CollectFails(program)
          THEN Failed(SyntaxError)
          ELSE /\ Expand([i \in DOMAIN program |-> CommandTask(Head(agenda).text, i)])
               /\ UNCHANGED <<error, verdict>>
  /\ UNCHANGED <<source, visited>>

\* validate_words_substitutions, at the start of validator_validate_command
ValidateWords ==
  /\ Pending("command")
  /\ LET words == WordsOf(Head(agenda)) IN
       Expand(Concat([i \in DOMAIN words |->
                        Scripts(Substitutions(words[i]))
                          \o Unless(~ IsTorn(words[i]))])
                \o <<DispatchTask(Head(agenda).text, Head(agenda).at)>>)
  /\ UNCHANGED <<source, procs, error, verdict, visited>>

\* The rest of validator_validate_command
Dispatch ==
  /\ Pending("dispatch")
  /\ LET words == WordsOf(Head(agenda)) IN
       IF IsUnknown(words, procs)
       THEN Failed(UnknownCommand(words[1].text))
       ELSE /\ Expand(CommandPlan(words, procs))
            /\ UNCHANGED <<error, verdict>>
  /\ UNCHANGED <<source, procs, visited>>

\* The calls of tcl_error_set with a syntax error that a plan ends in
ReportSyntax ==
  /\ Pending("fail")
  /\ Failed(SyntaxError)
  /\ UNCHANGED <<source, procs, visited>>

\* validate_expr_word of a word whose failure is forgotten
AttemptExpression ==
  /\ Pending("attempt")
  /\ Expand(ExpressionPlan(Head(agenda).text) \o <<Otherwise(<<>>)>>)
  /\ UNCHANGED <<source, procs, error, verdict, visited>>

\* The attempt before it has not failed.
PassOtherwise ==
  /\ Pending("otherwise")
  /\ Expand(<<>>)
  /\ UNCHANGED <<source, procs, error, verdict, visited>>

\* The outermost call returns 1.
Accept ==
  /\ verdict = "busy" /\ agenda = <<>>
  /\ verdict' = "accepted"
  /\ UNCHANGED <<source, agenda, procs, error, visited>>

Validate ==
  \/ SanitizeScript \/ ParseScript \/ CollectProcedures \/ ValidateWords
  \/ Dispatch \/ ReportSyntax \/ AttemptExpression \/ PassOtherwise \/ Accept

==============================================================================
