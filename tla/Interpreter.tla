----------------------------- MODULE Interpreter -----------------------------
(***************************************************************************)
(* main and the executor: a script is parsed; in check mode the validator  *)
(* looks at it and the program ends; in run mode executor_execute lets the *)
(* validator look at the whole of it first and then executes its top-level *)
(* commands, up to the first one that fails.                               *)
(*                                                                         *)
(* Only set, put and puts have an effect.  Most commands do nothing here,  *)
(* bodies are not executed, and an if has its words validated once more,   *)
(* with the procedure table as it is after the whole script.               *)
(*                                                                         *)
(* The variable store is a map: Variables shows that the list in the code  *)
(* is one.                                                                 *)
(***************************************************************************)
EXTENDS Validator

CONSTANT Opaque   \* the value of a text that substitutions or escapes change

ASSUME OpaqueIsNoCommand ==
  /\ Opaque \in STRING
  /\ Opaque \notin Builtins \union ValidationOnly \union TkPaths \union {"-nonewline"}

VARIABLES
  mode,       \* "check" or "run"
  phase,      \* "reading", "checking", "running", "rechecking", "exited"
  pc,         \* the top-level command that is executed, 0 before that
  variables,  \* the variable store
  output,     \* the texts printed
  exitCode    \* "none", "success", "failure"

mainVars == <<mode, phase, pc, variables, output, exitCode>>
vars == <<validatorVars, mainVars>>

Top == "top"

\* Again a fact of the language.
ASSUME TopIsText == Top \in STRING

Program == ScriptOf(Top).commands
Words == Program[pc]

------------------------------------------------------------------------------
\* evaluate_word: it fails if a variable is not set. Brackets stay as they are.
CanEvaluate(w) == w.refs \subseteq DOMAIN variables

ValueOf(w) ==
  IF w.type \in VariableTypes THEN variables[w.text]
  ELSE IF w.type \in {"braced", "expandBraced"} \/ w.text = "$" THEN w.text
  ELSE IF w.marks \intersect {"dollar", "backslash"} = {} THEN w.text
  ELSE Opaque

\* evaluate_expansion_word
CanExpand(w) ==
  w.type = "expandEmpty" \/ (CanEvaluate(w) /\ ListOf(ValueOf(w)).ok)

ItemsOf(w) ==
  IF w.type = "expandEmpty" THEN <<>>
  ELSE IF Expands(w) THEN ListOf(ValueOf(w)).items
  ELSE <<ValueOf(w)>>

\* evaluate_words
Evaluates(words) ==
  \A i \in DOMAIN words : IF Expands(words[i]) THEN CanExpand(words[i]) ELSE CanEvaluate(words[i])

ValuesOf(words) == Concat([i \in DOMAIN words |-> ItemsOf(words[i])])

\* The name of the command at pc, if it has one
Names == ItemsOf(Words[1])
Called(names) == phase = "running" /\ pc <= Len(Program) /\ Evaluates(<<Words[1]>>)
                   /\ Names # <<>> /\ Names[1] \in names

\* The commands that execute_command knows and that do nothing in it
ExecutedAsNothing ==
  {"expr", "incr", "list", "foreach", "switch", "return", "break", "continue", "catch",
   "array", "unset", "append", "lappend", "lindex", "llength", "concat", "lrange",
   "linsert", "lreplace", "split", "join", "format", "scan", "error", "eval", "global",
   "upvar", "regexp", "regsub", "string", "info", "uplevel", "dict", "namespace",
   "variable", "source", "package", "rename", "exit", "cd", "pwd", "after", "trace",
   "clock", "vwait", "update", "try", "throw", "file", "open", "close", "gets", "read",
   "seek", "tell", "eof", "flush", "fcopy", "fconfigure", "fileevent", "encoding",
   "binary", "subst"}

\* Where the executor only counts words
WordCount == [name \in {"while", "for", "proc"} |->
                CASE name = "while" -> 3 [] name = "for" -> 5 [] name = "proc" -> 4]

Dispatched == {"set", "put", "puts", "if", "while", "for", "proc"}

------------------------------------------------------------------------------
Init ==
  /\ source \in Sources
  /\ agenda = <<>> /\ procs = <<>> /\ error = NoError /\ verdict = "busy" /\ visited = {}
  /\ mode \in {"check", "run"}
  /\ phase = "reading" /\ pc = 0 /\ variables = <<>> /\ output = <<>> /\ exitCode = "none"

Exit(code, e) ==
  /\ phase' = "exited" /\ exitCode' = code /\ error' = e
  /\ UNCHANGED <<source, agenda, procs, verdict, visited, mode, pc, variables, output>>

ExitsWith(e) == Exit("failure", Recorded(e))

\* parse_script of the whole script: an error that the lexer records on the way
\* counts only if there is no command.
Read ==
  /\ phase = "reading"
  /\ LET s == ScriptOf(Top)
         found == IF s.leftover \/ s.parse = "refused" THEN Recorded(LexicalError) ELSE error
     IN IF s.parse # "commands" /\ found # NoError
        THEN Exit("failure", found)
        ELSE /\ phase' = "checking"
             /\ error' = found
             /\ agenda' = <<ProgramTask(Top)>>
             /\ UNCHANGED <<source, procs, verdict, visited, mode, pc, variables, output,
                            exitCode>>

\* A mutant of ValidatorRuns: commands are executed while the script is checked.
ValidatorAlsoPrints ==
  /\ phase \in {"checking", "rechecking"}
  /\ Validate
  /\ output' = IF Pending("command") THEN Append(output, "early") ELSE output
  /\ UNCHANGED <<mode, phase, pc, variables, exitCode>>

ValidatorRuns ==
  /\ phase \in {"checking", "rechecking"}
  /\ Validate
  /\ UNCHANGED mainVars

\* The result of validator_validate_program reaches main or executor_execute.
CheckEnds ==
  /\ phase = "checking"
  /\ \/ verdict = "refused" /\ Exit("failure", error)
     \/ verdict = "accepted" /\ mode = "check" /\ Exit("success", error)
     \/ /\ verdict = "accepted" /\ mode = "run"
        /\ phase' = "running" /\ pc' = 1
        /\ UNCHANGED <<validatorVars, mode, variables, output, exitCode>>

------------------------------------------------------------------------------
\* A mutant of Continue: the command after the next one follows.
ContinueSkips ==
  /\ pc' = pc + 2
  /\ UNCHANGED <<validatorVars, mode, phase, exitCode>>

\* execute_command returns 1.
Continue ==
  /\ pc' = pc + 1
  /\ UNCHANGED <<validatorVars, mode, phase, exitCode>>

\* The words cannot be evaluated: no command is looked for, or set, put and puts
\* give up.
WordsFail ==
  /\ phase = "running" /\ pc <= Len(Program)
  /\ \/ ~ Evaluates(<<Words[1]>>)
     \/ Called({"set", "put", "puts"}) /\ ~ Evaluates(Words)
  /\ ExitsWith(<<"evaluation", "">>)

\* A mutant of SkipNameless: the loop of executor_execute does not go on.
SkipNamelessStays ==
  /\ phase = "running" /\ pc <= Len(Program)
  /\ Evaluates(<<Words[1]>>) /\ Names = <<>>
  /\ UNCHANGED vars

\* {*} of an empty list in front: the command is skipped.
SkipNameless ==
  /\ phase = "running" /\ pc <= Len(Program)
  /\ Evaluates(<<Words[1]>>) /\ Names = <<>>
  /\ Continue /\ UNCHANGED <<variables, output>>

\* set: with one argument nothing is read, or done.
ExecuteSet ==
  /\ Called({"set"}) /\ Evaluates(Words)
  /\ LET values == ValuesOf(Words) IN
       \/ /\ Len(values) = 3
          /\ variables' = [n \in DOMAIN variables \union {values[2]} |->
                             IF n = values[2] THEN values[3] ELSE variables[n]]
          /\ Continue /\ UNCHANGED output
       \/ /\ Len(values) = 2
          /\ Continue /\ UNCHANGED <<variables, output>>
       \/ /\ Len(values) \notin {2, 3}
          /\ ExitsWith(SyntaxError)

\* put and puts, which print one text; puts may be told to omit the line end.
ExecutePut ==
  /\ Called({"put", "puts"}) /\ Evaluates(Words)
  /\ LET values == ValuesOf(Words)
         fits == \/ Len(values) = 2
                 \/ Names[1] = "puts" /\ Len(values) = 3 /\ values[2] = "-nonewline"
     IN IF fits
        THEN /\ output' = Append(output, values[Len(values)])
             /\ Continue /\ UNCHANGED variables
        ELSE ExitsWith(SyntaxError)

\* A mutant of ExecuteIf: a new validator is made for it.
ExecuteIfAnew ==
  /\ Called({"if"})
  /\ phase' = "rechecking"
  /\ agenda' = IfPlan(Words)
  /\ verdict' = "busy"
  /\ procs' = <<>>
  /\ UNCHANGED <<source, error, visited, mode, pc, variables, output, exitCode>>

\* if: the words are validated again, with the table and the error as they are.
ExecuteIf ==
  /\ Called({"if"})
  /\ phase' = "rechecking"
  /\ agenda' = IfPlan(Words)
  /\ verdict' = "busy"
  /\ UNCHANGED <<source, procs, error, visited, mode, pc, variables, output, exitCode>>

IfEnds ==
  /\ phase = "rechecking"
  /\ \/ verdict = "refused" /\ Exit("failure", error)
     \/ /\ verdict = "accepted"
        /\ phase' = "running" /\ pc' = pc + 1
        /\ UNCHANGED <<validatorVars, mode, variables, output, exitCode>>

\* while, for and proc: the words of the command are counted.
ExecuteCounted ==
  /\ Called(DOMAIN WordCount)
  /\ IF Len(Words) = WordCount[Names[1]]
     THEN Continue /\ UNCHANGED <<variables, output>>
     ELSE ExitsWith(SyntaxError)

ExecuteNothing ==
  /\ Called(ExecutedAsNothing)
  /\ Continue /\ UNCHANGED <<variables, output>>

\* A mutant of ExecuteOther: only names that are built in are known.
ExecuteNoProcedure ==
  /\ phase = "running" /\ pc <= Len(Program)
  /\ Evaluates(<<Words[1]>>) /\ Names # <<>>
  /\ Names[1] \notin Dispatched \union ExecutedAsNothing
  /\ ExitsWith(UnknownCommand(Names[1]))

\* A declared procedure does nothing, any other name is unknown.
ExecuteOther ==
  /\ phase = "running" /\ pc <= Len(Program)
  /\ Evaluates(<<Words[1]>>) /\ Names # <<>>
  /\ Names[1] \notin Dispatched \union ExecutedAsNothing
  /\ IF Names[1] \in DOMAIN procs
     THEN Continue /\ UNCHANGED <<variables, output>>
     ELSE ExitsWith(UnknownCommand(Names[1]))

RunEnds ==
  /\ phase = "running" /\ pc > Len(Program)
  /\ Exit("success", error)

\* The program has ended.
Exited == phase = "exited" /\ UNCHANGED vars

Next ==
  \/ Read \/ ValidatorRuns \/ CheckEnds \/ WordsFail \/ SkipNameless
  \/ ExecuteSet \/ ExecutePut \/ ExecuteIf \/ IfEnds \/ ExecuteCounted
  \/ ExecuteNothing \/ ExecuteOther \/ RunEnds \/ Exited

Spec == Init /\ [][Next]_vars
FairSpec == Spec /\ WF_vars(Next)

==============================================================================
