------------------------- MODULE Interpreter_proofs -------------------------
(***************************************************************************)
(* Proofs about the interpreter for every source: every failure has a      *)
(* reason to print, an accepted script leaves no error behind, a procedure *)
(* that the top level declares is never unknown, nothing happens before    *)
(* the whole script was accepted; no body of an accepted script is skipped *)
(* and its calls are good, at any depth; an if is accepted again when it   *)
(* is executed, and what was accepted fails only for what is dynamic; a    *)
(* procedure once declared is never withdrawn, and its arity changes only  *)
(* by declaring it again; and all values have their types.                 *)
(***************************************************************************)
EXTENDS InterpreterProperties, Texts_proofs

------------------------------------------------------------------------------
\* A failure either is forgotten, and then no error stays, or ends the
\* validation with the first error.
LEMMA FailedEffect ==
  ASSUME NEW e, Failed(e)
  PROVE  \/ verdict' = "refused" /\ error' = Recorded(e)
         \/ verdict' = verdict /\ error' = NoError
  BY DEF Failed

\* What one step of the validator does to the verdict and to the error.
ValidatorEffect ==
  /\ source' = source
  /\ verdict = "busy"
  /\ DOMAIN procs \subseteq DOMAIN procs'
  /\ \/ verdict' \in {"busy", "accepted"} /\ error' = error
     \/ verdict' = "busy" /\ error' = NoError
     \/ verdict' = "busy" /\ error = NoError /\ error' = LexicalError /\ Leftover
     \/ verdict' = "refused" /\ error' # NoError
          /\ error' \in {error, SyntaxError, LexicalError}
     \/ /\ verdict' = "refused" /\ error' # NoError
        /\ \/ error' = error
           \/ \E n : n \notin DOMAIN procs /\ error' = UnknownCommand(n)

LEMMA StepsOfTheValidator ==
  ASSUME Validate
  PROVE  ValidatorEffect
<1> USE DEF Pending, NoError, SyntaxError, LexicalError
<1>1. CASE SanitizeScript
  BY <1>1, Zenon DEF SanitizeScript, ValidatorEffect
<1>2. CASE ParseScript
  <2> DEFINE s == ScriptOf(Head(agenda).text)
             found == IF s.leftover \/ s.parse = "refused" THEN Recorded(LexicalError) ELSE error
  <2>1. verdict = "busy" /\ source' = source /\ procs' = procs
    BY <1>2 DEF ParseScript
  <2>2. CASE s.parse # "commands" /\ found # NoError
    <3>1. Failed(found)
      BY <1>2, <2>2 DEF ParseScript
    <3>2. found \in {error, LexicalError}
      BY DEF Recorded
    <3>3. Recorded(found) \in {error, LexicalError} /\ Recorded(found) # NoError
      BY <3>2, <2>2 DEF Recorded
    <3> QED BY <3>1, <3>3, <2>1, FailedEffect DEF ValidatorEffect
  <2>3. CASE ~ (s.parse # "commands" /\ found # NoError)
    <3>1. error' = found /\ verdict' = verdict
      BY <1>2, <2>3 DEF ParseScript
    <3>2. CASE found = error
      BY <3>1, <3>2, <2>1 DEF ValidatorEffect
    <3>3. CASE found # error
      <4>1. error = NoError /\ found = LexicalError /\ (s.leftover \/ s.parse = "refused")
        BY <3>3 DEF Recorded
      <4>2. s.leftover
        <5>1. LexicalError # NoError
          OBVIOUS
        <5>2. s.parse = "commands"
          BY <4>1, <5>1, <2>3
        <5>3. s.parse # "refused"
          BY <5>2
        <5> QED BY <4>1, <5>3
      <4>3. Head(agenda).text \in DOMAIN source
        BY <4>2 DEF ScriptOf
      <4>4. Leftover
        BY <4>2, <4>3 DEF Leftover, Texts
      <4> QED BY <4>1, <4>4, <3>1, <2>1 DEF ValidatorEffect
    <3> QED BY <3>2, <3>3
  <2> QED BY <2>2, <2>3
<1>3. CASE CollectProcedures
  <2> DEFINE program == ScriptOf(Head(agenda).text).commands
  <2>1. verdict = "busy" /\ source' = source
    BY <1>3 DEF CollectProcedures
  <2>2. DOMAIN procs \subseteq DOMAIN procs'
    BY <1>3 DEF CollectProcedures, Updated
  <2>3. CASE CollectFails(program)
    <3>1. Failed(SyntaxError)
      BY <1>3, <2>3 DEF CollectProcedures
    <3>2. Recorded(SyntaxError) \in {error, SyntaxError} /\ Recorded(SyntaxError) # NoError
      BY DEF Recorded
    <3> QED BY <3>1, <3>2, <2>1, <2>2, FailedEffect DEF ValidatorEffect
  <2>4. CASE ~ CollectFails(program)
    <3>1. error' = error /\ verdict' = verdict
      BY <1>3, <2>4 DEF CollectProcedures
    <3> QED BY <3>1, <2>1, <2>2 DEF ValidatorEffect
  <2> QED BY <2>3, <2>4
<1>4. CASE ValidateWords
  BY <1>4, Zenon DEF ValidateWords, ValidatorEffect
<1>5. CASE Dispatch
  <2> DEFINE words == WordsOf(Head(agenda))
             n == words[1].text
  <2>1. verdict = "busy" /\ source' = source /\ procs' = procs
    BY <1>5 DEF Dispatch
  <2>2. CASE IsUnknown(words, procs)
    <3>1. Failed(UnknownCommand(n))
      BY <1>5, <2>2 DEF Dispatch
    <3>2. n \notin DOMAIN procs
      BY <2>2 DEF IsUnknown
    <3>3. Recorded(UnknownCommand(n)) \in {error, UnknownCommand(n)}
            /\ Recorded(UnknownCommand(n)) # NoError
      BY DEF Recorded, UnknownCommand
    <3> QED BY <3>1, <3>2, <3>3, <2>1, FailedEffect DEF ValidatorEffect
  <2>3. CASE ~ IsUnknown(words, procs)
    <3>1. error' = error /\ verdict' = verdict
      BY <1>5, <2>3 DEF Dispatch
    <3> QED BY <3>1, <2>1 DEF ValidatorEffect
  <2> QED BY <2>2, <2>3
<1>6. CASE ReportSyntax
  <2>1. /\ verdict = "busy" /\ source' = source /\ procs' = procs
        /\ Failed(SyntaxError)
    BY <1>6 DEF ReportSyntax
  <2>2. Recorded(SyntaxError) \in {error, SyntaxError} /\ Recorded(SyntaxError) # NoError
    BY DEF Recorded
  <2> QED BY <2>1, <2>2, FailedEffect DEF ValidatorEffect
<1>7. CASE AttemptExpression
  BY <1>7, Zenon DEF AttemptExpression, ValidatorEffect
<1>8. CASE PassOtherwise
  BY <1>8, Zenon DEF PassOtherwise, ValidatorEffect
<1>9. CASE Accept
  BY <1>9, Zenon DEF Accept, ValidatorEffect
<1> QED
  BY <1>1, <1>2, <1>3, <1>4, <1>5, <1>6, <1>7, <1>8, <1>9 DEF Validate

------------------------------------------------------------------------------
\* The types that the other arguments need.
SourceOK == source \in Sources
OutputOK == \E S : output \in Seq(S)

\* A name that a definition of the top level declares.
Declared(n) == \E c \in Commands(Top) : Declares(c) /\ c[2].text = n

TopKnown == \A n : Declared(n) => n \in DOMAIN procs

\* The validation of the whole script has not begun.
AtStart == phase = "checking" /\ verdict = "busy" /\ agenda = <<ProgramTask(Top)>>

\* Where the phases are, and what has not happened before the last ones.
PhasesOK ==
  /\ phase \in {"reading", "checking", "running", "rechecking", "exited"}
  /\ phase = "reading" => verdict = "busy" /\ error = NoError
  /\ phase = "running" => verdict = "accepted"
  /\ phase \in {"reading", "checking"} => output = <<>> /\ variables = <<>> /\ mode \in {"check", "run"}
  /\ phase # "exited" => exitCode = "none"

\* Without an error of the lexer there is one only where something has failed.
CleanOK ==
  ~ Leftover /\ verdict # "refused" /\ exitCode # "failure" => error = NoError

\* The top level is known from the first step of the validator on.
TopOK ==
  phase \notin {"reading", "exited"} => TopKnown \/ AtStart \/ verdict = "refused"

UnknownOK == \A n : Declared(n) => error # UnknownCommand(n)

RunOK == phase \in {"running", "rechecking"} => TopKnown

IInv ==
  /\ SourceOK /\ OutputOK /\ PhasesOK /\ FailureHasReason /\ CleanOK
  /\ TopOK /\ UnknownOK /\ RunOK

------------------------------------------------------------------------------
LEMMA ProgramIsASequence ==
  ASSUME SourceOK
  PROVE  Program = <<>> \/ (Len(Program) \in Nat /\ DOMAIN Program = 1..Len(Program))
<1>1. CASE Top \in DOMAIN source
  <2>1. source[Top] \in DOMAIN Parsed
    BY <1>1, SourceTexts DEF SourceOK
  <2>2. Parsed[source[Top]] \in ScriptText
    BY <2>1, ParsedTexts
  <2>3. Program \in Seq(Command)
    BY <1>1, <2>2, Zenon DEF ScriptText, Program, ScriptOf
  <2> QED BY <2>3
<1>2. CASE Top \notin DOMAIN source
  <2>1. Program = << <<MakeWord("string", Top)>> >>
    BY <1>2 DEF Program, ScriptOf
  <2> QED BY <2>1
<1> QED BY <1>1, <1>2

\* The definitions of a program are all collected, if none has bad arguments.
LEMMA AllCollected ==
  ASSUME SourceOK, ~ CollectFails(Program), NEW n, Declared(n)
  PROVE  \E i \in Collected(Program) : Program[i][2].text = n
<1>1. PICK i \in DOMAIN Program : Declares(Program[i]) /\ Program[i][2].text = n
  BY DEF Declared, Commands, Program
<1>2. \A j \in 1..i : j \in DOMAIN Program
  BY <1>1, ProgramIsASequence
<1>3. i \in Collected(Program)
  BY <1>1, <1>2 DEF Collected, CollectFails
<1> QED BY <1>1, <1>3

\* The first step of the validator collects them, or is the last one.
LEMMA FirstStep ==
  ASSUME SourceOK, AtStart, Validate
  PROVE  /\ verdict' = "refused" \/ \A n : Declared(n) => n \in DOMAIN procs'
         /\ error' = error \/ error' = SyntaxError
<1>1. Head(agenda) = ProgramTask(Top) /\ agenda # <<>> /\ Head(agenda).do = "program"
        /\ Head(agenda).text = Top
  BY DEF AtStart, ProgramTask, MakeTask
<1>2. CollectProcedures
  BY <1>1 DEF Validate, Pending, SanitizeScript, ParseScript, ValidateWords, Dispatch,
              ReportSyntax, AttemptExpression, PassOtherwise, Accept
<1>3. CASE CollectFails(Program)
  <2>1. Failed(SyntaxError)
    BY <1>1, <1>2, <1>3 DEF CollectProcedures, Program
  <2>2. \A i \in DOMAIN agenda : agenda[i].do = "program"
    BY DEF AtStart, ProgramTask, MakeTask
  <2>3. {i \in DOMAIN agenda : agenda[i].do = "otherwise"} = {}
    BY <2>2
  <2>4. verdict' = "refused" /\ error' = Recorded(SyntaxError)
    BY <2>1, <2>3 DEF Failed
  <2> QED BY <2>4 DEF Recorded
<1>4. CASE ~ CollectFails(Program)
  <2>1. procs' = Updated(procs, Program) /\ error' = error
    BY <1>1, <1>2, <1>4 DEF CollectProcedures, Program
  <2>2. \A n : Declared(n) => n \in DOMAIN procs'
    BY <2>1, <1>4, AllCollected DEF Updated
  <2> QED BY <2>1, <2>2
<1> QED BY <1>3, <1>4

LEMMA AppendToAny ==
  ASSUME NEW S, NEW s \in Seq(S), NEW e
  PROVE  \E T : Append(s, e) \in Seq(T)
<1>1. s \in Seq(S \union {e})
  BY SeqMonotonic
<1>2. Append(s, e) \in Seq(S \union {e})
  BY <1>1, AppendProperties
<1> QED BY <1>2

------------------------------------------------------------------------------
LEMMA InitInv == Init => IInv
<1> SUFFICES ASSUME Init PROVE IInv
  OBVIOUS
<1> USE DEF Init
<1>1. OutputOK
  BY EmptySeq DEF OutputOK
<1>2. UnknownOK
  BY DEF UnknownOK, UnknownCommand, NoError
<1>3. FailureHasReason /\ CleanOK /\ TopOK /\ RunOK /\ SourceOK
  BY DEF FailureHasReason, CleanOK, TopOK, RunOK, SourceOK
<1>4. PhasesOK
  BY DEF PhasesOK
<1> QED BY <1>1, <1>2, <1>3, <1>4 DEF IInv

\* Steps that leave the source alone leave what it declares alone.
LEMMA SameSource ==
  ASSUME source' = source
  PROVE  /\ \A n : Declared(n)' <=> Declared(n)
         /\ Leftover' <=> Leftover
         /\ SourceOK' <=> SourceOK
BY DEF Declared, Commands, ScriptOf, Leftover, Texts, SourceOK

------------------------------------------------------------------------------
\* The program ends: with a failure there is an error, which is not about a name
\* that the top level declares.
LEMMA ExitKeepsInv ==
  ASSUME IInv, NEW code \in {"success", "failure"}, NEW e, Exit(code, e),
         phase # "exited",
         code = "failure" => e # NoError,
         code = "success" => e = error /\ verdict = "accepted",
         \A n : Declared(n) => e # UnknownCommand(n)
  PROVE  IInv'
<1> USE DEF IInv, Exit
<1>1. SourceOK' /\ OutputOK'
  BY DEF SourceOK, OutputOK
<1>2. PhasesOK' /\ TopOK' /\ RunOK'
  BY DEF PhasesOK, TopOK, RunOK
<1>3. FailureHasReason'
  BY DEF FailureHasReason
<1>4. UnknownOK'
  BY SameSource DEF UnknownOK
<1>5. CleanOK'
  <2>1. CASE code = "failure"
    BY <2>1 DEF CleanOK
  <2>2. CASE code = "success"
    <3> SUFFICES ASSUME ~ Leftover' PROVE error' = NoError
      BY DEF CleanOK
    <3>1. ~ Leftover /\ verdict # "refused"
      BY <2>2, SameSource
    <3>2. exitCode # "failure"
      BY DEF PhasesOK
    <3> QED BY <2>2, <3>1, <3>2 DEF CleanOK
  <2> QED BY <2>1, <2>2
<1> QED BY <1>1, <1>2, <1>3, <1>4, <1>5 DEF IInv

\* execute_command goes on with the next command.
LEMMA ContinueKeepsInv ==
  ASSUME IInv, phase = "running", Continue, OutputOK'
  PROVE  IInv'
<1> USE DEF IInv, Continue, validatorVars
<1>1. SourceOK' /\ FailureHasReason'
  BY DEF SourceOK, FailureHasReason
<1>2. PhasesOK' /\ TopOK' /\ RunOK'
  BY SameSource DEF PhasesOK, TopOK, RunOK, TopKnown
<1>3. UnknownOK' /\ CleanOK'
  BY SameSource DEF UnknownOK, CleanOK
<1> QED BY <1>1, <1>2, <1>3 DEF IInv

LEMMA FailureInRun ==
  ASSUME IInv, phase = "running", NEW e, ExitsWith(e), e # NoError,
         \A n : Declared(n) => e # UnknownCommand(n)
  PROVE  IInv'
<1>1. Recorded(e) # NoError /\ (\A n : Declared(n) => Recorded(e) # UnknownCommand(n))
  BY DEF Recorded, IInv, UnknownOK
<1> QED BY <1>1, ExitKeepsInv DEF ExitsWith

LEMMA ValidatorKeepsInv ==
  ASSUME IInv, ValidatorRuns
  PROVE  IInv'
<1> USE DEF IInv, ValidatorRuns, mainVars
<1>1. ValidatorEffect
  BY StepsOfTheValidator
<1> DEFINE kept   == verdict' \in {"busy", "accepted"} /\ error' = error
           forgot == verdict' = "busy" /\ error' = NoError
           lexed  == verdict' = "busy" /\ error = NoError /\ error' = LexicalError /\ Leftover
           failed == /\ verdict' = "refused" /\ error' # NoError
                     /\ error' \in {error, SyntaxError, LexicalError}
           asked  == /\ verdict' = "refused" /\ error' # NoError
                     /\ \/ error' = error
                        \/ \E n : n \notin DOMAIN procs /\ error' = UnknownCommand(n)
<1>2. kept \/ forgot \/ lexed \/ failed \/ asked
  BY <1>1 DEF ValidatorEffect
<1>3. source' = source /\ verdict = "busy" /\ DOMAIN procs \subseteq DOMAIN procs'
  BY <1>1 DEF ValidatorEffect
<1>4. SourceOK' /\ OutputOK'
  BY <1>3 DEF SourceOK, OutputOK
<1>5. PhasesOK'
  BY <1>3 DEF PhasesOK
<1>6. FailureHasReason'
  BY <1>2, <1>3 DEF FailureHasReason, PhasesOK
<1>7. CleanOK'
  BY <1>2, <1>3, SameSource DEF CleanOK
<1>8. TopKnown => TopKnown'
  BY <1>3, SameSource DEF TopKnown
<1>9. CASE AtStart
  <2>1. verdict' = "refused" \/ TopKnown'
    BY <1>9, <1>3, FirstStep, SameSource DEF TopKnown
  <2>2. error' = error \/ error' = SyntaxError
    BY <1>9, FirstStep
  <2>3. UnknownOK'
    <3> SUFFICES ASSUME NEW n, Declared(n) PROVE error' # UnknownCommand(n)
      BY <1>3, SameSource DEF UnknownOK
    <3>1. error # UnknownCommand(n)
      BY DEF UnknownOK
    <3>2. SyntaxError # UnknownCommand(n)
      BY DEF SyntaxError, UnknownCommand
    <3> QED BY <2>2, <3>1, <3>2
  <2>4. TopOK' /\ RunOK'
    BY <2>1, <1>9 DEF TopOK, RunOK, AtStart
  <2> QED BY <1>4, <1>5, <1>6, <1>7, <2>3, <2>4
<1>10. CASE ~ AtStart
  <2>1. TopKnown
    BY <1>10, <1>3 DEF TopOK
  <2>2. UnknownOK'
    <3> SUFFICES ASSUME NEW n, Declared(n) PROVE error' # UnknownCommand(n)
      BY <1>3, SameSource DEF UnknownOK
    <3>1. error # UnknownCommand(n) /\ n \in DOMAIN procs
      BY <2>1 DEF UnknownOK, TopKnown
    <3>2. NoError # UnknownCommand(n) /\ SyntaxError # UnknownCommand(n)
            /\ LexicalError # UnknownCommand(n)
      BY DEF NoError, SyntaxError, LexicalError, UnknownCommand
    <3>3. CASE asked
      BY <3>1, <3>3 DEF UnknownCommand
    <3> QED BY <1>2, <3>1, <3>2, <3>3
  <2>3. TopOK' /\ RunOK'
    BY <2>1, <1>8 DEF TopOK, RunOK
  <2> QED BY <1>4, <1>5, <1>6, <1>7, <2>2, <2>3
<1> QED BY <1>9, <1>10

LEMMA NextKeepsInv == IInv /\ [Next]_vars => IInv'
<1> SUFFICES ASSUME IInv, [Next]_vars PROVE IInv'
  OBVIOUS
<1> DEFINE harmless(e) == e # NoError /\ \A n : Declared(n) => e # UnknownCommand(n)
<1>1. harmless(SyntaxError) /\ harmless(LexicalError) /\ harmless(<<"evaluation", "">>)
  BY DEF NoError, SyntaxError, LexicalError, UnknownCommand
<1>2. CASE Read
  <2> DEFINE s == ScriptOf(Top)
             found == IF s.leftover \/ s.parse = "refused" THEN Recorded(LexicalError) ELSE error
  <2>1. error = NoError /\ verdict = "busy" /\ output = <<>> /\ variables = <<>>
          /\ exitCode = "none" /\ mode \in {"check", "run"} /\ phase = "reading"
    BY <1>2 DEF Read, IInv, PhasesOK
  <2>2. found = NoError \/ found = LexicalError
    BY <2>1 DEF Recorded
  <2>3. CASE s.parse # "commands" /\ found # NoError
    BY <1>1, <1>2, <2>2, <2>3, ExitKeepsInv DEF Read
  <2>4. CASE ~ (s.parse # "commands" /\ found # NoError)
    <3>1. /\ phase' = "checking" /\ error' = found /\ agenda' = <<ProgramTask(Top)>>
          /\ UNCHANGED <<source, procs, verdict, visited, mode, pc, variables, output, exitCode>>
      BY <1>2, <2>4 DEF Read
    <3>2. AtStart'
      BY <3>1, <2>1 DEF AtStart, ProgramTask, MakeTask, Top
    <3>3. SourceOK' /\ OutputOK' /\ PhasesOK' /\ FailureHasReason' /\ TopOK' /\ RunOK'
      BY <3>1, <3>2, <2>1
      DEF IInv, SourceOK, OutputOK, PhasesOK, FailureHasReason, TopOK, RunOK
    <3>4. UnknownOK'
      BY <3>1, <2>2, <2>1, <1>1, SameSource DEF UnknownOK, IInv
    <3>5. CleanOK'
      <4>1. CASE found = NoError
        BY <4>1, <3>1 DEF CleanOK
      <4>2. CASE found # NoError
        <5>1. s.leftover \/ s.parse = "refused"
          BY <4>2, <2>1
        <5>2. s.parse = "commands"
          BY <4>2, <2>4
        <5>3. s.parse # "refused"
          BY <5>2
        <5>4. s.leftover
          BY <5>1, <5>3
        <5>5. Top \in DOMAIN source
          BY <5>4 DEF ScriptOf
        <5>6. Leftover'
          BY <5>4, <5>5, <3>1, SameSource DEF Leftover, Texts
        <5> QED BY <5>6 DEF CleanOK
      <4> QED BY <4>1, <4>2
    <3> QED BY <3>3, <3>4, <3>5 DEF IInv
  <2> QED BY <2>3, <2>4
<1>3. CASE ValidatorRuns
  BY <1>3, ValidatorKeepsInv
<1>4. CASE CheckEnds
  <2>1. CASE verdict = "refused" /\ Exit("failure", error)
    BY <1>4, <2>1, ExitKeepsInv DEF CheckEnds, IInv, FailureHasReason, UnknownOK
  <2>2. CASE verdict = "accepted" /\ Exit("success", error)
    BY <1>4, <2>2, ExitKeepsInv DEF CheckEnds, IInv, UnknownOK
  <2>3. CASE /\ verdict = "accepted" /\ phase = "checking" /\ phase' = "running"
             /\ UNCHANGED <<validatorVars, mode, variables, output, exitCode>>
    <3> USE <2>3 DEF IInv, validatorVars
    <3>1. TopKnown
      BY DEF TopOK, AtStart
    <3>2. SourceOK' /\ OutputOK' /\ PhasesOK' /\ FailureHasReason'
      BY DEF SourceOK, OutputOK, PhasesOK, FailureHasReason
    <3>3. TopOK' /\ RunOK' /\ UnknownOK' /\ CleanOK'
      BY <3>1, SameSource DEF TopOK, RunOK, TopKnown, UnknownOK, CleanOK
    <3> QED BY <3>2, <3>3
  <2> QED BY <1>4, <2>1, <2>2, <2>3 DEF CheckEnds
<1>5. CASE WordsFail
  BY <1>1, <1>5, FailureInRun DEF WordsFail
<1>6. CASE SkipNameless
  <2>1. OutputOK'
    BY <1>6 DEF SkipNameless, IInv, OutputOK
  <2> QED BY <1>6, <2>1, ContinueKeepsInv DEF SkipNameless
<1>7. CASE ExecuteSet
  <2>1. phase = "running"
    BY <1>7 DEF ExecuteSet, Called
  <2>2. CASE Continue /\ UNCHANGED output
    <3>1. OutputOK'
      BY <2>2 DEF IInv, OutputOK
    <3> QED BY <2>1, <2>2, <3>1, ContinueKeepsInv
  <2>3. CASE ExitsWith(SyntaxError)
    BY <1>1, <2>1, <2>3, FailureInRun
  <2> QED BY <1>7, <2>2, <2>3 DEF ExecuteSet
<1>8. CASE ExecutePut
  <2>1. phase = "running"
    BY <1>8 DEF ExecutePut, Called
  <2>2. CASE Continue /\ output' = Append(output, ValuesOf(Words)[Len(ValuesOf(Words))])
    <3>1. OutputOK'
      BY <2>2, AppendToAny DEF IInv, OutputOK
    <3> QED BY <2>1, <2>2, <3>1, ContinueKeepsInv
  <2>3. CASE ExitsWith(SyntaxError)
    BY <1>1, <2>1, <2>3, FailureInRun
  <2> QED BY <1>8, <2>2, <2>3 DEF ExecutePut
<1>9. CASE ExecuteIf
  <2>1. phase = "running"
    BY <1>9 DEF ExecuteIf, Called
  <2> USE <1>9, <2>1 DEF IInv, ExecuteIf
  <2>2. SourceOK' /\ OutputOK' /\ PhasesOK' /\ FailureHasReason'
    BY DEF SourceOK, OutputOK, PhasesOK, FailureHasReason
  <2>3. TopOK' /\ RunOK' /\ UnknownOK' /\ CleanOK'
    BY SameSource DEF TopOK, RunOK, TopKnown, UnknownOK, CleanOK, PhasesOK
  <2> QED BY <2>2, <2>3
<1>10. CASE IfEnds
  <2>1. CASE verdict = "refused" /\ Exit("failure", error)
    BY <1>10, <2>1, ExitKeepsInv DEF IfEnds, IInv, FailureHasReason, UnknownOK
  <2>2. CASE /\ verdict = "accepted" /\ phase = "rechecking" /\ phase' = "running"
             /\ UNCHANGED <<validatorVars, mode, variables, output, exitCode>>
    <3> USE <2>2 DEF IInv, validatorVars
    <3>1. SourceOK' /\ OutputOK' /\ PhasesOK' /\ FailureHasReason'
      BY DEF SourceOK, OutputOK, PhasesOK, FailureHasReason
    <3>2. TopOK' /\ RunOK' /\ UnknownOK' /\ CleanOK'
      BY SameSource DEF TopOK, RunOK, TopKnown, UnknownOK, CleanOK
    <3> QED BY <3>1, <3>2
  <2> QED BY <1>10, <2>1, <2>2 DEF IfEnds
<1>11. CASE ExecuteCounted
  <2>1. phase = "running"
    BY <1>11 DEF ExecuteCounted, Called
  <2>2. CASE Continue /\ UNCHANGED output
    <3>1. OutputOK'
      BY <2>2 DEF IInv, OutputOK
    <3> QED BY <2>1, <2>2, <3>1, ContinueKeepsInv
  <2>3. CASE ExitsWith(SyntaxError)
    BY <1>1, <2>1, <2>3, FailureInRun
  <2> QED BY <1>11, <2>2, <2>3 DEF ExecuteCounted
<1>12. CASE ExecuteNothing
  <2>1. OutputOK'
    BY <1>12 DEF ExecuteNothing, IInv, OutputOK
  <2> QED BY <1>12, <2>1, ContinueKeepsInv DEF ExecuteNothing, Called
<1>13. CASE ExecuteOther
  <2>1. phase = "running"
    BY <1>13 DEF ExecuteOther
  <2>2. CASE Names[1] \in DOMAIN procs
    <3>1. OutputOK'
      BY <1>13, <2>2 DEF ExecuteOther, IInv, OutputOK
    <3> QED BY <1>13, <2>1, <2>2, <3>1, ContinueKeepsInv DEF ExecuteOther
  <2>3. CASE Names[1] \notin DOMAIN procs
    <3>1. TopKnown
      BY <2>1 DEF IInv, RunOK
    <3>2. harmless(UnknownCommand(Names[1]))
      BY <2>3, <3>1 DEF TopKnown, UnknownCommand, NoError
    <3> QED BY <1>13, <2>1, <2>3, <3>2, FailureInRun DEF ExecuteOther
  <2> QED BY <2>2, <2>3
<1>14. CASE RunEnds
  BY <1>14, ExitKeepsInv DEF RunEnds, IInv, UnknownOK, PhasesOK
<1>15. CASE UNCHANGED vars
  <2> USE <1>15 DEF IInv, vars, validatorVars, mainVars
  <2>1. SourceOK' /\ OutputOK' /\ PhasesOK' /\ FailureHasReason'
    BY DEF SourceOK, OutputOK, PhasesOK, FailureHasReason
  <2>2. RunOK' /\ UnknownOK' /\ CleanOK'
    BY SameSource DEF RunOK, TopKnown, UnknownOK, CleanOK
  <2>3. TopOK'
    BY SameSource DEF TopOK, TopKnown, AtStart
  <2> QED BY <2>1, <2>2, <2>3
<1> QED
  BY <1>2, <1>3, <1>4, <1>5, <1>6, <1>7, <1>8, <1>9, <1>10, <1>11, <1>12, <1>13, <1>14, <1>15
  DEF Next, Exited

------------------------------------------------------------------------------
(* The argument of the theorems below: IInv holds at the start and every   *)
(* step of the program keeps it.                                           *)
THEOREM Invariance == Spec => []IInv
<1>1. Init => IInv
  BY InitInv
<1>2. IInv /\ [Next]_vars => IInv'
  BY NextKeepsInv
<1> QED BY <1>1, <1>2, PTL DEF Spec

(* Whenever the validator refuses a script or the program fails there is   *)
(* an error to print, in spite of the errors that are cleared on the way.  *)
THEOREM FailuresHaveReasons == Spec => []FailureHasReason
<1>1. IInv => FailureHasReason
  BY DEF IInv
<1> QED BY <1>1, Invariance, PTL

(* A script that is accepted leaves no error of a forgotten attempt.       *)
THEOREM AcceptanceIsClean == Spec => []AcceptedIsClean
<1>1. IInv => AcceptedIsClean
  <2> SUFFICES ASSUME IInv, verdict = "accepted", exitCode # "failure", ~ Leftover
               PROVE  error = NoError
    BY DEF AcceptedIsClean
  <2>1. verdict # "refused"
    OBVIOUS
  <2> QED BY <2>1 DEF IInv, CleanOK
<1> QED BY <1>1, Invariance, PTL

(* The procedures of the top level are collected before any of its words   *)
(* is looked at, and never forgotten: no call of one is unknown.           *)
THEOREM DeclaredProceduresAreKnown == Spec => []DeclaredIsKnown
<1>1. IInv => DeclaredIsKnown
  <2> SUFFICES ASSUME IInv, NEW c \in Commands(Top), Declares(c)
               PROVE  error # UnknownCommand(c[2].text)
    BY DEF DeclaredIsKnown
  <2>1. Declared(c[2].text)
    BY DEF Declared
  <2> QED BY <2>1 DEF IInv, UnknownOK
<1> QED BY <1>1, Invariance, PTL

------------------------------------------------------------------------------
\* The end of the program is a step of the promise.
LEMMA ExitIsPromised ==
  ASSUME IInv, NEW code \in {"success", "failure"}, NEW e, Exit(code, e),
         \/ phase \in {"running", "rechecking"}
         \/ phase \in {"reading", "checking"} /\ (code = "failure" \/ mode = "check")
  PROVE  Promise!Next
<1> USE DEF Exit
<1>1. Stage' = "done" /\ UNCHANGED <<mode, Len(output), DOMAIN variables>> /\ exitCode' = code
  BY DEF Stage
<1>2. CASE phase \in {"running", "rechecking"}
  <2>1. Stage = "running"
    BY <1>2 DEF Stage
  <2> QED BY <1>1, <2>1 DEF Promise!Next, Promise!Stop
<1>3. CASE phase \in {"reading", "checking"} /\ code = "failure"
  <2>1. Stage = "validating"
    BY <1>3 DEF Stage
  <2> QED BY <1>1, <1>3, <2>1 DEF Promise!Next, Promise!Refuse
<1>4. CASE phase \in {"reading", "checking"} /\ code = "success" /\ mode = "check"
  <2>1. Stage = "validating"
    BY <1>4 DEF Stage
  <2> QED BY <1>1, <1>4, <2>1 DEF Promise!Next, Promise!Approve
<1> QED BY <1>2, <1>3, <1>4

\* What the promise sees does not change.
Silent == UNCHANGED <<mode, Stage, Len(output), DOMAIN variables, exitCode>>

LEMMA ContinueIsSilent ==
  ASSUME phase = "running", Continue, UNCHANGED <<variables, output>>
  PROVE  Silent
BY DEF Continue, Silent, Stage

LEMMA StepsArePromised ==
  ASSUME IInv, [Next]_vars
  PROVE  Promise!Next \/ Silent
<1>1. CASE Read
  <2>1. CASE phase' = "checking" /\ UNCHANGED <<mode, variables, output, exitCode>>
    BY <1>1, <2>1 DEF Read, Silent, Stage
  <2>2. CASE \E e : Exit("failure", e)
    BY <1>1, <2>2, ExitIsPromised DEF Read
  <2> QED BY <1>1, <2>1, <2>2 DEF Read
<1>2. CASE ValidatorRuns
  BY <1>2 DEF ValidatorRuns, mainVars, Silent, Stage
<1>3. CASE CheckEnds
  <2>1. CASE Exit("failure", error)
    BY <1>3, <2>1, ExitIsPromised DEF CheckEnds
  <2>2. CASE mode = "check" /\ Exit("success", error)
    BY <1>3, <2>2, ExitIsPromised DEF CheckEnds
  <2>3. CASE /\ mode = "run" /\ phase' = "running"
             /\ UNCHANGED <<validatorVars, mode, variables, output, exitCode>>
    <3>1. Stage = "validating" /\ Stage' = "running"
      BY <1>3, <2>3 DEF CheckEnds, Stage
    <3>2. UNCHANGED <<mode, Len(output), DOMAIN variables, exitCode>> /\ mode # "check"
      BY <2>3
    <3> QED BY <3>1, <3>2 DEF Promise!Next, Promise!Approve
  <2> QED BY <1>3, <2>1, <2>2, <2>3 DEF CheckEnds
<1>4. CASE WordsFail
  BY <1>4, ExitIsPromised DEF WordsFail, ExitsWith
<1>5. CASE SkipNameless
  BY <1>5, ContinueIsSilent DEF SkipNameless
<1>6. CASE ExecuteSet
  <2>1. phase = "running"
    BY <1>6 DEF ExecuteSet, Called
  <2>2. CASE Continue /\ UNCHANGED <<variables, output>>
    BY <2>1, <2>2, ContinueIsSilent
  <2>3. CASE ExitsWith(SyntaxError)
    BY <2>1, <2>3, ExitIsPromised DEF ExitsWith
  <2>4. CASE /\ Continue /\ UNCHANGED output
             /\ \E n : DOMAIN variables' = DOMAIN variables \union {n}
    <3>1. Stage = "running" /\ Stage' = "running"
      BY <2>1, <2>4 DEF Stage, Continue
    <3> QED BY <2>4, <3>1 DEF Continue, Promise!Next, Promise!Bind
  <2> QED BY <1>6, <2>2, <2>3, <2>4 DEF ExecuteSet
<1>7. CASE ExecutePut
  <2>1. phase = "running"
    BY <1>7 DEF ExecutePut, Called
  <2>2. CASE ExitsWith(SyntaxError)
    BY <2>1, <2>2, ExitIsPromised DEF ExitsWith
  <2>3. CASE Continue /\ UNCHANGED variables /\ \E v : output' = Append(output, v)
    <3>1. Stage = "running" /\ Stage' = "running"
      BY <2>1, <2>3 DEF Stage, Continue
    <3>2. Len(output') = Len(output) + 1
      <4>1. PICK S : output \in Seq(S)
        BY DEF IInv, OutputOK
      <4>2. PICK v : output' = Append(output, v)
        BY <2>3
      <4>3. output \in Seq(S \union {v})
        BY <4>1, SeqMonotonic
      <4> QED BY <4>2, <4>3, AppendProperties
    <3> QED BY <2>3, <3>1, <3>2 DEF Continue, Promise!Next, Promise!PrintText
  <2> QED BY <1>7, <2>2, <2>3 DEF ExecutePut
<1>8. CASE ExecuteIf
  BY <1>8 DEF ExecuteIf, Called, Silent, Stage
<1>9. CASE IfEnds
  <2>1. CASE Exit("failure", error)
    BY <1>9, <2>1, ExitIsPromised DEF IfEnds
  <2>2. CASE phase' = "running" /\ UNCHANGED <<mode, variables, output, exitCode>>
    BY <1>9, <2>2 DEF IfEnds, Silent, Stage
  <2> QED BY <1>9, <2>1, <2>2 DEF IfEnds
<1>10. CASE ExecuteCounted
  <2>1. phase = "running"
    BY <1>10 DEF ExecuteCounted, Called
  <2>2. CASE ExitsWith(SyntaxError)
    BY <2>1, <2>2, ExitIsPromised DEF ExitsWith
  <2> QED BY <1>10, <2>1, <2>2, ContinueIsSilent DEF ExecuteCounted
<1>11. CASE ExecuteNothing
  BY <1>11, ContinueIsSilent DEF ExecuteNothing, Called
<1>12. CASE ExecuteOther
  BY <1>12, ContinueIsSilent, ExitIsPromised DEF ExecuteOther, ExitsWith
<1>13. CASE RunEnds
  BY <1>13, ExitIsPromised DEF RunEnds
<1>14. CASE UNCHANGED vars
  BY <1>14 DEF vars, mainVars, Silent, Stage
<1> QED
  BY <1>1, <1>2, <1>3, <1>4, <1>5, <1>6, <1>7, <1>8, <1>9, <1>10, <1>11, <1>12, <1>13, <1>14
  DEF Next, Exited

(* The program keeps the promise of two passes: until the whole script was *)
(* accepted it prints nothing and sets no variable, a check never does,    *)
(* and validating the words of an if once more does nothing of either.     *)
THEOREM ScriptsTakeEffectAfterAcceptance == Spec => ImplementsTwoPass
<1>1. Init => Promise!Init
  BY EmptySeq DEF Init, Promise!Init, Stage
<1>2. IInv /\ [Next]_vars => [Promise!Next]_(Promise!twoPassVars)
  BY StepsArePromised DEF Silent, Promise!twoPassVars
<1> QED BY <1>1, <1>2, Invariance, PTL DEF Spec, ImplementsTwoPass, Promise!TwoPassSpec

------------------------------------------------------------------------------
\* The tasks that plans consist of, but for an Otherwise that ends one.
Plain == {task \in Task : task.do \in {"script", "fail", "attempt"}}

Elements(s) == {s[i] : i \in DOMAIN s}

\* The plan fails or validates all of the texts.
Does(plan, texts) ==
  /\ plan \in Seq(Plain)
  /\ Fail \in Elements(plan) \/ \A t \in texts : Script(t) \in Elements(plan)

\* The elements of two sequences one behind the other
LEMMA ElementsOfBoth ==
  ASSUME NEW V, NEW s \in Seq(V), NEW t \in Seq(V)
  PROVE  s \o t \in Seq(V) /\ Elements(s \o t) = Elements(s) \union Elements(t)
<1> DEFINE u == s \o t
<1>1. u \in Seq(V) /\ Len(u) = Len(s) + Len(t)
  BY ConcatProperties
<1>2. \A i \in DOMAIN s : i \in DOMAIN u /\ u[i] = s[i]
  BY <1>1, ConcatProperties
<1>3. \A i \in DOMAIN t : Len(s) + i \in DOMAIN u /\ u[Len(s) + i] = t[i]
  <2> SUFFICES ASSUME NEW i \in DOMAIN t PROVE Len(s) + i \in DOMAIN u /\ u[Len(s) + i] = t[i]
    OBVIOUS
  <2>1. Len(s) + i \in 1..(Len(s) + Len(t)) /\ Len(s) + i > Len(s) /\ (Len(s) + i) - Len(s) = i
    BY LenProperties
  <2> QED
    BY <1>1, <2>1, ConcatProperties
<1>4. ASSUME NEW i \in DOMAIN u PROVE u[i] \in Elements(s) \union Elements(t)
  <2>1. i \in 1..(Len(s) + Len(t))
    BY <1>1
  <2>2. CASE i <= Len(s)
    <3>1. i \in DOMAIN s
      BY <2>1, <2>2
    <3> QED
      BY <1>2, <3>1 DEF Elements
  <2>3. CASE i > Len(s)
    <3>1. i - Len(s) \in DOMAIN t /\ Len(s) + (i - Len(s)) = i
      BY <2>1, <2>3
    <3> QED
      BY <1>3, <3>1 DEF Elements
  <2> QED
    BY <2>1, <2>2, <2>3
<1> HIDE DEF u
<1>5. Elements(u) = Elements(s) \union Elements(t)
  BY <1>2, <1>3, <1>4 DEF Elements
<1> QED
  BY <1>1, <1>5 DEF u

\* Concat is what its recursive definition says.
LEMMA ConcatIs ==
  ASSUME NEW V, NEW plans, NEW n \in Nat, Len(plans) = n,
         \A i \in 1..n : plans[i] \in Seq(V)
  PROVE  /\ Concat(plans) \in Seq(V)
         /\ \A i \in 1..n : Elements(plans[i]) \subseteq Elements(Concat(plans))
<1> DEFINE F(f) == [i \in 0..n |-> IF i = 0 THEN <<>> ELSE f[i - 1] \o plans[i]]
           f == CHOOSE g : g = F(g)
           step == [p \in Seq(V) \X (1..n) |-> p[1] \o plans[p[2]]]
<1>1. Concat(plans) = f[n]
  BY DEF Concat
<1>2. <<>> \in Seq(V)
  OBVIOUS
<1>3. \A v \in Seq(V) : \A i \in (0 + 1)..n : step[<<v, i>>] \in Seq(V)
  BY ConcatProperties
<1>4. \A v \in Seq(V) : \A i \in 1..n : step[<<v, i>>] = v \o plans[i]
  OBVIOUS
<1> HIDE DEF step
<1>5. PICK g : GoesBy(g, 0, n, Seq(V), <<>>, step)
  <2>1. 0 \in Int /\ n \in Int /\ 0 <= n
    OBVIOUS
  <2> QED
    BY <1>2, <1>3, <2>1, Recursion
<1>6. g \in [0..n -> Seq(V)] /\ g[0] = <<>> /\ \A i \in 1..n : g[i] = g[i - 1] \o plans[i]
  <2>1. g \in [0..n -> Seq(V)] /\ g[0] = <<>> /\ \A i \in 1..n : g[i] = step[<<g[i - 1], i>>]
    BY <1>5 DEF GoesBy
  <2>2. \A i \in 1..n : i - 1 \in 0..n
    OBVIOUS
  <2>3. \A i \in 1..n : g[i - 1] \in Seq(V)
    BY <2>1, <2>2
  <2> QED
    BY <1>4, <2>1, <2>3
<1>7. g = F(g)
  <2>1. \A i \in 0..n : i = 0 \/ i \in 1..n
    OBVIOUS
  <2> QED
    BY <1>6, <2>1
<1>8. f = F(f)
  <2> HIDE DEF F
  <2> QED
    BY ONLY <1>7
<1> HIDE DEF f
<1>9. f[0] = <<>> /\ \A i \in 1..n : f[i] = f[i - 1] \o plans[i]
  <2>1. 0 \in 0..n /\ \A i \in 1..n : i \in 0..n /\ i # 0
    OBVIOUS
  <2> QED
    BY <1>8, <2>1
<1> HIDE DEF F
<1> DEFINE All(m) == /\ f[m] \in Seq(V)
                     /\ \A i \in 1..m : Elements(plans[i]) \subseteq Elements(f[m])
           S == {m \in 0..n : All(m)}
<1>10. 0 \in S
  <2>1. 0 \in 0..n /\ 1..0 = {}
    OBVIOUS
  <2>2. All(0)
    BY <1>2, <1>9, <2>1
  <2> HIDE DEF All
  <2> QED
    BY <2>1, <2>2
<1>11. ASSUME NEW m \in (0 + 1)..n, m - 1 \in S PROVE m \in S
  <2>1. All(m - 1) /\ m \in 1..n
    BY <1>11
  <2> HIDE DEF All
  <2>2. f[m - 1] \in Seq(V) /\ \A i \in 1..(m - 1) : Elements(plans[i]) \subseteq Elements(f[m - 1])
    BY <2>1 DEF All
  <2>3. f[m] = f[m - 1] \o plans[m] /\ plans[m] \in Seq(V)
    BY <1>9, <2>1
  <2>4. f[m] \in Seq(V) /\ Elements(f[m]) = Elements(f[m - 1]) \union Elements(plans[m])
    BY <2>2, <2>3, ElementsOfBoth
  <2>5. \A i \in 1..m : i = m \/ i \in 1..(m - 1)
    OBVIOUS
  <2>6. All(m)
    BY <2>2, <2>4, <2>5 DEF All
  <2> QED
    BY <2>6, <2>1
<1> HIDE DEF S, All
<1>12. \A m \in 0..n : m \in S
  <2>1. 0 \in Int /\ n \in Int
    OBVIOUS
  <2> QED
    BY <1>10, <1>11, <2>1, BoundedInduction
<1>13. All(n)
  BY <1>12 DEF S
<1> QED
  BY <1>1, <1>13 DEF All
------------------------------------------------------------------------------
\* Plans one after the other.
LEMMA DoesBoth ==
  ASSUME NEW p, NEW q, NEW A, NEW B, Does(p, A), Does(q, B)
  PROVE  Does(p \o q, A \union B)
<1>1. p \o q \in Seq(Plain) /\ Elements(p \o q) = Elements(p) \union Elements(q)
  BY ElementsOfBoth DEF Does
<1> QED
  BY <1>1 DEF Does

\* A plan that does more does less too.
LEMMA DoesLess ==
  ASSUME NEW p, NEW A, NEW B, Does(p, A), B \subseteq A
  PROVE  Does(p, B)
BY DEF Does

\* Plans one after the other do what each of them does.
LEMMA DoesAll ==
  ASSUME NEW plans, NEW n \in Nat, Len(plans) = n, NEW A,
         \A i \in 1..n : Does(plans[i], A[i])
  PROVE  Does(Concat(plans), UNION {A[i] : i \in 1..n})
<1>1. \A i \in 1..n : plans[i] \in Seq(Plain)
  BY DEF Does
<1>2. /\ Concat(plans) \in Seq(Plain)
      /\ \A i \in 1..n : Elements(plans[i]) \subseteq Elements(Concat(plans))
  BY <1>1, ConcatIs
<1> QED
  BY <1>2 DEF Does

\* What a plan of one task, or of none, does.
LEMMA PlainTasks ==
  /\ Fail \in Plain
  /\ \A t \in STRING : Script(t) \in Plain
  /\ \A w \in Word : Attempt(w) \in Plain
<1>1. <<>> \in Seq(Word) /\ 0 \in Nat
  OBVIOUS
<1>2. ASSUME NEW do \in {"script", "fail", "attempt"}, NEW t \in STRING
      PROVE  MakeTask(do, t) \in Plain
  <2>1. MakeTask(do, t) \in Task
    BY <1>1 DEF Task, Tasks, MakeTask
  <2>2. MakeTask(do, t).do = do
    BY DEF MakeTask
  <2> QED
    BY <2>1, <2>2 DEF Plain
<1>3. \A w \in Word : w.text \in STRING
  BY DEF Word
<1>4. "" \in STRING
  BY EmptyText
<1>5. Fail \in Plain
  BY <1>2, <1>4 DEF Fail
<1>6. \A t \in STRING : Script(t) \in Plain
  BY <1>2 DEF Script
<1>7. \A w \in Word : Attempt(w) \in Plain
  BY <1>2, <1>3 DEF Attempt
<1> QED
  BY <1>5, <1>6, <1>7

\* A sequence of one element
LEMMA OneElement ==
  ASSUME NEW V, NEW e \in V
  PROVE  <<e>> \in Seq(V) /\ Elements(<<e>>) = {e}
BY DEF Elements

\* The empty plan does nothing.
LEMMA DoesNothing == Does(<<>>, {})
BY DEF Does

\* A plan that fails need not do anything else.
LEMMA FailDoes == \A A : Does(<<Fail>>, A)
<1>1. <<Fail>> \in Seq(Plain) /\ Elements(<<Fail>>) = {Fail}
  BY PlainTasks, OneElement
<1> QED
  BY <1>1 DEF Does

\* A condition that has to hold
LEMMA UnlessDoes ==
  ASSUME NEW condition, NEW A, condition => A = {}
  PROVE  Does(Unless(condition), A)
<1>1. CASE condition
  BY <1>1, DoesNothing DEF Unless
<1>2. CASE ~ condition
  BY <1>2, FailDoes DEF Unless
<1> QED
  BY <1>1, <1>2

\* A script is validated as one task.
LEMMA ScriptDoes ==
  ASSUME NEW t \in STRING
  PROVE  Does(<<Script(t)>>, {t})
<1>1. <<Script(t)>> \in Seq(Plain) /\ Elements(<<Script(t)>>) = {Script(t)}
  BY PlainTasks, OneElement
<1> QED
  BY <1>1 DEF Does

\* All scripts of a list are validated.
LEMMA ScriptsDo ==
  ASSUME NEW texts \in Seq(STRING)
  PROVE  Does(Scripts(texts), Elements(texts))
<1>1. Scripts(texts) \in Seq(Plain) /\ DOMAIN Scripts(texts) = DOMAIN texts
  <2>1. \A i \in 1..Len(texts) : texts[i] \in STRING
    OBVIOUS
  <2>2. \A i \in 1..Len(texts) : Script(texts[i]) \in Plain
    BY <2>1, PlainTasks
  <2>3. DOMAIN texts = 1..Len(texts) /\ Len(texts) \in Nat
    OBVIOUS
  <2> QED
    BY <2>2, <2>3 DEF Scripts
<1>2. \A i \in DOMAIN texts : Scripts(texts)[i] = Script(texts[i])
  BY DEF Scripts
<1> QED
  BY <1>1, <1>2 DEF Does, Elements

\* The script that a word is as a body
BodyOf(w) == IF LiteralScript(w) THEN {w.text} ELSE {}

\* BodyPlan validates a word that is a literal script.
LEMMA BodyDoes ==
  ASSUME NEW w \in Word
  PROVE  Does(BodyPlan(w), BodyOf(w))
<1>1. w.text \in STRING
  BY DEF Word
<1>2. CASE LiteralScript(w)
  BY <1>1, <1>2, ScriptDoes DEF BodyPlan, BodyOf
<1>3. CASE ~ LiteralScript(w)
  BY <1>3, DoesNothing DEF BodyPlan, BodyOf
<1> QED
  BY <1>2, <1>3

\* ExpressionPlan has no task but scripts and failures.
LEMMA ExpressionDoes ==
  ASSUME NEW t
  PROVE  Does(ExpressionPlan(t), {})
<1>1. ExpressionOf(t).subs \in Seq(STRING)
  <2>1. CASE t \in DOMAIN Expression
    BY <2>1, TextViews DEF ExpressionOf
  <2>2. CASE t \notin DOMAIN Expression
    BY <2>2 DEF ExpressionOf
  <2> QED
    BY <2>1, <2>2
<1>2. Does(Scripts(ExpressionOf(t).subs), {})
  BY <1>1, ScriptsDo, DoesLess
<1>3. Does(Unless(ExpressionOf(t).shape = "operand"), {})
  BY UnlessDoes
<1> QED
  BY <1>2, <1>3, DoesBoth DEF ExpressionPlan

\* ExprWordPlan has no Otherwise of its own: an attempt is one task.
LEMMA ExprWordDoes ==
  ASSUME NEW w \in Word
  PROVE  Does(ExprWordPlan(w), {})
<1>1. Does(<<Attempt(w)>>, {})
  <2>1. <<Attempt(w)>> \in Seq(Plain)
    BY PlainTasks, OneElement
  <2> QED
    BY <2>1 DEF Does
<1>2. Does(<<>>, {}) /\ Does(<<Fail>>, {}) /\ Does(ExpressionPlan(w.text), {})
  BY DoesNothing, FailDoes, ExpressionDoes
<1> QED
  BY <1>1, <1>2 DEF ExprWordPlan

\* What is validated instead of a failed expr has no Otherwise either.
LEMMA ExprWordsDo ==
  ASSUME NEW words \in Seq(Word)
  PROVE  Does(ExprWordPlans(words), {})
<1> DEFINE plans == [i \in DOMAIN words |-> ExprWordPlan(words[i])]
           A == [i \in DOMAIN words |-> {}]
<1>1. Len(words) \in Nat /\ DOMAIN words = 1..Len(words)
  OBVIOUS
<1>2. Len(plans) = Len(words)
  BY <1>1
<1>3. \A i \in 1..Len(words) : Does(plans[i], A[i])
  BY <1>1, ExprWordDoes
<1> HIDE DEF plans, A
<1>4. Does(Concat(plans), UNION {A[i] : i \in 1..Len(words)})
  BY <1>1, <1>2, <1>3, DoesAll
<1>5. Does(Concat(plans), {})
  BY <1>4, DoesLess
<1> QED
  BY <1>5 DEF ExprWordPlans, plans

------------------------------------------------------------------------------
\* The bodies among the words at some places
BodiesAt(c, S) == {c[i].text : i \in {j \in S \intersect DOMAIN c : LiteralScript(c[j])}}

IfPlaces(c) == {i \in 3..Len(c) : c[i].text \notin IfKeywords /\ ~ Keyword(c[i - 1], "elseif")}
TryPlaces(c) == {i \in 2..Len(c) : i % 4 = 2 \/ (i % 4 = 0 /\ i = Len(c))}

\* A command without a literal name has no bodies.
LEMMA NoBodiesAt ==
  ASSUME NEW c, ~ LiteralName(c[1])
  PROVE  Bodies(c) = {}
<1>1. BodyPlaces(c) = {}
  BY DEF BodyPlaces
<1>2. Cases(c) = {}
  BY DEF Cases, Keyword
<1> QED
  BY <1>1, <1>2 DEF Bodies

\* Where the bodies of the commands with their own plan are.
LEMMA PlacesOfBodies ==
  ASSUME NEW c, NEW name, LiteralName(c[1]), c[1].text = name
  PROVE  /\ name = "while"   => Bodies(c) = BodiesAt(c, {3})
         /\ name = "for"     => Bodies(c) = BodiesAt(c, {2, 4, 5})
         /\ name = "proc"    => Bodies(c) = BodiesAt(c, {4})
         /\ name = "catch"   => Bodies(c) = BodiesAt(c, {2})
         /\ name = "foreach" => Bodies(c) = BodiesAt(c, {Len(c)})
         /\ name = "if"      => Bodies(c) = BodiesAt(c, IfPlaces(c))
         /\ name = "try"     => Bodies(c) = BodiesAt(c, TryPlaces(c))
         /\ name = "switch"  => Bodies(c) = Cases(c)
         /\ name = "dict"    =>
              Bodies(c) = IF Len(c) > 1 /\ Keyword(c[2], "for") THEN BodiesAt(c, {5}) ELSE {}
         /\ name = "namespace" =>
              Bodies(c) = IF Len(c) > 1 /\ Keyword(c[2], "eval") THEN BodiesAt(c, {4}) ELSE {}
         /\ name \notin {"while", "for", "proc", "catch", "foreach", "if", "try", "switch", "dict",
                         "namespace"} => Bodies(c) = {}
<1>1. name # "switch" => Cases(c) = {}
  BY DEF Cases, Keyword
<1>2. CASE name = "while"
  BY <1>1, <1>2 DEF Bodies, BodyPlaces, BodiesAt
<1>3. CASE name = "for"
  BY <1>1, <1>3 DEF Bodies, BodyPlaces, BodiesAt
<1>4. CASE name = "proc"
  BY <1>1, <1>4 DEF Bodies, BodyPlaces, BodiesAt
<1>5. CASE name = "catch"
  BY <1>1, <1>5 DEF Bodies, BodyPlaces, BodiesAt
<1>6. CASE name = "foreach"
  BY <1>1, <1>6 DEF Bodies, BodyPlaces, BodiesAt
<1>7. CASE name = "if"
  BY <1>1, <1>7 DEF Bodies, BodyPlaces, BodiesAt, IfPlaces
<1>8. CASE name = "try"
  BY <1>1, <1>8 DEF Bodies, BodyPlaces, BodiesAt, TryPlaces
<1>9. CASE name = "dict"
  BY <1>1, <1>9 DEF Bodies, BodyPlaces, BodiesAt
<1>10. CASE name = "namespace"
  BY <1>1, <1>10 DEF Bodies, BodyPlaces, BodiesAt
<1>11. CASE name = "switch"
  BY <1>11 DEF Bodies, BodyPlaces
<1>12. CASE name \notin {"while", "for", "proc", "catch", "foreach", "if", "try", "switch", "dict",
                        "namespace"}
  BY <1>1, <1>12 DEF Bodies, BodyPlaces
<1> QED
  BY <1>2, <1>3, <1>4, <1>5, <1>6, <1>7, <1>8, <1>9, <1>10, <1>11, <1>12

\* A place is done by the plan of its word.
LEMMA PlaceDone ==
  ASSUME NEW c, NEW i \in DOMAIN c
  PROVE  BodiesAt(c, {i}) = BodyOf(c[i])
BY DEF BodiesAt, BodyOf

\* A command has a first word, and its words are typed.
LEMMA WordOf ==
  ASSUME NEW c \in Command
  PROVE  /\ Len(c) \in Nat /\ Len(c) >= 1 /\ DOMAIN c = 1..Len(c)
         /\ \A i \in 1..Len(c) : c[i] \in Word /\ c[i].text \in STRING
<1>1. c \in Seq(Word) /\ c # <<>>
  BY DEF Command
<1>2. \A i \in 1..Len(c) : c[i] \in Word
  BY <1>1
<1>3. \A w \in Word : w.text \in STRING
  BY DEF Word
<1> QED
  BY <1>1, <1>2, <1>3

\* while validates its body.
LEMMA WhileDoes ==
  ASSUME NEW c \in Command
  PROVE  Does(WhilePlan(c), BodiesAt(c, {3}))
<1>1. CASE Len(c) = 3
  <2>1. c[2] \in Word /\ c[3] \in Word /\ 3 \in DOMAIN c
    BY <1>1, WordOf
  <2>2. Does(ExprWordPlan(c[2]), {}) /\ Does(BodyPlan(c[3]), BodiesAt(c, {3}))
    BY <2>1, ExprWordDoes, BodyDoes, PlaceDone
  <2>3. Does(ExprWordPlan(c[2]) \o BodyPlan(c[3]), {} \union BodiesAt(c, {3}))
    BY <2>2, DoesBoth
  <2> QED
    BY <1>1, <2>3 DEF WhilePlan
<1>2. CASE Len(c) # 3
  BY <1>2, FailDoes DEF WhilePlan
<1> QED
  BY <1>1, <1>2

\* for validates its three bodies.
LEMMA ForDoes ==
  ASSUME NEW c \in Command
  PROVE  Does(ForPlan(c), BodiesAt(c, {2, 4, 5}))
<1>1. CASE Len(c) = 5
  <2>1. \A i \in {2, 3, 4, 5} : i \in 1..Len(c)
    BY <1>1
  <2>1a. \A i \in {2, 3, 4, 5} : c[i] \in Word /\ i \in DOMAIN c
    BY <2>1, WordOf
  <2>2. /\ Does(BodyPlan(c[2]), BodiesAt(c, {2})) /\ Does(ExprWordPlan(c[3]), {})
        /\ Does(BodyPlan(c[4]), BodiesAt(c, {4})) /\ Does(BodyPlan(c[5]), BodiesAt(c, {5}))
    BY <2>1a, ExprWordDoes, BodyDoes, PlaceDone
  <2>3. Does(ForPlan(c), ((BodiesAt(c, {2}) \union {}) \union BodiesAt(c, {4})) \union BodiesAt(c, {5}))
    BY <1>1, <2>2, DoesBoth DEF ForPlan
  <2>4. BodiesAt(c, {2, 4, 5}) \subseteq
          ((BodiesAt(c, {2}) \union {}) \union BodiesAt(c, {4})) \union BodiesAt(c, {5})
    BY DEF BodiesAt
  <2> QED
    BY <2>3, <2>4, DoesLess
<1>2. CASE Len(c) # 5
  BY <1>2, FailDoes DEF ForPlan
<1> QED
  BY <1>1, <1>2

\* proc validates its body.
LEMMA ProcDoes ==
  ASSUME NEW c \in Command
  PROVE  Does(ProcPlan(c), BodiesAt(c, {4}))
<1>1. CASE Len(c) = 4
  <2>1. c[4] \in Word /\ 4 \in DOMAIN c
    BY <1>1, WordOf
  <2>2. Does(BodyPlan(c[4]), BodiesAt(c, {4}))
    BY <2>1, BodyDoes, PlaceDone
  <2> QED
    BY <1>1, <2>2 DEF ProcPlan
<1>2. CASE Len(c) # 4
  BY <1>2, FailDoes DEF ProcPlan
<1> QED
  BY <1>1, <1>2

\* catch validates its body.
LEMMA CatchDoes ==
  ASSUME NEW c \in Command
  PROVE  Does(CatchPlan(c), BodiesAt(c, {2}))
<1>1. CASE Len(c) \in {2, 3}
  <2>1. c[2] \in Word /\ 2 \in DOMAIN c
    BY <1>1, WordOf
  <2>2. Does(BodyPlan(c[2]), BodiesAt(c, {2}))
    BY <2>1, BodyDoes, PlaceDone
  <2> QED
    BY <1>1, <2>2 DEF CatchPlan
<1>2. CASE Len(c) \notin {2, 3}
  BY <1>2, FailDoes DEF CatchPlan
<1> QED
  BY <1>1, <1>2

\* foreach validates its body.
LEMMA ForeachDoes ==
  ASSUME NEW c \in Command
  PROVE  Does(ForeachPlan(c), BodiesAt(c, {Len(c)}))
<1> DEFINE n == Len(c)
           lists == {i \in 2..(n - 1) : i % 2 = 0}
           named(w) == LiteralScript(w) => ListOf(w.text).ok /\ ListOf(w.text).items # <<>>
           sound == \A i \in lists : named(c[i])
<1>1. CASE n < 4 \/ n % 2 # 0
  BY <1>1, FailDoes DEF ForeachPlan
<1>2. CASE ~ (n < 4 \/ n % 2 # 0)
  <2>1. c[n] \in Word /\ n \in DOMAIN c
    BY <1>2, WordOf
  <2>2. Does(BodyPlan(c[n]), BodiesAt(c, {n}))
    BY <2>1, BodyDoes, PlaceDone
  <2>3. ForeachPlan(c) = Unless(sound) \o BodyPlan(c[n])
    BY <1>2 DEF ForeachPlan
  <2> HIDE DEF sound, n
  <2>4. Does(Unless(sound), {})
    BY UnlessDoes
  <2>5. Does(Unless(sound) \o BodyPlan(c[n]), {} \union BodiesAt(c, {n}))
    BY <2>2, <2>4, DoesBoth
  <2> QED
    BY <2>3, <2>5 DEF n
<1> QED
  BY <1>1, <1>2

------------------------------------------------------------------------------
\* What IfPlan does from a condition at place i on, f standing for the clauses
\* behind it.
IfFinal(c, e) ==
  IF e > Len(c) THEN <<Fail>> ELSE <<Script(c[e].text)>> \o Unless(e = Len(c))

IfBody(c, i) == IF i < Len(c) /\ Keyword(c[i + 1], "then") THEN i + 2 ELSE i + 1

IfRest(c, f, b) ==
  IF b = Len(c) THEN <<>>
  ELSE IF Keyword(c[b + 1], "elseif") THEN f[b + 2]
  ELSE IfFinal(c, IF Keyword(c[b + 1], "else") THEN b + 2 ELSE b + 1)

IfClause(c, f, i) ==
  IF i > Len(c) THEN <<Fail>>
  ELSE ExpressionPlan(c[i].text) \o
       IF IfBody(c, i) > Len(c) THEN <<Fail>>
       ELSE BodyPlan(c[IfBody(c, i)]) \o IfRest(c, f, IfBody(c, i))

\* The bodies behind a condition at place i, among some of the places
IfBehind(c, M, i) ==
  IF i = 2 \/ Keyword(c[i - 1], "elseif") THEN BodiesAt(c, IfPlaces(c) \intersect (i..Len(c)) \intersect M)
  ELSE {}

\* The last of several bodies is done with the others.
LEMMA BodiesJoin ==
  ASSUME NEW c, NEW p, NEW q, NEW A, NEW B, NEW S, Does(p, BodiesAt(c, A)), Does(q, BodiesAt(c, B)),
         \A i \in S : i \in DOMAIN c /\ LiteralScript(c[i]) => i \in A \union B
  PROVE  Does(p \o q, BodiesAt(c, S))
<1>1. Does(p \o q, BodiesAt(c, A) \union BodiesAt(c, B))
  BY DoesBoth
<1>2. BodiesAt(c, S) \subseteq BodiesAt(c, A) \union BodiesAt(c, B)
  BY DEF BodiesAt
<1> QED
  BY <1>1, <1>2, DoesLess

\* No places, no bodies
LEMMA NoPlaces == \A c : BodiesAt(c, {}) = {}
BY DEF BodiesAt

\* The else body is the last word, or the if fails.
LEMMA IfFinalDoes ==
  ASSUME NEW c \in Command, NEW e \in Nat, e >= 1
  PROVE  Does(IfFinal(c, e), BodiesAt(c, e..Len(c)))
<1>1. Len(c) \in Nat /\ DOMAIN c = 1..Len(c)
  BY WordOf
<1>2. CASE e > Len(c)
  BY <1>2, FailDoes DEF IfFinal
<1>3. CASE e < Len(c)
  <2>1. c[e].text \in STRING
    BY <1>3, <1>1, WordOf
  <2>a. e # Len(c) /\ ~ (e > Len(c))
    <3> DEFINE n == Len(c)
    <3>1. n \in Nat /\ e < n
      BY <1>1, <1>3
    <3> HIDE DEF n
    <3>2. e # n /\ ~ (e > n)
      BY <3>1
    <3> QED
      BY <3>2 DEF n
  <2>2. Does(<<Script(c[e].text)>>, {c[e].text}) /\ Does(Unless(e = Len(c)), BodiesAt(c, e..Len(c)))
    BY <2>a, <2>1, ScriptDoes, UnlessDoes
  <2>3. Does(<<Script(c[e].text)>> \o Unless(e = Len(c)), {c[e].text} \union BodiesAt(c, e..Len(c)))
    BY <2>2, DoesBoth
  <2>4. Does(<<Script(c[e].text)>> \o Unless(e = Len(c)), BodiesAt(c, e..Len(c)))
    BY <2>3, DoesLess
  <2> QED
    BY <2>a, <2>4 DEF IfFinal
<1>4. CASE e = Len(c)
  <2>1. c[e].text \in STRING
    BY <1>4, <1>1, WordOf
  <2>2. Does(<<Script(c[e].text)>>, {c[e].text}) /\ Does(Unless(e = Len(c)), {})
    BY <2>1, ScriptDoes, UnlessDoes
  <2>3. Does(<<Script(c[e].text)>> \o Unless(e = Len(c)), {c[e].text} \union {})
    BY <2>2, DoesBoth
  <2>4. BodiesAt(c, e..Len(c)) \subseteq {c[e].text}
    <3>1. e..Len(c) = {e}
      BY <1>4, <1>1
    <3> QED
      BY <3>1 DEF BodiesAt
  <2>5. Does(<<Script(c[e].text)>> \o Unless(e = Len(c)), BodiesAt(c, e..Len(c)))
    BY <2>3, <2>4, DoesLess
  <2>6. ~ (e > Len(c))
    BY <1>4, <1>1
  <2> QED
    BY <2>5, <2>6 DEF IfFinal
<1>5. e > Len(c) \/ e < Len(c) \/ e = Len(c)
  <2> DEFINE n == Len(c)
  <2>1. n \in Nat
    BY <1>1
  <2> HIDE DEF n
  <2>2. e > n \/ e < n \/ e = n
    BY <2>1
  <2> QED
    BY <2>2 DEF n
<1> QED
  BY <1>2, <1>3, <1>4, <1>5

\* The words that an if has between its bodies are no bodies.
LEMMA KeywordsAreNoBodies ==
  ASSUME NEW c, NEW i, NEW k \in IfKeywords, Keyword(c[i], k)
  PROVE  i \notin IfPlaces(c)
BY DEF Keyword, IfPlaces

\* What follows a body in an if
LEMMA IfRestDoes ==
  ASSUME NEW c \in Command, NEW M, NEW f, NEW b \in 2..Len(c),
         \A l \in (b + 1)..(Len(c) + 1) : Does(f[l], IfBehind(c, M, l))
  PROVE  Does(IfRest(c, f, b), BodiesAt(c, IfPlaces(c) \intersect ((b + 1)..Len(c)) \intersect M))
<1> DEFINE n == Len(c)
           S == IfPlaces(c) \intersect ((b + 1)..n) \intersect M
<1>1. n \in Nat /\ DOMAIN c = 1..n /\ b \in Nat /\ b >= 2 /\ b <= n
  BY WordOf
<1> HIDE DEF n
<1>2. CASE b = n
  <2>1. (b + 1)..n = {}
    BY <1>1, <1>2
  <2>2. BodiesAt(c, S) = {}
    BY <2>1, NoPlaces
  <2> QED
    BY <1>2, <2>2, DoesNothing DEF IfRest, n
<1>3. CASE b # n /\ Keyword(c[b + 1], "elseif")
  <2>1. b + 2 \in (b + 1)..(n + 1) /\ b + 2 # 2 /\ (b + 2) - 1 = b + 1
    BY <1>1, <1>3
  <2>2. Does(f[b + 2], BodiesAt(c, IfPlaces(c) \intersect ((b + 2)..n) \intersect M))
    BY <2>1, <1>3 DEF IfBehind, n
  <2>3. b + 1 \notin IfPlaces(c)
    BY <1>3, KeywordsAreNoBodies DEF IfKeywords
  <2>4. \A i \in (b + 1)..n : i = b + 1 \/ i \in (b + 2)..n
    BY <1>1
  <2>5. S \subseteq IfPlaces(c) \intersect ((b + 2)..n) \intersect M
    BY <2>3, <2>4
  <2>6. BodiesAt(c, S) \subseteq BodiesAt(c, IfPlaces(c) \intersect ((b + 2)..n) \intersect M)
    BY <2>5 DEF BodiesAt
  <2>7. Does(f[b + 2], BodiesAt(c, S))
    BY <2>2, <2>6, DoesLess
  <2> QED
    BY <1>3, <2>7 DEF IfRest, n
<1>4. CASE b # n /\ ~ Keyword(c[b + 1], "elseif")
  <2> DEFINE e == IF Keyword(c[b + 1], "else") THEN b + 2 ELSE b + 1
  <2>1. e \in Nat /\ e >= 1
    BY <1>1
  <2>2. S \subseteq e..n
    <3>1. CASE Keyword(c[b + 1], "else")
      <4>1. b + 1 \notin IfPlaces(c)
        BY <3>1, KeywordsAreNoBodies DEF IfKeywords
      <4>2. \A i \in (b + 1)..n : i = b + 1 \/ i \in (b + 2)..n
        BY <1>1
      <4> QED
        BY <3>1, <4>1, <4>2
    <3>2. CASE ~ Keyword(c[b + 1], "else")
      BY <3>2
    <3> QED
      BY <3>1, <3>2
  <2>3. IfRest(c, f, b) = IfFinal(c, e)
    BY <1>4 DEF IfRest, n
  <2> HIDE DEF e
  <2>4. Does(IfFinal(c, e), BodiesAt(c, e..n))
    BY <2>1, IfFinalDoes DEF n
  <2>5. BodiesAt(c, S) \subseteq BodiesAt(c, e..n)
    BY <2>2 DEF BodiesAt
  <2>6. Does(IfFinal(c, e), BodiesAt(c, S))
    BY <2>4, <2>5, DoesLess
  <2> QED
    BY <2>3, <2>6 DEF n
<1> QED
  BY <1>2, <1>3, <1>4 DEF n

\* One clause of an if, and the clauses behind it
LEMMA IfClauseDoes ==
  ASSUME NEW c \in Command, NEW M, NEW f, NEW i \in 2..(Len(c) + 1),
         \A l \in (i + 1)..(Len(c) + 1) : Does(f[l], IfBehind(c, M, l))
  PROVE  Does(IfClause(c, f, i), IfBehind(c, M, i))
<1> DEFINE n == Len(c)
           b == IfBody(c, i)
           A == IfBehind(c, M, i)
           S == IfPlaces(c) \intersect (i..n) \intersect M
           T == IfPlaces(c) \intersect ((b + 1)..n) \intersect M
           rest == IF b > n THEN <<Fail>> ELSE BodyPlan(c[b]) \o IfRest(c, f, b)
<1>1. n \in Nat /\ DOMAIN c = 1..n /\ i \in Nat /\ i >= 2 /\ i <= n + 1
  BY WordOf
<1>2. CASE i > n
  BY <1>2, FailDoes DEF IfClause
<1>3. CASE ~ (i > n)
  <2>1. b \in {i + 1, i + 2} /\ (b = i + 2 => Keyword(c[i + 1], "then"))
    BY DEF IfBody
  <2>2. IfClause(c, f, i) = ExpressionPlan(c[i].text) \o rest
    BY <1>3 DEF IfClause
  <2>3. Does(ExpressionPlan(c[i].text), {})
    BY ExpressionDoes
  <2> HIDE DEF n, b
  <2>4. Does(rest, A)
    <3>1. CASE b > n
      BY <3>1, FailDoes
    <3>2. CASE ~ (b > n)
      <4>1. b \in Nat /\ b \in 2..n /\ b \in DOMAIN c
        BY <1>1, <2>1, <3>2
      <4>2. c[b] \in Word
        BY <4>1, WordOf DEF n
      <4>3. Does(BodyPlan(c[b]), BodiesAt(c, {b}))
        BY <4>1, <4>2, BodyDoes, PlaceDone
      <4>4. \A l \in (b + 1)..(n + 1) : l \in (i + 1)..(n + 1)
        BY <1>1, <2>1
      <4>5. Does(IfRest(c, f, b), BodiesAt(c, T))
        BY <4>1, <4>4, IfRestDoes DEF n
      <4>6. A = {} \/ A = BodiesAt(c, S)
        BY DEF IfBehind, n
      <4>7. CASE A = {}
        <5>1. Does(BodyPlan(c[b]) \o IfRest(c, f, b), BodiesAt(c, {b}) \union BodiesAt(c, T))
          BY <4>3, <4>5, DoesBoth
        <5>2. Does(BodyPlan(c[b]) \o IfRest(c, f, b), A)
          BY <4>7, <5>1, DoesLess
        <5> QED
          BY <3>2, <5>2
      <4>8. CASE A # {}
        <5>1. i = 2 \/ Keyword(c[i - 1], "elseif")
          BY <4>8 DEF IfBehind
        <5>2. i \notin IfPlaces(c)
          BY <1>1, <5>1 DEF IfPlaces
        <5>3. b = i + 2 => i + 1 \notin IfPlaces(c)
          BY <2>1, KeywordsAreNoBodies DEF IfKeywords
        <5>4. \A j \in i..n : j = i \/ (b = i + 2 /\ j = i + 1) \/ j = b \/ j \in (b + 1)..n
          BY <1>1, <2>1
        <5>5. \A j \in S : j \in {b} \union T
          BY <5>2, <5>3, <5>4
        <5> HIDE DEF S, T
        <5>6. Does(BodyPlan(c[b]) \o IfRest(c, f, b), BodiesAt(c, S))
          BY <4>3, <4>5, <5>5, BodiesJoin
        <5> QED
          BY <3>2, <4>6, <4>8, <5>6
      <4> QED
        BY <4>7, <4>8
    <3> QED
      BY <3>1, <3>2
  <2> HIDE DEF rest, A
  <2>5. Does(ExpressionPlan(c[i].text) \o rest, {} \union A)
    BY <2>3, <2>4, DoesBoth
  <2> QED
    BY <2>2, <2>5 DEF A
<1> QED
  BY <1>2, <1>3

------------------------------------------------------------------------------
\* Without places there are none behind one.
LEMMA NoBodiesBehind ==
  ASSUME NEW c, NEW i
  PROVE  IfBehind(c, {}, i) = {}
BY NoPlaces DEF IfBehind

\* A plan that has nothing to validate is just typed.
LEMMA DoesNoneIsPlain == \A p : Does(p, {}) <=> p \in Seq(Plain)
BY DEF Does

\* A clause of an if depends on the ones behind it only.
LEMMA IfClauseLooksAhead ==
  ASSUME NEW c \in Command, NEW f, NEW g, NEW i \in 2..(Len(c) + 1),
         \A l \in (i + 1)..(Len(c) + 1) : f[l] = g[l]
  PROVE  IfClause(c, f, i) = IfClause(c, g, i)
<1> DEFINE n == Len(c)
           b == IfBody(c, i)
<1>1. n \in Nat /\ i \in Nat /\ i >= 2
  BY WordOf
<1>2. b \in {i + 1, i + 2}
  BY DEF IfBody
<1>3. CASE i > n
  BY <1>3 DEF IfClause
<1>4. CASE b > n
  BY <1>4 DEF IfClause
<1>5. CASE ~ (i > n) /\ ~ (b > n)
  <2>1. IfRest(c, f, b) = IfRest(c, g, b)
    <3>1. CASE b = n
      BY <3>1 DEF IfRest
    <3>2. CASE b # n
      <4> HIDE DEF n, b
      <4>1. b + 2 \in (i + 1)..(n + 1)
        BY <1>1, <1>2, <1>5, <3>2
      <4>2. f[b + 2] = g[b + 2]
        BY <4>1 DEF n
      <4> QED
        BY <4>2 DEF IfRest
    <3> QED
      BY <3>1, <3>2
  <2> QED
    BY <2>1 DEF IfClause
<1> QED
  BY <1>3, <1>4, <1>5

\* if validates every word that is a body, or fails.
LEMMA IfDoes ==
  ASSUME NEW c \in Command
  PROVE  Does(IfPlan(c), BodiesAt(c, IfPlaces(c)))
<1> DEFINE n == Len(c)
           F(f) == [i \in 2..(n + 1) |-> IfClause(c, f, i)]
           clause == CHOOSE f : f = F(f)
           V == Seq(Plain)
           step == [p \in [2..(n + 1) -> V] \X (2..(n + 1)) |-> IfClause(c, p[1], p[2])]
<1>1. n \in Nat /\ n >= 1 /\ DOMAIN c = 1..n
  BY WordOf
<1>2. CASE n < 3
  BY <1>2, FailDoes DEF IfPlan
<1>3. CASE ~ (n < 3)
  <2>1. IfPlan(c) = clause[2]
    BY <1>3 DEF IfPlan, IfClause, IfRest, IfBody, IfFinal
  <2>2. \A f \in [2..(n + 1) -> V] : \A k \in 2..(n + 1) : step[<<f, k>>] = IfClause(c, f, k)
    OBVIOUS
  <2>3. ASSUME NEW f \in [2..(n + 1) -> V], NEW k \in 2..(n + 1) PROVE IfClause(c, f, k) \in V
    <3>1. \A l \in (k + 1)..(n + 1) : l \in 2..(n + 1)
      OBVIOUS
    <3>2. \A l \in (k + 1)..(n + 1) : Does(f[l], IfBehind(c, {}, l))
      BY <3>1, NoBodiesBehind, DoesNoneIsPlain
    <3>3. Does(IfClause(c, f, k), IfBehind(c, {}, k))
      BY <3>2, IfClauseDoes
    <3> QED
      BY <3>3 DEF Does
  <2>4. \A f, g \in [2..(n + 1) -> V] : \A k \in 2..(n + 1) :
          (\A l \in (k + 1)..(n + 1) : f[l] = g[l]) => IfClause(c, f, k) = IfClause(c, g, k)
    BY IfClauseLooksAhead
  <2>5. <<>> \in V
    OBVIOUS
  <2> HIDE DEF step, V
  <2>6. PICK g \in [2..(n + 1) -> V] : \A k \in 2..(n + 1) : g[k] = IfClause(c, g, k)
    <3> DEFINE m == n + 1
    <3>1. m \in Int /\ 2 <= m
      BY <1>1
    <3>2. LooksAhead(2, m, V, step)
      <4> SUFFICES ASSUME NEW f \in [2..m -> V], NEW h \in [2..m -> V], NEW k \in 2..m
                   PROVE  /\ step[<<f, k>>] \in V
                          /\ (\A l \in (k + 1)..m : f[l] = h[l]) => step[<<f, k>>] = step[<<h, k>>]
        BY Zenon DEF LooksAhead
      <4>1. step[<<f, k>>] = IfClause(c, f, k) /\ step[<<h, k>>] = IfClause(c, h, k)
        BY <2>2
      <4>2. IfClause(c, f, k) \in V
        BY <2>3
      <4>3. (\A l \in (k + 1)..m : f[l] = h[l]) => IfClause(c, f, k) = IfClause(c, h, k)
        BY <2>4
      <4> QED
        BY <4>1, <4>2, <4>3
    <3>3. 2 \in Int
      OBVIOUS
    <3> HIDE DEF m
    <3>4. PICK g : FilledBy(g, 2, m, V, step)
      BY <2>5, <3>1, <3>2, <3>3, RecursionAhead
    <3>5. g \in [2..(n + 1) -> V] /\ \A k \in 2..(n + 1) : g[k] = step[<<g, k>>]
      BY <3>4 DEF FilledBy, m
    <3> QED
      BY <2>2, <3>5
  <2>7. g = F(g)
    BY <2>6
  <2>8. clause = F(clause)
    <3> HIDE DEF F
    <3> QED
      BY ONLY <2>7
  <2> HIDE DEF clause
  <2>9. \A i \in 2..(n + 1) : clause[i] = IfClause(c, clause, i)
    BY <2>8
  <2> HIDE DEF F
  <2> DEFINE S == {i \in 2..(n + 1) : Does(clause[i], IfBehind(c, 3..n, i))}
  <2>10. ASSUME NEW k \in 2..(n + 1), \A l \in (k + 1)..(n + 1) : l \in S PROVE k \in S
    <3>1. \A l \in (k + 1)..(n + 1) : Does(clause[l], IfBehind(c, 3..n, l))
      BY <2>10
    <3>2. Does(IfClause(c, clause, k), IfBehind(c, 3..n, k))
      BY <3>1, IfClauseDoes
    <3> QED
      BY <2>9, <3>2
  <2> HIDE DEF S
  <2>11. \A i \in 2..(n + 1) : i \in S
    <3>1. 2 \in Nat /\ n + 1 \in Nat
      BY <1>1
    <3> HIDE DEF n
    <3> QED
      BY <2>10, <3>1, Backwards
  <2>12. Does(clause[2], IfBehind(c, 3..n, 2))
    <3>1. 2 \in 2..(n + 1)
      BY <1>1
    <3> QED
      BY <2>11, <3>1 DEF S
  <2>13. IfBehind(c, 3..n, 2) = BodiesAt(c, IfPlaces(c))
    <3>1. IfPlaces(c) \intersect (2..n) \intersect (3..n) = IfPlaces(c)
      BY <1>1 DEF IfPlaces
    <3> QED
      BY <3>1 DEF IfBehind
  <2> QED
    BY <2>1, <2>12, <2>13
<1> QED
  BY <1>2, <1>3

------------------------------------------------------------------------------
\* What TryPlan does from a clause at place i on, f standing for the clauses
\* behind it.
TryClause(c, f, i) ==
  IF i > Len(c) THEN <<>>
  ELSE IF Keyword(c[i], "finally")
       THEN IF i = Len(c) THEN <<Fail>>
            ELSE BodyPlan(c[i + 1]) \o Unless(i + 1 = Len(c))
  ELSE IF Keyword(c[i], "trap") \/ Keyword(c[i], "on")
       THEN IF i + 3 > Len(c) THEN <<Fail>>
            ELSE BodyPlan(c[i + 3]) \o f[i + 4]
  ELSE <<Fail>>

\* The bodies from a clause at place i on, among some of the places
TryBehind(c, M, i) ==
  IF i % 4 = 3 THEN BodiesAt(c, TryPlaces(c) \intersect (i..Len(c)) \intersect M) ELSE {}

\* Without places there are none behind one.
LEMMA NoTryBodiesBehind ==
  ASSUME NEW c, NEW i
  PROVE  TryBehind(c, {}, i) = {}
BY NoPlaces DEF TryBehind

\* Of the places from a clause on, the first is that of its body.
LEMMA TryPlacesBehind ==
  ASSUME NEW c, NEW n \in Nat, Len(c) = n, NEW i \in 3..n, i % 4 = 3
  PROVE  /\ i + 3 <= n => TryPlaces(c) \intersect (i..n) \subseteq {i + 3} \union ((i + 4)..n)
         /\ i + 1 = n => TryPlaces(c) \intersect (i..n) \subseteq {i + 1}
<1>1. ASSUME NEW j \in TryPlaces(c) \intersect (i..n) PROVE j % 4 = 2 \/ (j % 4 = 0 /\ j = n)
  BY DEF TryPlaces
<1>2. ASSUME i + 3 <= n, NEW j \in TryPlaces(c) \intersect (i..n) PROVE j \in {i + 3} \union ((i + 4)..n)
  BY <1>1, <1>2
<1>3. ASSUME i + 1 = n, NEW j \in TryPlaces(c) \intersect (i..n) PROVE j = i + 1
  BY <1>1, <1>3
<1> QED
  BY <1>2, <1>3

\* One clause of a try, and the clauses behind it
LEMMA TryClauseDoes ==
  ASSUME NEW c \in Command, NEW M, NEW f, NEW i \in 3..(Len(c) + 4),
         \A l \in (i + 1)..(Len(c) + 4) : Does(f[l], TryBehind(c, M, l))
  PROVE  Does(TryClause(c, f, i), TryBehind(c, M, i))
<1> DEFINE n == Len(c)
           A == TryBehind(c, M, i)
           S == TryPlaces(c) \intersect (i..n) \intersect M
<1>1. n \in Nat /\ DOMAIN c = 1..n
  BY WordOf
<1>2. A = {} \/ (i % 4 = 3 /\ A = BodiesAt(c, S))
  BY DEF TryBehind
<1>8. i \in 3..n => ~ (i > n)
  BY <1>1
<1>3. CASE i > n
  <2>1. i..n = {}
    BY <1>1, <1>3
  <2>2. S = {}
    BY <2>1
  <2>3. A = {}
    BY <1>2, <2>2, NoPlaces
  <2> QED
    BY <1>3, <2>3, DoesNothing DEF TryClause
<1>4. CASE i \in 3..n /\ Keyword(c[i], "finally") /\ i = n
  BY <1>4, FailDoes DEF TryClause
<1>5. CASE i \in 3..n /\ Keyword(c[i], "finally") /\ i # n
  <2>1. i + 1 \in 1..n
    <3>1. i \in 3..n /\ i # n /\ n \in Nat
      BY <1>1, <1>5
    <3> HIDE DEF n
    <3> QED
      BY <3>1
  <2>2. c[i + 1] \in Word /\ i + 1 \in DOMAIN c
    BY <1>1, <2>1, WordOf
  <2>3. Does(BodyPlan(c[i + 1]), BodiesAt(c, {i + 1}))
    BY <2>2, BodyDoes, PlaceDone
  <2>4. TryClause(c, f, i) = BodyPlan(c[i + 1]) \o Unless(i + 1 = n)
    BY <1>5 DEF TryClause
  <2>5. CASE i + 1 = n
    <3>1. Does(Unless(i + 1 = n), {})
      BY <2>5, UnlessDoes
    <3>2. Does(BodyPlan(c[i + 1]) \o Unless(i + 1 = n), BodiesAt(c, {i + 1}) \union {})
      BY <2>3, <3>1, DoesBoth
    <3>3. A \subseteq BodiesAt(c, {i + 1})
      <4>1. CASE A = {}
        BY <4>1
      <4>2. CASE i % 4 = 3 /\ A = BodiesAt(c, S)
        <5>1. TryPlaces(c) \intersect (i..n) \subseteq {i + 1}
          BY <1>1, <1>5, <2>5, <4>2, TryPlacesBehind
        <5> QED
          BY <4>2, <5>1 DEF BodiesAt
      <4> QED
        BY <1>2, <4>1, <4>2
    <3> HIDE DEF A
    <3>4. Does(BodyPlan(c[i + 1]) \o Unless(i + 1 = n), A)
      BY <3>2, <3>3, DoesLess
    <3> QED
      BY <2>4, <3>4 DEF A
  <2>6. CASE i + 1 # n
    <3>1. Does(Unless(i + 1 = n), A)
      BY <2>6, UnlessDoes
    <3> HIDE DEF A
    <3>2. Does(BodyPlan(c[i + 1]) \o Unless(i + 1 = n), BodiesAt(c, {i + 1}) \union A)
      BY <2>3, <3>1, DoesBoth
    <3>3. Does(BodyPlan(c[i + 1]) \o Unless(i + 1 = n), A)
      BY <3>2, DoesLess
    <3> QED
      BY <2>4, <3>3 DEF A
  <2> QED
    BY <2>5, <2>6
<1>6. CASE i \in 3..n /\ ~ Keyword(c[i], "finally")
  <2>1. CASE ~ (Keyword(c[i], "trap") \/ Keyword(c[i], "on")) \/ i + 3 > n
    <3>1. TryClause(c, f, i) = <<Fail>>
      BY Zenon, <1>6, <1>8, <2>1 DEF TryClause
    <3> QED
      BY <3>1, FailDoes
  <2>2. CASE (Keyword(c[i], "trap") \/ Keyword(c[i], "on")) /\ ~ (i + 3 > n)
    <3>1. i + 3 \in 1..n /\ i + 4 \in (i + 1)..(n + 4) /\ i + 3 <= n
      BY <1>1, <1>6, <2>2
    <3>2. c[i + 3] \in Word /\ i + 3 \in DOMAIN c
      BY <1>1, <3>1, WordOf
    <3>3. Does(BodyPlan(c[i + 3]), BodiesAt(c, {i + 3}))
      BY <3>2, BodyDoes, PlaceDone
    <3>4. TryClause(c, f, i) = BodyPlan(c[i + 3]) \o f[i + 4]
      BY Zenon, <1>6, <1>8, <2>2 DEF TryClause
    <3>5. Does(f[i + 4], TryBehind(c, M, i + 4))
      BY <3>1
    <3>6. Does(BodyPlan(c[i + 3]) \o f[i + 4], BodiesAt(c, {i + 3}) \union TryBehind(c, M, i + 4))
      BY <3>3, <3>5, DoesBoth
    <3>7. A \subseteq BodiesAt(c, {i + 3}) \union TryBehind(c, M, i + 4)
      <4>1. CASE A = {}
        BY <4>1
      <4>2. CASE i % 4 = 3 /\ A = BodiesAt(c, S)
        <5>1. TryPlaces(c) \intersect (i..n) \subseteq {i + 3} \union ((i + 4)..n)
          BY <1>1, <1>6, <3>1, <4>2, TryPlacesBehind
        <5>2. (i + 4) % 4 = 3
          BY <1>6, <4>2
        <5>3. TryBehind(c, M, i + 4) = BodiesAt(c, TryPlaces(c) \intersect ((i + 4)..n) \intersect M)
          BY <5>2 DEF TryBehind
        <5>4. S \subseteq {i + 3} \union (TryPlaces(c) \intersect ((i + 4)..n) \intersect M)
          BY <5>1
        <5> HIDE DEF S
        <5> QED
          BY <4>2, <5>3, <5>4 DEF BodiesAt
      <4> QED
        BY <1>2, <4>1, <4>2
    <3> HIDE DEF A
    <3>8. Does(BodyPlan(c[i + 3]) \o f[i + 4], A)
      BY <3>6, <3>7, DoesLess
    <3> QED
      BY <3>4, <3>8 DEF A
  <2> QED
    BY <2>1, <2>2
<1>7. i > n \/ i \in 3..n
  BY <1>1
<1> QED
  BY <1>3, <1>4, <1>5, <1>6, <1>7

\* A clause of a try depends on the ones behind it only.
LEMMA TryClauseLooksAhead ==
  ASSUME NEW c \in Command, NEW f, NEW g, NEW i \in 3..(Len(c) + 4),
         \A l \in (i + 1)..(Len(c) + 4) : f[l] = g[l]
  PROVE  TryClause(c, f, i) = TryClause(c, g, i)
<1> DEFINE n == Len(c)
<1>1. n \in Nat
  BY WordOf
<1>2. CASE i + 3 > n
  BY <1>2 DEF TryClause
<1>3. CASE ~ (i + 3 > n)
  <2>1. i + 4 \in (i + 1)..(n + 4)
    BY <1>1, <1>3
  <2>2. f[i + 4] = g[i + 4]
    BY <2>1
  <2> QED
    BY <2>2 DEF TryClause
<1> QED
  BY <1>2, <1>3

\* try validates every word that is a body, or fails.
LEMMA TryDoes ==
  ASSUME NEW c \in Command
  PROVE  Does(TryPlan(c), BodiesAt(c, TryPlaces(c)))
<1> DEFINE n == Len(c)
           F(f) == [i \in 3..(n + 4) |-> TryClause(c, f, i)]
           clause == CHOOSE f : f = F(f)
           V == Seq(Plain)
           step == [p \in [3..(n + 4) -> V] \X (3..(n + 4)) |-> TryClause(c, p[1], p[2])]
<1>1. n \in Nat /\ n >= 1 /\ DOMAIN c = 1..n
  BY WordOf
<1>2. CASE n < 2
  BY <1>2, FailDoes DEF TryPlan
<1>3. CASE ~ (n < 2)
  <2>1. TryPlan(c) = BodyPlan(c[2]) \o clause[3]
    BY <1>3 DEF TryPlan, TryClause
  <2>2. \A f \in [3..(n + 4) -> V] : \A k \in 3..(n + 4) : step[<<f, k>>] = TryClause(c, f, k)
    OBVIOUS
  <2>3. ASSUME NEW f \in [3..(n + 4) -> V], NEW k \in 3..(n + 4) PROVE TryClause(c, f, k) \in V
    <3>1. \A l \in (k + 1)..(n + 4) : l \in 3..(n + 4)
      OBVIOUS
    <3>2. \A l \in (k + 1)..(n + 4) : Does(f[l], TryBehind(c, {}, l))
      BY <3>1, NoTryBodiesBehind, DoesNoneIsPlain
    <3>3. Does(TryClause(c, f, k), TryBehind(c, {}, k))
      BY <3>2, TryClauseDoes
    <3> QED
      BY <3>3 DEF Does
  <2>4. \A f, g \in [3..(n + 4) -> V] : \A k \in 3..(n + 4) :
          (\A l \in (k + 1)..(n + 4) : f[l] = g[l]) => TryClause(c, f, k) = TryClause(c, g, k)
    BY TryClauseLooksAhead
  <2>5. <<>> \in V
    OBVIOUS
  <2> HIDE DEF step, V
  <2>6. PICK g \in [3..(n + 4) -> V] : \A k \in 3..(n + 4) : g[k] = TryClause(c, g, k)
    <3> DEFINE m == n + 4
    <3>1. m \in Int /\ 3 <= m
      BY <1>1
    <3>2. LooksAhead(3, m, V, step)
      <4> SUFFICES ASSUME NEW f \in [3..m -> V], NEW h \in [3..m -> V], NEW k \in 3..m
                   PROVE  /\ step[<<f, k>>] \in V
                          /\ (\A l \in (k + 1)..m : f[l] = h[l]) => step[<<f, k>>] = step[<<h, k>>]
        BY Zenon DEF LooksAhead
      <4>1. step[<<f, k>>] = TryClause(c, f, k) /\ step[<<h, k>>] = TryClause(c, h, k)
        BY <2>2
      <4>2. TryClause(c, f, k) \in V
        BY <2>3
      <4>3. (\A l \in (k + 1)..m : f[l] = h[l]) => TryClause(c, f, k) = TryClause(c, h, k)
        BY <2>4
      <4> QED
        BY <4>1, <4>2, <4>3
    <3>3. 3 \in Int
      OBVIOUS
    <3> HIDE DEF m
    <3>4. PICK g : FilledBy(g, 3, m, V, step)
      BY <2>5, <3>1, <3>2, <3>3, RecursionAhead
    <3>5. g \in [3..(n + 4) -> V] /\ \A k \in 3..(n + 4) : g[k] = step[<<g, k>>]
      BY <3>4 DEF FilledBy, m
    <3> QED
      BY <2>2, <3>5
  <2>7. g = F(g)
    BY <2>6
  <2>8. clause = F(clause)
    <3> HIDE DEF F
    <3> QED
      BY ONLY <2>7
  <2> HIDE DEF clause
  <2>9. \A i \in 3..(n + 4) : clause[i] = TryClause(c, clause, i)
    BY <2>8
  <2> HIDE DEF F
  <2> DEFINE S == {i \in 3..(n + 4) : Does(clause[i], TryBehind(c, 3..n, i))}
  <2>10. ASSUME NEW k \in 3..(n + 4), \A l \in (k + 1)..(n + 4) : l \in S PROVE k \in S
    <3>1. \A l \in (k + 1)..(n + 4) : Does(clause[l], TryBehind(c, 3..n, l))
      BY <2>10
    <3>2. Does(TryClause(c, clause, k), TryBehind(c, 3..n, k))
      BY <3>1, TryClauseDoes
    <3> QED
      BY <2>9, <3>2
  <2> HIDE DEF S
  <2>11. \A i \in 3..(n + 4) : i \in S
    <3>1. 3 \in Nat /\ n + 4 \in Nat
      BY <1>1
    <3> HIDE DEF n
    <3> QED
      BY <2>10, <3>1, Backwards
  <2>12. Does(clause[3], TryBehind(c, 3..n, 3))
    <3>1. 3 \in 3..(n + 4)
      BY <1>1
    <3> QED
      BY <2>11, <3>1 DEF S
  <2>13. TryBehind(c, 3..n, 3) = BodiesAt(c, TryPlaces(c) \intersect (3..n))
    <3>1. TryPlaces(c) \intersect (3..n) \intersect (3..n) = TryPlaces(c) \intersect (3..n)
      OBVIOUS
    <3>2. 3 % 4 = 3
      OBVIOUS
    <3> QED
      BY <3>1, <3>2 DEF TryBehind
  <2>14. Does(BodyPlan(c[2]), BodiesAt(c, {2}))
    <3>1. 2 \in 1..n
      BY <1>1, <1>3
    <3>2. c[2] \in Word /\ 2 \in DOMAIN c
      BY <1>1, <3>1, WordOf
    <3> QED
      BY <3>2, BodyDoes, PlaceDone
  <2>15. \A i \in TryPlaces(c) : i \in {2} \union (TryPlaces(c) \intersect (3..n))
    <3> SUFFICES ASSUME NEW i \in TryPlaces(c), i # 2 PROVE i \in 3..n
      OBVIOUS
    <3>1. i \in 2..n
      BY DEF TryPlaces
    <3> HIDE DEF n
    <3> QED
      BY <1>1, <3>1
  <2>16. Does(BodyPlan(c[2]) \o clause[3], BodiesAt(c, TryPlaces(c)))
    <3> DEFINE B == TryPlaces(c) \intersect (3..n)
    <3>1. Does(clause[3], BodiesAt(c, B))
      BY <2>12, <2>13
    <3>2. \A i \in TryPlaces(c) : i \in {2} \union B
      BY <2>15
    <3> HIDE DEF B
    <3> QED
      BY <2>14, <3>1, <3>2, BodiesJoin
  <2> QED
    BY <2>1, <2>16
<1> QED
  BY <1>2, <1>3

------------------------------------------------------------------------------
\* The subcommands with a body have a place for it.
LEMMA EnsembleLength ==
  ASSUME NEW c \in Command, EnsembleFits(c)
  PROVE  /\ c[1].text = "dict" /\ Keyword(c[2], "for") => Len(c) = 5
         /\ c[1].text = "namespace" /\ (Keyword(c[2], "eval") \/ Keyword(c[2], "inscope"))
              => Len(c) >= 4
<1>1. ASSUME c[1].text = "dict", Keyword(c[2], "for") PROVE Len(c) = 5
  <2>1. LiteralName(c[2]) /\ c[2].text = "for"
    BY <1>1 DEF Keyword
  <2>2. ~ OptionsFit("dict", "for", c)
    BY DEF OptionsFit
  <2>3. SubArity("dict", "for", Len(c))
    BY <1>1, <2>1, <2>2 DEF EnsembleFits
  <2> QED
    BY <2>3 DEF SubArity, DictArity
<1>2. ASSUME c[1].text = "namespace", Keyword(c[2], "eval") \/ Keyword(c[2], "inscope")
      PROVE  Len(c) >= 4
  <2>1. LiteralName(c[2]) /\ c[2].text \in {"eval", "inscope"}
    BY <1>2 DEF Keyword
  <2>2. ~ OptionsFit("namespace", c[2].text, c)
    BY <2>1 DEF OptionsFit
  <2>3. SubArity("namespace", c[2].text, Len(c))
    BY <1>2, <2>1, <2>2 DEF EnsembleFits
  <2> QED
    BY <2>1, <2>3 DEF SubArity, NamespaceArity
<1> QED
  BY <1>1, <1>2

\* dict for and namespace eval validate their bodies.
LEMMA EnsembleDoes ==
  ASSUME NEW c \in Command, LiteralName(c[1]), c[1].text \in Ensembles
  PROVE  Does(EnsemblePlan(c), Bodies(c))
<1>1. CASE ~ EnsembleFits(c)
  BY <1>1, FailDoes DEF EnsemblePlan
<1>2. CASE EnsembleFits(c) /\ c[1].text = "dict" /\ Keyword(c[2], "for")
  <2>1. Len(c) = 5
    BY <1>2, EnsembleLength
  <2>2. 5 \in DOMAIN c /\ c[5] \in Word
    BY <2>1, WordOf
  <2>3. Does(BodyPlan(c[5]), BodiesAt(c, {5}))
    BY <2>2, BodyDoes, PlaceDone
  <2>4. Bodies(c) = BodiesAt(c, {5})
    <3>1. Len(c) > 1
      BY <2>1
    <3>2. Bodies(c) = IF Len(c) > 1 /\ Keyword(c[2], "for") THEN BodiesAt(c, {5}) ELSE {}
      BY <1>2, PlacesOfBodies
    <3> QED
      BY <1>2, <3>1, <3>2
  <2> QED
    BY <1>2, <2>3, <2>4 DEF EnsemblePlan
<1>3. CASE /\ EnsembleFits(c) /\ c[1].text = "namespace"
           /\ Keyword(c[2], "eval") \/ Keyword(c[2], "inscope")
  <2>1. Len(c) >= 4
    BY <1>3, EnsembleLength
  <2>2. 4 \in 1..Len(c)
    BY <2>1, WordOf
  <2>3. 4 \in DOMAIN c /\ c[4] \in Word
    BY <2>2, WordOf
  <2>4. Does(BodyPlan(c[4]), BodiesAt(c, {4}))
    BY <2>3, BodyDoes, PlaceDone
  <2>5. Bodies(c) = BodiesAt(c, {4}) \/ Bodies(c) = {}
    BY <1>3, PlacesOfBodies
  <2>6. Does(BodyPlan(c[4]), Bodies(c))
    BY <2>4, <2>5, DoesLess
  <2> QED
    BY <1>3, <2>6 DEF EnsemblePlan
<1>4. CASE /\ EnsembleFits(c)
           /\ ~ (c[1].text = "dict" /\ Keyword(c[2], "for"))
           /\ ~ (c[1].text = "namespace" /\ (Keyword(c[2], "eval") \/ Keyword(c[2], "inscope")))
  <2>1. Bodies(c) = {}
    <3>1. CASE c[1].text = "dict"
      BY <1>4, <3>1, PlacesOfBodies
    <3>2. CASE c[1].text = "namespace"
      BY <1>4, <3>2, PlacesOfBodies
    <3>3. CASE c[1].text \notin {"dict", "namespace"}
      <4>1. c[1].text \notin {"while", "for", "proc", "catch", "foreach", "if", "try", "switch",
                              "dict", "namespace"}
        BY <3>3 DEF Ensembles
      <4> QED
        BY <4>1, PlacesOfBodies
    <3> QED
      BY <3>1, <3>2, <3>3
  <2>2. EnsemblePlan(c) = <<>>
    BY <1>4 DEF EnsemblePlan
  <2> QED
    BY <2>1, <2>2, DoesNothing
<1> QED
  BY <1>1, <1>2, <1>3, <1>4

------------------------------------------------------------------------------
\* The items of a list are texts.
LEMMA ListItems ==
  ASSUME NEW t \in STRING
  PROVE  ListOf(t).items \in Seq(STRING)
<1>1. CASE t \in DOMAIN List
  BY <1>1, TextViews DEF ListOf
<1>2. CASE t \notin DOMAIN List
  BY <1>2 DEF ListOf
<1> QED
  BY <1>1, <1>2

\* The bodies in a list of patterns and bodies
CaseBodies(items) == {items[i] : i \in {j \in DOMAIN items : j % 2 = 0}} \ {"-"}

\* Every second item of the list of a switch is validated.
LEMMA CaseListDoes ==
  ASSUME NEW t \in STRING
  PROVE  Does(CaseListPlan(t), CaseBodies(ListOf(t).items))
<1> DEFINE items == ListOf(t).items
           m == Len(items)
           pairs == m \div 2
           plans == [i \in 1..pairs |-> CasePlan(items[2 * i])]
           A == [i \in 1..pairs |-> {items[2 * i]} \ {"-"}]
           sound == /\ ListOf(t).ok
                    /\ items # <<>> /\ Len(items) % 2 = 0
                    /\ items[Len(items)] # "-"
<1>1. items \in Seq(STRING)
  BY ListItems
<1> HIDE DEF items
<1>2. m \in Nat /\ DOMAIN items = 1..m
  BY <1>1
<1>3. pairs \in Nat /\ \A i \in 1..pairs : 2 * i \in 1..m
  <2> HIDE DEF m
  <2> QED
    BY <1>2
<1>4. \A i \in 1..pairs : Does(plans[i], A[i])
  <2> SUFFICES ASSUME NEW i \in 1..pairs PROVE Does(plans[i], A[i])
    OBVIOUS
  <2>1. items[2 * i] \in STRING
    BY <1>1, <1>2, <1>3
  <2>2. plans[i] = CasePlan(items[2 * i]) /\ A[i] = {items[2 * i]} \ {"-"}
    OBVIOUS
  <2>3. CASE items[2 * i] = "-"
    <3>1. A[i] = {} /\ plans[i] = <<>>
      BY <2>2, <2>3 DEF CasePlan
    <3> QED
      BY <3>1, DoesNothing
  <2>4. CASE items[2 * i] # "-"
    <3>1. A[i] = {items[2 * i]} /\ plans[i] = <<Script(items[2 * i])>>
      BY <2>2, <2>4 DEF CasePlan
    <3> QED
      BY <2>1, <3>1, ScriptDoes
  <2> QED
    BY <2>3, <2>4
<1>5. Len(plans) = pairs
  BY <1>3
<1>6. CaseListPlan(t) = Concat(plans) \o Unless(sound)
  BY DEF CaseListPlan, items
<1>7. CaseBodies(items) \subseteq UNION {A[i] : i \in 1..pairs}
  <2> SUFFICES ASSUME NEW j \in 1..m, j % 2 = 0, items[j] # "-"
               PROVE  items[j] \in UNION {A[i] : i \in 1..pairs}
    BY <1>2 DEF CaseBodies
  <2> DEFINE i == j \div 2
  <2>1. i \in 1..pairs /\ 2 * i = j
    <3> HIDE DEF m
    <3> QED
      BY <1>2
  <2> HIDE DEF i
  <2>2. A[i] = {items[j]} \ {"-"}
    BY <2>1
  <2> HIDE DEF A
  <2> QED
    BY <2>1, <2>2
<1> HIDE DEF plans, A, sound, pairs
<1>8. Does(Concat(plans), UNION {A[i] : i \in 1..pairs})
  BY <1>3, <1>4, <1>5, DoesAll
<1>9. Does(Unless(sound), {})
  BY UnlessDoes
<1>10. Does(Concat(plans) \o Unless(sound), (UNION {A[i] : i \in 1..pairs}) \union {})
  BY <1>8, <1>9, DoesBoth
<1>11. Does(Concat(plans) \o Unless(sound), CaseBodies(items))
  BY <1>7, <1>10, DoesLess
<1> QED
  BY <1>6, <1>11 DEF items

\* The cases of a switch given as words
LEMMA CaseWordsDo ==
  ASSUME NEW words \in Seq(Word)
  PROVE  Does(CaseWordsPlan(words), {})
<1> DEFINE n == Len(words)
           pairs == n \div 2
           falls(w) == Keyword(w, "-")
           plans == [i \in 1..pairs |-> IF falls(words[2 * i]) THEN <<>> ELSE BodyPlan(words[2 * i])]
           A == [i \in 1..pairs |-> {}]
           sound == ~ falls(words[n])
<1>1. n \in Nat /\ DOMAIN words = 1..n
  OBVIOUS
<1>2. CASE n % 2 # 0
  BY <1>2, FailDoes DEF CaseWordsPlan
<1>3. CASE ~ (n % 2 # 0)
  <2>1. pairs \in Nat /\ \A i \in 1..pairs : 2 * i \in 1..n
    <3> HIDE DEF n
    <3> QED
      BY <1>1
  <2>2. \A i \in 1..pairs : Does(plans[i], A[i])
    <3> SUFFICES ASSUME NEW i \in 1..pairs PROVE Does(plans[i], A[i])
      OBVIOUS
    <3>1. words[2 * i] \in Word
      BY <1>1, <2>1
    <3>2. Does(BodyPlan(words[2 * i]), {}) /\ Does(<<>>, {})
      BY <3>1, BodyDoes, DoesNothing, DoesLess
    <3>3. A[i] = {} /\ plans[i] \in {<<>>, BodyPlan(words[2 * i])}
      OBVIOUS
    <3> QED
      BY <3>2, <3>3
  <2>3. Len(plans) = pairs
    BY <2>1
  <2>4. CaseWordsPlan(words) = Concat(plans) \o Unless(sound)
    BY <1>3 DEF CaseWordsPlan
  <2> HIDE DEF plans, A, sound, pairs
  <2>5. Does(Concat(plans), UNION {A[i] : i \in 1..pairs})
    BY <2>1, <2>2, <2>3, DoesAll
  <2>6. Does(Unless(sound), {})
    BY UnlessDoes
  <2>7. Does(Concat(plans) \o Unless(sound), (UNION {A[i] : i \in 1..pairs}) \union {})
    BY <2>5, <2>6, DoesBoth
  <2>8. Does(Concat(plans) \o Unless(sound), {})
    BY <2>7, DoesLess
  <2> QED
    BY <2>4, <2>8
<1> QED
  BY <1>2, <1>3

------------------------------------------------------------------------------
\* What SwitchOperands does at place i, f standing for the places behind it.
SwitchStep(c, f, i) ==
  LET n == Len(c) IN
  IF i > n \/ ~ LiteralName(c[i]) THEN i
  ELSE IF c[i].text = "--" THEN i + 1
  ELSE IF c[i].text \in SwitchOptions THEN f[i + 1]
  ELSE IF c[i].text \in SwitchVariables
       THEN IF i < n /\ LiteralName(c[i + 1]) THEN f[i + 2] ELSE 0
  ELSE IF Dashed(c[i]) THEN 0
  ELSE i

\* The options of a switch end somewhere.
LEMMA SwitchOperandsType ==
  ASSUME NEW c \in Command
  PROVE  SwitchOperands(c) \in Nat
<1> DEFINE n == Len(c)
           F(f) == [i \in 2..(n + 2) |-> SwitchStep(c, f, i)]
           after == CHOOSE f : f = F(f)
           step == [p \in [2..(n + 2) -> Nat] \X (2..(n + 2)) |-> SwitchStep(c, p[1], p[2])]
<1>1. n \in Nat /\ n >= 1
  BY WordOf
<1>2. CASE n = 3
  BY <1>2 DEF SwitchOperands
<1>3. CASE n # 3
  <2>1. SwitchOperands(c) = after[2]
    BY <1>3 DEF SwitchOperands, SwitchStep
  <2>2. \A f \in [2..(n + 2) -> Nat] : \A k \in 2..(n + 2) : step[<<f, k>>] = SwitchStep(c, f, k)
    OBVIOUS
  <2>3. ASSUME NEW f, NEW k \in 2..(n + 2), \A l \in (k + 1)..(n + 2) : f[l] \in Nat
        PROVE  SwitchStep(c, f, k) \in Nat
    <3>1. CASE k > n
      BY <3>1 DEF SwitchStep
    <3>2. CASE ~ (k > n)
      <4>1. k \in Nat /\ k + 1 \in (k + 1)..(n + 2) /\ k + 2 \in (k + 1)..(n + 2) /\ 0 \in Nat /\ k + 1 \in Nat
        <5> HIDE DEF n
        <5> QED
          BY <1>1, <3>2
      <4>2. f[k + 1] \in Nat /\ f[k + 2] \in Nat
        BY <2>3, <4>1
      <4>3. SwitchStep(c, f, k) \in {k, k + 1, f[k + 1], f[k + 2], 0}
        BY Zenon DEF SwitchStep
      <4> QED
        BY <4>1, <4>2, <4>3
    <3> QED
      BY <3>1, <3>2
  <2>4. ASSUME NEW f, NEW g, NEW k \in 2..(n + 2), \A l \in (k + 1)..(n + 2) : f[l] = g[l]
        PROVE  SwitchStep(c, f, k) = SwitchStep(c, g, k)
    <3>1. CASE k > n
      BY <3>1 DEF SwitchStep
    <3>2. CASE ~ (k > n)
      <4>1. k + 1 \in (k + 1)..(n + 2) /\ k + 2 \in (k + 1)..(n + 2)
        <5> HIDE DEF n
        <5> QED
          BY <1>1, <3>2
      <4>2. f[k + 1] = g[k + 1] /\ f[k + 2] = g[k + 2]
        BY <2>4, <4>1
      <4> QED
        BY <4>2 DEF SwitchStep
    <3> QED
      BY <3>1, <3>2
  <2> HIDE DEF step
  <2>6. PICK g \in [2..(n + 2) -> Nat] : \A k \in 2..(n + 2) : g[k] = SwitchStep(c, g, k)
    <3> DEFINE m == n + 2
    <3>1. m \in Int /\ 2 <= m
      BY <1>1
    <3>2. LooksAhead(2, m, Nat, step)
      <4> SUFFICES ASSUME NEW f \in [2..m -> Nat], NEW h \in [2..m -> Nat], NEW k \in 2..m
                   PROVE  /\ step[<<f, k>>] \in Nat
                          /\ (\A l \in (k + 1)..m : f[l] = h[l]) => step[<<f, k>>] = step[<<h, k>>]
        BY Zenon DEF LooksAhead
      <4>1. step[<<f, k>>] = SwitchStep(c, f, k) /\ step[<<h, k>>] = SwitchStep(c, h, k)
        BY <2>2
      <4>2. \A l \in (k + 1)..m : f[l] \in Nat
        OBVIOUS
      <4>3. SwitchStep(c, f, k) \in Nat
        BY <2>3, <4>2
      <4>4. (\A l \in (k + 1)..m : f[l] = h[l]) => SwitchStep(c, f, k) = SwitchStep(c, h, k)
        BY <2>4
      <4> QED
        BY <4>1, <4>3, <4>4
    <3>3. 2 \in Int /\ 0 \in Nat
      OBVIOUS
    <3> HIDE DEF m
    <3>4. PICK g : FilledBy(g, 2, m, Nat, step)
      BY <3>1, <3>2, <3>3, RecursionAhead
    <3>5. g \in [2..(n + 2) -> Nat] /\ \A k \in 2..(n + 2) : g[k] = step[<<g, k>>]
      BY <3>4 DEF FilledBy, m
    <3> QED
      BY <2>2, <3>5
  <2>7. g = F(g)
    BY <2>6
  <2>8. after = F(after)
    <3> HIDE DEF F
    <3> QED
      BY ONLY <2>7
  <2> HIDE DEF after
  <2>9. \A i \in 2..(n + 2) : after[i] = SwitchStep(c, after, i)
    BY <2>8
  <2> HIDE DEF F
  <2> DEFINE S == {i \in 2..(n + 2) : after[i] \in Nat}
  <2>10. ASSUME NEW k \in 2..(n + 2), \A l \in (k + 1)..(n + 2) : l \in S PROVE k \in S
    BY <2>3, <2>9, <2>10
  <2> HIDE DEF S
  <2>11. \A i \in 2..(n + 2) : i \in S
    <3>1. 2 \in Nat /\ n + 2 \in Nat
      BY <1>1
    <3> HIDE DEF n
    <3> QED
      BY <2>10, <3>1, Backwards
  <2>12. 2 \in 2..(n + 2)
    BY <1>1
  <2> QED
    BY <2>1, <2>11, <2>12 DEF S
<1> QED
  BY <1>2, <1>3

\* switch validates the bodies in its list, or fails.
LEMMA SwitchDoes ==
  ASSUME NEW c \in Command, LiteralName(c[1]), c[1].text = "switch"
  PROVE  Does(SwitchPlan(c), Bodies(c))
<1> DEFINE n == Len(c)
           from == SwitchOperands(c)
<1>1. n \in Nat /\ n >= 1 /\ from \in Nat
  BY WordOf, SwitchOperandsType
<1>2. Bodies(c) = Cases(c)
  BY PlacesOfBodies
<1>3. Keyword(c[1], "switch")
  BY DEF Keyword
<1>4. CASE from = 0 \/ (from > 2 /\ SwitchNeedsRegexp(c, from - 1)) \/ n - from < 1
  BY <1>4, FailDoes DEF SwitchPlan
<1>5. CASE ~ (from = 0 \/ (from > 2 /\ SwitchNeedsRegexp(c, from - 1)) \/ n - from < 1)
  <2>1. CASE n - from = 1
    <3>1. SwitchPlan(c) = IF LiteralScript(c[n]) THEN CaseListPlan(c[n].text) ELSE <<>>
      BY <1>5, <2>1 DEF SwitchPlan
    <3>2. c[n].text \in STRING
      BY <1>1, WordOf
    <3>3. CASE n = 3
      <4>1. CASE LiteralScript(c[3])
        <5>1. Cases(c) = CaseBodies(ListOf(c[3].text).items)
          BY <1>3, <3>3, <4>1 DEF Cases, CaseBodies
        <5>2. Does(CaseListPlan(c[3].text), Cases(c))
          BY <3>2, <3>3, <5>1, CaseListDoes
        <5> QED
          BY <1>2, <3>1, <3>3, <4>1, <5>2
      <4>2. CASE ~ LiteralScript(c[3])
        <5>1. Cases(c) = {}
          BY <4>2 DEF Cases
        <5> QED
          BY <1>2, <3>1, <3>3, <4>2, <5>1, DoesNothing
      <4> QED
        BY <4>1, <4>2
    <3>4. CASE n # 3
      <4>1. Cases(c) = {}
        BY <3>4 DEF Cases
      <4>2. Does(CaseListPlan(c[n].text), {})
        <5>1. Does(CaseListPlan(c[n].text), CaseBodies(ListOf(c[n].text).items))
          BY <3>2, CaseListDoes
        <5> QED
          BY <5>1, DoesLess
      <4> QED
        BY <1>2, <3>1, <4>1, <4>2, DoesNothing
    <3> QED
      BY <3>3, <3>4
  <2>2. CASE n - from # 1
    <3>1. SwitchPlan(c) = CaseWordsPlan(SubSeq(c, from + 1, n))
      BY <1>5, <2>2 DEF SwitchPlan
    <3>2. SubSeq(c, from + 1, n) \in Seq(Word)
      <4>1. c \in Seq(Word)
        BY DEF Command
      <4>2. \A i \in (from + 1)..n : c[i] \in Word
        <5>1. \A i \in (from + 1)..n : i \in 1..n
          BY <1>1
        <5> QED
          BY <5>1, WordOf
      <4> HIDE DEF from
      <4> QED
        BY <1>1, <4>1, <4>2, SubSeqProperties
    <3>3. n # 3
      <4> SUFFICES ASSUME n = 3 PROVE FALSE
        OBVIOUS
      <4>1. from = 2
        BY DEF SwitchOperands
      <4>2. n - from = 1
        <5> HIDE DEF from, n
        <5> QED
          BY <4>1
      <4> QED
        BY <2>2, <4>2
    <3>4. Cases(c) = {}
      BY <3>3 DEF Cases
    <3> QED
      BY <1>2, <3>1, <3>2, <3>4, CaseWordsDo
  <2> QED
    BY <2>1, <2>2
<1> QED
  BY <1>4, <1>5

------------------------------------------------------------------------------
\* A plan that may end with an Otherwise for its own attempt
Ends(plan) == \E p \in Seq(Plain) : \E words \in Seq(Word) : plan = p \o <<Otherwise(words)>>

\* The words of an expr as one expression
LEMMA JoinedDoes ==
  ASSUME NEW words \in Seq(Word)
  PROVE  JoinedPlan(words) \in Seq(Plain)
<1> DEFINE shape(w) == IF w.type \in {"var", "varBraced"} THEN "operand"
                       ELSE ExpressionOf(w.text).shape
           fits(i) == shape(words[i]) = (IF i % 2 = 1 THEN "operand" ELSE "operator")
           met == {i \in DOMAIN words : /\ \A j \in 1..(i - 1) : fits(j)
                                        /\ fits(i) \/ shape(words[i]) = "broken"}
           subs(w) == IF w.type \in {"var", "varBraced"} THEN w.subs
                      ELSE ExpressionOf(w.text).subs
           n == Cardinality(met)
           plans == [i \in 1..n |-> Scripts(subs(words[i]))]
           sound == Len(words) % 2 = 1 /\ \A i \in DOMAIN words : fits(i)
<1>1. JoinedPlan(words) = Concat(plans) \o Unless(sound)
  BY DEF JoinedPlan
<1>2. Len(words) \in Nat /\ DOMAIN words = 1..Len(words)
  OBVIOUS
<1>3. met \subseteq 1..Len(words)
  BY <1>2
<1> HIDE DEF met, fits, sound
<1>4. n \in Nat /\ n <= Len(words)
  <2>1. IsFiniteSet(1..Len(words)) /\ Cardinality(1..Len(words)) = Len(words)
    <3>1. 1 \in Int /\ Len(words) \in Int /\ 1 <= Len(words) + 1 /\ Len(words) + 1 - 1 = Len(words)
      BY <1>2
    <3> QED
      BY <3>1, IntervalSize
  <2>2. IsFiniteSet(met) /\ Cardinality(met) <= Cardinality(1..Len(words))
    BY <1>3, <2>1, FS_Subset
  <2> QED
    BY <2>1, <2>2, FS_CardinalityType
<1> HIDE DEF n
<1>5. \A i \in 1..n : plans[i] \in Seq(Plain)
  <2> SUFFICES ASSUME NEW i \in 1..n PROVE Scripts(subs(words[i])) \in Seq(Plain)
    OBVIOUS
  <2>1. i \in 1..Len(words)
    BY <1>2, <1>4
  <2>2. words[i] \in Word
    BY <1>2, <2>1
  <2>3. words[i].subs \in Seq(STRING)
    BY <2>2 DEF Word
  <2>4. ExpressionOf(words[i].text).subs \in Seq(STRING)
    <3>1. CASE words[i].text \in DOMAIN Expression
      BY <3>1, TextViews DEF ExpressionOf
    <3>2. CASE words[i].text \notin DOMAIN Expression
      BY <3>2 DEF ExpressionOf
    <3> QED
      BY <3>1, <3>2
  <2>5. subs(words[i]) \in Seq(STRING)
    BY <2>3, <2>4
  <2> HIDE DEF subs
  <2> QED
    BY <2>5, ScriptsDo DEF Does
<1>6. Len(plans) = n
  BY <1>4
<1> HIDE DEF plans
<1>7. Concat(plans) \in Seq(Plain)
  BY <1>4, <1>5, <1>6, ConcatIs
<1>8. Does(Unless(sound), {})
  BY UnlessDoes
<1>9. Concat(plans) \o Unless(sound) \in Seq(Plain)
  BY <1>7, <1>8, ElementsOfBoth DEF Does
<1> QED
  BY <1>1, <1>9

\* expr has no bodies, and one Otherwise at most, at its end.
LEMMA ExprDoes ==
  ASSUME NEW c \in Command
  PROVE  Does(ExprPlan(c), {}) \/ Ends(ExprPlan(c))
<1>1. CASE Len(c) < 2
  BY <1>1, FailDoes DEF ExprPlan
<1>2. CASE ~ (Len(c) < 2) /\ Len(c) = 2
  <2>1. c[2] \in Word
    BY <1>2, WordOf
  <2> QED
    BY <1>2, <2>1, ExprWordDoes DEF ExprPlan
<1>3. CASE ~ (Len(c) < 2) /\ Len(c) # 2
  <2>1. Tail(c) \in Seq(Word)
    BY HeadTailProperties DEF Command
  <2>2. ExprPlan(c) = JoinedPlan(Tail(c)) \o <<Otherwise(Tail(c))>>
    BY <1>3 DEF ExprPlan
  <2> QED
    BY <2>1, <2>2, JoinedDoes DEF Ends
<1> QED
  BY <1>1, <1>2, <1>3

\* All other commands have no bodies.
LEMMA FlatCommandsHaveNoBodies ==
  ASSUME NEW c, LiteralName(c[1]),
         c[1].text \notin {"if", "while", "for", "proc", "foreach", "switch", "catch", "try"},
         c[1].text \notin Ensembles
  PROVE  Bodies(c) = {}
<1>1. c[1].text \notin {"while", "for", "proc", "catch", "foreach", "if", "try", "switch",
                        "dict", "namespace"}
  BY DEF Ensembles
<1> QED
  BY <1>1, PlacesOfBodies

\* The names with a plan of their own are different from all others.
LEMMA PlansOfNames ==
  ASSUME NEW c, NEW name, c[1].text = name
  PROVE  /\ name = "if"      => BuiltinPlan(c) = IfPlan(c)
         /\ name = "while"   => BuiltinPlan(c) = WhilePlan(c)
         /\ name = "for"     => BuiltinPlan(c) = ForPlan(c)
         /\ name = "proc"    => BuiltinPlan(c) = ProcPlan(c)
         /\ name = "expr"    => BuiltinPlan(c) = ExprPlan(c)
         /\ name = "foreach" => BuiltinPlan(c) = ForeachPlan(c)
         /\ name = "switch"  => BuiltinPlan(c) = SwitchPlan(c)
         /\ name = "catch"   => BuiltinPlan(c) = CatchPlan(c)
         /\ name = "try"     => BuiltinPlan(c) = TryPlan(c)
         /\ name \in Ensembles    => BuiltinPlan(c) = EnsemblePlan(c)
         /\ name \in FlatCommands => BuiltinPlan(c) = Unless(FlatFits(c))
<1> USE DEF Ensembles, FlatCommands
<1>1. name = "if" => BuiltinPlan(c) = IfPlan(c)
  BY DEF BuiltinPlan
<1>2. name = "while" => BuiltinPlan(c) = WhilePlan(c)
  BY DEF BuiltinPlan
<1>3. name = "for" => BuiltinPlan(c) = ForPlan(c)
  BY DEF BuiltinPlan
<1>4. name = "proc" => BuiltinPlan(c) = ProcPlan(c)
  BY DEF BuiltinPlan
<1>5. name = "expr" => BuiltinPlan(c) = ExprPlan(c)
  BY DEF BuiltinPlan
<1>6. name = "foreach" => BuiltinPlan(c) = ForeachPlan(c)
  BY DEF BuiltinPlan
<1>7. name = "switch" => BuiltinPlan(c) = SwitchPlan(c)
  BY DEF BuiltinPlan
<1>8. name = "catch" => BuiltinPlan(c) = CatchPlan(c)
  BY DEF BuiltinPlan
<1>9. name = "try" => BuiltinPlan(c) = TryPlan(c)
  BY DEF BuiltinPlan
<1>10. name \in Ensembles => BuiltinPlan(c) = EnsemblePlan(c)
  BY DEF BuiltinPlan
<1>11. name \in FlatCommands => BuiltinPlan(c) = Unless(FlatFits(c))
  BY DEF BuiltinPlan
<1> QED
  BY Zenon, <1>1, <1>2, <1>3, <1>4, <1>5, <1>6, <1>7, <1>8, <1>9, <1>10, <1>11

\* Every plan of a command validates all its bodies or fails, but for that of an
\* expr, which has none.
LEMMA BuiltinDoes ==
  ASSUME NEW c \in Command, LiteralName(c[1]), c[1].text \in Builtins
  PROVE  \/ Does(BuiltinPlan(c), Bodies(c))
         \/ Bodies(c) = {} /\ Ends(BuiltinPlan(c))
<1> DEFINE name == c[1].text
<1>1. CASE name = "if"
  BY <1>1, IfDoes, PlacesOfBodies, PlansOfNames
<1>2. CASE name = "while"
  BY <1>2, WhileDoes, PlacesOfBodies, PlansOfNames
<1>3. CASE name = "for"
  BY <1>3, ForDoes, PlacesOfBodies, PlansOfNames
<1>4. CASE name = "proc"
  BY <1>4, ProcDoes, PlacesOfBodies, PlansOfNames
<1>5. CASE name = "expr"
  <2>1. name \notin {"if", "while", "for", "proc", "foreach", "switch", "catch", "try"}
          /\ name \notin Ensembles
    BY <1>5 DEF Ensembles
  <2>2. Bodies(c) = {}
    BY <2>1, FlatCommandsHaveNoBodies
  <2>3. BuiltinPlan(c) = ExprPlan(c)
    BY <1>5, PlansOfNames
  <2> QED
    BY <2>2, <2>3, ExprDoes
<1>6. CASE name = "foreach"
  BY <1>6, ForeachDoes, PlacesOfBodies, PlansOfNames
<1>7. CASE name = "switch"
  BY <1>7, SwitchDoes, PlansOfNames
<1>8. CASE name = "catch"
  BY <1>8, CatchDoes, PlacesOfBodies, PlansOfNames
<1>9. CASE name = "try"
  BY <1>9, TryDoes, PlacesOfBodies, PlansOfNames
<1>10. CASE name \in Ensembles
  <2>1. BuiltinPlan(c) = EnsemblePlan(c)
    BY <1>10, PlansOfNames
  <2> QED
    BY <1>10, <2>1, EnsembleDoes
<1>11. CASE name \in FlatCommands
  <2>1. BuiltinPlan(c) = Unless(FlatFits(c))
    BY <1>11, PlansOfNames
  <2>2. name \notin {"if", "while", "for", "proc", "foreach", "switch", "catch", "try"}
          /\ name \notin Ensembles
    BY <1>11 DEF Ensembles, FlatCommands
  <2>3. Bodies(c) = {}
    BY <2>2, FlatCommandsHaveNoBodies
  <2> QED
    BY <2>1, <2>3, UnlessDoes
<1> QED
  BY <1>1, <1>2, <1>3, <1>4, <1>5, <1>6, <1>7, <1>8, <1>9, <1>10, <1>11
  DEF Builtins, BodyCommands

\* The validator reaches every body of a command, whichever command it is.
LEMMA CommandDoes ==
  ASSUME NEW c \in Command, NEW table
  PROVE  \/ Does(CommandPlan(c, table), Bodies(c))
         \/ Bodies(c) = {} /\ Ends(CommandPlan(c, table))
<1> DEFINE name == c[1].text
           fits == Fits(table[name], Len(c) - 1)
<1>1. CASE ~ LiteralName(c[1])
  BY <1>1, NoBodiesAt, DoesNothing DEF CommandPlan
<1>2. CASE LiteralName(c[1]) /\ name \in Builtins
  <2>1. name # "cmdsubst"
    BY <1>2 DEF Builtins, BodyCommands, FlatCommands, Ensembles
  <2>2. CommandPlan(c, table) = BuiltinPlan(c)
    BY <1>2, <2>1 DEF CommandPlan
  <2> QED
    BY <1>2, <2>2, BuiltinDoes
<1>3. CASE LiteralName(c[1]) /\ name \notin Builtins
  <2>1. name \notin {"if", "while", "for", "proc", "foreach", "switch", "catch", "try"}
          /\ name \notin Ensembles
    BY <1>3 DEF Builtins, BodyCommands
  <2>2. Bodies(c) = {}
    BY <1>3, <2>1, FlatCommandsHaveNoBodies
  <2>3. CommandPlan(c, table) \in {<<>>, Unless(fits)}
    BY <1>3 DEF CommandPlan
  <2> HIDE DEF fits
  <2>4. Does(<<>>, {}) /\ Does(Unless(fits), {})
    BY DoesNothing, UnlessDoes
  <2> QED
    BY <2>2, <2>3, <2>4
<1> QED
  BY <1>1, <1>2, <1>3

------------------------------------------------------------------------------
\* The tasks behind a place.
TasksBehind(a, m) == {a[k] : k \in (m + 1)..Len(a)}

\* What is validated in the place of a failed attempt, and what would be left of a
\* list of tasks if an attempt in it failed.
Fallback(task) == Elements(ExprWordPlans(task.words))
Left(a, m) == Fallback(a[m]) \union TasksBehind(a, m)
Later(a) == {Left(a, m) : m \in {m \in DOMAIN a : a[m].do = "otherwise"}}

\* The tasks behind a place of the first or of the second of two lists
LEMMA TasksBehindBoth ==
  ASSUME NEW V, NEW p \in Seq(V), NEW q \in Seq(V)
  PROVE  /\ \A m \in 1..Len(p) : TasksBehind(p \o q, m) = TasksBehind(p, m) \union Elements(q)
         /\ \A m \in 1..Len(q) : TasksBehind(p \o q, Len(p) + m) = TasksBehind(q, m)
<1> DEFINE u == p \o q
           n == Len(p)
           l == Len(q)
<1>1. n \in Nat /\ l \in Nat /\ DOMAIN p = 1..n /\ DOMAIN q = 1..l /\ Len(u) = n + l
  BY ConcatProperties
<1>2. \A i \in 1..n : u[i] = p[i]
  BY ConcatProperties
<1>3. \A i \in 1..l : u[n + i] = q[i]
  <2> SUFFICES ASSUME NEW i \in 1..l PROVE u[n + i] = q[i]
    OBVIOUS
  <2>1. n + i \in 1..(n + l) /\ n + i > n /\ (n + i) - n = i
    BY <1>1
  <2> QED
    BY <2>1, ConcatProperties
<1> HIDE DEF u, n, l
<1>4. ASSUME NEW m \in 1..n
      PROVE  TasksBehind(u, m) = TasksBehind(p, m) \union Elements(q)
  <2>1. ASSUME NEW k \in (m + 1)..(n + l) PROVE u[k] \in TasksBehind(p, m) \union Elements(q)
    <3>1. CASE k <= n
      <4>1. k \in (m + 1)..n /\ k \in 1..n
        BY <1>1, <3>1
      <4> QED
        BY <1>2, <4>1 DEF TasksBehind, n
    <3>2. CASE k > n
      <4>1. k - n \in 1..l /\ n + (k - n) = k
        BY <1>1, <3>2
      <4> QED
        BY <1>1, <1>3, <4>1 DEF Elements
    <3> QED
      BY <1>1, <3>1, <3>2
  <2>2. ASSUME NEW k \in (m + 1)..n PROVE p[k] \in TasksBehind(u, m)
    <3>1. k \in (m + 1)..(n + l) /\ k \in 1..n
      BY <1>1
    <3> QED
      BY <1>1, <1>2, <3>1 DEF TasksBehind
  <2>3. ASSUME NEW k \in 1..l PROVE q[k] \in TasksBehind(u, m)
    <3>1. n + k \in (m + 1)..(n + l)
      BY <1>1
    <3> QED
      BY <1>1, <1>3, <3>1 DEF TasksBehind
  <2>4. TasksBehind(u, m) \subseteq TasksBehind(p, m) \union Elements(q)
    BY <1>1, <2>1 DEF TasksBehind
  <2>5. TasksBehind(p, m) \subseteq TasksBehind(u, m)
    <3>1. TasksBehind(p, m) = {p[k] : k \in (m + 1)..n}
      BY DEF TasksBehind, n
    <3> QED
      BY <2>2, <3>1
  <2>6. Elements(q) \subseteq TasksBehind(u, m)
    BY <1>1, <2>3 DEF Elements
  <2> QED
    BY <2>4, <2>5, <2>6
<1>5. ASSUME NEW m \in 1..l PROVE TasksBehind(u, n + m) = TasksBehind(q, m)
  <2>1. ASSUME NEW k \in (n + m + 1)..(n + l) PROVE u[k] \in TasksBehind(q, m)
    <3>1. k - n \in (m + 1)..l /\ k - n \in 1..l /\ n + (k - n) = k
      BY <1>1
    <3> QED
      BY <1>1, <1>3, <3>1 DEF TasksBehind, l
  <2>2. ASSUME NEW k \in (m + 1)..l PROVE q[k] \in TasksBehind(u, n + m)
    <3>1. n + k \in (n + m + 1)..(n + l) /\ k \in 1..l
      BY <1>1
    <3> QED
      BY <1>1, <1>3, <3>1 DEF TasksBehind
  <2>3. TasksBehind(q, m) = {q[k] : k \in (m + 1)..l}
    BY DEF TasksBehind, l
  <2>4. TasksBehind(u, n + m) = {u[k] : k \in (n + m + 1)..(n + l)}
    BY <1>1 DEF TasksBehind
  <2> QED
    BY <2>1, <2>2, <2>3, <2>4
<1> QED
  BY <1>4, <1>5 DEF u, n, l

\* The later lists of two lists one behind the other
LEMMA LaterOfBoth ==
  ASSUME NEW V, NEW p \in Seq(V), NEW q \in Seq(V)
  PROVE  Later(p \o q) = {T \union Elements(q) : T \in Later(p)} \union Later(q)
<1> DEFINE u == p \o q
           n == Len(p)
           l == Len(q)
<1>1. n \in Nat /\ l \in Nat /\ DOMAIN p = 1..n /\ DOMAIN q = 1..l /\ DOMAIN u = 1..(n + l)
  BY ConcatProperties
<1>2. \A i \in 1..n : u[i] = p[i]
  BY ConcatProperties
<1>3. \A i \in 1..l : u[n + i] = q[i]
  <2> SUFFICES ASSUME NEW i \in 1..l PROVE u[n + i] = q[i]
    OBVIOUS
  <2>1. n + i \in 1..(n + l) /\ n + i > n /\ (n + i) - n = i
    BY <1>1
  <2> QED
    BY <2>1, ConcatProperties
<1>4. /\ \A m \in 1..n : TasksBehind(u, m) = TasksBehind(p, m) \union Elements(q)
      /\ \A m \in 1..l : TasksBehind(u, n + m) = TasksBehind(q, m)
  BY TasksBehindBoth
<1> HIDE DEF u, n, l
<1>5. ASSUME NEW m \in 1..(n + l), u[m].do = "otherwise"
      PROVE  Left(u, m) \in {T \union Elements(q) : T \in Later(p)} \union Later(q)
  <2>1. CASE m <= n
    <3>1. m \in 1..n
      BY <1>1, <2>1
    <3>2. Left(p, m) \in Later(p)
      BY <1>1, <1>2, <1>5, <3>1 DEF Later
    <3>3. Left(u, m) = Left(p, m) \union Elements(q)
      BY <1>2, <1>4, <3>1 DEF Left
    <3> QED
      BY <3>2, <3>3
  <2>2. CASE m > n
    <3>1. m - n \in 1..l /\ n + (m - n) = m
      BY <1>1, <2>2
    <3>2. Left(q, m - n) \in Later(q) /\ Left(u, m) = Left(q, m - n)
      <4> DEFINE k == m - n
      <4>1. k \in 1..l /\ n + k = m
        BY <3>1
      <4> HIDE DEF k
      <4>2. u[m] = q[k] /\ TasksBehind(u, m) = TasksBehind(q, k)
        BY <1>3, <1>4, <4>1
      <4>3. Left(u, m) = Left(q, k) /\ q[k].do = "otherwise" /\ k \in DOMAIN q
        BY <1>1, <1>5, <4>1, <4>2 DEF Left
      <4> QED
        BY <4>3 DEF Later, k
    <3> QED
      BY <3>2
  <2> QED
    BY <1>1, <2>1, <2>2
<1>6. ASSUME NEW m \in 1..n, p[m].do = "otherwise"
      PROVE  Left(p, m) \union Elements(q) \in Later(u)
  <2>1. m \in DOMAIN u /\ u[m] = p[m]
    BY <1>1, <1>2
  <2>2. Left(u, m) = Left(p, m) \union Elements(q)
    BY <1>4, <2>1 DEF Left
  <2> QED
    BY <1>6, <2>1, <2>2 DEF Later
<1>7. ASSUME NEW m \in 1..l, q[m].do = "otherwise"
      PROVE  Left(q, m) \in Later(u)
  <2>1. n + m \in DOMAIN u /\ u[n + m] = q[m]
    BY <1>1, <1>3
  <2>2. Left(u, n + m) = Left(q, m)
    BY <1>4, <2>1 DEF Left
  <2> QED
    BY <1>7, <2>1, <2>2 DEF Later
<1>8. Later(u) \subseteq {T \union Elements(q) : T \in Later(p)} \union Later(q)
  BY <1>1, <1>5 DEF Later
<1>9. {T \union Elements(q) : T \in Later(p)} \subseteq Later(u)
  BY <1>1, <1>6 DEF Later
<1>10. Later(q) \subseteq Later(u)
  BY <1>1, <1>7 DEF Later
<1> QED
  BY <1>8, <1>9, <1>10 DEF u

\* Only an Otherwise makes a later list.
LEMMA PlainHasNoLater ==
  ASSUME NEW p \in Seq(Plain)
  PROVE  Later(p) = {}
<1>1. \A m \in DOMAIN p : p[m] \in Plain
  OBVIOUS
<1>2. \A task \in Plain : task.do # "otherwise"
  BY DEF Plain
<1> QED
  BY <1>1, <1>2 DEF Later

\* The tasks behind the first one, and behind those after it.
LEMMA BehindFirst ==
  ASSUME NEW V, NEW h \in V, NEW r \in Seq(V)
  PROVE  /\ TasksBehind(<<h>> \o r, 1) = Elements(r)
         /\ \A m \in DOMAIN r : TasksBehind(<<h>> \o r, 1 + m) = TasksBehind(r, m)
<1> DEFINE f == <<h>>
<1>0. f \in Seq(V)
  OBVIOUS
<1>1. Len(f) = 1 /\ DOMAIN r = 1..Len(r)
  OBVIOUS
<1>2. TasksBehind(f, 1) = {} /\ 1 \in 1..Len(f)
  BY <1>1 DEF TasksBehind
<1> HIDE DEF f
<1>3. /\ \A m \in 1..Len(f) : TasksBehind(f \o r, m) = TasksBehind(f, m) \union Elements(r)
      /\ \A m \in 1..Len(r) : TasksBehind(f \o r, Len(f) + m) = TasksBehind(r, m)
  BY <1>0, TasksBehindBoth
<1>4. TasksBehind(f \o r, 1) = Elements(r)
  BY <1>2, <1>3
<1>5. \A m \in DOMAIN r : TasksBehind(f \o r, 1 + m) = TasksBehind(r, m)
  BY <1>1, <1>3
<1> QED
  BY <1>4, <1>5 DEF f

\* The tasks of a list without its first one.
LEMMA HeadAndTail ==
  ASSUME NEW V, NEW a \in Seq(V), a # <<>>
  PROVE  /\ Head(a) \in V /\ Tail(a) \in Seq(V)
         /\ Elements(a) = {Head(a)} \union Elements(Tail(a))
         /\ Later(Tail(a)) \subseteq Later(a)
         /\ TasksBehind(a, 1) = Elements(Tail(a))
         /\ \A m \in DOMAIN Tail(a) :
              /\ 1 + m \in DOMAIN a /\ Tail(a)[m] = a[1 + m]
              /\ TasksBehind(Tail(a), m) = TasksBehind(a, 1 + m)
<1>1. Head(a) \in V /\ Tail(a) \in Seq(V)
  BY HeadTailProperties
<1>2. <<Head(a)>> \in Seq(V) /\ Elements(<<Head(a)>>) = {Head(a)}
  BY <1>1, OneElement
<1>3. a = <<Head(a)>> \o Tail(a)
  <2> DEFINE h == <<Head(a)>>
             b == h \o Tail(a)
  <2>1. b \in Seq(V) /\ Len(b) = 1 + Len(Tail(a)) /\ Len(h) = 1
    BY <1>1, <1>2, ConcatProperties
  <2>2. Len(Tail(a)) = Len(a) - 1 /\ Len(a) \in Nat /\ Len(a) > 0
    BY HeadTailProperties, EmptySeq, LenProperties
  <2>3. Len(b) = Len(a)
    BY <2>1, <2>2
  <2>4. ASSUME NEW i \in 1..Len(a) PROVE b[i] = a[i]
    <3>1. CASE i = 1
      <4>1. b[1] = h[1]
        BY <1>1, <1>2, <2>1, <2>2, ConcatProperties
      <4>2. h[1] = Head(a) /\ Head(a) = a[1]
        OBVIOUS
      <4> QED
        BY <3>1, <4>1, <4>2
    <3>2. CASE i # 1
      <4>1. i - 1 \in 1..Len(Tail(a)) /\ i > Len(h) /\ i \in 1..(Len(h) + Len(Tail(a))) /\ i - Len(h) = i - 1
        BY <2>1, <2>2, <3>2
      <4>2. b[i] = Tail(a)[i - 1]
        BY <1>1, <1>2, <4>1, ConcatProperties
      <4>3. Tail(a)[i - 1] = a[(i - 1) + 1]
        BY <4>1, HeadTailProperties
      <4>4. (i - 1) + 1 = i
        OBVIOUS
      <4> QED
        BY <4>2, <4>3, <4>4
    <3> QED
      BY <3>1, <3>2
  <2> HIDE DEF b
  <2>5. a = b
    BY <2>1, <2>3, <2>4, SeqEqual
  <2> QED
    BY <2>5 DEF b
<1>4. Elements(<<Head(a)>> \o Tail(a)) = {Head(a)} \union Elements(Tail(a))
  <2> DEFINE h == <<Head(a)>>
  <2>1. h \in Seq(V) /\ Elements(h) = {Head(a)}
    BY <1>2
  <2> HIDE DEF h
  <2>2. Elements(h \o Tail(a)) = Elements(h) \union Elements(Tail(a))
    BY <1>1, <2>1, ElementsOfBoth
  <2> QED
    BY <2>1, <2>2 DEF h
<1>5. Later(Tail(a)) \subseteq Later(<<Head(a)>> \o Tail(a))
  BY <1>1, <1>2, LaterOfBoth
<1>6. /\ TasksBehind(a, 1) = Elements(Tail(a))
      /\ \A m \in DOMAIN Tail(a) : TasksBehind(a, 1 + m) = TasksBehind(Tail(a), m)
  <2> DEFINE r == Tail(a)
             h == Head(a)
  <2>1. h \in V /\ r \in Seq(V) /\ a = <<h>> \o r
    BY <1>1, <1>3
  <2> HIDE DEF r, h
  <2>2. /\ TasksBehind(a, 1) = Elements(r)
        /\ \A m \in DOMAIN r : TasksBehind(a, 1 + m) = TasksBehind(r, m)
    BY <2>1, BehindFirst
  <2> QED
    BY <2>2 DEF r
<1>7. ASSUME NEW m \in DOMAIN Tail(a) PROVE 1 + m \in DOMAIN a /\ Tail(a)[m] = a[1 + m]
  <2>1. Len(Tail(a)) = Len(a) - 1 /\ Len(a) \in Nat /\ Len(a) > 0 /\ DOMAIN a = 1..Len(a)
          /\ DOMAIN Tail(a) = 1..Len(Tail(a))
    BY <1>1, HeadTailProperties, EmptySeq, LenProperties
  <2>2. m \in 1..(Len(a) - 1)
    BY <1>7, <2>1
  <2>3. 1 + m \in DOMAIN a /\ m + 1 = 1 + m
    BY <2>1, <2>2
  <2>4. Tail(a)[m] = a[m + 1]
    BY <2>1, <2>2, HeadTailProperties
  <2> QED
    BY <2>3, <2>4
<1> QED
  BY <1>1, <1>3, <1>4, <1>5, <1>6, <1>7

\* What is left behind an Otherwise is one of the later lists.
LEMMA RestOfTasks ==
  ASSUME NEW V, NEW a \in Seq(V), NEW n \in DOMAIN a, a[n].do = "otherwise"
  PROVE  /\ SubSeq(a, n + 1, Len(a)) \in Seq(V)
         /\ Elements(SubSeq(a, n + 1, Len(a))) = TasksBehind(a, n)
         /\ Later(SubSeq(a, n + 1, Len(a))) \subseteq Later(a)
         /\ \A m \in DOMAIN SubSeq(a, n + 1, Len(a)) :
              /\ n + m \in DOMAIN a /\ SubSeq(a, n + 1, Len(a))[m] = a[n + m]
              /\ TasksBehind(SubSeq(a, n + 1, Len(a)), m) = TasksBehind(a, n + m)
<1> DEFINE l == Len(a)
           r == SubSeq(a, n + 1, l)
<1>1. l \in Nat /\ DOMAIN a = 1..l /\ n \in 1..l
  OBVIOUS
<1>2. r \in Seq(V) /\ Len(r) = l - n /\ \A i \in 1..(l - n) : r[i] = a[n + i]
  <2>1. n + 1 \in 1..(l + 1) /\ l \in ((n + 1) - 1)..l /\ l - (n + 1) + 1 = l - n
    <3> HIDE DEF l
    <3> QED
      BY <1>1
  <2>2. r \in Seq(V) /\ Len(r) = l - (n + 1) + 1 /\ \A i \in 1..(l - (n + 1) + 1) : r[i] = a[n + 1 + i - 1]
    BY <2>1, SubSeqProperties
  <2>3. \A i \in Int : n + 1 + i - 1 = n + i
    BY <1>1
  <2> HIDE DEF r, l
  <2>4. l - (n + 1) + 1 = l - n
    BY <2>1
  <2>5. r \in Seq(V) /\ Len(r) = l - n
    BY <2>2, <2>4, Zenon
  <2>6. \A i \in 1..(l - n) : r[i] = a[n + 1 + i - 1]
    BY <2>2, <2>4, Zenon
  <2>7. \A i \in 1..(l - n) : r[i] = a[n + i]
    <3> TAKE i \in 1..(l - n)
    <3>1. n + 1 + i - 1 = n + i
      BY <2>3
    <3> QED
      BY <2>6, <3>1, Zenon
  <2> QED
    BY <2>5, <2>7
<1> HIDE DEF r, l
<1>3. DOMAIN r = 1..(l - n) /\ l - n \in Nat
  BY <1>1, <1>2
<1>4. Elements(r) = TasksBehind(a, n)
  <2>1. TasksBehind(a, n) = {a[k] : k \in (n + 1)..l}
    BY DEF TasksBehind, l
  <2>2. \A i \in 1..(l - n) : n + i \in (n + 1)..l
    BY <1>1
  <2>3. \A k \in (n + 1)..l : k - n \in 1..(l - n) /\ n + (k - n) = k
    BY <1>1
  <2>4. \A k \in (n + 1)..l : a[k] = r[k - n] /\ k - n \in DOMAIN r
    BY <1>2, <1>3, <2>3
  <2>5. \A i \in DOMAIN r : r[i] = a[n + i] /\ n + i \in (n + 1)..l
    BY <1>2, <1>3, <2>2
  <2> QED
    BY <2>1, <2>4, <2>5 DEF Elements
<1>5. ASSUME NEW m \in DOMAIN r
      PROVE  /\ n + m \in DOMAIN a /\ r[m] = a[n + m]
             /\ TasksBehind(r, m) = TasksBehind(a, n + m)
  <2>1. n + m \in 1..l /\ m \in 1..(l - n)
    BY <1>1, <1>3
  <2>2. r[m] = a[n + m]
    BY <1>2, <2>1
  <2>3. TasksBehind(r, m) = TasksBehind(a, n + m)
    <3>1. TasksBehind(r, m) = {r[k] : k \in (m + 1)..(l - n)}
      BY <1>2 DEF TasksBehind
    <3>2. TasksBehind(a, n + m) = {a[k] : k \in (n + m + 1)..l}
      BY DEF TasksBehind, l
    <3>3. \A k \in (m + 1)..(l - n) : n + k \in (n + m + 1)..l /\ k \in 1..(l - n)
      BY <1>1, <2>1
    <3>4. \A k \in (n + m + 1)..l : k - n \in (m + 1)..(l - n) /\ k - n \in 1..(l - n) /\ n + (k - n) = k
      BY <1>1, <2>1
    <3>5. \A k \in (m + 1)..(l - n) : r[k] \in TasksBehind(a, n + m)
      BY <1>2, <3>2, <3>3
    <3>6. \A k \in (n + m + 1)..l : a[k] \in TasksBehind(r, m)
      BY <1>2, <3>1, <3>4
    <3> QED
      BY <3>1, <3>2, <3>5, <3>6
  <2> QED
    BY <1>1, <2>1, <2>2, <2>3
<1>6. Later(r) \subseteq Later(a)
  <2> SUFFICES ASSUME NEW m \in DOMAIN r, r[m].do = "otherwise" PROVE Left(r, m) \in Later(a)
    BY DEF Later
  <2>1. Left(r, m) = Left(a, n + m) /\ a[n + m].do = "otherwise" /\ n + m \in DOMAIN a
    BY <1>5 DEF Left
  <2> QED
    BY <2>1 DEF Later
<1> QED
  BY <1>2, <1>4, <1>5, <1>6 DEF r, l

------------------------------------------------------------------------------
\* A task about a command is about one that is there.
ValidTask ==
  {task \in Task : task.do \in {"command", "dispatch"} =>
                     task.at \in DOMAIN ScriptOf(task.text).commands}

\* The tasks of a plan succeed if the scripts E are valid; so does a plan, or what
\* is left of it behind a failed attempt.
AllSafe(X, E) == \A x \in X : x.do # "fail" /\ (x.do = "script" => x.text \in E)
Succeeds(plan, E) == \E X \in {Elements(plan)} \union Later(plan) : AllSafe(X, E)

\* What makes a call, a command, a program and so on pass the validator, if the
\* scripts E are valid and the names K are declared.
KnownCall(c, K) ==
  LiteralName(c[1]) =>
    /\ c[1].text \in KnownUndeclared \union K
    /\ StableDefinitions /\ c[1].text \in K =>
         \A d \in Definitions :
           d[2].text = c[1].text => Fits(SignatureOf(d[3].text), Len(c) - 1)

SoundCall(c, E, K) ==
  /\ KnownCall(c, K)
  /\ LiteralName(c[1]) /\ c[1].text \in Builtins => Succeeds(BuiltinPlan(c), E)

SoundCommand(c, E, K) ==
  /\ \A w \in Elements(c) : ~ IsTorn(w) /\ Elements(Substitutions(w)) \subseteq E
  /\ SoundCall(c, E, K)

SoundProgram(t, E, K) ==
  /\ ~ CollectFails(ScriptOf(t).commands)
  /\ \A c \in Commands(t) : SoundCommand(c, E, K)

SoundParse(t, E, K) == ScriptOf(t).parse # "refused" /\ SoundProgram(t, E, K)

SoundScript(t, E, K) ==
  /\ ~ ScriptOf(t).torn /\ Elements(ScriptOf(t).subs) \subseteq E
  /\ SoundParse(t, E, K)

\* An attempt and an Otherwise cannot refuse anything.
Sound(task, E, K) ==
  /\ task.do # "fail"
  /\ task.do = "script"   => task.text \in E
  /\ task.do = "parse"    => SoundParse(task.text, E, K)
  /\ task.do = "program"  => SoundProgram(task.text, E, K)
  /\ task.do = "command"  => SoundCommand(WordsOf(task), E, K)
  /\ task.do = "dispatch" => SoundCall(WordsOf(task), E, K)

AllSound(S, E, K) == \A s \in S : Sound(s, E, K)

\* The scripts D and the whole script are valid.
AllValid(D, E, K) == (\A t \in D : SoundScript(t, E, K)) /\ SoundProgram(Top, E, K)

\* If the tasks S all succeed, whatever else is visited and declared until then,
\* then the scripts visited for them and the whole script are valid.
Promised(S) ==
  \E D \in SUBSET visited :
    \A E, K : D \subseteq E /\ DOMAIN procs \subseteq K /\ AllSound(S, E, K) => AllValid(D, E, K)

\* The tasks that may be carried out to the end.
Cuts == {Elements(agenda)} \union Later(agenda)

AllPromised == \A S \in Cuts : Promised(S)

\* Scripts that are valid by themselves.
Valid(D) == AllValid(D, D, DOMAIN procs)

AgendaOK == agenda \in Seq(ValidTask)

CutsOK == phase = "checking" /\ verdict = "busy" => AllPromised

DoneOK == verdict = "accepted" \/ pc # 0 => \E D \in SUBSET visited : Valid(D)

\* Every signature in the table is that of a definition.
TableOK ==
  \A n \in DOMAIN procs :
    \E d \in Definitions : d[2].text = n /\ procs[n] = SignatureOf(d[3].text)

PlaceOK ==
  /\ pc \in 0..(Len(Program) + 1)
  /\ phase \in {"reading", "checking"} => pc = 0
  /\ phase \in {"running", "rechecking"} => pc # 0
  /\ phase = "rechecking" => pc <= Len(Program)

------------------------------------------------------------------------------
\* Every text is a script of the declared type.
LEMMA ScriptIs ==
  ASSUME SourceOK, NEW t \in STRING
  PROVE  ScriptOf(t) \in ScriptText
<1>1. CASE t \in DOMAIN source
  <2>1. source[t] \in DOMAIN Parsed
    BY <1>1, SourceTexts DEF SourceOK
  <2>2. Parsed[source[t]] \in ScriptText
    BY <2>1, ParsedTexts
  <2> QED
    BY <1>1, <2>2 DEF ScriptOf
<1>2. CASE t \notin DOMAIN source
  <2> DEFINE w == MakeWord("string", t)
  <2>1. w \in Word
    <3>1. "string" \in WordTypes /\ "string" \notin VariableTypes
      BY DEF WordTypes, PlainTypes, VariableTypes
    <3>2. w = [type |-> "string", text |-> t, marks |-> {}, subs |-> <<>>, torn |-> FALSE,
               refs |-> {}]
      BY <3>1 DEF MakeWord
    <3>3. <<>> \in Seq(STRING)
      OBVIOUS
    <3> HIDE DEF w
    <3>4. w.type = "string" /\ w \in [type : WordTypes, text : STRING, marks : SUBSET Marks,
                                     subs : Seq(STRING), torn : BOOLEAN, refs : SUBSET STRING]
      BY <3>1, <3>2, <3>3
    <3> QED
      BY <3>1, <3>4 DEF Word
  <2> HIDE DEF w
  <2>2. <<w>> \in Command
    BY <2>1 DEF Command
  <2>3. << <<w>> >> \in Seq(Command)
    BY <2>2
  <2>4. <<>> \in Seq(STRING)
    OBVIOUS
  <2>5. ScriptOf(t) = [subs |-> <<>>, torn |-> FALSE, parse |-> "commands", leftover |-> FALSE,
                       commands |-> << <<w>> >>]
    BY <1>2 DEF ScriptOf, w
  <2> QED
    BY <2>3, <2>4, <2>5 DEF ScriptText, Outcomes
<1> QED
  BY <1>1, <1>2

\* The commands of a script are typed.
LEMMA CommandsOfScripts ==
  ASSUME SourceOK, NEW t \in STRING
  PROVE  LET program == ScriptOf(t).commands
         IN /\ program \in Seq(Command) /\ Len(program) \in Nat
            /\ DOMAIN program = 1..Len(program)
            /\ \A i \in DOMAIN program : program[i] \in Command
<1>1. ScriptOf(t).commands \in Seq(Command)
  BY ScriptIs DEF ScriptText
<1> DEFINE program == ScriptOf(t).commands
<1>2. program \in Seq(Command)
  BY <1>1
<1> HIDE DEF program
<1>3. Len(program) \in Nat /\ DOMAIN program = 1..Len(program)
        /\ \A i \in DOMAIN program : program[i] \in Command
  BY <1>2
<1> QED
  BY <1>2, <1>3 DEF program

\* The signatures of a program's definitions enter the table.
LEMMA UpdatedIs ==
  ASSUME SourceOK, NEW t \in STRING, NEW table,
         NEW n \in DOMAIN Updated(table, ScriptOf(t).commands)
  PROVE  LET new == Updated(table, ScriptOf(t).commands)
         IN \/ n \in DOMAIN table /\ new[n] = table[n]
            \/ \E d \in Definitions : d[2].text = n /\ new[n] = SignatureOf(d[3].text)
<1> DEFINE program == ScriptOf(t).commands
           named == {i \in Collected(program) : program[i][2].text = n}
           names == {program[i][2].text : i \in Collected(program)}
           last == CHOOSE i \in named : \A j \in named : j <= i
           new == Updated(table, program)
<1>1. n \in DOMAIN table \union names
        /\ new[n] = IF n \in names THEN SignatureOf(program[last][3].text) ELSE table[n]
  BY DEF Updated
<1>2. CASE n \notin names
  BY <1>1, <1>2
<1>3. CASE n \in names
  <2>1. Len(program) \in Nat /\ DOMAIN program = 1..Len(program)
    BY CommandsOfScripts
  <2>2. named \subseteq 0..Len(program) /\ named # {}
    BY <1>3, <2>1 DEF Collected
  <2>3. last \in named
    <3> HIDE DEF named
    <3>1. \E i \in named : \A j \in named : j <= i
      BY <2>1, <2>2, GreatestElement
    <3> QED
      BY <3>1
  <2>4. last \in DOMAIN program /\ Declares(program[last]) /\ program[last][2].text = n
    BY <2>3 DEF Collected
  <2>5. t \in Texts
    <3> SUFFICES ASSUME t \notin DOMAIN source PROVE FALSE
      BY DEF Texts
    <3>1. program = << <<MakeWord("string", t)>> >>
      BY DEF ScriptOf
    <3>2. Len(program[last]) = 1
      BY <2>4, <3>1
    <3>3. Len(program[last]) = 4
      BY <2>4 DEF Declares
    <3> QED
      BY ONLY <3>2, <3>3
  <2>6. program[last] \in Definitions
    <3>1. program[last] \in Commands(t)
      BY <2>4 DEF Commands
    <3> HIDE DEF program, last
    <3> QED
      BY <2>4, <2>5, <3>1 DEF Definitions
  <2> QED
    BY <1>1, <1>3, <2>4, <2>6
<1> QED
  BY <1>2, <1>3

\* A definition enters the table with its signature.
LEMMA TableStays ==
  ASSUME SourceOK, TableOK, source' = source,
         procs' = procs \/ \E t \in STRING : procs' = Updated(procs, ScriptOf(t).commands)
  PROVE  TableOK' /\ DOMAIN procs \subseteq DOMAIN procs'
<1>1. Definitions' = Definitions
  BY DEF Definitions, Commands, Texts, ScriptOf
<1>2. DOMAIN procs \subseteq DOMAIN procs'
  BY DEF Updated
<1>3. ASSUME NEW n \in DOMAIN procs'
      PROVE  \/ n \in DOMAIN procs /\ procs'[n] = procs[n]
             \/ \E d \in Definitions : d[2].text = n /\ procs'[n] = SignatureOf(d[3].text)
  <2>1. CASE procs' = procs
    BY <1>3, <2>1
  <2>2. CASE \E t \in STRING : procs' = Updated(procs, ScriptOf(t).commands)
    <3>1. PICK t \in STRING : procs' = Updated(procs, ScriptOf(t).commands)
      BY <2>2
    <3> QED
      BY <1>3, <3>1, UpdatedIs
  <2> QED
    BY <2>1, <2>2
<1>4. ASSUME NEW n \in DOMAIN procs'
      PROVE  \E d \in Definitions : d[2].text = n /\ procs'[n] = SignatureOf(d[3].text)
  BY <1>3, <1>4 DEF TableOK
<1> QED
  BY <1>1, <1>2, <1>4 DEF TableOK

\* What a source says does not change.
LEMMA ReadingStays ==
  ASSUME source' = source
  PROVE  /\ \A t : ScriptOf(t)' = ScriptOf(t) /\ Commands(t)' = Commands(t)
         /\ \A task, E, K : Sound(task, E, K)' <=> Sound(task, E, K)
         /\ \A D, E, K : AllValid(D, E, K)' <=> AllValid(D, E, K)
         /\ ValidTask' = ValidTask /\ Program' = Program
         /\ Definitions' = Definitions /\ StableDefinitions' = StableDefinitions
<1>1. \A t : ScriptOf(t)' = ScriptOf(t) /\ Commands(t)' = Commands(t)
  BY DEF ScriptOf, Commands
<1>2. Definitions' = Definitions /\ StableDefinitions' = StableDefinitions
  BY <1>1 DEF Definitions, StableDefinitions, Texts
<1>3. \A c, K : KnownCall(c, K)' <=> KnownCall(c, K)
  BY <1>2 DEF KnownCall
<1>4. \A c, E, K : SoundCall(c, E, K)' <=> SoundCall(c, E, K)
  BY <1>3 DEF SoundCall
<1>5. \A c, E, K : SoundCommand(c, E, K)' <=> SoundCommand(c, E, K)
  BY <1>4 DEF SoundCommand
<1>6. \A t, E, K : SoundProgram(t, E, K)' <=> SoundProgram(t, E, K)
  BY <1>1, <1>5 DEF SoundProgram
<1>7. \A t, E, K : SoundParse(t, E, K)' <=> SoundParse(t, E, K)
  BY <1>1, <1>6 DEF SoundParse
<1>8. \A t, E, K : SoundScript(t, E, K)' <=> SoundScript(t, E, K)
  BY <1>1, <1>7 DEF SoundScript
<1>9. ASSUME NEW task, NEW E, NEW K PROVE Sound(task, E, K)' <=> Sound(task, E, K)
  <2> DEFINE c == WordsOf(task)
  <2>1. c' = c
    BY <1>1 DEF WordsOf
  <2> HIDE DEF c
  <2>2. /\ SoundCommand(c, E, K)' <=> SoundCommand(c, E, K)
        /\ SoundCall(c, E, K)' <=> SoundCall(c, E, K)
    BY <1>4, <1>5, <2>1
  <2>3. Sound(task, E, K) <=> /\ task.do # "fail"
                              /\ task.do = "script"   => task.text \in E
                              /\ task.do = "parse"    => SoundParse(task.text, E, K)
                              /\ task.do = "program"  => SoundProgram(task.text, E, K)
                              /\ task.do = "command"  => SoundCommand(c, E, K)
                              /\ task.do = "dispatch" => SoundCall(c, E, K)
    BY DEF Sound, c
  <2>4. Sound(task, E, K)' <=> /\ task.do # "fail"
                               /\ task.do = "script"   => task.text \in E
                               /\ task.do = "parse"    => SoundParse(task.text, E, K)'
                               /\ task.do = "program"  => SoundProgram(task.text, E, K)'
                               /\ task.do = "command"  => SoundCommand(c, E, K)'
                               /\ task.do = "dispatch" => SoundCall(c, E, K)'
    BY DEF Sound, c
  <2> QED
    BY <1>6, <1>7, <2>2, <2>3, <2>4
<1>10. \A D, E, K : AllValid(D, E, K)' <=> AllValid(D, E, K)
  BY <1>6, <1>8 DEF AllValid, Top
<1>11. ValidTask' = ValidTask /\ Program' = Program
  BY <1>1 DEF ValidTask, Program
<1> QED
  BY <1>1, <1>2, <1>9, <1>10, <1>11

\* What is known stays known when more is declared.
LEMMA DeclaringKeeps ==
  ASSUME NEW K, NEW L, K \subseteq L, NEW E
  PROVE  /\ \A task : Sound(task, E, K) => Sound(task, E, L)
         /\ \A D : AllValid(D, E, K) => AllValid(D, E, L)
<1>1. ASSUME NEW c, KnownCall(c, K) PROVE KnownCall(c, L)
  <2>1. SUFFICES ASSUME LiteralName(c[1]), StableDefinitions, c[1].text \notin K,
                        NEW d \in Definitions, d[2].text = c[1].text
                 PROVE  FALSE
    BY <1>1 DEF KnownCall
  <2>2. c[1].text \in KnownUndeclared
    BY <1>1, <2>1 DEF KnownCall
  <2> QED
    BY <2>1, <2>2 DEF StableDefinitions
<1>2. \A c : SoundCall(c, E, K) => SoundCall(c, E, L)
  BY <1>1 DEF SoundCall
<1>3. \A c : SoundCommand(c, E, K) => SoundCommand(c, E, L)
  BY <1>2 DEF SoundCommand
<1>4. \A t : SoundProgram(t, E, K) => SoundProgram(t, E, L)
  BY <1>3 DEF SoundProgram
<1>5. \A t : SoundParse(t, E, K) => SoundParse(t, E, L)
  BY <1>4 DEF SoundParse
<1>6. \A t : SoundScript(t, E, K) => SoundScript(t, E, L)
  BY <1>5 DEF SoundScript
<1>7. \A task : Sound(task, E, K) => Sound(task, E, L)
  BY <1>2, <1>3, <1>4, <1>5 DEF Sound
<1>8. \A D : AllValid(D, E, K) => AllValid(D, E, L)
  BY <1>4, <1>6 DEF AllValid
<1> QED
  BY <1>7, <1>8

------------------------------------------------------------------------------
\* What every step of the validator keeps.
Keeps == source' = source /\ visited \subseteq visited' /\ DOMAIN procs \subseteq DOMAIN procs'

\* If the tasks T succeed, then the tasks S do, and the scripts N are valid.
Moves(S, T, N) ==
  \A E, K : N \subseteq E /\ DOMAIN procs \subseteq K /\ AllSound(T, E, K)
              => AllSound(S, E, K) /\ \A t \in N : SoundScript(t, E, K)

\* What was promised of S is promised of T.
LEMMA PromiseMoves ==
  ASSUME Keeps, NEW S, Promised(S), NEW T, NEW N \in SUBSET visited', Moves(S, T, N)
  PROVE  Promised(T)'
<1>1. PICK D0 \in SUBSET visited :
        \A E, K : D0 \subseteq E /\ DOMAIN procs \subseteq K /\ AllSound(S, E, K)
                    => AllValid(D0, E, K)
  BY DEF Promised
<1> DEFINE D == D0 \union N
<1>2. D \in SUBSET visited'
  BY DEF Keeps
<1>3. ASSUME NEW E, NEW K, D \subseteq E, DOMAIN procs' \subseteq K, AllSound(T, E, K)'
      PROVE  AllValid(D, E, K)'
  <2>1. \A s : Sound(s, E, K)' <=> Sound(s, E, K)
    BY ReadingStays DEF Keeps
  <2>2. AllSound(T, E, K)
    BY <1>3, <2>1 DEF AllSound
  <2>3. N \subseteq E /\ D0 \subseteq E /\ DOMAIN procs \subseteq K
    BY <1>3 DEF Keeps
  <2>4. AllSound(S, E, K) /\ \A t \in N : SoundScript(t, E, K)
    BY <2>2, <2>3 DEF Moves
  <2>5. AllValid(D0, E, K)
    BY <1>1, <2>3, <2>4
  <2>6. AllValid(D, E, K)
    BY <2>4, <2>5 DEF AllValid
  <2>7. \A M : AllValid(M, E, K)' <=> AllValid(M, E, K)
    BY ReadingStays DEF Keeps
  <2>8. D' = D
    OBVIOUS
  <2> HIDE DEF D
  <2> QED
    BY <2>6, <2>7, <2>8
<1>4. D' = D
  OBVIOUS
<1> HIDE DEF D
<1> QED
  BY <1>2, <1>3 DEF Promised

\* The tasks X do what the task h does.
Serves(X, h) ==
  \A E, K : DOMAIN procs \subseteq K /\ AllSound(X, E, K) => Sound(h, E, K)

\* The tasks X keep the promise if they take the place of the task h.
Carries(X, h) == \A R : Promised({h} \union R) => Promised(X \union R)'

LEMMA ServingCarries ==
  ASSUME Keeps, NEW h, NEW X, Serves(X, h)
  PROVE  Carries(X, h)
<1> SUFFICES ASSUME NEW R, Promised({h} \union R) PROVE Promised(X \union R)'
  BY DEF Carries
<1>1. Moves({h} \union R, X \union R, {})
  BY DEF Moves, Serves, AllSound
<1>2. {} \in SUBSET visited'
  OBVIOUS
<1> DEFINE S == {h} \union R
           T == X \union R
<1>3. Promised(S) /\ Moves(S, T, {})
  BY <1>1
<1>4. T' = T
  OBVIOUS
<1> HIDE DEF S, T
<1>5. \A U : U = T => Promised(U)'
  BY <1>2, <1>3, PromiseMoves
<1> QED
  BY <1>5 DEF T

\* More tasks promise more.
LEMMA PromiseGrows ==
  ASSUME Keeps, NEW S, Promised(S), NEW X
  PROVE  Promised(X \union S)'
<1> DEFINE T == X \union S
<1>1. Moves(S, T, {})
  BY DEF Moves, AllSound
<1>2. {} \in SUBSET visited'
  OBVIOUS
<1> HIDE DEF T
<1>3. \A U : U = T => Promised(U)'
  BY <1>1, <1>2, PromiseMoves
<1> QED
  BY <1>3 DEF T

\* A script is visited before the tasks that make it valid are carried out.
LEMMA ScriptCarries ==
  ASSUME Keeps, NEW h, h.do = "script", visited' = visited \union {h.text}, NEW X,
         \A E, K : AllSound(X, E, K) => SoundScript(h.text, E, K)
  PROVE  Carries(X, h)
<1> SUFFICES ASSUME NEW R, Promised({h} \union R) PROVE Promised(X \union R)'
  BY DEF Carries
<1> DEFINE S == {h} \union R
           T == X \union R
           N == {h.text}
<1>1. Moves(S, T, N)
  <2> SUFFICES ASSUME NEW E, NEW K, N \subseteq E, AllSound(T, E, K)
               PROVE  AllSound(S, E, K) /\ \A t \in N : SoundScript(t, E, K)
    BY DEF Moves
  <2>1. Sound(h, E, K)
    BY DEF Sound
  <2>2. AllSound(X, E, K) /\ AllSound(R, E, K)
    BY DEF AllSound
  <2> QED
    BY <2>1, <2>2 DEF AllSound
<1>2. N \in SUBSET visited' /\ Promised(S)
  OBVIOUS
<1> HIDE DEF S, T, N
<1>3. \A U : U = T => Promised(U)'
  BY <1>1, <1>2, PromiseMoves
<1> QED
  BY <1>3 DEF T

------------------------------------------------------------------------------
\* The tasks that the steps add are about commands that exist.
LEMMA ValidTasks ==
  /\ Plain \subseteq ValidTask
  /\ \A ws \in Seq(Word) : Otherwise(ws) \in ValidTask
  /\ \A t \in STRING : ParseTask(t) \in ValidTask /\ ProgramTask(t) \in ValidTask
  /\ \A t \in STRING : \A i \in DOMAIN ScriptOf(t).commands :
       i \in Nat => CommandTask(t, i) \in ValidTask /\ DispatchTask(t, i) \in ValidTask
<1>1. Plain \subseteq ValidTask
  BY DEF Plain, ValidTask
<1>2. \A do \in Tasks : \A t \in STRING : MakeTask(do, t) \in Task
  BY PlainTasks DEF MakeTask, Task
<1>3. {"parse", "program", "command", "dispatch", "otherwise"} \subseteq Tasks
  BY DEF Tasks
<1>4. ASSUME NEW ws \in Seq(Word) PROVE Otherwise(ws) \in ValidTask
  <2>1. MakeTask("otherwise", "") \in Task
    BY <1>2, <1>3, EmptyText
  <2>2. Otherwise(ws) \in Task /\ Otherwise(ws).do = "otherwise"
    BY <2>1 DEF Otherwise, Task, MakeTask
  <2> QED
    BY <2>2 DEF ValidTask
<1>5. ASSUME NEW t \in STRING PROVE ParseTask(t) \in ValidTask /\ ProgramTask(t) \in ValidTask
  <2>1. MakeTask("parse", t) \in Task /\ MakeTask("program", t) \in Task
    BY <1>2, <1>3
  <2>2. MakeTask("parse", t).do = "parse" /\ MakeTask("program", t).do = "program"
    BY DEF MakeTask
  <2> QED
    BY <2>1, <2>2 DEF ParseTask, ProgramTask, ValidTask
<1>6. ASSUME NEW t \in STRING, NEW i \in DOMAIN ScriptOf(t).commands, i \in Nat
      PROVE  CommandTask(t, i) \in ValidTask /\ DispatchTask(t, i) \in ValidTask
  <2>1. MakeTask("command", t) \in Task /\ MakeTask("dispatch", t) \in Task
    BY <1>2, <1>3
  <2>2. CommandTask(t, i) \in Task /\ DispatchTask(t, i) \in Task
    BY <1>6, <2>1 DEF CommandTask, DispatchTask, Task
  <2>3. CommandTask(t, i).text = t /\ CommandTask(t, i).at = i
          /\ DispatchTask(t, i).text = t /\ DispatchTask(t, i).at = i
    BY DEF CommandTask, DispatchTask, MakeTask
  <2> QED
    BY <2>2, <2>3 DEF ValidTask
<1> QED
  BY <1>1, <1>4, <1>5, <1>6
\* The first task is replaced by a plan that keeps the promise.
LEMMA ExpandKeeps ==
  ASSUME AgendaOK, agenda # <<>>, NEW plan \in Seq(ValidTask), Expand(plan), Keeps
  PROVE  /\ AgendaOK'
         /\ AllPromised /\ (\A X \in {Elements(plan)} \union Later(plan) : Carries(X, Head(agenda)))
              => AllPromised'
<1> DEFINE R == Elements(Tail(agenda))
           h == Head(agenda)
<1>1. agenda \in Seq(ValidTask) /\ ValidTask' = ValidTask
  BY ReadingStays DEF AgendaOK, Keeps
<1>2. Tail(agenda) \in Seq(ValidTask) /\ Elements(agenda) = {h} \union R
        /\ Later(Tail(agenda)) \subseteq Later(agenda)
  BY <1>1, HeadAndTail
<1>3. agenda' = plan \o Tail(agenda)
  BY DEF Expand
<1>4. agenda' \in Seq(ValidTask) /\ Elements(agenda') = Elements(plan) \union R
  BY <1>2, <1>3, ElementsOfBoth
<1>5. Later(agenda') = {T \union R : T \in Later(plan)} \union Later(Tail(agenda))
  BY <1>2, <1>3, LaterOfBoth
<1>6. ASSUME AllPromised, \A X \in {Elements(plan)} \union Later(plan) : Carries(X, h),
             NEW S \in {Elements(agenda')} \union Later(agenda')
      PROVE  Promised(S)'
  <2>1. Promised({h} \union R)
    BY <1>2, <1>6 DEF AllPromised, Cuts
  <2>2. CASE \E X \in {Elements(plan)} \union Later(plan) : S = X \union R
    <3>1. PICK X \in {Elements(plan)} \union Later(plan) : S = X \union R
      BY <2>2
    <3>2. Carries(X, h)
      BY <1>6, <3>1
    <3>3. \A r : Promised({h} \union r) => Promised(X \union r)'
      BY <3>2 DEF Carries
    <3> HIDE DEF R, h
    <3>4. \E r : S = X \union r /\ Promised({h} \union r)
      BY <2>1, <3>1
    <3> QED
      BY <3>3, <3>4
  <2>3. CASE S \in Later(Tail(agenda))
    <3>1. Promised(S)
      BY <1>2, <1>6, <2>3 DEF AllPromised, Cuts
    <3>2. Promised({} \union S)'
      BY <3>1, PromiseGrows
    <3>3. {} \union S = S
      OBVIOUS
    <3> QED
      BY <3>2, <3>3
  <2> QED
    BY <1>4, <1>5, <1>6, <2>2, <2>3
<1>7. AllPromised /\ (\A X \in {Elements(plan)} \union Later(plan) : Carries(X, h))
        => AllPromised'
  BY <1>6 DEF AllPromised, Cuts
<1> QED
  BY <1>1, <1>4, <1>7 DEF AgendaOK

\* A failure goes on behind an Otherwise, or is the end.
LEMMA FailureKeeps ==
  ASSUME AgendaOK, Keeps, NEW e, Failed(e)
  PROVE  AgendaOK' /\ (AllPromised /\ verdict' = "busy" => AllPromised')
<1> DEFINE marks == {i \in DOMAIN agenda : agenda[i].do = "otherwise"}
           next == CHOOSE i \in marks : \A j \in marks : i <= j
           l == Len(agenda)
           rest == SubSeq(agenda, next + 1, Len(agenda))
           plan == ExprWordPlans(agenda[next].words)
<1>1. agenda \in Seq(ValidTask) /\ ValidTask' = ValidTask
  BY ReadingStays DEF AgendaOK, Keeps
<1>2. CASE marks = {}
  <2>1. agenda' = <<>> /\ verdict' = "refused"
    BY <1>2 DEF Failed
  <2> QED
    BY <1>1, <2>1 DEF AgendaOK
<1>3. CASE marks # {}
  <2>1. agenda' = plan \o rest
    BY <1>3 DEF Failed
  <2>2. next \in DOMAIN agenda /\ agenda[next].do = "otherwise"
    <3>1. DOMAIN agenda \subseteq Nat
      BY <1>1
    <3>2. marks \in SUBSET Nat
      BY <3>1
    <3>3. \E i \in marks : \A j \in marks : i <= j
      <4> HIDE DEF marks
      <4> QED
        BY <1>3, <3>2, LeastElement
    <3>4. next \in marks
      <4> HIDE DEF marks
      <4> QED
        BY <3>3
    <3> QED
      BY <3>4
  <2> HIDE DEF marks, next
  <2>3. rest \in Seq(ValidTask) /\ Elements(rest) = TasksBehind(agenda, next)
          /\ Later(rest) \subseteq Later(agenda)
    BY <1>1, <2>2, RestOfTasks
  <2>10. Elements(plan) \union Elements(rest) \in Later(agenda)
    BY <2>2, <2>3 DEF Later, Left, Fallback
  <2>4. plan \in Seq(Plain)
    <3>1. agenda[next] \in ValidTask
      BY <1>1, <2>2
    <3>2. agenda[next].words \in Seq(Word)
      BY <3>1 DEF ValidTask, Task
    <3> QED
      BY <3>2, ExprWordsDo DEF Does
  <2>5. plan \in Seq(ValidTask)
    BY <2>4, ValidTasks, SeqMonotonic
  <2> HIDE DEF rest, plan
  <2>6. agenda' \in Seq(ValidTask) /\ Elements(agenda') = Elements(plan) \union Elements(rest)
    BY <2>1, <2>3, <2>5, ElementsOfBoth
  <2>7. Later(agenda') = {T \union Elements(rest) : T \in Later(plan)} \union Later(rest)
    BY <2>1, <2>3, <2>5, LaterOfBoth
  <2>8. Later(agenda') \subseteq Later(agenda)
    BY <2>3, <2>4, <2>7, PlainHasNoLater
  <2>9. ASSUME AllPromised PROVE AllPromised'
    <3> SUFFICES ASSUME NEW S \in {Elements(agenda')} \union Later(agenda') PROVE Promised(S)'
      BY DEF AllPromised, Cuts
    <3>1. \E X, r : S = X \union r /\ r \in Later(agenda)
      <4>1. CASE S = Elements(agenda')
        <5>1. S = {} \union S /\ S \in Later(agenda)
          BY <2>6, <2>10, <4>1
        <5> QED
          BY <5>1
      <4>2. CASE S \in Later(agenda')
        <5>1. S = {} \union S
          OBVIOUS
        <5> QED
          BY <2>8, <4>2, <5>1
      <4> QED
        BY <4>1, <4>2
    <3>2. PICK X, r : S = X \union r /\ r \in Later(agenda)
      BY <3>1
    <3>3. Promised(r)
      BY <2>9, <3>2 DEF AllPromised, Cuts
    <3>4. Promised(X \union r)'
      BY <3>3, PromiseGrows
    <3> QED
      BY <3>2, <3>4
  <2> QED
    BY <1>1, <2>6, <2>9 DEF AgendaOK
<1> QED
  BY <1>2, <1>3
\* A list without an Otherwise has no later lists.
LEMMA NoLater ==
  ASSUME NEW p, \A x \in Elements(p) : x.do # "otherwise"
  PROVE  Later(p) = {}
BY DEF Later, Elements

\* Nor have two of them one behind the other.
LEMMA NoLaterInBoth ==
  ASSUME NEW V, NEW p \in Seq(V), NEW q \in Seq(V), Later(p) = {}, Later(q) = {}
  PROVE  Later(p \o q) = {}
BY LaterOfBoth

\* A step that begins scripts and collects definitions
LEMMA KeepsIs ==
  ASSUME SourceOK, TableOK, source' = source, visited \subseteq visited',
         procs' = procs \/ \E t \in STRING : procs' = Updated(procs, ScriptOf(t).commands)
  PROVE  Keeps /\ TableOK'
BY TableStays DEF Keeps

------------------------------------------------------------------------------
\* What holds before a step of the validator, and what the step keeps.
Ready == SourceOK /\ AgendaOK /\ TableOK /\ verdict = "busy"

StepKeeps ==
  /\ AgendaOK' /\ TableOK'
  /\ AllPromised /\ verdict' = "busy" => AllPromised'
  /\ AllPromised /\ verdict' = "accepted" => Promised({})'

\* The first task is about a text, and about a command of it.
LEMMA FirstTask ==
  ASSUME AgendaOK, agenda # <<>>
  PROVE  LET h == Head(agenda)
         IN /\ h \in ValidTask /\ h.text \in STRING
            /\ h.do \in {"command", "dispatch"} => h.at \in DOMAIN ScriptOf(h.text).commands
<1>1. Head(agenda) \in ValidTask
  BY HeadTailProperties DEF AgendaOK
<1> QED
  BY <1>1 DEF ValidTask, Task

\* What it is to do for a task to succeed: one case at a time.
LEMMA SoundIs ==
  ASSUME NEW task, NEW E, NEW K
  PROVE  /\ task.do = "fail" => ~ Sound(task, E, K)
         /\ task.do = "script" => (Sound(task, E, K) <=> task.text \in E)
         /\ task.do = "parse" => (Sound(task, E, K) <=> SoundParse(task.text, E, K))
         /\ task.do = "program" => (Sound(task, E, K) <=> SoundProgram(task.text, E, K))
         /\ task.do = "command" => (Sound(task, E, K) <=> SoundCommand(WordsOf(task), E, K))
         /\ task.do = "dispatch" => (Sound(task, E, K) <=> SoundCall(WordsOf(task), E, K))
         /\ task.do \in {"attempt", "otherwise"} => Sound(task, E, K)
BY DEF Sound

LEMMA FailIsUnsound ==
  ASSUME NEW S, Fail \in S
  PROVE  \A E, K : ~ AllSound(S, E, K)
<1>1. Fail.do = "fail"
  BY DEF Fail, MakeTask
<1> QED
  BY <1>1, SoundIs DEF AllSound

\* The scripts of a plan are reached, or it fails.
LEMMA DoneIfSound ==
  ASSUME NEW p, NEW A, Does(p, A), NEW S, Elements(p) \subseteq S, NEW E, NEW K, AllSound(S, E, K)
  PROVE  A \subseteq E
<1>1. Fail \notin Elements(p)
  BY FailIsUnsound
<1>2. ASSUME NEW t \in A PROVE t \in E
  <2>1. Script(t) \in S
    BY <1>1 DEF Does
  <2>2. Script(t).do = "script" /\ Script(t).text = t
    BY DEF Script, MakeTask
  <2> HIDE DEF Does
  <2>3. Sound(Script(t), E, K)
    BY <2>1 DEF AllSound
  <2> QED
    BY <2>2, <2>3, SoundIs
<1> QED
  BY <1>2

\* SanitizeScript: the script is visited, and its parse remains to be done.
LEMMA SanitizeKeeps ==
  ASSUME Ready, SanitizeScript
  PROVE  StepKeeps
<1> DEFINE h == Head(agenda)
           t == h.text
           subs == ScriptOf(t).subs
           first == Scripts(subs)
           rest == IF ScriptOf(t).torn THEN <<Fail>> ELSE <<ParseTask(t)>>
           plan == first \o rest
<1>1. /\ agenda # <<>> /\ h.do = "script" /\ verdict' = "busy"
      /\ Expand(plan) /\ visited' = visited \union {t} /\ source' = source /\ procs' = procs
  BY DEF SanitizeScript, Pending, Ready
<1>2. t \in STRING
  BY <1>1, FirstTask DEF Ready
<1>3. Keeps /\ TableOK'
  BY <1>1, KeepsIs DEF Ready
<1>4. subs \in Seq(STRING)
  BY <1>2, ScriptIs DEF Ready, ScriptText
<1>5. Does(first, Elements(subs))
  BY <1>4, ScriptsDo
<1> HIDE DEF first
<1>6. first \in Seq(ValidTask) /\ Later(first) = {}
  BY <1>5, ValidTasks, SeqMonotonic, PlainHasNoLater DEF Does
<1>7. rest \in Seq(ValidTask) /\ Later(rest) = {}
        /\ Elements(rest) = IF ScriptOf(t).torn THEN {Fail} ELSE {ParseTask(t)}
  <2>1. Fail \in ValidTask /\ ParseTask(t) \in ValidTask
    BY <1>2, ValidTasks, PlainTasks
  <2>2. rest \in Seq(ValidTask)
          /\ Elements(rest) = IF ScriptOf(t).torn THEN {Fail} ELSE {ParseTask(t)}
    BY <2>1, OneElement
  <2>3. Fail.do = "fail" /\ ParseTask(t).do = "parse"
    BY DEF Fail, ParseTask, MakeTask
  <2> HIDE DEF rest
  <2>4. \A x \in Elements(rest) : x.do # "otherwise"
    BY <2>2, <2>3
  <2> QED
    BY <2>2, <2>4, NoLater
<1> HIDE DEF rest
<1>8. /\ plan \in Seq(ValidTask) /\ Elements(plan) = Elements(first) \union Elements(rest)
      /\ Later(plan) = {}
  BY <1>6, <1>7, ElementsOfBoth, LaterOfBoth
<1> HIDE DEF plan
<1> DEFINE X == Elements(plan)
<1>9. ASSUME NEW E, NEW K, AllSound(X, E, K) PROVE SoundScript(t, E, K)
  <2>1. Fail \notin X
    BY <1>9, FailIsUnsound
  <2>2. ~ ScriptOf(t).torn /\ ParseTask(t) \in X
    BY <1>7, <1>8, <2>1
  <2>3. ParseTask(t).do = "parse" /\ ParseTask(t).text = t
    BY DEF ParseTask, MakeTask
  <2>4. Sound(ParseTask(t), E, K)
    BY <1>9, <2>2 DEF AllSound
  <2>5. SoundParse(t, E, K)
    BY <2>3, <2>4, SoundIs
  <2>6. Elements(first) \subseteq X
    BY <1>8
  <2> HIDE DEF X, subs
  <2>7. Elements(subs) \subseteq E
    BY <1>5, <1>9, <2>6, DoneIfSound
  <2> QED
    BY <2>2, <2>5, <2>7 DEF SoundScript, subs
<1>10. Carries(X, h)
  <2> HIDE DEF X
  <2> QED
    BY <1>1, <1>3, <1>9, ScriptCarries
<1>11. \A Y \in {Elements(plan)} \union Later(plan) : Carries(Y, h)
  <2>1. \A Y : Y = X => Carries(Y, h)
    <3> HIDE DEF X, h
    <3> QED
      BY <1>10
  <2> QED
    BY <1>8, <2>1
<1> QED
  BY <1>1, <1>3, <1>8, <1>11, ExpandKeeps DEF StepKeeps, Ready

------------------------------------------------------------------------------
\* A step that fails
LEMMA FailureCase ==
  ASSUME Ready, Keeps, TableOK', NEW e, Failed(e)
  PROVE  StepKeeps
<1>1. verdict' # "accepted"
  BY FailedEffect DEF Ready
<1> QED
  BY <1>1, FailureKeeps DEF StepKeeps, Ready

\* A step that replaces the first task by a plan
LEMMA ExpandCase ==
  ASSUME Ready, Keeps, TableOK', agenda # <<>>, verdict' = verdict,
         NEW plan \in Seq(ValidTask), Expand(plan),
         \A X \in {Elements(plan)} \union Later(plan) : Serves(X, Head(agenda))
  PROVE  StepKeeps
<1>1. \A X \in {Elements(plan)} \union Later(plan) : Carries(X, Head(agenda))
  <2> SUFFICES ASSUME NEW X, Serves(X, Head(agenda)) PROVE Carries(X, Head(agenda))
    OBVIOUS
  <2> QED
    BY ServingCarries
<1> QED
  BY <1>1, ExpandKeeps DEF StepKeeps, Ready

\* ParseScript: the program stands for the text.
LEMMA ParseKeeps ==
  ASSUME Ready, ParseScript
  PROVE  StepKeeps
<1> DEFINE h == Head(agenda)
           s == ScriptOf(h.text)
           found == IF s.leftover \/ s.parse = "refused" THEN Recorded(LexicalError) ELSE error
           new == ProgramTask(h.text)
<1>1. /\ agenda # <<>> /\ h.do = "parse" /\ source' = source /\ procs' = procs
      /\ visited' = visited
  BY DEF ParseScript, Pending
<1>2. Keeps /\ TableOK'
  BY <1>1, KeepsIs DEF Ready
<1>3. CASE s.parse # "commands" /\ found # NoError
  <2>1. Failed(found)
    BY <1>3 DEF ParseScript
  <2> QED
    BY <1>2, <2>1, FailureCase
<1>4. CASE ~ (s.parse # "commands" /\ found # NoError)
  <2>1. Expand(<<new>>) /\ verdict' = verdict
    BY <1>4 DEF ParseScript
  <2>2. new \in ValidTask
    BY <1>1, FirstTask, ValidTasks DEF Ready
  <2>3. new.do = "program" /\ new.text = h.text
    BY DEF ProgramTask, MakeTask
  <2> HIDE DEF new
  <2>4. <<new>> \in Seq(ValidTask) /\ Elements(<<new>>) = {new}
    BY <2>2, OneElement
  <2>5. Later(<<new>>) = {}
    BY <2>3, <2>4, NoLater
  <2>6. s.parse # "refused"
    <3>1. LexicalError # NoError
      BY DEF LexicalError, NoError
    <3>2. s.parse = "refused" => found # NoError
      BY <3>1 DEF Recorded
    <3> QED
      BY <1>4, <3>2
  <2>7. Serves({new}, h)
    <3> SUFFICES ASSUME NEW E, NEW K, AllSound({new}, E, K) PROVE Sound(h, E, K)
      BY DEF Serves
    <3>1. Sound(new, E, K)
      BY DEF AllSound
    <3>2. SoundProgram(h.text, E, K)
      BY <2>3, <3>1, SoundIs
    <3>3. SoundParse(h.text, E, K)
      BY <2>6, <3>2 DEF SoundParse
    <3> QED
      BY <1>1, <3>3, SoundIs
  <2> HIDE DEF h
  <2>8. \A X \in {Elements(<<new>>)} \union Later(<<new>>) : Serves(X, h)
    BY <2>4, <2>5, <2>7
  <2> QED
    BY <1>1, <1>2, <2>1, <2>4, <2>8, ExpandCase DEF h
<1> QED
  BY <1>3, <1>4

\* CollectProcedures: the commands stand for the program.
LEMMA CollectKeeps ==
  ASSUME Ready, CollectProcedures
  PROVE  StepKeeps
<1> DEFINE h == Head(agenda)
           t == h.text
           program == ScriptOf(t).commands
           plan == [i \in DOMAIN program |-> CommandTask(t, i)]
<1>1. /\ agenda # <<>> /\ h.do = "program" /\ source' = source
      /\ procs' = Updated(procs, program) /\ visited' = visited
  BY DEF CollectProcedures, Pending
<1>2. t \in STRING
  BY <1>1, FirstTask DEF Ready
<1>3. Keeps /\ TableOK'
  BY <1>1, <1>2, KeepsIs DEF Ready
<1>4. CASE CollectFails(program)
  <2>1. Failed(SyntaxError)
    BY <1>4 DEF CollectProcedures
  <2> QED
    BY <1>3, <2>1, FailureCase
<1>5. CASE ~ CollectFails(program)
  <2>1. Expand(plan) /\ verdict' = verdict
    BY <1>5 DEF CollectProcedures
  <2>2. Len(program) \in Nat /\ DOMAIN program = 1..Len(program)
    BY <1>2, CommandsOfScripts DEF Ready
  <2>3. \A i \in DOMAIN program :
          /\ CommandTask(t, i) \in ValidTask
          /\ CommandTask(t, i).do = "command" /\ CommandTask(t, i).text = t
          /\ CommandTask(t, i).at = i
    BY <1>2, <2>2, ValidTasks DEF CommandTask, MakeTask
  <2>4. plan \in Seq(ValidTask) /\ Elements(plan) = {CommandTask(t, i) : i \in DOMAIN program}
    <3> DEFINE n == Len(program)
    <3>1. plan \in [1..n -> ValidTask]
      BY <2>2, <2>3
    <3>2. n \in Nat
      BY <2>2
    <3> HIDE DEF n
    <3>3. plan \in Seq(ValidTask)
      BY <3>1, <3>2
    <3> QED
      BY <3>3 DEF Elements
  <2> HIDE DEF plan
  <2>5. Later(plan) = {}
    <3>1. \A x \in Elements(plan) : x.do # "otherwise"
      BY <2>3, <2>4
    <3> QED
      BY <3>1, NoLater
  <2>6. Serves(Elements(plan), h)
    <3> SUFFICES ASSUME NEW E, NEW K, AllSound(Elements(plan), E, K) PROVE Sound(h, E, K)
      BY DEF Serves
    <3>1. ASSUME NEW c \in Commands(t) PROVE SoundCommand(c, E, K)
      <4>1. PICK i \in DOMAIN program : c = program[i]
        BY DEF Commands
      <4>2. Sound(CommandTask(t, i), E, K)
        BY <2>4 DEF AllSound
      <4>3. WordsOf(CommandTask(t, i)) = c
        BY <2>3, <4>1 DEF WordsOf
      <4> QED
        BY <2>3, <4>2, <4>3, SoundIs
    <3>2. SoundProgram(t, E, K)
      BY <1>5, <3>1 DEF SoundProgram
    <3> QED
      BY <1>1, <3>2, SoundIs
  <2> HIDE DEF h
  <2>7. \A X \in {Elements(plan)} \union Later(plan) : Serves(X, h)
    BY <2>5, <2>6
  <2> QED
    BY <1>1, <1>3, <2>1, <2>4, <2>7, ExpandCase DEF h
<1> QED
  BY <1>4, <1>5

\* ValidateWords: the scripts in brackets are reached, the bodies are left to Dispatch.
LEMMA WordsKeep ==
  ASSUME Ready, ValidateWords
  PROVE  StepKeeps
<1> DEFINE h == Head(agenda)
           t == h.text
           c == WordsOf(h)
           plans == [i \in DOMAIN c |-> Scripts(Substitutions(c[i])) \o Unless(~ IsTorn(c[i]))]
           first == Concat(plans)
           new == DispatchTask(t, h.at)
           plan == first \o <<new>>
           A == [i \in DOMAIN c |-> Elements(Substitutions(c[i]))]
           n == Len(c)
<1>1. /\ agenda # <<>> /\ h.do = "command" /\ source' = source /\ procs' = procs
      /\ visited' = visited /\ verdict' = verdict /\ Expand(plan)
  BY DEF ValidateWords, Pending
<1>2. t \in STRING /\ h.at \in DOMAIN ScriptOf(t).commands
  BY <1>1, FirstTask DEF Ready
<1>3. Keeps /\ TableOK'
  BY <1>1, KeepsIs DEF Ready
<1>4. DOMAIN ScriptOf(t).commands = 1..Len(ScriptOf(t).commands)
        /\ ScriptOf(t).commands[h.at] \in Command
  BY <1>2, CommandsOfScripts DEF Ready
<1>5. h.at \in Nat /\ c \in Command
  BY <1>2, <1>4 DEF WordsOf
<1>6. n \in Nat /\ DOMAIN c = 1..n /\ \A i \in 1..n : c[i] \in Word
  BY <1>5, WordOf
<1>7. \A i \in 1..n : Does(plans[i], A[i])
  <2> SUFFICES ASSUME NEW i \in 1..n
               PROVE  Does(Scripts(Substitutions(c[i])) \o Unless(~ IsTorn(c[i])),
                           Elements(Substitutions(c[i])))
    BY <1>6
  <2>1. Substitutions(c[i]) \in Seq(STRING)
    <3>1. c[i].subs \in Seq(STRING)
      BY <1>6 DEF Word
    <3>2. <<>> \in Seq(STRING)
      OBVIOUS
    <3>3. Substitutions(c[i]) = c[i].subs \/ Substitutions(c[i]) = <<>>
      BY DEF Substitutions
    <3> QED
      BY <3>1, <3>2, <3>3
  <2>2. Does(Scripts(Substitutions(c[i])), Elements(Substitutions(c[i])))
    BY <2>1, ScriptsDo
  <2>3. Does(Unless(~ IsTorn(c[i])), {})
    BY UnlessDoes
  <2>4. Does(Scripts(Substitutions(c[i])) \o Unless(~ IsTorn(c[i])),
             Elements(Substitutions(c[i])) \union {})
    BY <2>2, <2>3, DoesBoth
  <2> QED
    BY <2>4, DoesLess
<1>8. Len(plans) = n
  <2>1. plans = [i \in 1..n |-> plans[i]]
    BY <1>6
  <2> HIDE DEF plans, n
  <2>2. \A i \in 1..n : plans[i] \in Seq(Plain)
    BY <1>7 DEF Does
  <2>3. plans \in [1..n -> Seq(Plain)]
    BY <2>1, <2>2
  <2> QED
    BY <1>6, <2>3
<1>9. Does(first, UNION {A[i] : i \in 1..n})
  <2> HIDE DEF plans, A, n
  <2> QED
    BY <1>6, <1>7, <1>8, DoesAll
<1> HIDE DEF first
<1>10. first \in Seq(ValidTask) /\ Later(first) = {}
  BY <1>9, ValidTasks, SeqMonotonic, PlainHasNoLater DEF Does
<1>11. new \in ValidTask /\ new.do = "dispatch" /\ new.text = t /\ new.at = h.at
  BY <1>2, <1>5, ValidTasks DEF DispatchTask, MakeTask
<1> HIDE DEF new
<1>12. <<new>> \in Seq(ValidTask) /\ Elements(<<new>>) = {new} /\ Later(<<new>>) = {}
  <2>1. <<new>> \in Seq(ValidTask) /\ Elements(<<new>>) = {new}
    BY <1>11, OneElement
  <2> QED
    BY <1>11, <2>1, NoLater
<1>13. /\ plan \in Seq(ValidTask) /\ Elements(plan) = Elements(first) \union {new}
       /\ Later(plan) = {}
  <2> DEFINE last == <<new>>
  <2>1. last \in Seq(ValidTask) /\ Elements(last) = {new} /\ Later(last) = {}
    BY <1>12
  <2> HIDE DEF last
  <2>2. /\ first \o last \in Seq(ValidTask)
        /\ Elements(first \o last) = Elements(first) \union Elements(last)
    BY <1>10, <2>1, ElementsOfBoth
  <2>3. Later(first \o last) = {}
    BY <1>10, <2>1, NoLaterInBoth
  <2> QED
    BY <2>1, <2>2, <2>3 DEF last
<1> HIDE DEF plan
<1>14. WordsOf(new) = c
  BY <1>11 DEF WordsOf
<1>15. ASSUME NEW i \in 1..n
       PROVE  /\ Elements(plans[i]) \subseteq Elements(first)
              /\ IsTorn(c[i]) => Fail \in Elements(plans[i])
  <2>1. Elements(plans[i]) \subseteq Elements(first)
    <3>1. \A j \in 1..n : plans[j] \in Seq(Plain)
      BY <1>7 DEF Does
    <3> HIDE DEF plans, n
    <3> QED
      BY <1>6, <1>8, <3>1, ConcatIs DEF first
  <2>2. ASSUME IsTorn(c[i]) PROVE Fail \in Elements(plans[i])
    <3> DEFINE p == Scripts(Substitutions(c[i]))
               q == Unless(~ IsTorn(c[i]))
    <3>1. q = <<Fail>>
      BY <2>2 DEF Unless
    <3>2. q \in Seq(Plain) /\ Elements(q) = {Fail}
      BY <3>1, PlainTasks, OneElement
    <3>3. p \in Seq(Plain)
      <4>1. c[i].subs \in Seq(STRING)
        BY <1>6 DEF Word
      <4>2. <<>> \in Seq(STRING)
        OBVIOUS
      <4>3. Substitutions(c[i]) \in Seq(STRING)
        BY <4>1, <4>2 DEF Substitutions
      <4> QED
        BY <4>3, ScriptsDo DEF Does
    <3>4. plans[i] = p \o q
      BY <1>6
    <3> HIDE DEF p, q, plans
    <3> QED
      BY <3>2, <3>3, <3>4, ElementsOfBoth
  <2> QED
    BY <2>1, <2>2
<1> DEFINE X == Elements(plan)
<1>16. ASSUME NEW E, NEW K, AllSound(X, E, K) PROVE Sound(h, E, K)
  <2>1. Fail \notin X
    BY <1>16, FailIsUnsound
  <2>2. Sound(new, E, K)
    BY <1>13, <1>16 DEF AllSound
  <2>3. SoundCall(c, E, K)
    BY <1>11, <1>14, <2>2, SoundIs
  <2>4. UNION {A[i] : i \in 1..n} \subseteq E
    <3> HIDE DEF A, X
    <3>1. Elements(first) \subseteq X
      BY <1>13 DEF X
    <3> QED
      BY <1>9, <1>16, <3>1, DoneIfSound
  <2>5. ASSUME NEW i \in 1..n PROVE ~ IsTorn(c[i]) /\ Elements(Substitutions(c[i])) \subseteq E
    <3>1. ~ IsTorn(c[i])
      BY <1>13, <1>15, <2>1
    <3>2. A[i] = Elements(Substitutions(c[i]))
      BY <1>6
    <3> HIDE DEF A
    <3> QED
      BY <2>4, <3>1, <3>2
  <2>6. \A w \in Elements(c) : ~ IsTorn(w) /\ Elements(Substitutions(w)) \subseteq E
    <3>1. Elements(c) = {c[i] : i \in 1..n}
      BY <1>6 DEF Elements
    <3> QED
      BY <2>5, <3>1
  <2>7. SoundCommand(c, E, K)
    BY <2>3, <2>6 DEF SoundCommand
  <2> QED
    BY <1>1, <2>7, SoundIs
<1>17. Serves(X, h)
  BY <1>16 DEF Serves
<1>18. \A Y \in {Elements(plan)} \union Later(plan) : Serves(Y, h)
  <2> HIDE DEF h
  <2> QED
    BY <1>13, <1>17
<1> HIDE DEF h
<1> QED
  BY <1>1, <1>3, <1>13, <1>18, ExpandCase DEF h

------------------------------------------------------------------------------
\* A command that is not unknown is a known call, or does not fit.
LEMMA CallIsKnown ==
  ASSUME TableOK, NEW c, ~ IsUnknown(c, procs)
  PROVE  \/ \A K : DOMAIN procs \subseteq K => KnownCall(c, K)
         \/ CommandPlan(c, procs) = <<Fail>>
<1> DEFINE n == c[1].text
           fits == Fits(procs[n], Len(c) - 1)
<1> SUFFICES ASSUME NEW K, DOMAIN procs \subseteq K, ~ KnownCall(c, K)
             PROVE  CommandPlan(c, procs) = <<Fail>>
  OBVIOUS
<1>1. LiteralName(c[1]) /\ n \in KnownUndeclared \union DOMAIN procs
  BY DEF KnownCall, IsUnknown
<1>2. PICK d \in Definitions : d[2].text = n /\ ~ Fits(SignatureOf(d[3].text), Len(c) - 1)
  BY <1>1 DEF KnownCall
<1>3. StableDefinitions
  BY <1>1 DEF KnownCall
<1>4. n \notin KnownUndeclared /\ n \in DOMAIN procs
  BY <1>1, <1>2, <1>3 DEF StableDefinitions
<1>5. PICK e \in Definitions : e[2].text = n /\ procs[n] = SignatureOf(e[3].text)
  BY <1>4 DEF TableOK
<1>6. ~ fits
  BY <1>2, <1>3, <1>5 DEF StableDefinitions
<1>7. n \notin Builtins /\ n # "cmdsubst"
  BY <1>4 DEF KnownUndeclared
<1>8. CommandPlan(c, procs) = Unless(fits)
  BY <1>1, <1>4, <1>7, Zenon DEF CommandPlan
<1> QED
  BY <1>6, <1>8 DEF Unless

\* A plan with an Otherwise at its end is one for the agenda.
LEMMA EndsIs ==
  ASSUME NEW plan, Ends(plan)
  PROVE  plan \in Seq(ValidTask)
<1>1. PICK p \in Seq(Plain), words \in Seq(Word) : plan = p \o <<Otherwise(words)>>
  BY DEF Ends
<1>2. p \in Seq(ValidTask)
  BY <1>1, ValidTasks, SeqMonotonic
<1>3. <<Otherwise(words)>> \in Seq(ValidTask)
  BY <1>1, ValidTasks, OneElement
<1> QED
  BY <1>1, <1>2, <1>3, ElementsOfBoth

\* A plan whose tasks succeed
LEMMA SoundPlanSucceeds ==
  ASSUME NEW plan, NEW X \in {Elements(plan)} \union Later(plan), NEW E, NEW K, AllSound(X, E, K)
  PROVE  Succeeds(plan, E)
<1>1. AllSafe(X, E)
  BY DEF AllSound, Sound, AllSafe
<1> QED
  BY <1>1 DEF Succeeds

\* Dispatch: the call is known, and its plan succeeds.
LEMMA DispatchKeeps ==
  ASSUME Ready, Dispatch
  PROVE  StepKeeps
<1> DEFINE h == Head(agenda)
           t == h.text
           c == WordsOf(h)
           plan == CommandPlan(c, procs)
<1>1. /\ agenda # <<>> /\ h.do = "dispatch" /\ source' = source /\ procs' = procs
      /\ visited' = visited
  BY DEF Dispatch, Pending
<1>2. Keeps /\ TableOK'
  BY <1>1, KeepsIs DEF Ready
<1>3. CASE IsUnknown(c, procs)
  <2>1. Failed(UnknownCommand(c[1].text))
    BY <1>3 DEF Dispatch
  <2> QED
    BY <1>2, <2>1, FailureCase
<1>4. CASE ~ IsUnknown(c, procs)
  <2>1. Expand(plan) /\ verdict' = verdict
    BY <1>4 DEF Dispatch
  <2>2. t \in STRING /\ h.at \in DOMAIN ScriptOf(t).commands
    BY <1>1, FirstTask DEF Ready
  <2>3. c \in Command
    BY <2>2, CommandsOfScripts DEF WordsOf, Ready
  <2>4. plan \in Seq(ValidTask)
    <3>1. CASE \E A : Does(plan, A)
      BY <3>1, ValidTasks, SeqMonotonic DEF Does
    <3>2. CASE Ends(plan)
      BY <3>2, EndsIs
    <3> QED
      BY <2>3, <3>1, <3>2, CommandDoes
  <2>5. ASSUME NEW X \in {Elements(plan)} \union Later(plan) PROVE Serves(X, h)
    <3> SUFFICES ASSUME NEW E, NEW K, DOMAIN procs \subseteq K, AllSound(X, E, K)
                 PROVE  Sound(h, E, K)
      BY DEF Serves
    <3>1. KnownCall(c, K)
      <4>1. CASE plan = <<Fail>>
        <5>1. Fail \in ValidTask /\ Fail.do = "fail"
          BY ValidTasks, PlainTasks DEF Fail, MakeTask
        <5>2. Elements(plan) = {Fail}
          BY <4>1, <5>1, OneElement
        <5>3. Later(plan) = {}
          BY <5>1, <5>2, NoLater
        <5>4. Fail \in X
          BY <5>2, <5>3
        <5> QED
          BY <5>4, FailIsUnsound
      <4>2. CASE plan # <<Fail>>
        BY <1>4, <4>2, CallIsKnown DEF Ready
      <4> QED
        BY <4>1, <4>2
    <3>2. ASSUME LiteralName(c[1]), c[1].text \in Builtins PROVE Succeeds(BuiltinPlan(c), E)
      <4>1. c[1].text # "cmdsubst"
        BY <3>2 DEF Builtins, BodyCommands, FlatCommands, Ensembles
      <4>2. plan = BuiltinPlan(c)
        BY <3>2, <4>1, Zenon DEF CommandPlan
      <4> HIDE DEF plan
      <4>3. Succeeds(plan, E)
        BY SoundPlanSucceeds
      <4> QED
        BY <4>2, <4>3
    <3>3. SoundCall(c, E, K)
      BY <3>1, <3>2 DEF SoundCall
    <3> QED
      BY <1>1, <3>3, SoundIs
  <2> HIDE DEF plan, h
  <2> QED
    BY <1>1, <1>2, <2>1, <2>4, <2>5, ExpandCase DEF h
<1> QED
  BY <1>3, <1>4

\* ReportSyntax fails.
LEMMA ReportKeeps ==
  ASSUME Ready, ReportSyntax
  PROVE  StepKeeps
<1>1. source' = source /\ procs' = procs /\ visited' = visited /\ Failed(SyntaxError)
  BY DEF ReportSyntax
<1>2. Keeps /\ TableOK'
  BY <1>1, KeepsIs DEF Ready
<1> QED
  BY <1>1, <1>2, FailureCase

\* AttemptExpression: nothing was promised of an attempt.
LEMMA AttemptKeeps ==
  ASSUME Ready, AttemptExpression
  PROVE  StepKeeps
<1> DEFINE h == Head(agenda)
           plan == ExpressionPlan(h.text) \o <<Otherwise(<<>>)>>
<1>1. /\ agenda # <<>> /\ h.do = "attempt" /\ source' = source /\ procs' = procs
      /\ visited' = visited /\ verdict' = verdict /\ Expand(plan)
  BY DEF AttemptExpression, Pending
<1>2. Keeps /\ TableOK'
  BY <1>1, KeepsIs DEF Ready
<1>3. plan \in Seq(ValidTask)
  <2>1. ExpressionPlan(h.text) \in Seq(Plain) /\ <<>> \in Seq(Word)
    BY ExpressionDoes DEF Does
  <2>2. Ends(plan)
    BY <2>1 DEF Ends
  <2> QED
    BY <2>2, EndsIs
<1>4. \A X : Serves(X, h)
  BY <1>1, SoundIs DEF Serves
<1> HIDE DEF plan, h
<1> QED
  BY <1>1, <1>2, <1>3, <1>4, ExpandCase DEF h

\* PassOtherwise: nothing was promised of it.
LEMMA PassKeeps ==
  ASSUME Ready, PassOtherwise
  PROVE  StepKeeps
<1> DEFINE h == Head(agenda)
<1>1. /\ agenda # <<>> /\ h.do = "otherwise" /\ source' = source /\ procs' = procs
      /\ visited' = visited /\ verdict' = verdict /\ Expand(<<>>)
  BY DEF PassOtherwise, Pending
<1>2. Keeps /\ TableOK'
  BY <1>1, KeepsIs DEF Ready
<1>3. <<>> \in Seq(ValidTask)
  OBVIOUS
<1>4. \A X : Serves(X, h)
  BY <1>1, SoundIs DEF Serves
<1> HIDE DEF h
<1> QED
  BY <1>1, <1>2, <1>3, <1>4, ExpandCase DEF h

\* Accept: no task is left, so that all is done.
LEMMA AcceptKeeps ==
  ASSUME Ready, Accept
  PROVE  StepKeeps
<1>1. /\ agenda = <<>> /\ agenda' = <<>> /\ source' = source /\ procs' = procs
      /\ visited' = visited /\ verdict' = "accepted"
  BY DEF Accept
<1>2. Keeps /\ TableOK'
  BY <1>1, KeepsIs DEF Ready
<1>3. AgendaOK'
  BY <1>1 DEF AgendaOK
<1>4. ASSUME AllPromised PROVE Promised({})'
  <2>1. Elements(agenda) = {}
    BY <1>1 DEF Elements
  <2>2. Promised({})
    BY <1>4, <2>1 DEF AllPromised, Cuts
  <2>3. Promised({} \union {})'
    BY <1>2, <2>2, PromiseGrows
  <2>4. {} \union {} = {}
    OBVIOUS
  <2> QED
    BY <2>3, <2>4
<1> QED
  BY <1>1, <1>2, <1>3, <1>4 DEF StepKeeps

\* Every step of the validator
LEMMA ValidatorStepKeeps ==
  ASSUME SourceOK, AgendaOK, TableOK, Validate
  PROVE  StepKeeps
<1>1. Ready
  BY StepsOfTheValidator DEF Ready, ValidatorEffect
<1> QED
  BY <1>1, SanitizeKeeps, ParseKeeps, CollectKeeps, WordsKeep, DispatchKeeps, ReportKeeps,
     AttemptKeeps, PassKeeps, AcceptKeeps DEF Validate

------------------------------------------------------------------------------
WorkInv == AgendaOK /\ TableOK /\ CutsOK /\ DoneOK /\ PlaceOK

\* Nothing is promised before the script is read.
LEMMA InitWork == Init => WorkInv
<1> SUFFICES ASSUME Init PROVE WorkInv
  OBVIOUS
<1>1. AgendaOK /\ TableOK /\ CutsOK /\ DoneOK
  BY DEF Init, AgendaOK, TableOK, CutsOK, DoneOK
<1>2. SourceOK
  BY DEF Init, SourceOK
<1>3. Len(Program) \in Nat
  BY <1>2, CommandsOfScripts, TopIsText DEF Program
<1>4. PlaceOK
  BY <1>3 DEF Init, PlaceOK
<1> QED
  BY <1>1, <1>4 DEF WorkInv

\* What the execution does not touch.
LEMMA SamePromises ==
  ASSUME UNCHANGED <<source, procs, visited>>
  PROVE  /\ \A S : Promised(S)' <=> Promised(S)
         /\ (\E D \in SUBSET visited : Valid(D))' <=> \E D \in SUBSET visited : Valid(D)
         /\ TableOK' <=> TableOK
         /\ ValidTask' = ValidTask /\ Program' = Program
<1>1. /\ \A task, E, K : Sound(task, E, K)' <=> Sound(task, E, K)
      /\ \A D, E, K : AllValid(D, E, K)' <=> AllValid(D, E, K)
      /\ ValidTask' = ValidTask /\ Program' = Program
      /\ Definitions' = Definitions
  BY ReadingStays
<1>2. \A S, E, K : AllSound(S, E, K)' <=> AllSound(S, E, K)
  BY <1>1 DEF AllSound
<1>3. ASSUME NEW S PROVE Promised(S)' <=> Promised(S)
  BY <1>1, <1>2 DEF Promised
<1>4. TableOK' <=> TableOK
  BY <1>1 DEF TableOK
<1>5. ASSUME NEW D PROVE Valid(D)' <=> Valid(D)
  <2> DEFINE K == DOMAIN procs
  <2>1. K' = K
    OBVIOUS
  <2>2. Valid(D) <=> AllValid(D, D, K)
    BY DEF Valid
  <2>3. Valid(D)' <=> AllValid(D, D, K)'
    BY DEF Valid
  <2> HIDE DEF K
  <2> QED
    BY <1>1, <2>1, <2>2, <2>3
<1> QED
  BY <1>1, <1>3, <1>4, <1>5

\* With nothing left to do, what was promised holds.
LEMMA PromisedIsValid ==
  Promised({}) => \E D \in SUBSET visited : Valid(D)
BY DEF Promised, AllSound, Valid

\* The end of the program leaves the scripts and the table alone.
LEMMA ExitKeepsWork ==
  ASSUME WorkInv, NEW code, NEW e, Exit(code, e)
  PROVE  WorkInv'
<1>1. UNCHANGED <<source, agenda, procs, verdict, visited, pc>> /\ phase' = "exited"
  BY DEF Exit
<1>2. AgendaOK' /\ TableOK'
  BY <1>1, SamePromises DEF WorkInv, AgendaOK
<1>3. CutsOK' /\ DoneOK'
  BY <1>1, SamePromises DEF WorkInv, CutsOK, DoneOK
<1>4. PlaceOK'
  BY <1>1, SamePromises DEF WorkInv, PlaceOK
<1> QED
  BY <1>2, <1>3, <1>4 DEF WorkInv

\* The command at pc is done, whatever it was.
LEMMA AdvanceKeepsWork ==
  ASSUME WorkInv, phase' = "running", UNCHANGED validatorVars, SourceOK,
         verdict = "accepted" \/ pc # 0,
         \/ pc' = 1
         \/ pc' = pc + 1 /\ pc <= Len(Program)
  PROVE  WorkInv'
<1>1. UNCHANGED <<source, agenda, procs, verdict, visited>>
  BY DEF validatorVars
<1>2. AgendaOK' /\ TableOK'
  BY <1>1, SamePromises DEF WorkInv, AgendaOK
<1>3. Len(Program) \in Nat
  BY CommandsOfScripts, TopIsText DEF Program
<1>4. pc' \in 0..(Len(Program) + 1) /\ pc' # 0
  <2> DEFINE l == Len(Program)
  <2>1. l \in Nat /\ pc \in 0..(l + 1) /\ (pc' = 1 \/ (pc' = pc + 1 /\ pc <= l))
    BY <1>3 DEF WorkInv, PlaceOK
  <2> HIDE DEF l
  <2>2. pc' \in 0..(l + 1) /\ pc' # 0
    BY <2>1
  <2> QED
    BY <2>2 DEF l
<1>5. PlaceOK'
  BY <1>1, <1>4, SamePromises DEF PlaceOK
<1>6. CutsOK' /\ DoneOK'
  BY <1>1, <1>4, SamePromises DEF CutsOK, DoneOK, WorkInv
<1> QED
  BY <1>2, <1>5, <1>6 DEF WorkInv

\* The first task promises the whole script.
LEMMA ReadKeepsWork ==
  ASSUME WorkInv, SourceOK, Read, phase' = "checking"
  PROVE  WorkInv'
<1> DEFINE p == ProgramTask(Top)
<1>1. UNCHANGED <<source, procs, verdict, visited, pc>> /\ agenda' = <<p>>
  BY DEF Read, Exit
<1>2. p \in ValidTask /\ p.do = "program" /\ p.text = Top
  BY TopIsText, ValidTasks DEF ProgramTask, MakeTask
<1> HIDE DEF p
<1>3. <<p>> \in Seq(ValidTask) /\ Elements(<<p>>) = {p}
  BY <1>2, OneElement
<1>4. Later(<<p>>) = {}
  BY <1>2, <1>3, NoLater
<1>5. AgendaOK' /\ TableOK'
  BY <1>1, <1>3, SamePromises DEF WorkInv, AgendaOK
<1>6. PlaceOK' /\ DoneOK'
  BY <1>1, SamePromises DEF WorkInv, PlaceOK, DoneOK, Read
<1>8. Promised({p})
  <2> SUFFICES ASSUME NEW E, NEW K, AllSound({p}, E, K) PROVE AllValid({}, E, K)
    BY DEF Promised
  <2>1. Sound(p, E, K)
    BY DEF AllSound
  <2>2. SoundProgram(Top, E, K)
    BY <1>2, <2>1, SoundIs
  <2> QED
    BY <2>2 DEF AllValid
<1>9. Cuts' = {{p}}
  BY <1>1, <1>3, <1>4 DEF Cuts
<1>11. CutsOK'
  <2> SUFFICES ASSUME NEW S \in Cuts' PROVE Promised(S)'
    BY DEF CutsOK, AllPromised
  <2>1. S = {p}
    BY <1>9
  <2> QED
    BY <1>1, <1>8, <2>1, SamePromises
<1> QED
  BY <1>5, <1>6, <1>11 DEF WorkInv

\* Scripts are begun, never forgotten.
LEMMA VisitedGrows == Validate => visited \subseteq visited'
BY Zenon DEF Validate, SanitizeScript, ParseScript, CollectProcedures, ValidateWords, Dispatch,
   ReportSyntax, AttemptExpression, PassOtherwise, Accept

\* The validator, in either pass
LEMMA ValidatorKeepsWork ==
  ASSUME IInv, WorkInv, ValidatorRuns
  PROVE  WorkInv'
<1>1. Validate /\ phase \in {"checking", "rechecking"} /\ UNCHANGED mainVars
  BY DEF ValidatorRuns
<1>2. phase' = phase /\ pc' = pc
  BY <1>1 DEF mainVars
<1>3. StepKeeps
  BY <1>1, ValidatorStepKeeps DEF WorkInv, IInv
<1>4. verdict = "busy" /\ source' = source /\ DOMAIN procs \subseteq DOMAIN procs'
  BY <1>1, StepsOfTheValidator DEF ValidatorEffect
<1>5. CutsOK'
  <2> SUFFICES ASSUME phase = "checking", verdict' = "busy" PROVE AllPromised'
    BY <1>2 DEF CutsOK, AllPromised
  <2>1. AllPromised
    BY <1>4 DEF WorkInv, CutsOK, AllPromised
  <2> QED
    BY <1>3, <2>1 DEF StepKeeps
<1>6. DoneOK'
  <2>1. CASE pc = 0
    <3> SUFFICES ASSUME verdict' = "accepted" PROVE (\E D \in SUBSET visited : Valid(D))'
      BY <1>2, <2>1 DEF DoneOK
    <3>1. phase = "checking"
      BY <1>1, <2>1 DEF WorkInv, PlaceOK
    <3>2. AllPromised
      BY <1>4, <3>1 DEF WorkInv, CutsOK, AllPromised
    <3>3. Promised({})'
      BY <1>3, <3>2 DEF StepKeeps
    <3> QED
      BY <3>3, PromisedIsValid, PTL
  <2>2. CASE pc # 0
    <3>1. PICK D \in SUBSET visited : Valid(D)
      BY <2>2 DEF WorkInv, DoneOK
    <3>2. D \in SUBSET visited'
      BY <1>1, VisitedGrows
    <3>3. AllValid(D, D, DOMAIN procs')
      BY <1>4, <3>1, DeclaringKeeps DEF Valid
    <3>4. Valid(D)'
      BY <1>4, <3>3, ReadingStays DEF Valid
    <3> QED
      BY <3>2, <3>4 DEF DoneOK
  <2> QED
    BY <2>1, <2>2
<1>7. PlaceOK'
  BY <1>2, <1>4, ReadingStays DEF WorkInv, PlaceOK
<1> QED
  BY <1>3, <1>5, <1>6, <1>7 DEF WorkInv, StepKeeps

\* The command at pc is one of the script.
LEMMA CommandAtPlace ==
  ASSUME SourceOK, PlaceOK, phase \in {"running", "rechecking"}, pc <= Len(Program)
  PROVE  Words \in Command
<1>1. DOMAIN Program = 1..Len(Program) /\ Len(Program) \in Nat
        /\ \A i \in DOMAIN Program : Program[i] \in Command
  BY CommandsOfScripts, TopIsText DEF Program
<1>2. pc \in 0..(Len(Program) + 1) /\ pc # 0
  BY DEF PlaceOK
<1>3. pc \in 1..Len(Program)
  <2> DEFINE l == Len(Program)
  <2>1. l \in Nat /\ pc \in 0..(l + 1) /\ pc # 0 /\ pc <= l
    BY <1>1, <1>2
  <2> HIDE DEF l
  <2>2. pc \in 1..l
    BY <2>1
  <2> QED
    BY <2>2 DEF l
<1> QED
  BY <1>1, <1>3 DEF Words

\* The words of an if are validated once more.
LEMMA RecheckKeepsWork ==
  ASSUME IInv, WorkInv, ExecuteIf
  PROVE  WorkInv'
<1>1. /\ phase = "running" /\ pc <= Len(Program) /\ phase' = "rechecking"
      /\ agenda' = IfPlan(Words) /\ verdict' = "busy"
      /\ UNCHANGED <<source, procs, visited, pc>>
  BY DEF ExecuteIf, Called
<1>2. Words \in Command
  BY <1>1, CommandAtPlace DEF IInv, WorkInv
<1>3. IfPlan(Words) \in Seq(ValidTask)
  <2>1. IfPlan(Words) \in Seq(Plain)
    BY <1>2, IfDoes DEF Does
  <2> QED
    BY <2>1, ValidTasks, SeqMonotonic
<1>4. AgendaOK' /\ TableOK'
  BY <1>1, <1>3, SamePromises DEF WorkInv, AgendaOK
<1>5. PlaceOK' /\ CutsOK' /\ DoneOK'
  BY <1>1, SamePromises DEF WorkInv, PlaceOK, CutsOK, DoneOK
<1> QED
  BY <1>4, <1>5 DEF WorkInv

\* Every step of the program
LEMMA NextKeepsWork == IInv /\ WorkInv /\ [Next]_vars => WorkInv'
<1> SUFFICES ASSUME IInv, WorkInv, [Next]_vars PROVE WorkInv'
  OBVIOUS
<1>1. SourceOK
  BY DEF IInv
<1>2. CASE Read
  <2>1. CASE \E e : Exit("failure", e)
    BY <2>1, ExitKeepsWork
  <2>2. CASE phase' = "checking"
    BY <1>1, <1>2, <2>2, ReadKeepsWork
  <2> QED
    BY <1>2, <2>1, <2>2 DEF Read
<1>3. CASE ValidatorRuns
  BY <1>3, ValidatorKeepsWork
<1>4. CASE CheckEnds
  <2>1. CASE \E code, e : Exit(code, e)
    BY <2>1, ExitKeepsWork
  <2>2. CASE phase' = "running" /\ pc' = 1 /\ UNCHANGED validatorVars /\ verdict = "accepted"
    BY <1>1, <2>2, AdvanceKeepsWork
  <2> QED
    BY <1>4, <2>1, <2>2 DEF CheckEnds
<1>5. CASE IfEnds
  <2>1. CASE \E code, e : Exit(code, e)
    BY <2>1, ExitKeepsWork
  <2>2. CASE phase' = "running" /\ pc' = pc + 1 /\ UNCHANGED validatorVars
    <3>1. pc <= Len(Program) /\ pc # 0
      BY <1>5 DEF IfEnds, WorkInv, PlaceOK
    <3> QED
      BY <1>1, <2>2, <3>1, AdvanceKeepsWork
  <2> QED
    BY <1>5, <2>1, <2>2 DEF IfEnds
<1>6. CASE ExecuteIf
  BY <1>6, RecheckKeepsWork
<1>7. CASE WordsFail \/ SkipNameless \/ ExecuteSet \/ ExecutePut \/ ExecuteCounted
           \/ ExecuteNothing \/ ExecuteOther
  <2>1. phase = "running" /\ pc <= Len(Program)
    BY <1>7 DEF WordsFail, SkipNameless, ExecuteSet, ExecutePut, ExecuteCounted,
                ExecuteNothing, ExecuteOther, Called
  <2>2. Continue \/ \E code, e : Exit(code, e)
    BY <1>7 DEF WordsFail, SkipNameless, ExecuteSet, ExecutePut, ExecuteCounted,
                ExecuteNothing, ExecuteOther, ExitsWith
  <2>3. CASE Continue
    <3>1. phase' = "running" /\ pc' = pc + 1 /\ UNCHANGED validatorVars /\ pc # 0
      BY <2>1, <2>3 DEF Continue, WorkInv, PlaceOK
    <3> QED
      BY <1>1, <2>1, <3>1, AdvanceKeepsWork
  <2> QED
    BY <2>2, <2>3, ExitKeepsWork
<1>8. CASE RunEnds
  BY <1>8, ExitKeepsWork DEF RunEnds
<1>9. CASE UNCHANGED vars
  <2>1. UNCHANGED <<source, agenda, procs, verdict, visited, phase, pc>>
    BY <1>9 DEF vars, validatorVars, mainVars
  <2>2. AgendaOK' /\ TableOK'
    BY <2>1, SamePromises DEF WorkInv, AgendaOK
  <2>3. PlaceOK'
    BY <2>1, SamePromises DEF WorkInv, PlaceOK
  <2>4. Cuts' = Cuts
    BY <2>1 DEF Cuts
  <2>5. CutsOK' /\ DoneOK'
    BY <2>1, <2>4, SamePromises DEF WorkInv, CutsOK, AllPromised, DoneOK
  <2> QED
    BY <2>2, <2>3, <2>5 DEF WorkInv
<1> QED
  BY <1>2, <1>3, <1>4, <1>5, <1>6, <1>7, <1>8, <1>9 DEF Next, Exited

(* What is promised of the pending work is kept by every step: the tasks   *)
(* that may be carried out to the end reach all that is not done yet.      *)
THEOREM WorkInvariance == Spec => []WorkInv
<1>1. Init => WorkInv
  BY InitWork
<1>2. IInv /\ WorkInv /\ [Next]_vars => WorkInv'
  BY NextKeepsWork
<1> QED
  BY <1>1, <1>2, Invariance, PTL DEF Spec

------------------------------------------------------------------------------
ErrorKinds == {"none", "syntax", "lexical", "unknown", "evaluation"}

IsTable(f) == f = [x \in DOMAIN f |-> f[x]]

\* What the other invariants do not say about the types.
RestOK ==
  /\ error \in ErrorKinds \X STRING
  /\ verdict \in {"busy", "accepted", "refused"}
  /\ visited \subseteq STRING /\ IsTable(procs)
  /\ mode \in {"check", "run"}
  /\ variables \in [DOMAIN variables -> STRING] /\ output \in Seq(STRING)
  /\ exitCode \in {"none", "success", "failure"}

\* The errors that the code records
LEMMA ErrorTypes ==
  /\ {NoError, SyntaxError, LexicalError, <<"evaluation", "">>} \subseteq ErrorKinds \X STRING
  /\ \A n \in STRING : UnknownCommand(n) \in ErrorKinds \X STRING
<1>1. \A k \in ErrorKinds, t \in STRING : <<k, t>> \in ErrorKinds \X STRING
  OBVIOUS
<1>2. \A t \in STRING : /\ <<"none", t>> \in ErrorKinds \X STRING
                        /\ <<"syntax", t>> \in ErrorKinds \X STRING
                        /\ <<"lexical", t>> \in ErrorKinds \X STRING
                        /\ <<"evaluation", t>> \in ErrorKinds \X STRING
                        /\ <<"unknown", t>> \in ErrorKinds \X STRING
  BY <1>1 DEF ErrorKinds
<1>3. /\ NoError \in ErrorKinds \X STRING /\ SyntaxError \in ErrorKinds \X STRING
      /\ LexicalError \in ErrorKinds \X STRING /\ <<"evaluation", "">> \in ErrorKinds \X STRING
  BY <1>2, EmptyText DEF NoError, SyntaxError, LexicalError
<1> QED
  BY <1>2, <1>3 DEF UnknownCommand

\* The first error stays.
LEMMA RecordedType ==
  ASSUME RestOK, NEW e \in ErrorKinds \X STRING
  PROVE  Recorded(e) \in ErrorKinds \X STRING
BY DEF RestOK, Recorded

\* A failure records an error or clears it.
LEMMA FailureIsTyped ==
  ASSUME RestOK, NEW e \in ErrorKinds \X STRING, Failed(e)
  PROVE  error' \in ErrorKinds \X STRING
BY RecordedType, FailedEffect, ErrorTypes

\* What a step of the validator leaves in the error, the table and visited
LEMMA ValidatorIsTyped ==
  ASSUME SourceOK, AgendaOK, RestOK, Validate
  PROVE  /\ error' \in ErrorKinds \X STRING /\ verdict' \in {"busy", "accepted", "refused"}
         /\ visited' \subseteq STRING /\ IsTable(procs')
<1>1. verdict' \in {"busy", "accepted", "refused"}
  BY StepsOfTheValidator DEF ValidatorEffect
<1>2. error \in ErrorKinds \X STRING
  BY DEF RestOK
<1>3. SyntaxError \in ErrorKinds \X STRING /\ LexicalError \in ErrorKinds \X STRING
  BY ErrorTypes
<1>4. error' \in ErrorKinds \X STRING
  <2>1. CASE error' = error
    BY <1>2, <2>1
  <2>2. CASE ParseScript
    <3> DEFINE s == ScriptOf(Head(agenda).text)
               found == IF s.leftover \/ s.parse = "refused" THEN Recorded(LexicalError) ELSE error
    <3>1. found \in ErrorKinds \X STRING
      BY <1>2, <1>3, RecordedType
    <3>2. Failed(found) \/ error' = found
      BY <2>2 DEF ParseScript
    <3> HIDE DEF found
    <3> QED
      BY <3>1, <3>2, FailureIsTyped
  <2>3. CASE Failed(SyntaxError)
    BY <1>3, <2>3, FailureIsTyped
  <2>4. CASE Dispatch /\ error' # error
    <3> DEFINE h == Head(agenda)
               c == WordsOf(h)
    <3>1. agenda # <<>> /\ h.do = "dispatch" /\ Failed(UnknownCommand(c[1].text))
      BY <2>4 DEF Dispatch, Pending
    <3>2. h.text \in STRING /\ h.at \in DOMAIN ScriptOf(h.text).commands
      BY <3>1, FirstTask
    <3>3. c \in Command
      BY <3>2, CommandsOfScripts DEF WordsOf
    <3>4. Len(c) \in Nat /\ Len(c) >= 1 /\ \A i \in 1..Len(c) : c[i].text \in STRING
      BY <3>3, WordOf
    <3>5. c[1].text \in STRING
      BY <3>4
    <3> HIDE DEF c
    <3>6. UnknownCommand(c[1].text) \in ErrorKinds \X STRING
      BY <3>5, ErrorTypes
    <3> QED
      BY <3>1, <3>6, FailureIsTyped
  <2>5. \/ error' = error
        \/ ParseScript
        \/ Failed(SyntaxError)
        \/ Dispatch
    BY Zenon DEF Validate, SanitizeScript, CollectProcedures, ValidateWords, ReportSyntax,
                 AttemptExpression, PassOtherwise, Accept
  <2> QED
    BY <2>1, <2>2, <2>3, <2>4, <2>5
<1>5. visited' \subseteq STRING
  <2>1. CASE SanitizeScript
    <3>1. visited' = visited \union {Head(agenda).text} /\ agenda # <<>>
      BY <2>1 DEF SanitizeScript, Pending
    <3> QED
      BY <3>1, FirstTask DEF RestOK
  <2>2. CASE visited' = visited
    BY <2>2 DEF RestOK
  <2> QED
    BY <2>1, <2>2
    DEF Validate, ParseScript, CollectProcedures, ValidateWords, Dispatch, ReportSyntax,
        AttemptExpression, PassOtherwise, Accept
<1>6. IsTable(procs')
  <2>1. CASE CollectProcedures
    <3>1. \E program : procs' = Updated(procs, program)
      BY <2>1 DEF CollectProcedures
    <3> QED
      BY <3>1 DEF Updated, IsTable
  <2>2. CASE procs' = procs
    BY <2>2 DEF RestOK
  <2> QED
    BY <2>1, <2>2
    DEF Validate, SanitizeScript, ParseScript, ValidateWords, Dispatch, ReportSyntax,
        AttemptExpression, PassOtherwise, Accept
<1> QED
  BY <1>1, <1>4, <1>5, <1>6

------------------------------------------------------------------------------
\* The texts that a word stands for
LEMMA ValueType ==
  ASSUME RestOK, NEW w \in Word, CanEvaluate(w)
  PROVE  ValueOf(w) \in STRING
<1>1. w.text \in STRING /\ (w.type \in VariableTypes => w.text \in DOMAIN variables)
  BY DEF Word, CanEvaluate
<1>2. variables \in [DOMAIN variables -> STRING]
  BY DEF RestOK
<1> QED
  BY <1>1, <1>2, OpaqueIsNoCommand DEF ValueOf

\* The texts that a word contributes to a command
LEMMA ItemsType ==
  ASSUME RestOK, NEW w \in Word, IF Expands(w) THEN CanExpand(w) ELSE CanEvaluate(w)
  PROVE  ItemsOf(w) \in Seq(STRING)
<1>1. CASE w.type = "expandEmpty"
  BY <1>1 DEF ItemsOf
<1>2. CASE w.type # "expandEmpty"
  <2>1. ValueOf(w) \in STRING
    BY <1>2, ValueType DEF CanExpand
  <2>2. ListOf(ValueOf(w)).items \in Seq(STRING)
    BY <2>1, ListItems
  <2>3. <<ValueOf(w)>> \in Seq(STRING)
    BY <2>1
  <2> QED
    BY <1>2, <2>2, <2>3 DEF ItemsOf
<1> QED
  BY <1>1, <1>2

\* The arguments of a command that is executed
LEMMA ValuesType ==
  ASSUME RestOK, NEW c \in Command, Evaluates(c)
  PROVE  ValuesOf(c) \in Seq(STRING)
<1> DEFINE n == Len(c)
           plans == [i \in DOMAIN c |-> ItemsOf(c[i])]
<1>1. n \in Nat /\ DOMAIN c = 1..n /\ \A i \in 1..n : c[i] \in Word
  BY WordOf
<1>2. \A i \in 1..n : plans[i] \in Seq(STRING)
  BY <1>1, ItemsType DEF Evaluates
<1>3. plans = [i \in 1..n |-> plans[i]]
  BY <1>1
<1>4. ValuesOf(c) = Concat(plans)
  BY DEF ValuesOf
<1> HIDE DEF plans, n
<1>5. plans \in [1..n -> Seq(STRING)]
  BY <1>2, <1>3
<1>6. Len(plans) = n
  BY <1>1, <1>5
<1> QED
  BY <1>1, <1>2, <1>4, <1>6, ConcatIs

\* Its name
LEMMA NamesType ==
  ASSUME RestOK, Words \in Command, Evaluates(<<Words[1]>>)
  PROVE  Names \in Seq(STRING)
<1>1. Words[1] \in Word
  BY WordOf
<1>2. IF Expands(Words[1]) THEN CanExpand(Words[1]) ELSE CanEvaluate(Words[1])
  <2>1. 1 \in DOMAIN <<Words[1]>> /\ <<Words[1]>>[1] = Words[1]
    OBVIOUS
  <2> QED
    BY <2>1 DEF Evaluates
<1> QED
  BY <1>1, <1>2, ItemsType DEF Names

------------------------------------------------------------------------------
\* The types at the start
LEMMA InitRest == Init => RestOK
<1> SUFFICES ASSUME Init PROVE RestOK
  OBVIOUS
<1>1. IsTable(procs) /\ variables \in [DOMAIN variables -> STRING] /\ output \in Seq(STRING)
  BY DEF Init, IsTable
<1>2. error \in ErrorKinds \X STRING
  BY ErrorTypes DEF Init
<1> QED
  BY <1>1, <1>2 DEF Init, RestOK

\* The end of the program
LEMMA ExitIsTyped ==
  ASSUME RestOK, NEW code \in {"success", "failure"}, NEW e \in ErrorKinds \X STRING, Exit(code, e)
  PROVE  RestOK'
<1>1. UNCHANGED <<procs, verdict, visited, mode, variables, output>> /\ error' = e /\ exitCode' = code
  BY DEF Exit
<1> QED
  BY <1>1 DEF RestOK, IsTable

\* A command that fails
LEMMA FailureInRunIsTyped ==
  ASSUME RestOK, NEW e \in ErrorKinds \X STRING, ExitsWith(e)
  PROVE  RestOK'
BY RecordedType, ExitIsTyped DEF ExitsWith

\* A command that succeeds
LEMMA ContinueIsTyped ==
  ASSUME RestOK, Continue, variables' \in [DOMAIN variables' -> STRING], output' \in Seq(STRING)
  PROVE  RestOK'
<1>1. UNCHANGED <<error, verdict, visited, procs, mode, exitCode>>
  BY DEF Continue, validatorVars
<1> QED
  BY <1>1 DEF RestOK, IsTable

\* A command that does nothing
LEMMA SilentIsTyped ==
  ASSUME RestOK, Continue, UNCHANGED <<variables, output>>
  PROVE  RestOK'
BY ContinueIsTyped DEF RestOK

\* Every step of the program
LEMMA NextKeepsRest == IInv /\ WorkInv /\ RestOK /\ [Next]_vars => RestOK'
<1> SUFFICES ASSUME IInv, WorkInv, RestOK, [Next]_vars PROVE RestOK'
  OBVIOUS
<1>1. error \in ErrorKinds \X STRING /\ SyntaxError \in ErrorKinds \X STRING
        /\ LexicalError \in ErrorKinds \X STRING /\ <<"evaluation", "">> \in ErrorKinds \X STRING
        /\ \A n \in STRING : UnknownCommand(n) \in ErrorKinds \X STRING
  BY ErrorTypes DEF RestOK
<1>2. variables \in [DOMAIN variables -> STRING] /\ output \in Seq(STRING)
  BY DEF RestOK
<1>3. phase = "running" /\ pc <= Len(Program) => Words \in Command
  BY CommandAtPlace DEF IInv, WorkInv
<1>4. CASE Read
  <2> DEFINE s == ScriptOf(Top)
             found == IF s.leftover \/ s.parse = "refused" THEN Recorded(LexicalError) ELSE error
  <2>1. found \in ErrorKinds \X STRING
    BY <1>1, RecordedType
  <2>2. \/ Exit("failure", found)
        \/ error' = found /\ UNCHANGED <<procs, verdict, visited, mode, variables, output, exitCode>>
    BY <1>4 DEF Read
  <2> HIDE DEF found
  <2> QED
    BY <2>1, <2>2, ExitIsTyped DEF RestOK, IsTable
<1>5. CASE ValidatorRuns
  <2>1. Validate /\ UNCHANGED <<mode, variables, output, exitCode>>
    BY <1>5 DEF ValidatorRuns, mainVars
  <2>2. /\ error' \in ErrorKinds \X STRING /\ verdict' \in {"busy", "accepted", "refused"}
        /\ visited' \subseteq STRING /\ IsTable(procs')
    BY <2>1, ValidatorIsTyped DEF IInv, WorkInv
  <2> QED
    BY <2>1, <2>2 DEF RestOK, IsTable
<1>6. CASE CheckEnds \/ IfEnds \/ RunEnds
  <2>1. \/ \E code \in {"success", "failure"} : Exit(code, error)
        \/ UNCHANGED <<validatorVars, mode, variables, output, exitCode>>
    BY <1>6 DEF CheckEnds, IfEnds, RunEnds
  <2>2. CASE \E code \in {"success", "failure"} : Exit(code, error)
    <3>1. PICK code \in {"success", "failure"} : Exit(code, error)
      BY <2>2
    <3> QED
      BY <1>1, <3>1, ExitIsTyped
  <2>3. CASE UNCHANGED <<validatorVars, mode, variables, output, exitCode>>
    BY <2>3 DEF validatorVars, RestOK, IsTable
  <2> QED
    BY <2>1, <2>2, <2>3
<1>7. CASE WordsFail
  BY <1>1, <1>7, FailureInRunIsTyped DEF WordsFail
<1>8. CASE SkipNameless
  BY <1>8, SilentIsTyped DEF SkipNameless
<1>9. CASE ExecuteSet
  <2> DEFINE values == ValuesOf(Words)
  <2>1. Evaluates(Words) /\ phase = "running" /\ pc <= Len(Program)
    BY <1>9 DEF ExecuteSet, Called
  <2>2. values \in Seq(STRING)
    BY <1>3, <2>1, ValuesType
  <2>3. \/ /\ Len(values) = 3
           /\ variables' = [n \in DOMAIN variables \union {values[2]} |->
                              IF n = values[2] THEN values[3] ELSE variables[n]]
           /\ Continue /\ UNCHANGED output
        \/ Continue /\ UNCHANGED <<variables, output>>
        \/ ExitsWith(SyntaxError)
    BY <1>9 DEF ExecuteSet
  <2> HIDE DEF values
  <2>4. CASE /\ Len(values) = 3
             /\ variables' = [n \in DOMAIN variables \union {values[2]} |->
                                IF n = values[2] THEN values[3] ELSE variables[n]]
             /\ Continue /\ UNCHANGED output
    <3>1. values[3] \in STRING
      <4>1. 3 \in 1..3 /\ Len(values) = 3
        BY <2>4
      <4>2. \A i \in 1..Len(values) : values[i] \in STRING
        BY <2>2, ElementOfSeq
      <4> QED
        BY <4>1, <4>2
    <3>2. variables' \in [DOMAIN variables' -> STRING]
      BY <1>2, <2>4, <3>1
    <3> QED
      BY <1>2, <2>4, <3>2, ContinueIsTyped
  <2>5. CASE Continue /\ UNCHANGED <<variables, output>>
    BY <2>5, SilentIsTyped
  <2>6. CASE ExitsWith(SyntaxError)
    BY <1>1, <2>6, FailureInRunIsTyped
  <2> QED
    BY <2>3, <2>4, <2>5, <2>6
<1>10. CASE ExecutePut
  <2> DEFINE values == ValuesOf(Words)
  <2>1. Evaluates(Words) /\ phase = "running" /\ pc <= Len(Program)
    BY <1>10 DEF ExecutePut, Called
  <2>2. values \in Seq(STRING)
    BY <1>3, <2>1, ValuesType
  <2>3. \/ /\ Len(values) = 2 \/ Len(values) = 3
           /\ output' = Append(output, values[Len(values)])
           /\ Continue /\ UNCHANGED variables
        \/ ExitsWith(SyntaxError)
    BY <1>10 DEF ExecutePut
  <2> HIDE DEF values
  <2>4. CASE /\ Len(values) = 2 \/ Len(values) = 3
             /\ output' = Append(output, values[Len(values)])
             /\ Continue /\ UNCHANGED variables
    <3>1. values[Len(values)] \in STRING
      <4>1. 2 \in 1..2 /\ 3 \in 1..3 /\ (Len(values) = 2 \/ Len(values) = 3)
        BY <2>4
      <4>2. \A i \in 1..Len(values) : values[i] \in STRING
        BY <2>2, ElementOfSeq
      <4> QED
        BY <4>1, <4>2
    <3>2. output' \in Seq(STRING)
      BY <1>2, <2>4, <3>1, AppendProperties
    <3>3. variables' \in [DOMAIN variables' -> STRING]
      BY <1>2, <2>4
    <3> QED
      BY <2>4, <3>2, <3>3, ContinueIsTyped
  <2>5. CASE ExitsWith(SyntaxError)
    BY <1>1, <2>5, FailureInRunIsTyped
  <2> QED
    BY <2>3, <2>4, <2>5
<1>11. CASE ExecuteIf
  <2>1. verdict' = "busy" /\ UNCHANGED <<procs, error, visited, mode, variables, output, exitCode>>
    BY <1>11 DEF ExecuteIf
  <2> QED
    BY <2>1 DEF RestOK, IsTable
<1>12. CASE ExecuteCounted
  BY <1>1, <1>12, SilentIsTyped, FailureInRunIsTyped DEF ExecuteCounted
<1>13. CASE ExecuteNothing
  BY <1>13, SilentIsTyped DEF ExecuteNothing
<1>14. CASE ExecuteOther
  <2> DEFINE names == Names
  <2>1. Evaluates(<<Words[1]>>) /\ phase = "running" /\ pc <= Len(Program) /\ names # <<>>
    BY <1>14 DEF ExecuteOther
  <2>2. names \in Seq(STRING)
    BY <1>3, <2>1, NamesType
  <2>3. (Continue /\ UNCHANGED <<variables, output>>) \/ ExitsWith(UnknownCommand(names[1]))
    BY <1>14 DEF ExecuteOther
  <2> HIDE DEF names
  <2>4. names[1] \in STRING
    BY <2>1, <2>2
  <2> QED
    BY <1>1, <2>3, <2>4, SilentIsTyped, FailureInRunIsTyped
<1>15. CASE UNCHANGED vars
  BY <1>15 DEF vars, validatorVars, mainVars, RestOK, IsTable
<1> QED
  BY <1>4, <1>5, <1>6, <1>7, <1>8, <1>9, <1>10, <1>11, <1>12, <1>13, <1>14, <1>15
  DEF Next, Exited

\* Signatures count the arguments of a finite list.
LEMMA SignatureType ==
  ASSUME NEW t
  PROVE  SignatureOf(t) \in Signature
<1> DEFINE a == ArgumentsOf(t)
           size(S) == Cardinality({i \in DOMAIN a : a[i] \in S})
<1>1. IsFiniteSet(DOMAIN a)
  <2>1. CASE t \in DOMAIN ArgumentList
    <3>1. a \in Seq(Arguments)
      BY <2>1, ArgumentLists DEF ArgumentsOf
    <3> HIDE DEF a
    <3>2. Len(a) \in Nat /\ DOMAIN a = 1..Len(a)
      BY <3>1
    <3>3. IsFiniteSet(1..Len(a))
      BY <3>2, FS_Interval
    <3> QED
      BY <3>2, <3>3
  <2>2. CASE t \notin DOMAIN ArgumentList
    <3>1. DOMAIN a = {1}
      BY <2>2 DEF ArgumentsOf
    <3> QED
      BY <3>1, FS_Singleton
  <2> QED
    BY <2>1, <2>2
<1> HIDE DEF a
<1>2. \A S : size(S) \in Nat
  <2> TAKE S
  <2>1. {i \in DOMAIN a : a[i] \in S} \subseteq DOMAIN a
    OBVIOUS
  <2>2. IsFiniteSet({i \in DOMAIN a : a[i] \in S})
    BY <1>1, <2>1, FS_Subset
  <2> QED
    BY <2>2, FS_CardinalityType
<1> HIDE DEF size
<1>3. SignatureOf(t) = [required |-> size({"required"}), max |-> size({"required", "optional"}),
                        variadic |-> size({"args"}) > 0]
  BY DEF SignatureOf, size, a
<1> QED
  BY <1>2, <1>3 DEF Signature

\* The types of the error, the table and the variables are kept by every step.
THEOREM RestInvariance == Spec => []RestOK
<1>1. Init => RestOK
  BY InitRest
<1>2. IInv /\ WorkInv /\ RestOK /\ [Next]_vars => RestOK'
  BY NextKeepsRest
<1> QED
  BY <1>1, <1>2, Invariance, WorkInvariance, PTL DEF Spec

(* All values have their types in every state: every task on the agenda is *)
(* about a text, every signature in the table is one, every value that is  *)
(* printed or set is a text.                                               *)
THEOREM TypesHold == Spec => []TypeOK
<1>1. IInv /\ WorkInv /\ RestOK => TypeOK
  <2> SUFFICES ASSUME IInv, WorkInv, RestOK PROVE TypeOK
    OBVIOUS
  <2>1. source \in [DOMAIN source -> DOMAIN Parsed]
    BY SourceTexts DEF IInv, SourceOK
  <2>2. agenda \in Seq(Task)
    <3>1. ValidTask \subseteq Task
      BY DEF ValidTask
    <3> QED
      BY <3>1, SeqMonotonic DEF WorkInv, AgendaOK
  <2>3. procs \in [DOMAIN procs -> Signature]
    <3>1. \A n \in DOMAIN procs : procs[n] \in Signature
      BY SignatureType DEF WorkInv, TableOK
    <3> QED
      BY <3>1 DEF RestOK, IsTable
  <2>4. phase \in {"reading", "checking", "running", "rechecking", "exited"}
    BY DEF IInv, PhasesOK
  <2>5. pc \in 0..(Len(Program) + 1)
    BY DEF WorkInv, PlaceOK
  <2> QED
    BY <2>1, <2>2, <2>3, <2>4, <2>5, Zenon DEF RestOK, TypeOK, ErrorKinds
<1> QED
  BY <1>1, Invariance, WorkInvariance, RestInvariance, PTL

------------------------------------------------------------------------------
\* A set of scripts that is closed under what is inside them has all scripts.
LEMMA ScriptsStayInside ==
  ASSUME SourceOK, NEW E, Top \in E, \A t \in E : ScriptsIn(t) \subseteq E
  PROVE  AllScripts \subseteq E
<1> DEFINE N == Cardinality(Texts) + 1
           V == SUBSET E
           F(f) == [n \in 0..N |-> IF n = 0 THEN {Top}
                                   ELSE f[n - 1] \union UNION {ScriptsIn(t) : t \in f[n - 1]}]
           f == CHOOSE g : g = F(g)
           step == [p \in V \X (1..N) |-> p[1] \union UNION {ScriptsIn(t) : t \in p[1]}]
<1>1. N \in Nat
  <2>1. IsFiniteSet(Texts)
    BY SourceTexts DEF SourceOK, Texts
  <2>2. Cardinality(Texts) \in Nat
    BY <2>1, FS_CardinalityType
  <2> QED
    BY <2>2
<1>2. AllScripts = f[N]
  BY DEF AllScripts
<1> HIDE DEF N
<1>3. {Top} \in V
  OBVIOUS
<1>4. \A v \in V : \A i \in 1..N : /\ step[<<v, i>>] = v \union UNION {ScriptsIn(t) : t \in v}
                                   /\ step[<<v, i>>] \in V
  OBVIOUS
<1> HIDE DEF step
<1>5. PICK g : GoesBy(g, 0, N, V, {Top}, step)
  <2>1. 0 \in Int /\ N \in Int /\ 0 <= N /\ 0 + 1 = 1
    BY <1>1
  <2> HIDE DEF V
  <2> QED
    BY <1>3, <1>4, <2>1, Recursion
<1>6. g \in [0..N -> V] /\ g[0] = {Top}
        /\ \A i \in 1..N : g[i] = g[i - 1] \union UNION {ScriptsIn(t) : t \in g[i - 1]}
  <2>1. g \in [0..N -> V] /\ g[0] = {Top} /\ \A i \in 1..N : g[i] = step[<<g[i - 1], i>>]
    BY <1>5 DEF GoesBy
  <2>2. \A i \in 1..N : i - 1 \in 0..N
    BY <1>1
  <2> HIDE DEF V
  <2>3. \A i \in 1..N : g[i - 1] \in V
    BY <2>1, <2>2
  <2> QED
    BY <1>4, <2>1, <2>3
<1>7. g = F(g)
  <2>1. \A i \in 0..N : i = 0 \/ i \in 1..N
    BY <1>1
  <2> HIDE DEF V
  <2> QED
    BY <1>6, <2>1
<1>8. f = F(f)
  <2> HIDE DEF F
  <2> QED
    BY ONLY <1>7
<1> HIDE DEF f
<1>9. f[0] = {Top} /\ \A i \in 1..N : f[i] = f[i - 1] \union UNION {ScriptsIn(t) : t \in f[i - 1]}
  <2>1. 0 \in 0..N /\ \A i \in 1..N : i \in 0..N /\ i # 0
    BY <1>1
  <2> QED
    BY <1>8, <2>1
<1> HIDE DEF F
<1> DEFINE S == {n \in 0..N : f[n] \subseteq E}
<1>10. 0 \in S
  BY <1>1, <1>9
<1>11. ASSUME NEW i \in (0 + 1)..N, i - 1 \in S PROVE i \in S
  <2>1. f[i - 1] \subseteq E /\ i \in 1..N /\ i \in 0..N
    BY <1>1, <1>11
  <2>2. f[i] = f[i - 1] \union UNION {ScriptsIn(t) : t \in f[i - 1]}
    BY <1>9, <2>1
  <2>3. f[i] \subseteq E
    BY <2>1, <2>2
  <2> QED
    BY <2>1, <2>3
<1> HIDE DEF S
<1>12. N \in S
  <2>1. 0 \in Int /\ N \in Int /\ N \in 0..N
    BY <1>1
  <2> QED
    BY <1>10, <1>11, <2>1, BoundedInduction
<1> QED
  BY <1>2, <1>12 DEF S

\* The bodies and the scripts in brackets of a command that succeeds are valid.
LEMMA InsideIsValid ==
  ASSUME NEW c \in Command, NEW E, NEW K, SoundCommand(c, E, K)
  PROVE  Inside(c) \subseteq E
<1>1. Bodies(c) \subseteq E
  <2>1. CASE LiteralName(c[1]) /\ c[1].text \in Builtins
    <3> DEFINE plan == BuiltinPlan(c)
    <3>1. Succeeds(plan, E)
      BY <2>1 DEF SoundCommand, SoundCall
    <3>2. Does(plan, Bodies(c)) \/ Bodies(c) = {}
      BY <2>1, BuiltinDoes
    <3> HIDE DEF plan
    <3>3. CASE Does(plan, Bodies(c))
      <4>1. plan \in Seq(Plain)
        BY <3>3 DEF Does
      <4>2. AllSafe(Elements(plan), E)
        BY <3>1, <4>1, PlainHasNoLater DEF Succeeds
      <4>3. Fail.do = "fail" /\ \A t : Script(t).do = "script" /\ Script(t).text = t
        BY DEF Fail, Script, MakeTask
      <4>4. \A t \in Bodies(c) : Script(t) \in Elements(plan)
        BY <3>3, <4>2, <4>3 DEF Does, AllSafe
      <4>5. ASSUME NEW t \in Bodies(c) PROVE t \in E
        <5>1. Script(t).do = "script" => Script(t).text \in E
          BY <4>2, <4>4 DEF AllSafe
        <5> QED
          BY <4>3, <5>1
      <4> QED
        BY <4>5
    <3> QED
      BY <3>2, <3>3
  <2>2. CASE ~ (LiteralName(c[1]) /\ c[1].text \in Builtins)
    <3> DEFINE plan == CommandPlan(c, <<>>)
    <3>1. plan = <<>>
      <4>1. DOMAIN <<>> = {}
        OBVIOUS
      <4> QED
        BY <2>2, <4>1 DEF CommandPlan
    <3>2. Does(plan, Bodies(c)) \/ Bodies(c) = {}
      BY CommandDoes
    <3>3. Elements(<<>>) = {}
      BY DEF Elements
    <3> HIDE DEF plan
    <3>4. Bodies(c) = {}
      BY <3>1, <3>2, <3>3 DEF Does
    <3> QED
      BY <3>4
  <2> QED
    BY <2>1, <2>2
<1>2. ASSUME NEW i \in DOMAIN c PROVE {Substitutions(c[i])[j] : j \in DOMAIN Substitutions(c[i])} \subseteq E
  <2>1. c[i] \in Elements(c)
    BY DEF Elements
  <2>2. Elements(Substitutions(c[i])) \subseteq E
    BY <2>1 DEF SoundCommand
  <2> QED
    BY <2>2 DEF Elements
<1> QED
  BY <1>1, <1>2 DEF Inside

\* A call that is known is good with the table as it is.
LEMMA KnownIsGood ==
  ASSUME TableOK, NEW c, KnownCall(c, DOMAIN procs)
  PROVE  GoodCall(c)
BY DEF TableOK, KnownCall, GoodCall

\* All that is inside valid scripts is valid, and their calls are good.
LEMMA AcceptedIsComplete ==
  ASSUME SourceOK, TableOK, RestOK, DoneOK, Checked
  PROVE  \E D \in SUBSET visited :
           /\ AllScripts \subseteq D \union {Top}
           /\ \A t \in D \union {Top} : \A c \in Commands(t) : GoodCall(c)
<1>1. PICK D \in SUBSET visited : Valid(D)
  BY DEF DoneOK, Checked
<1>2. /\ \A t \in D : SoundScript(t, D, DOMAIN procs)
      /\ \A t \in D \union {Top} : SoundProgram(t, D, DOMAIN procs)
  BY <1>1 DEF Valid, AllValid, SoundScript, SoundParse
<1>3. \A t \in D \union {Top} : t \in STRING
  BY TopIsText DEF RestOK
<1>4. ASSUME NEW t \in D \union {Top}, NEW c \in Commands(t)
      PROVE  Inside(c) \subseteq D /\ GoodCall(c)
  <2>1. c \in Command
    <3>1. \A i \in DOMAIN ScriptOf(t).commands : ScriptOf(t).commands[i] \in Command
      BY <1>3, CommandsOfScripts
    <3> QED
      BY <3>1 DEF Commands
  <2>2. SoundCommand(c, D, DOMAIN procs)
    BY <1>2 DEF SoundProgram
  <2>3. GoodCall(c)
    BY <2>2, KnownIsGood DEF SoundCommand, SoundCall
  <2> QED
    BY <2>1, <2>2, <2>3, InsideIsValid
<1>5. ASSUME NEW t \in D \union {Top} PROVE ScriptsIn(t) \subseteq D
  <2>1. UNION {Inside(ScriptOf(t).commands[i]) : i \in DOMAIN ScriptOf(t).commands} \subseteq D
    BY <1>4 DEF Commands
  <2>2. t # Top => {ScriptOf(t).subs[i] : i \in DOMAIN ScriptOf(t).subs} \subseteq D
    BY <1>2 DEF SoundScript, Elements
  <2> QED
    BY <2>1, <2>2 DEF ScriptsIn
<1>6. AllScripts \subseteq D \union {Top}
  <2> DEFINE E == D \union {Top}
  <2>1. Top \in E /\ \A t \in E : ScriptsIn(t) \subseteq E
    BY <1>5
  <2> HIDE DEF E
  <2>2. AllScripts \subseteq E
    BY <2>1, ScriptsStayInside
  <2> QED
    BY <2>2 DEF E
<1> QED
  BY <1>4, <1>6

(* README: bodies are validated recursively. Whatever the nesting and      *)
(* whatever attempts have failed on the way, a script is accepted only if  *)
(* every body and every script in brackets at any depth was validated.     *)
THEOREM EveryBodyIsValidated == Spec => []NoBodySkipped
<1>1. IInv /\ WorkInv /\ RestOK => NoBodySkipped
  BY AcceptedIsComplete DEF IInv, WorkInv, NoBodySkipped
<1> QED
  BY <1>1, Invariance, WorkInvariance, RestInvariance, PTL

(* In an accepted script every literal command at any depth is known, and  *)
(* fits the final table unless the declarations contradict each other: a   *)
(* forgotten failure hides no bad call behind it.                          *)
THEOREM AcceptedCallsAreGood == Spec => []AcceptedCallsAreKnown
<1>1. IInv /\ WorkInv /\ RestOK => AcceptedCallsAreKnown
  <2> SUFFICES ASSUME IInv, WorkInv, RestOK, Checked, NEW t \in AllScripts, NEW c \in Commands(t)
               PROVE  GoodCall(c)
    BY DEF AcceptedCallsAreKnown
  <2>1. PICK D \in SUBSET visited :
          /\ AllScripts \subseteq D \union {Top}
          /\ \A s \in D \union {Top} : \A d \in Commands(s) : GoodCall(d)
    BY AcceptedIsComplete DEF IInv, WorkInv
  <2> QED
    BY <2>1
<1> QED
  BY <1>1, Invariance, WorkInvariance, RestInvariance, PTL

------------------------------------------------------------------------------
\* A failure of what stands before the tasks S is caught, and what is validated
\* instead succeeds.
Caught(S, D) == \E x \in S : x.do = "otherwise" /\ AllSafe(Fallback(x), D)

\* Every task of a list succeeds, or its failure is caught.
Covered(a, D, K) ==
  \A k \in DOMAIN a : Sound(a[k], D, K) \/ Caught(TasksBehind(a, k), D)

LEMMA CaughtBefore ==
  ASSUME NEW D, NEW S, Caught(S, D), NEW T, S \subseteq T
  PROVE  Caught(T, D)
BY DEF Caught

\* A list of tasks that all succeed
LEMMA SoundIsCovered ==
  ASSUME NEW a, NEW D, NEW K, AllSound(Elements(a), D, K)
  PROVE  Covered(a, D, K)
BY DEF AllSound, Elements, Covered

\* The tasks of a plan succeed if none of them is to fail.
LEMMA SafeIsSound ==
  ASSUME NEW X \in SUBSET Plain, NEW D, NEW K, AllSafe(X, D)
  PROVE  AllSound(X, D, K)
<1> SUFFICES ASSUME NEW x \in X PROVE Sound(x, D, K)
  BY DEF AllSound
<1>1. x.do \in {"script", "fail", "attempt"} /\ x.do # "fail" /\ (x.do = "script" => x.text \in D)
  BY DEF Plain, AllSafe
<1> QED
  BY <1>1, SoundIs

LEMMA ElementsOfSeq ==
  ASSUME NEW V, NEW s \in Seq(V)
  PROVE  Elements(s) \subseteq V
BY DEF Elements

LEMMA SeqOfElements ==
  ASSUME NEW V, NEW s \in Seq(V), NEW W, Elements(s) \subseteq W
  PROVE  s \in Seq(W)
<1>1. s \in [1..Len(s) -> V] /\ Len(s) \in Nat
  OBVIOUS
<1>2. \A i \in 1..Len(s) : s[i] \in W
  BY <1>1 DEF Elements
<1>3. s \in [1..Len(s) -> W]
  BY <1>1, <1>2
<1> QED
  BY <1>1, <1>3

\* Nothing else is in a concatenation.
LEMMA ConcatWithin ==
  ASSUME NEW V, NEW plans, NEW n \in Nat, Len(plans) = n,
         \A i \in 1..n : plans[i] \in Seq(V)
  PROVE  Elements(Concat(plans)) \subseteq V
<1>1. Concat(plans) \in Seq(V)
  BY ConcatIs
<1> QED
  BY <1>1, ElementsOfSeq

\* A plan with an Otherwise at its end: either its tasks succeed, or what is
\* validated instead of them does.
LEMMA EndsIsCovered ==
  ASSUME NEW plan, Ends(plan), NEW D, NEW K, Succeeds(plan, D)
  PROVE  Covered(plan, D, K)
<1>1. PICK p \in Seq(Plain), words \in Seq(Word) : plan = p \o <<Otherwise(words)>>
  BY DEF Ends
<1> DEFINE o == Otherwise(words)
           last == <<o>>
<1>2. o.do = "otherwise"
  BY DEF Otherwise, MakeTask
<1>3. o \in ValidTask /\ p \in Seq(ValidTask)
  BY ValidTasks, SeqMonotonic
<1> HIDE DEF o
<1>4. last \in Seq(ValidTask) /\ Elements(last) = {o} /\ Len(last) = 1
  BY <1>3, OneElement
<1>5. Later(last) = {Fallback(o)}
  <2>1. TasksBehind(last, 1) = {}
    BY DEF TasksBehind
  <2>2. Later(last) = {Left(last, 1)} /\ last[1] = o
    BY <1>2 DEF Later
  <2> QED
    BY <2>1, <2>2 DEF Left
<1> HIDE DEF last
<1>6. plan = p \o last
  BY <1>1 DEF o, last
<1>7. Elements(plan) = Elements(p) \union {o} /\ plan \in Seq(ValidTask)
        /\ Later(plan) = {Fallback(o)}
  <2>1. Later(p) = {}
    BY PlainHasNoLater
  <2>2. Elements(plan) = Elements(p) \union Elements(last) /\ plan \in Seq(ValidTask)
    BY <1>3, <1>4, <1>6, ElementsOfBoth
  <2>3. Later(plan) = {T \union Elements(last) : T \in Later(p)} \union Later(last)
    BY <1>3, <1>4, <1>6, LaterOfBoth
  <2> QED
    BY <1>4, <1>5, <2>1, <2>2, <2>3
<1>8. Sound(o, D, K)
  BY <1>2, SoundIs
<1>9. CASE AllSafe(Elements(plan), D)
  <2>1. Elements(p) \subseteq Plain
    BY ElementsOfSeq
  <2>2. AllSafe(Elements(p), D)
    BY <1>7, <1>9 DEF AllSafe
  <2>3. AllSound(Elements(p), D, K)
    BY <2>1, <2>2, SafeIsSound
  <2>4. AllSound(Elements(plan), D, K)
    BY <1>7, <1>8, <2>3 DEF AllSound
  <2> QED
    BY <2>4, SoundIsCovered
<1>10. CASE AllSafe(Fallback(o), D)
  <2> SUFFICES ASSUME NEW k \in DOMAIN plan PROVE Sound(plan[k], D, K) \/ Caught(TasksBehind(plan, k), D)
    BY DEF Covered
  <2>1. CASE k \in 1..Len(p)
    <3>1. TasksBehind(plan, k) = TasksBehind(p, k) \union Elements(last)
      BY <1>3, <1>4, <1>6, <2>1, TasksBehindBoth
    <3> QED
      BY <1>2, <1>4, <1>10, <3>1 DEF Caught
  <2>2. CASE k \notin 1..Len(p)
    <3>1. Len(plan) = Len(p) + Len(last)
      BY <1>3, <1>4, <1>6, ConcatProperties
    <3>2. DOMAIN plan = 1..Len(plan) /\ Len(p) \in Nat
      BY <1>3, <1>7
    <3> DEFINE l == Len(p)
    <3>3. l \in Nat /\ k \in 1..(l + 1) /\ k \notin 1..l
      BY <1>4, <2>2, <3>1, <3>2
    <3> HIDE DEF l
    <3>4. k = l + 1
      BY <3>3
    <3>5. plan[Len(p) + 1] = last[1]
      <4>1. 1 \in 1..Len(last)
        BY <1>4
      <4> HIDE DEF last
      <4> DEFINE m == Len(p) + 1
      <4>2. m > Len(p) /\ m <= Len(p) + Len(last) /\ m - Len(p) = 1 /\ m \in 1..(Len(p) + Len(last))
        BY <1>4, <3>2
      <4> HIDE DEF m
      <4>4. p \in Seq(ValidTask) /\ last \in Seq(ValidTask)
        BY <1>3, <1>4
      <4>5. \A i \in 1..(Len(p) + Len(last)) :
              (p \o last)[i] = IF i <= Len(p) THEN p[i] ELSE last[i - Len(p)]
        BY <4>4, ConcatProperties
      <4>6. ~ (m <= Len(p))
        BY <3>2, <4>2
      <4>3. plan[m] = last[m - Len(p)]
        BY <1>6, <4>2, <4>5, <4>6
      <4> QED
        BY <4>2, <4>3 DEF m
    <3>6. plan[k] = o
      BY <3>4, <3>5 DEF l, last
    <3> QED
      BY <1>8, <3>6
  <2> QED
    BY <2>1, <2>2
<1> QED
  BY <1>7, <1>9, <1>10 DEF Succeeds

\* The plan of a command that succeeds
LEMMA PlanIsCovered ==
  ASSUME NEW plan, plan \in Seq(Plain) \/ Ends(plan), NEW D, NEW K, Succeeds(plan, D)
  PROVE  Covered(plan, D, K)
<1>1. CASE plan \in Seq(Plain)
  <2>1. AllSafe(Elements(plan), D) /\ Elements(plan) \subseteq Plain
    BY <1>1, PlainHasNoLater, ElementsOfSeq DEF Succeeds
  <2>2. AllSound(Elements(plan), D, K)
    BY <2>1, SafeIsSound
  <2> QED
    BY <2>2, SoundIsCovered
<1>2. CASE Ends(plan)
  BY <1>2, EndsIsCovered
<1> QED
  BY <1>1, <1>2

\* A task gives way to a plan, and what is declared grows.
LEMMA CoveredExpand ==
  ASSUME AgendaOK, agenda # <<>>, NEW plan \in Seq(ValidTask), Expand(plan),
         NEW D, NEW K, Covered(agenda, D, K), NEW L, K \subseteq L,
         Covered(plan, D, L) \/ Caught(Elements(Tail(agenda)), D)
  PROVE  Covered(agenda', D, L)
<1> DEFINE r == Tail(agenda)
           n == Len(plan)
           b == agenda'
<1>1. agenda \in Seq(ValidTask)
  BY DEF AgendaOK
<1>2. /\ r \in Seq(ValidTask)
      /\ \A m \in DOMAIN r : /\ 1 + m \in DOMAIN agenda /\ r[m] = agenda[1 + m]
                             /\ TasksBehind(r, m) = TasksBehind(agenda, 1 + m)
  BY <1>1, HeadAndTail
<1>3. b = plan \o r
  BY DEF Expand
<1> HIDE DEF r, b
<1>4. /\ b \in Seq(ValidTask) /\ Len(b) = n + Len(r)
      /\ \A i \in 1..(n + Len(r)) : b[i] = IF i <= n THEN plan[i] ELSE r[i - n]
  BY <1>2, <1>3, ConcatProperties
<1>5. /\ \A k \in 1..n : TasksBehind(b, k) = TasksBehind(plan, k) \union Elements(r)
      /\ \A m \in 1..Len(r) : TasksBehind(b, n + m) = TasksBehind(r, m)
  BY <1>2, <1>3, TasksBehindBoth
<1>6. n \in Nat /\ Len(r) \in Nat /\ DOMAIN plan = 1..n /\ DOMAIN r = 1..Len(r)
        /\ DOMAIN b = 1..(n + Len(r))
  BY <1>2, <1>4
<1> SUFFICES ASSUME NEW k \in DOMAIN b PROVE Sound(b[k], D, L) \/ Caught(TasksBehind(b, k), D)
  BY DEF Covered, b
<1>7. CASE k <= n
  <2>1. k \in 1..n /\ b[k] = plan[k]
    BY <1>4, <1>6, <1>7
  <2>2. TasksBehind(b, k) = TasksBehind(plan, k) \union Elements(r)
    BY <1>5, <2>1
  <2>3. CASE Covered(plan, D, L)
    <3>1. Sound(plan[k], D, L) \/ Caught(TasksBehind(plan, k), D)
      BY <1>6, <2>1, <2>3 DEF Covered
    <3> QED
      BY <2>1, <2>2, <3>1, CaughtBefore
  <2>4. CASE Caught(Elements(r), D)
    BY <2>2, <2>4, CaughtBefore
  <2> QED
    BY <2>3, <2>4 DEF r
<1>8. CASE ~ (k <= n)
  <2> DEFINE l == Len(r)
             m == k - n
  <2>1. m \in 1..l /\ n + m = k
    <3>1. l \in Nat /\ n \in Nat /\ k \in 1..(n + l) /\ ~ (k <= n)
      BY <1>6, <1>8
    <3> HIDE DEF l, n
    <3> QED
      BY <3>1
  <2>2. b[k] = r[m]
    BY <1>4, <1>6, <1>8
  <2> HIDE DEF m, n
  <2>3. b[k] = agenda[1 + m] /\ 1 + m \in DOMAIN agenda
          /\ TasksBehind(b, k) = TasksBehind(agenda, 1 + m)
    <3>1. m \in DOMAIN r
      BY <1>6, <2>1
    <3>2. TasksBehind(b, n + m) = TasksBehind(r, m)
      BY <1>5, <2>1
    <3> QED
      BY <1>2, <2>1, <2>2, <3>1, <3>2
  <2>4. Sound(agenda[1 + m], D, K) \/ Caught(TasksBehind(agenda, 1 + m), D)
    BY <2>3 DEF Covered
  <2>5. Sound(agenda[1 + m], D, K) => Sound(agenda[1 + m], D, L)
    BY DeclaringKeeps
  <2> QED
    BY <2>3, <2>4, <2>5
<1> QED
  BY <1>7, <1>8

\* A failure that is caught leads to what is validated instead.
LEMMA CoveredFailure ==
  ASSUME AgendaOK, agenda # <<>>, NEW e, Failed(e), NEW D, NEW K, Covered(agenda, D, K),
         Caught(Elements(Tail(agenda)), D)
  PROVE  verdict' = verdict /\ Covered(agenda', D, K)
<1> DEFINE marks == {i \in DOMAIN agenda : agenda[i].do = "otherwise"}
           next == CHOOSE i \in marks : \A j \in marks : i <= j
           rest == SubSeq(agenda, next + 1, Len(agenda))
           plan == ExprWordPlans(agenda[next].words)
           b == agenda'
<1>1. agenda \in Seq(ValidTask) /\ DOMAIN agenda = 1..Len(agenda) /\ Len(agenda) \in Nat
  BY DEF AgendaOK
<1>2. PICK c \in marks : AllSafe(Fallback(agenda[c]), D)
  <2>1. Elements(Tail(agenda)) \subseteq Elements(agenda)
    BY <1>1, HeadAndTail
  <2>2. PICK x \in Elements(agenda) : x.do = "otherwise" /\ AllSafe(Fallback(x), D)
    BY <2>1 DEF Caught
  <2> QED
    BY <2>2 DEF Elements
<1>3. next \in marks /\ next <= c
  <2>1. marks \in SUBSET Nat
    BY <1>1
  <2>2. \E i \in marks : \A j \in marks : i <= j
    <3> HIDE DEF marks
    <3> QED
      BY <1>2, <2>1, LeastElement
  <2>3. next \in marks /\ \A j \in marks : next <= j
    <3> HIDE DEF marks
    <3> QED
      BY <2>2
  <2> HIDE DEF marks, next
  <2> QED
    BY <1>2, <2>3
<1>4. b = plan \o rest /\ verdict' = verdict
  BY <1>2 DEF Failed
<1>5. c \in DOMAIN agenda /\ next \in DOMAIN agenda /\ agenda[next].do = "otherwise"
        /\ agenda[c].do = "otherwise"
  BY <1>2, <1>3
<1> HIDE DEF marks, next, b
<1>6. /\ rest \in Seq(ValidTask) /\ Elements(rest) = TasksBehind(agenda, next)
      /\ \A m \in DOMAIN rest : /\ next + m \in DOMAIN agenda /\ rest[m] = agenda[next + m]
                                /\ TasksBehind(rest, m) = TasksBehind(agenda, next + m)
  BY <1>1, <1>5, RestOfTasks
<1>7. plan \in Seq(Plain)
  <2>1. agenda[next].words \in Seq(Word)
    BY <1>1, <1>5 DEF ValidTask, Task
  <2> QED
    BY <2>1, ExprWordsDo DEF Does
<1>8. plan \in Seq(ValidTask) /\ Elements(plan) = Fallback(agenda[next])
  BY <1>7, ValidTasks, SeqMonotonic DEF Fallback
<1>13. Elements(plan) \subseteq Plain
  BY <1>7, ElementsOfSeq
<1> DEFINE n == Len(plan)
<1> HIDE DEF rest, plan
<1>9. /\ b \in Seq(ValidTask) /\ Len(b) = n + Len(rest)
      /\ \A i \in 1..(n + Len(rest)) : b[i] = IF i <= n THEN plan[i] ELSE rest[i - n]
  BY <1>4, <1>6, <1>8, ConcatProperties
<1>10. /\ \A k \in 1..n : TasksBehind(b, k) = TasksBehind(plan, k) \union Elements(rest)
       /\ \A m \in 1..Len(rest) : TasksBehind(b, n + m) = TasksBehind(rest, m)
  BY <1>4, <1>6, <1>8, TasksBehindBoth
<1>11. n \in Nat /\ Len(rest) \in Nat /\ DOMAIN plan = 1..n /\ DOMAIN rest = 1..Len(rest)
         /\ DOMAIN b = 1..(n + Len(rest))
  BY <1>6, <1>8, <1>9
<1>12. ASSUME NEW k \in DOMAIN b PROVE Sound(b[k], D, K) \/ Caught(TasksBehind(b, k), D)
  <2>1. CASE k <= n
    <3>1. k \in 1..n /\ b[k] = plan[k]
      BY <1>9, <1>11, <1>12, <2>1
    <3>2. TasksBehind(b, k) = TasksBehind(plan, k) \union Elements(rest)
      BY <1>10, <3>1
    <3>3. CASE next = c
      <4>1. AllSound(Elements(plan), D, K)
        BY <1>2, <1>8, <1>13, <3>3, SafeIsSound
      <4>2. plan[k] \in Elements(plan)
        BY <1>11, <3>1 DEF Elements
      <4> QED
        BY <3>1, <4>1, <4>2 DEF AllSound
    <3>4. CASE next # c
      <4>1. c \in (next + 1)..Len(agenda)
        BY <1>1, <1>3, <1>5, <3>4
      <4>2. agenda[c] \in Elements(rest)
        BY <1>6, <4>1 DEF TasksBehind
      <4>3. Caught(Elements(rest), D)
        BY <1>2, <1>5, <4>2 DEF Caught
      <4> QED
        BY <3>2, <4>3, CaughtBefore
    <3> QED
      BY <3>3, <3>4
  <2>2. CASE ~ (k <= n)
    <3> DEFINE l == Len(rest)
               m == k - n
    <3>1. m \in 1..l /\ n + m = k
      <4>1. l \in Nat /\ n \in Nat /\ k \in 1..(n + l) /\ ~ (k <= n)
        BY <1>11, <1>12, <2>2
      <4> HIDE DEF l, n
      <4> QED
        BY <4>1
    <3>2. b[k] = rest[m]
      BY <1>9, <1>11, <1>12, <2>2
    <3> HIDE DEF m, n
    <3>3. b[k] = agenda[next + m] /\ next + m \in DOMAIN agenda
            /\ TasksBehind(b, k) = TasksBehind(agenda, next + m)
      <4>1. m \in DOMAIN rest
        BY <1>11, <3>1
      <4>2. TasksBehind(b, n + m) = TasksBehind(rest, m)
        BY <1>10, <3>1
      <4> QED
        BY <1>6, <3>1, <3>2, <4>1, <4>2
    <3> QED
      BY <3>3 DEF Covered
  <2> QED
    BY <2>1, <2>2
<1> QED
  BY <1>4, <1>12 DEF Covered, b

------------------------------------------------------------------------------
\* What the second validation starts from, at each of its steps.
Going ==
  /\ SourceOK /\ AgendaOK /\ TableOK /\ verdict = "busy" /\ error = NoError
  /\ StableDefinitions /\ ~ Leftover

Agrees(D) == Valid(D) /\ Covered(agenda, D, DOMAIN procs)

\* What a step of the validator keeps of it.
StepAgrees(D) ==
  /\ verdict' # "refused"
  /\ verdict' = "busy" => Covered(agenda', D, DOMAIN procs')

\* The first task succeeds, or its failure is caught.
LEMMA FirstIsCovered ==
  ASSUME AgendaOK, agenda # <<>>, NEW D, NEW K, Covered(agenda, D, K)
  PROVE  Sound(Head(agenda), D, K) \/ Caught(Elements(Tail(agenda)), D)
<1>1. agenda \in Seq(ValidTask)
  BY DEF AgendaOK
<1>2. TasksBehind(agenda, 1) = Elements(Tail(agenda))
  BY <1>1, HeadAndTail
<1>3. 1 \in DOMAIN agenda /\ agenda[1] = Head(agenda)
  BY <1>1
<1> QED
  BY <1>2, <1>3 DEF Covered

\* The table grows.
LEMMA CoveredGrows ==
  ASSUME NEW a, NEW D, NEW K, NEW L, K \subseteq L, Covered(a, D, K)
  PROVE  Covered(a, D, L)
<1>1. \A task : Sound(task, D, K) => Sound(task, D, L)
  BY DeclaringKeeps
<1> QED
  BY <1>1 DEF Covered

\* A step that replaces the first task by a plan
LEMMA ExpandAgrees ==
  ASSUME Going, agenda # <<>>, NEW D, Agrees(D), NEW plan \in Seq(ValidTask), Expand(plan),
         verdict' = verdict, DOMAIN procs \subseteq DOMAIN procs',
         Sound(Head(agenda), D, DOMAIN procs) => Covered(plan, D, DOMAIN procs')
  PROVE  StepAgrees(D)
<1> DEFINE K == DOMAIN procs
           L == DOMAIN procs'
           h == Head(agenda)
           b == agenda'
<1>1. AgendaOK /\ Covered(agenda, D, K)
  BY DEF Going, Agrees
<1>2. Sound(h, D, K) \/ Caught(Elements(Tail(agenda)), D)
  BY <1>1, FirstIsCovered
<1>3. Covered(plan, D, L) \/ Caught(Elements(Tail(agenda)), D)
  BY <1>2
<1>4. K \subseteq L
  OBVIOUS
<1> HIDE DEF K, L, h
<1>5. Covered(b, D, L)
  BY <1>1, <1>3, <1>4, CoveredExpand
<1> HIDE DEF b
<1>6. Covered(b, D, DOMAIN procs')
  BY <1>5 DEF L
<1> QED
  BY <1>6 DEF Going, StepAgrees, b

\* A step that fails
LEMMA FailureAgrees ==
  ASSUME Going, agenda # <<>>, NEW D, Agrees(D), NEW e, Failed(e),
         DOMAIN procs \subseteq DOMAIN procs', ~ Sound(Head(agenda), D, DOMAIN procs)
  PROVE  StepAgrees(D)
<1> DEFINE K == DOMAIN procs
           L == DOMAIN procs'
           h == Head(agenda)
           b == agenda'
<1>1. AgendaOK /\ Covered(agenda, D, K)
  BY DEF Going, Agrees
<1>2. Caught(Elements(Tail(agenda)), D)
  <2>1. Sound(h, D, K) \/ Caught(Elements(Tail(agenda)), D)
    BY <1>1, FirstIsCovered
  <2> QED
    BY <2>1
<1>3. K \subseteq L
  OBVIOUS
<1> HIDE DEF K, L, h
<1>4. verdict' = verdict /\ Covered(b, D, K)
  BY <1>1, <1>2, CoveredFailure
<1> HIDE DEF b
<1>5. Covered(b, D, L)
  BY <1>3, <1>4, CoveredGrows
<1>6. Covered(b, D, DOMAIN procs')
  BY <1>5 DEF L
<1> QED
  BY <1>4, <1>6 DEF Going, StepAgrees, b

\* Scripts that are valid can be reached.
LEMMA ScriptsAreSound ==
  ASSUME NEW texts, NEW D, NEW K, Elements(texts) \subseteq D
  PROVE  AllSound(Elements(Scripts(texts)), D, K)
<1> SUFFICES ASSUME NEW x \in Elements(Scripts(texts)) PROVE Sound(x, D, K)
  BY DEF AllSound
<1>1. PICK i \in DOMAIN texts : x = Script(texts[i])
  BY DEF Elements, Scripts
<1>2. texts[i] \in D
  BY DEF Elements
<1>3. x.do = "script" /\ x.text = texts[i]
  BY <1>1 DEF Script, MakeTask
<1> QED
  BY <1>2, <1>3, SoundIs

\* SanitizeScript: the scripts in a valid script are valid, and so is the rest.
LEMMA SanitizeAgrees ==
  ASSUME Going, NEW D, Agrees(D), SanitizeScript
  PROVE  StepAgrees(D)
<1> DEFINE h == Head(agenda)
           t == h.text
           subs == ScriptOf(t).subs
           first == Scripts(subs)
           rest == IF ScriptOf(t).torn THEN <<Fail>> ELSE <<ParseTask(t)>>
           plan == first \o rest
           K == DOMAIN procs
<1>1. /\ agenda # <<>> /\ h.do = "script" /\ verdict' = verdict /\ Expand(plan) /\ procs' = procs
  BY DEF SanitizeScript, Pending
<1>2. t \in STRING
  BY <1>1, FirstTask DEF Going
<1>3. subs \in Seq(STRING)
  BY <1>2, ScriptIs DEF Going, ScriptText
<1>4. first \in Seq(ValidTask)
  <2>1. first \in Seq(Plain)
    BY <1>3, ScriptsDo DEF Does
  <2> HIDE DEF first
  <2> QED
    BY <2>1, ValidTasks, SeqMonotonic
<1>5. rest \in Seq(ValidTask)
        /\ Elements(rest) = IF ScriptOf(t).torn THEN {Fail} ELSE {ParseTask(t)}
  <2>1. Fail \in ValidTask /\ ParseTask(t) \in ValidTask
    BY <1>2, ValidTasks, PlainTasks
  <2> QED
    BY <2>1, OneElement
<1>6. ASSUME Sound(h, D, K) PROVE Covered(plan, D, K)
  <2>1. t \in D
    BY <1>1, <1>6, SoundIs
  <2>2. SoundScript(t, D, K)
    BY <2>1 DEF Agrees, Valid, AllValid
  <2>3. ~ ScriptOf(t).torn /\ Elements(subs) \subseteq D /\ SoundParse(t, D, K)
    BY <2>2 DEF SoundScript
  <2>4. AllSound(Elements(first), D, K)
    BY <2>3, ScriptsAreSound
  <2>5. ParseTask(t).do = "parse" /\ ParseTask(t).text = t
    BY DEF ParseTask, MakeTask
  <2>6. Sound(ParseTask(t), D, K)
    BY <2>3, <2>5, SoundIs
  <2>7. AllSound(Elements(rest), D, K)
    BY <1>5, <2>3, <2>6 DEF AllSound
  <2> HIDE DEF first, rest, K
  <2>8. Elements(plan) = Elements(first) \union Elements(rest)
    BY <1>4, <1>5, ElementsOfBoth
  <2>9. AllSound(Elements(plan), D, K)
    BY <2>4, <2>7, <2>8 DEF AllSound
  <2> QED
    BY <2>9, SoundIsCovered
<1>7. plan \in Seq(ValidTask)
  <2> HIDE DEF first, rest
  <2> QED
    BY <1>4, <1>5, ElementsOfBoth
<1> HIDE DEF plan
<1> QED
  BY <1>1, <1>6, <1>7, ExpandAgrees

\* ParseScript: a valid script is not refused, and no old error is mistaken for one.
LEMMA ParseAgrees ==
  ASSUME Going, NEW D, Agrees(D), ParseScript
  PROVE  StepAgrees(D)
<1> DEFINE h == Head(agenda)
           s == ScriptOf(h.text)
           found == IF s.leftover \/ s.parse = "refused" THEN Recorded(LexicalError) ELSE error
           new == ProgramTask(h.text)
           K == DOMAIN procs
<1>1. agenda # <<>> /\ h.do = "parse" /\ procs' = procs
  BY DEF ParseScript, Pending
<1>2. ~ s.leftover
  BY DEF Going, Leftover, Texts, ScriptOf
<1>3. ASSUME Sound(h, D, K) PROVE SoundParse(h.text, D, K)
  BY <1>1, <1>3, SoundIs
<1>4. CASE s.parse # "commands" /\ found # NoError
  <2>1. Failed(found)
    BY <1>4 DEF ParseScript
  <2>2. s.parse = "refused"
    BY <1>2, <1>4 DEF Going
  <2>3. ~ Sound(h, D, K)
    BY <1>3, <2>2 DEF SoundParse
  <2> QED
    BY <1>1, <2>1, <2>3, FailureAgrees
<1>5. CASE ~ (s.parse # "commands" /\ found # NoError)
  <2>1. Expand(<<new>>) /\ verdict' = verdict
    BY <1>5 DEF ParseScript
  <2>2. new \in ValidTask
    BY <1>1, FirstTask, ValidTasks DEF Going
  <2>3. new.do = "program" /\ new.text = h.text
    BY DEF ProgramTask, MakeTask
  <2> HIDE DEF new
  <2>4. <<new>> \in Seq(ValidTask) /\ Elements(<<new>>) = {new}
    BY <2>2, OneElement
  <2>5. ASSUME Sound(h, D, K) PROVE Covered(<<new>>, D, K)
    <3>1. SoundProgram(h.text, D, K)
      BY <1>3, <2>5 DEF SoundParse
    <3>2. Sound(new, D, K)
      BY <2>3, <3>1, SoundIs
    <3>3. AllSound(Elements(<<new>>), D, K)
      BY <2>4, <3>2 DEF AllSound
    <3> QED
      BY <3>3, SoundIsCovered
  <2> QED
    BY <1>1, <2>1, <2>4, <2>5, ExpandAgrees
<1> QED
  BY <1>4, <1>5

\* CollectProcedures: the arguments of a valid program are good, its commands valid.
LEMMA CollectAgrees ==
  ASSUME Going, NEW D, Agrees(D), CollectProcedures
  PROVE  StepAgrees(D)
<1> DEFINE h == Head(agenda)
           t == h.text
           program == ScriptOf(t).commands
           plan == [i \in DOMAIN program |-> CommandTask(t, i)]
           K == DOMAIN procs
           L == DOMAIN procs'
<1>1. agenda # <<>> /\ h.do = "program" /\ procs' = Updated(procs, program)
  BY DEF CollectProcedures, Pending
<1>2. t \in STRING
  BY <1>1, FirstTask DEF Going
<1>3. K \subseteq L
  BY <1>1 DEF Updated
<1>4. ASSUME Sound(h, D, K) PROVE SoundProgram(t, D, K)
  BY <1>1, <1>4, SoundIs
<1>5. CASE CollectFails(program)
  <2>1. Failed(SyntaxError)
    BY <1>5 DEF CollectProcedures
  <2>2. ~ Sound(h, D, K)
    BY <1>4, <1>5 DEF SoundProgram
  <2> QED
    BY <1>1, <1>3, <2>1, <2>2, FailureAgrees
<1>6. CASE ~ CollectFails(program)
  <2>1. Expand(plan) /\ verdict' = verdict
    BY <1>6 DEF CollectProcedures
  <2>2. Len(program) \in Nat /\ DOMAIN program = 1..Len(program)
    BY <1>2, CommandsOfScripts DEF Going
  <2>3. \A i \in DOMAIN program :
          /\ CommandTask(t, i) \in ValidTask
          /\ CommandTask(t, i).do = "command" /\ CommandTask(t, i).text = t
          /\ CommandTask(t, i).at = i
    BY <1>2, <2>2, ValidTasks DEF CommandTask, MakeTask
  <2>4. plan \in Seq(ValidTask) /\ Elements(plan) = {CommandTask(t, i) : i \in DOMAIN program}
    <3> DEFINE n == Len(program)
    <3>1. plan \in [1..n -> ValidTask] /\ n \in Nat
      BY <2>2, <2>3
    <3> HIDE DEF n
    <3>2. plan \in Seq(ValidTask)
      BY <3>1
    <3> QED
      BY <3>2 DEF Elements
  <2> HIDE DEF plan
  <2>5. ASSUME Sound(h, D, K) PROVE Covered(plan, D, L)
    <3>1. ASSUME NEW i \in DOMAIN program PROVE Sound(CommandTask(t, i), D, K)
      <4>1. program[i] \in Commands(t)
        BY DEF Commands
      <4>2. SoundCommand(program[i], D, K)
        BY <1>4, <2>5, <4>1 DEF SoundProgram
      <4>3. WordsOf(CommandTask(t, i)) = program[i]
        BY <2>3 DEF WordsOf
      <4> HIDE DEF program
      <4> QED
        BY <2>3, <4>2, <4>3, SoundIs DEF program
    <3>2. AllSound(Elements(plan), D, K)
      BY <2>4, <3>1 DEF AllSound
    <3> HIDE DEF K, L
    <3>3. Covered(plan, D, K)
      BY <3>2, SoundIsCovered
    <3> QED
      BY <1>3, <3>3, CoveredGrows
  <2> HIDE DEF h
  <2> QED
    BY <1>1, <1>3, <2>1, <2>4, <2>5, ExpandAgrees DEF h
<1> QED
  BY <1>5, <1>6

\* ValidateWords: the scripts in the words of a valid command are valid.
LEMMA WordsAgree ==
  ASSUME Going, NEW D, Agrees(D), ValidateWords
  PROVE  StepAgrees(D)
<1> DEFINE h == Head(agenda)
           t == h.text
           c == WordsOf(h)
           plans == [i \in DOMAIN c |-> Scripts(Substitutions(c[i])) \o Unless(~ IsTorn(c[i]))]
           first == Concat(plans)
           new == DispatchTask(t, h.at)
           plan == first \o <<new>>
           n == Len(c)
           K == DOMAIN procs
           V == {x \in Plain : Sound(x, D, K)}
<1>1. agenda # <<>> /\ h.do = "command" /\ procs' = procs /\ verdict' = verdict /\ Expand(plan)
  BY DEF ValidateWords, Pending
<1>2. t \in STRING /\ h.at \in DOMAIN ScriptOf(t).commands
  BY <1>1, FirstTask DEF Going
<1>3. h.at \in Nat /\ c \in Command
  <2>1. DOMAIN ScriptOf(t).commands = 1..Len(ScriptOf(t).commands)
          /\ ScriptOf(t).commands[h.at] \in Command
    BY <1>2, CommandsOfScripts DEF Going
  <2> QED
    BY <1>2, <2>1 DEF WordsOf
<1>4. n \in Nat /\ DOMAIN c = 1..n /\ \A i \in 1..n : c[i] \in Word
  BY <1>3, WordOf
<1>5. \A i \in 1..n : Substitutions(c[i]) \in Seq(STRING)
  <2> TAKE i \in 1..n
  <2>1. c[i].subs \in Seq(STRING)
    BY <1>4 DEF Word
  <2>2. <<>> \in Seq(STRING)
    OBVIOUS
  <2> QED
    BY <2>1, <2>2 DEF Substitutions
<1>6. \A i \in 1..n : Scripts(Substitutions(c[i])) \in Seq(Plain) /\ Unless(~ IsTorn(c[i])) \in Seq(Plain)
  BY <1>5, ScriptsDo, UnlessDoes DEF Does
<1>7. \A i \in 1..n : plans[i] \in Seq(Plain)
  BY <1>4, <1>6, ElementsOfBoth
<1>8. Len(plans) = n
  <2>1. plans = [i \in 1..n |-> plans[i]]
    BY <1>4
  <2> HIDE DEF plans, n
  <2>2. plans \in [1..n -> Seq(Plain)]
    BY <1>7, <2>1
  <2> QED
    BY <1>4, <2>2
<1>9. first \in Seq(Plain)
  <2> HIDE DEF plans, n
  <2> QED
    BY <1>4, <1>7, <1>8, ConcatIs
<1>10. new \in ValidTask /\ new.do = "dispatch" /\ new.text = t /\ new.at = h.at
  BY <1>2, <1>3, ValidTasks DEF DispatchTask, MakeTask
<1>11. WordsOf(new) = c
  BY <1>10 DEF WordsOf
<1>12. ASSUME Sound(h, D, K) PROVE AllSound(Elements(first), D, K) /\ Sound(new, D, K)
  <2>1. SoundCommand(c, D, K)
    BY <1>1, <1>12, SoundIs
  <2>2. Sound(new, D, K)
    BY <1>10, <1>11, <2>1, SoundIs DEF SoundCommand
  <2>3. ASSUME NEW i \in 1..n PROVE plans[i] \in Seq(V)
    <3> DEFINE p == Scripts(Substitutions(c[i]))
    <3>1. ~ IsTorn(c[i]) /\ Elements(Substitutions(c[i])) \subseteq D
      BY <1>4, <2>1 DEF SoundCommand, Elements
    <3>2. p \in Seq(Plain) /\ AllSound(Elements(p), D, K)
      BY <1>6, <3>1, ScriptsAreSound
    <3>3. Elements(p) \subseteq V
      <4>1. Elements(p) \subseteq Plain
        BY <3>2, ElementsOfSeq
      <4> HIDE DEF p
      <4> QED
        BY <3>2, <4>1 DEF AllSound
    <3>4. plans[i] = p \o <<>>
      BY <1>4, <3>1 DEF Unless
    <3> HIDE DEF p, V, plans
    <3>5. p \in Seq(V)
      BY <3>2, <3>3, SeqOfElements
    <3>6. p \o <<>> = p
      BY <3>5
    <3> QED
      BY <3>4, <3>5, <3>6
  <2> HIDE DEF plans, n, V
  <2>4. Elements(first) \subseteq V
    BY <1>4, <1>8, <2>3, ConcatWithin
  <2>5. AllSound(Elements(first), D, K)
    BY <2>4 DEF AllSound, V
  <2> QED
    BY <2>2, <2>5
<1> HIDE DEF first, new, K
<1>13. first \in Seq(ValidTask) /\ <<new>> \in Seq(ValidTask) /\ Elements(<<new>>) = {new}
  BY <1>9, <1>10, ValidTasks, SeqMonotonic, OneElement
<1>14. plan \in Seq(ValidTask) /\ Elements(plan) = Elements(first) \union {new}
  <2> DEFINE last == <<new>>
  <2>1. last \in Seq(ValidTask) /\ Elements(last) = {new}
    BY <1>13
  <2> HIDE DEF last
  <2>2. /\ first \o last \in Seq(ValidTask)
        /\ Elements(first \o last) = Elements(first) \union Elements(last)
    BY <1>13, <2>1, ElementsOfBoth
  <2> QED
    BY <2>1, <2>2 DEF last
<1> HIDE DEF plan, h
<1>15. ASSUME Sound(h, D, K) PROVE Covered(plan, D, K)
  <2>1. AllSound(Elements(plan), D, K)
    BY <1>12, <1>14, <1>15 DEF AllSound
  <2> QED
    BY <2>1, SoundIsCovered
<1> QED
  BY <1>1, <1>14, <1>15, ExpandAgrees DEF h, K

\* The plan of a command is one of scripts, attempts and failures, with an
\* Otherwise at its end or without.
LEMMA PlanOfCommand ==
  ASSUME NEW c \in Command, NEW table
  PROVE  LET plan == CommandPlan(c, table)
         IN (plan \in Seq(Plain) \/ Ends(plan)) /\ plan \in Seq(ValidTask)
<1> DEFINE plan == CommandPlan(c, table)
<1>1. plan \in Seq(Plain) \/ Ends(plan)
  BY CommandDoes DEF Does
<1> HIDE DEF plan
<1>2. plan \in Seq(ValidTask)
  BY <1>1, EndsIs, ValidTasks, SeqMonotonic
<1> QED
  BY <1>1, <1>2 DEF plan

\* An empty plan
LEMMA NothingIsCovered == \A D, K : Covered(<<>>, D, K)
BY DEF Covered

\* Dispatch: a known call is found, and what its plan leads to is valid.
LEMMA DispatchAgrees ==
  ASSUME Going, NEW D, Agrees(D), Dispatch
  PROVE  StepAgrees(D)
<1> DEFINE h == Head(agenda)
           t == h.text
           c == WordsOf(h)
           name == c[1].text
           plan == CommandPlan(c, procs)
           K == DOMAIN procs
<1>1. agenda # <<>> /\ h.do = "dispatch" /\ procs' = procs
  BY DEF Dispatch, Pending
<1>2. t \in STRING /\ h.at \in DOMAIN ScriptOf(t).commands
  BY <1>1, FirstTask DEF Going
<1>3. c \in Command
  BY <1>2, CommandsOfScripts DEF WordsOf, Going
<1>4. ASSUME Sound(h, D, K) PROVE SoundCall(c, D, K)
  BY <1>1, <1>4, SoundIs
<1>5. CASE IsUnknown(c, procs)
  <2>1. Failed(UnknownCommand(name))
    BY <1>5 DEF Dispatch
  <2>2. ~ Sound(h, D, K)
    BY <1>4, <1>5 DEF IsUnknown, SoundCall, KnownCall
  <2> QED
    BY <1>1, <2>1, <2>2, FailureAgrees
<1>6. CASE ~ IsUnknown(c, procs)
  <2>1. Expand(plan) /\ verdict' = verdict
    BY <1>6 DEF Dispatch
  <2>2. plan \in Seq(ValidTask) /\ (plan \in Seq(Plain) \/ Ends(plan))
    BY <1>3, PlanOfCommand
  <2>3. ASSUME Sound(h, D, K) PROVE Covered(plan, D, K)
    <3>1. SoundCall(c, D, K)
      BY <1>4, <2>3
    <3>2. CASE ~ LiteralName(c[1]) \/ name = "cmdsubst"
      <4>1. plan = <<>>
        BY <3>2, Zenon DEF CommandPlan
      <4> HIDE DEF plan
      <4> QED
        BY <4>1, NothingIsCovered
    <3>3. CASE LiteralName(c[1]) /\ name # "cmdsubst" /\ name \in Builtins
      <4>1. Succeeds(BuiltinPlan(c), D)
        BY <3>1, <3>3 DEF SoundCall
      <4>2. plan = BuiltinPlan(c)
        BY <3>3, Zenon DEF CommandPlan
      <4> HIDE DEF plan, K
      <4> QED
        BY <2>2, <4>1, <4>2, PlanIsCovered
    <3>4. CASE LiteralName(c[1]) /\ name # "cmdsubst" /\ name \notin Builtins
      <4> DEFINE fits == Fits(procs[name], Len(c) - 1)
      <4>1. plan = IF name \in K THEN Unless(fits) ELSE <<>>
        BY <3>4, Zenon DEF CommandPlan
      <4>2. ASSUME name \in K PROVE fits
        <5>1. PICK d \in Definitions : d[2].text = name /\ procs[name] = SignatureOf(d[3].text)
          BY <4>2 DEF Going, TableOK
        <5>2. Fits(SignatureOf(d[3].text), Len(c) - 1)
          BY <3>1, <3>4, <4>2, <5>1 DEF SoundCall, KnownCall, Going
        <5> QED
          BY <5>1, <5>2
      <4> HIDE DEF fits, plan
      <4>3. plan = <<>>
        BY <4>1, <4>2 DEF Unless
      <4> QED
        BY <4>3, NothingIsCovered
    <3> QED
      BY <3>2, <3>3, <3>4
  <2> HIDE DEF plan, h
  <2> QED
    BY <1>1, <2>1, <2>2, <2>3, ExpandAgrees DEF h
<1> QED
  BY <1>5, <1>6

\* ReportSyntax: what fails is caught.
LEMMA ReportAgrees ==
  ASSUME Going, NEW D, Agrees(D), ReportSyntax
  PROVE  StepAgrees(D)
<1>1. agenda # <<>> /\ Head(agenda).do = "fail" /\ procs' = procs /\ Failed(SyntaxError)
  BY DEF ReportSyntax, Pending
<1>2. ~ Sound(Head(agenda), D, DOMAIN procs)
  BY <1>1, SoundIs
<1> QED
  BY <1>1, <1>2, FailureAgrees

\* AttemptExpression: whatever fails in it, nothing is validated instead.
LEMMA AttemptAgrees ==
  ASSUME Going, NEW D, Agrees(D), AttemptExpression
  PROVE  StepAgrees(D)
<1> DEFINE h == Head(agenda)
           o == Otherwise(<<>>)
           p == ExpressionPlan(h.text)
           plan == p \o <<o>>
<1>1. agenda # <<>> /\ procs' = procs /\ verdict' = verdict /\ Expand(plan)
  BY DEF AttemptExpression, Pending
<1>2. p \in Seq(Plain) /\ <<>> \in Seq(Word)
  BY ExpressionDoes DEF Does
<1>3. Ends(plan)
  BY <1>2 DEF Ends
<1>4. o.do = "otherwise" /\ o \in ValidTask /\ p \in Seq(ValidTask)
  BY <1>2, ValidTasks, SeqMonotonic DEF Otherwise, MakeTask
<1>5. Fallback(o) = {}
  <2>1. o.words = <<>>
    BY DEF Otherwise, MakeTask
  <2> DEFINE plans == [i \in DOMAIN <<>> |-> ExprWordPlan(<<>>[i])]
             none == {}
             zero == 0
  <2>2. zero \in Nat /\ Len(plans) = zero /\ \A i \in 1..zero : plans[i] \in Seq(none)
    <3>1. plans = <<>>
      OBVIOUS
    <3>2. 1..0 = {}
      OBVIOUS
    <3> QED
      BY <3>1, <3>2
  <2>3. ExprWordPlans(<<>>) = Concat(plans)
    BY DEF ExprWordPlans
  <2> HIDE DEF plans, none, zero
  <2>4. Elements(Concat(plans)) \subseteq none
    BY <2>2, ConcatWithin
  <2> USE DEF none
  <2> HIDE DEF o
  <2> QED
    BY <2>1, <2>3, <2>4 DEF Fallback
<1> HIDE DEF o, p
<1>6. Succeeds(plan, D)
  <2> DEFINE last == <<o>>
  <2>1. last \in Seq(ValidTask) /\ Elements(last) = {o} /\ Len(last) = 1
    BY <1>4, OneElement
  <2>2. Later(last) = {{}}
    <3>1. TasksBehind(last, 1) = {}
      BY DEF TasksBehind
    <3>2. Later(last) = {Left(last, 1)} /\ last[1] = o
      BY <1>4 DEF Later
    <3> QED
      BY <1>5, <3>1, <3>2 DEF Left
  <2> HIDE DEF last
  <2>3. Later(p \o last) = {T \union Elements(last) : T \in Later(p)} \union Later(last)
    BY <1>4, <2>1, LaterOfBoth
  <2>4. {} \in Later(plan)
    BY <2>2, <2>3 DEF last
  <2>5. AllSafe({}, D)
    BY DEF AllSafe
  <2> HIDE DEF plan
  <2> QED
    BY <2>4, <2>5 DEF Succeeds
<1> HIDE DEF plan, h
<1>7. plan \in Seq(ValidTask)
  BY <1>3, EndsIs
<1>8. \A K : Covered(plan, D, K)
  BY <1>3, <1>6, EndsIsCovered
<1> QED
  BY <1>1, <1>7, <1>8, ExpandAgrees

\* PassOtherwise: nothing is left of an attempt.
LEMMA PassAgrees ==
  ASSUME Going, NEW D, Agrees(D), PassOtherwise
  PROVE  StepAgrees(D)
<1>1. agenda # <<>> /\ procs' = procs /\ verdict' = verdict /\ Expand(<<>>)
  BY DEF PassOtherwise, Pending
<1>2. <<>> \in Seq(ValidTask)
  OBVIOUS
<1> QED
  BY <1>1, <1>2, NothingIsCovered, ExpandAgrees

\* Every step of the validator
LEMMA ValidatorAgrees ==
  ASSUME Going, NEW D, Agrees(D), Validate
  PROVE  StepAgrees(D)
<1>1. Accept => StepAgrees(D)
  BY DEF Accept, StepAgrees
<1> QED
  BY <1>1, SanitizeAgrees, ParseAgrees, CollectAgrees, WordsAgree, DispatchAgrees, ReportAgrees,
     AttemptAgrees, PassAgrees DEF Validate

------------------------------------------------------------------------------
\* The second validation of an if can be expected to say what the first one said.
Settled == StableDefinitions /\ ~ Leftover /\ Keyword(Words[1], "if")

\* It has not failed, and its tasks are about scripts that are valid.
RecheckOK ==
  phase = "rechecking" /\ Settled =>
    /\ verdict # "refused"
    /\ verdict = "busy" => \E D \in SUBSET visited : Agrees(D)

\* What is known of the table and of the tasks holds after a step as well.
LEMMA AgreementStays ==
  ASSUME source' = source, visited \subseteq visited', DOMAIN procs \subseteq DOMAIN procs',
         NEW D \in SUBSET visited, Valid(D), Covered(agenda', D, DOMAIN procs')
  PROVE  (\E S \in SUBSET visited : Agrees(S))'
<1>1. D \in SUBSET visited'
  OBVIOUS
<1>2. Valid(D)'
  <2>1. AllValid(D, D, DOMAIN procs')
    BY DeclaringKeeps DEF Valid
  <2> QED
    BY <2>1, ReadingStays DEF Valid
<1>3. Covered(agenda, D, DOMAIN procs)'
  <2>1. \A task, E, K : Sound(task, E, K)' <=> Sound(task, E, K)
    BY ReadingStays
  <2> QED
    BY <2>1 DEF Covered, Caught, TasksBehind
<1> QED
  BY <1>1, <1>2, <1>3 DEF Agrees

\* The command at pc stays the same as long as pc does.
LEMMA SameCommand ==
  ASSUME source' = source, pc' = pc
  PROVE  Words' = Words /\ (Settled' <=> Settled)
<1>1. Words' = Words
  BY ReadingStays DEF Words
<1> QED
  BY <1>1, ReadingStays, SameSource DEF Settled

\* A command of an accepted script is valid.
LEMMA CommandIsSound ==
  ASSUME IInv, WorkInv, phase = "running", pc <= Len(Program)
  PROVE  Words \in Command /\ \E D \in SUBSET visited : Valid(D) /\ SoundCommand(Words, D, DOMAIN procs)
<1>1. Words \in Command
  BY CommandAtPlace DEF IInv, WorkInv
<1>2. PICK D \in SUBSET visited : Valid(D)
  BY DEF WorkInv, DoneOK, IInv, PhasesOK
<1>3. Words \in Commands(Top)
  <2>1. DOMAIN Program = 1..Len(Program) /\ Len(Program) \in Nat
    BY CommandsOfScripts, TopIsText DEF Program, IInv
  <2>2. pc \in 0..(Len(Program) + 1) /\ pc # 0
    BY DEF WorkInv, PlaceOK
  <2>3. pc \in 1..Len(Program)
    <3> DEFINE l == Len(Program)
    <3>1. l \in Nat /\ pc \in 0..(l + 1) /\ pc # 0 /\ pc <= l
      BY <2>1, <2>2
    <3> HIDE DEF l
    <3>2. pc \in 1..l
      BY <3>1
    <3> QED
      BY <3>2 DEF l
  <2> QED
    BY <2>1, <2>3 DEF Words, Program, Commands
<1>4. SoundCommand(Words, D, DOMAIN procs)
  BY <1>2, <1>3 DEF Valid, AllValid, SoundProgram
<1> QED
  BY <1>1, <1>2, <1>4

\* An if that was valid with the script leads to scripts that are valid.
LEMMA RecheckBegins ==
  ASSUME IInv, WorkInv, ExecuteIf
  PROVE  RecheckOK'
<1> DEFINE K == DOMAIN procs
           c == Words
           plan == IfPlan(c)
<1>1. /\ phase = "running" /\ pc <= Len(Program) /\ verdict' = "busy" /\ agenda' = plan
      /\ UNCHANGED <<source, procs, visited, pc>>
  BY DEF ExecuteIf, Called
<1>2. PICK D \in SUBSET visited : Valid(D) /\ SoundCommand(c, D, K)
  BY <1>1, CommandIsSound
<1>3. c \in Command
  BY <1>1, CommandIsSound
<1>4. ASSUME Settled PROVE (\E S \in SUBSET visited : Agrees(S))'
  <2>1. LiteralName(c[1]) /\ c[1].text = "if" /\ c[1].text \in Builtins
    BY <1>4 DEF Settled, Keyword, Builtins, BodyCommands
  <2>2. Succeeds(BuiltinPlan(c), D)
    BY <1>2, <2>1 DEF SoundCommand, SoundCall
  <2>3. BuiltinPlan(c) = plan
    BY <2>1, PlansOfNames
  <2>4. plan \in Seq(Plain)
    BY <1>3, IfDoes DEF Does
  <2> HIDE DEF plan, K
  <2>5. Covered(plan, D, K)
    BY <2>2, <2>3, <2>4, PlanIsCovered
  <2>6. Covered(agenda', D, DOMAIN procs')
    BY <1>1, <2>5 DEF K
  <2> QED
    BY <1>1, <1>2, <2>6, AgreementStays
<1>5. Settled' <=> Settled
  BY <1>1, SameCommand
<1> QED
  BY <1>1, <1>4, <1>5 DEF RecheckOK

\* The second validation goes on as the first one did.
LEMMA RecheckGoesOn ==
  ASSUME IInv, WorkInv, RecheckOK, ValidatorRuns, phase = "rechecking"
  PROVE  RecheckOK'
<1>1. Validate /\ pc' = pc /\ phase' = phase
  BY DEF ValidatorRuns, mainVars
<1>2. source' = source /\ verdict = "busy" /\ DOMAIN procs \subseteq DOMAIN procs'
  BY <1>1, StepsOfTheValidator DEF ValidatorEffect
<1>3. Settled' <=> Settled
  BY <1>1, <1>2, SameCommand
<1> SUFFICES ASSUME Settled
             PROVE  verdict' # "refused" /\ (verdict' = "busy" => (\E S \in SUBSET visited : Agrees(S))')
  BY <1>3 DEF RecheckOK
<1>4. error = NoError
  BY <1>2 DEF IInv, PhasesOK, CleanOK, Settled
<1>5. Going
  BY <1>2, <1>4 DEF Going, IInv, WorkInv, Settled
<1>6. PICK D \in SUBSET visited : Agrees(D)
  BY <1>2 DEF RecheckOK
<1>7. StepAgrees(D)
  BY <1>1, <1>5, <1>6, ValidatorAgrees
<1>8. visited \subseteq visited'
  BY <1>1, VisitedGrows
<1>9. ASSUME verdict' = "busy" PROVE (\E S \in SUBSET visited : Agrees(S))'
  <2>1. Covered(agenda', D, DOMAIN procs')
    BY <1>7, <1>9 DEF StepAgrees
  <2>2. Valid(D)
    BY <1>6 DEF Agrees
  <2> QED
    BY <1>2, <1>8, <2>1, <2>2, AgreementStays
<1> QED
  BY <1>7, <1>9 DEF StepAgrees

\* No other step leads into the second validation.
LEMMA NextKeepsRecheck == IInv /\ WorkInv /\ RecheckOK /\ [Next]_vars => RecheckOK'
<1> SUFFICES ASSUME IInv, WorkInv, RecheckOK, [Next]_vars PROVE RecheckOK'
  OBVIOUS
<1>1. CASE ExecuteIf
  BY <1>1, RecheckBegins
<1>2. CASE ValidatorRuns
  <2>1. CASE phase = "rechecking"
    BY <1>2, <2>1, RecheckGoesOn
  <2>2. CASE phase # "rechecking"
    BY <1>2, <2>2 DEF ValidatorRuns, mainVars, RecheckOK
  <2> QED
    BY <2>1, <2>2
<1>3. CASE UNCHANGED vars
  <2>1. UNCHANGED <<source, agenda, procs, verdict, visited, phase, pc>>
    BY <1>3 DEF vars, validatorVars, mainVars
  <2>2. Settled' <=> Settled
    BY <2>1, SameCommand
  <2>3. ASSUME NEW D \in SUBSET visited, Agrees(D) PROVE (\E S \in SUBSET visited : Agrees(S))'
    BY <2>1, <2>3, AgreementStays DEF Agrees
  <2> QED
    BY <2>1, <2>2, <2>3 DEF RecheckOK
<1>4. CASE ~ (ExecuteIf \/ ValidatorRuns \/ UNCHANGED vars)
  <2>1. phase' # "rechecking"
    BY <1>4 DEF Next, Read, CheckEnds, WordsFail, SkipNameless, ExecuteSet, ExecutePut, IfEnds,
                ExecuteCounted, ExecuteNothing, ExecuteOther, RunEnds, Exited, ExitsWith, Exit,
                Continue, Called
  <2> QED
    BY <2>1 DEF RecheckOK
<1> QED
  BY <1>1, <1>2, <1>3, <1>4

\* The tasks of the second validation are about scripts that are valid.
THEOREM RecheckInvariance == Spec => []RecheckOK
<1>1. Init => RecheckOK
  BY DEF Init, RecheckOK
<1>2. IInv /\ WorkInv /\ RecheckOK /\ [Next]_vars => RecheckOK'
  BY NextKeepsRecheck
<1> QED
  BY <1>1, <1>2, Invariance, WorkInvariance, PTL DEF Spec

(* An if that was accepted with the whole script is accepted again when it *)
(* is executed, unless declarations contradict each other or the lexer has *)
(* left an error behind: the attempts in it may fail in other places, what *)
(* is left of them is valid.                                               *)
THEOREM IfIsAcceptedAgain == Spec => []RecheckAgrees
<1>1. RecheckOK => RecheckAgrees
  BY DEF RecheckOK, RecheckAgrees, Settled
<1> QED
  BY <1>1, RecheckInvariance, PTL

------------------------------------------------------------------------------
\* What the command at pc may fail for.
MayFail ==
  \/ Dynamic(Words)
  \/ Words[1].text = "puts" /\ Len(Words) > 2
  \/ Words[1].text = "if" /\ (~ StableDefinitions \/ Leftover)

\* Only an if is validated again.
KindOK == phase = "rechecking" => Dynamic(Words) \/ Words[1].text = "if"

FailOK == exitCode = "failure" /\ pc > 0 => MayFail

\* The words of a command without anything dynamic are evaluated to themselves.
LEMMA StaticName ==
  ASSUME NEW c \in Command, ~ Dynamic(c)
  PROVE  /\ Evaluates(<<c[1]>>) /\ Evaluates(c)
         /\ LiteralName(c[1]) /\ ItemsOf(c[1]) = <<c[1].text>>
<1>1. /\ Len(c) \in Nat /\ 1 \in 1..Len(c) /\ DOMAIN c = 1..Len(c)
      /\ \A i \in 1..Len(c) : c[i] \in Word
  BY WordOf
<1>2. \A i \in 1..Len(c) : ~ Expands(c[i]) /\ CanEvaluate(c[i])
  BY <1>1 DEF Dynamic, CanEvaluate
<1>3. Evaluates(c)
  BY <1>1, <1>2 DEF Evaluates
<1>4. Evaluates(<<c[1]>>)
  BY <1>1, <1>2 DEF Evaluates
<1>5. LiteralName(c[1]) /\ c[1].marks = {} /\ ~ Expands(c[1])
  BY <1>1, <1>2 DEF Dynamic
<1>6. c[1].type \notin VariableTypes
  BY <1>5 DEF LiteralName, VariableTypes
<1>7. ValueOf(c[1]) = c[1].text
  BY <1>5, <1>6 DEF ValueOf
<1>8. ItemsOf(c[1]) = <<c[1].text>>
  <2>1. c[1].type # "expandEmpty"
    BY <1>5 DEF Expands, ExpandTypes
  <2> QED
    BY <1>5, <1>7, <2>1 DEF ItemsOf
<1> QED
  BY <1>3, <1>4, <1>5, <1>8

\* Sequences of one element each, one after the other
LEMMA ConcatLength ==
  ASSUME NEW V, NEW plans, NEW n \in Nat, Len(plans) = n,
         \A i \in 1..n : plans[i] \in Seq(V) /\ Len(plans[i]) = 1
  PROVE  Len(Concat(plans)) = n
<1> DEFINE F(f) == [i \in 0..n |-> IF i = 0 THEN <<>> ELSE f[i - 1] \o plans[i]]
           f == CHOOSE g : g = F(g)
           step == [p \in Seq(V) \X (1..n) |-> p[1] \o plans[p[2]]]
<1>1. Concat(plans) = f[n]
  BY DEF Concat
<1>2. <<>> \in Seq(V)
  OBVIOUS
<1>3. \A v \in Seq(V) : \A i \in (0 + 1)..n : step[<<v, i>>] \in Seq(V)
  BY ConcatProperties
<1>4. \A v \in Seq(V) : \A i \in 1..n : step[<<v, i>>] = v \o plans[i]
  OBVIOUS
<1> HIDE DEF step
<1>5. PICK g : GoesBy(g, 0, n, Seq(V), <<>>, step)
  <2>1. 0 \in Int /\ n \in Int /\ 0 <= n
    OBVIOUS
  <2> QED
    BY <1>2, <1>3, <2>1, Recursion
<1>6. g \in [0..n -> Seq(V)] /\ g[0] = <<>> /\ \A i \in 1..n : g[i] = g[i - 1] \o plans[i]
  <2>1. g \in [0..n -> Seq(V)] /\ g[0] = <<>> /\ \A i \in 1..n : g[i] = step[<<g[i - 1], i>>]
    BY <1>5 DEF GoesBy
  <2>2. \A i \in 1..n : i - 1 \in 0..n
    OBVIOUS
  <2>3. \A i \in 1..n : g[i - 1] \in Seq(V)
    BY <2>1, <2>2
  <2> QED
    BY <1>4, <2>1, <2>3
<1>7. g = F(g)
  <2>1. \A i \in 0..n : i = 0 \/ i \in 1..n
    OBVIOUS
  <2> QED
    BY <1>6, <2>1
<1>8. f = F(f)
  <2> HIDE DEF F
  <2> QED
    BY ONLY <1>7
<1> HIDE DEF f
<1>9. f[0] = <<>> /\ \A i \in 1..n : f[i] = f[i - 1] \o plans[i]
  <2>1. 0 \in 0..n /\ \A i \in 1..n : i \in 0..n /\ i # 0
    OBVIOUS
  <2> QED
    BY <1>8, <2>1
<1> HIDE DEF F
<1> DEFINE S == {m \in 0..n : f[m] \in Seq(V) /\ Len(f[m]) = m}
<1>10. 0 \in S
  <2>1. 0 \in 0..n /\ Len(<<>>) = 0
    OBVIOUS
  <2> QED
    BY <1>2, <1>9, <2>1
<1>11. ASSUME NEW m \in (0 + 1)..n, m - 1 \in S PROVE m \in S
  <2>1. m \in 1..n /\ m \in 0..n /\ f[m - 1] \in Seq(V) /\ Len(f[m - 1]) = m - 1
    BY <1>11
  <2>2. f[m] = f[m - 1] \o plans[m] /\ plans[m] \in Seq(V) /\ Len(plans[m]) = 1
    BY <1>9, <2>1
  <2>3. f[m] \in Seq(V) /\ Len(f[m]) = Len(f[m - 1]) + Len(plans[m])
    <3> DEFINE s == f[m - 1]
               q == plans[m]
    <3>1. s \in Seq(V) /\ q \in Seq(V) /\ f[m] = s \o q
      BY <2>1, <2>2
    <3> HIDE DEF s, q
    <3>2. s \o q \in Seq(V) /\ Len(s \o q) = Len(s) + Len(q)
      BY <3>1, ConcatProperties
    <3> QED
      BY <3>1, <3>2 DEF s, q
  <2>4. (m - 1) + 1 = m
    BY <2>1
  <2> QED
    BY <2>1, <2>2, <2>3, <2>4
<1> HIDE DEF S
<1>12. \A m \in 0..n : m \in S
  <2>1. 0 \in Int /\ n \in Int
    OBVIOUS
  <2> QED
    BY <1>10, <1>11, <2>1, BoundedInduction
<1>13. n \in S
  BY <1>12
<1> QED
  BY <1>1, <1>13 DEF S

\* Each of them is one argument.
LEMMA StaticValues ==
  ASSUME NEW c \in Command, ~ Dynamic(c)
  PROVE  Len(ValuesOf(c)) = Len(c)
<1> DEFINE n == Len(c)
           plans == [i \in DOMAIN c |-> ItemsOf(c[i])]
           V == {ValueOf(c[i]) : i \in 1..n}
<1>1. n \in Nat /\ DOMAIN c = 1..n
  BY WordOf
<1>2. \A i \in 1..n : ItemsOf(c[i]) = <<ValueOf(c[i])>>
  <2> TAKE i \in 1..n
  <2>1. ~ Expands(c[i])
    BY <1>1 DEF Dynamic
  <2>2. c[i].type # "expandEmpty"
    BY <2>1 DEF Expands, ExpandTypes
  <2> QED
    BY <2>1, <2>2 DEF ItemsOf
<1>3. \A i \in 1..n : plans[i] = <<ValueOf(c[i])>> /\ ValueOf(c[i]) \in V
  BY <1>1, <1>2
<1> HIDE DEF V
<1>4. ASSUME NEW i \in 1..n PROVE plans[i] \in Seq(V) /\ Len(plans[i]) = 1
  <2> DEFINE v == ValueOf(c[i])
  <2>1. v \in V /\ plans[i] = <<v>>
    BY <1>3
  <2> HIDE DEF v, plans
  <2>2. <<v>> \in Seq(V) /\ Len(<<v>>) = 1
    BY <2>1, OneElement
  <2> QED
    BY <2>1, <2>2
<1>5. ValuesOf(c) = Concat(plans) /\ plans = [i \in 1..n |-> plans[i]]
  BY <1>1 DEF ValuesOf
<1> HIDE DEF plans, n
<1>6. plans \in [1..n -> Seq(V)]
  BY <1>4, <1>5
<1>7. Len(plans) = n
  BY <1>1, <1>6
<1>8. Len(Concat(plans)) = n
  BY <1>1, <1>4, <1>7, ConcatLength
<1> QED
  BY <1>5, <1>8 DEF n

------------------------------------------------------------------------------
\* A plan that only fails does not succeed.
LEMMA FailDoesNotSucceed == \A D : ~ Succeeds(<<Fail>>, D)
<1>1. Fail \in Plain /\ Fail.do = "fail"
  BY PlainTasks DEF Fail, MakeTask
<1>2. <<Fail>> \in Seq(Plain) /\ Elements(<<Fail>>) = {Fail}
  BY <1>1, OneElement
<1>3. Later(<<Fail>>) = {}
  BY <1>2, PlainHasNoLater
<1> QED
  BY <1>1, <1>2, <1>3 DEF Succeeds, AllSafe

\* The number of words of the commands that the executor counts as well
LEMMA CountsAgree ==
  ASSUME NEW c, NEW D, Succeeds(BuiltinPlan(c), D)
  PROVE  /\ c[1].text = "while" => Len(c) = 3
         /\ c[1].text = "for" => Len(c) = 5
         /\ c[1].text = "proc" => Len(c) = 4
         /\ c[1].text = "set" => Len(c) \in {2, 3}
         /\ c[1].text = "put" => Len(c) = 2
         /\ c[1].text = "puts" => Len(c) \in 2..4
<1>1. c[1].text \in {"while", "for", "proc"} => BuiltinPlan(c) # <<Fail>>
  BY FailDoesNotSucceed
<1>2. c[1].text = "while" => Len(c) = 3
  <2>1. c[1].text = "while" => BuiltinPlan(c) = WhilePlan(c)
    BY PlansOfNames
  <2> QED
    BY <1>1, <2>1 DEF WhilePlan
<1>3. c[1].text = "for" => Len(c) = 5
  <2>1. c[1].text = "for" => BuiltinPlan(c) = ForPlan(c)
    BY PlansOfNames
  <2> QED
    BY <1>1, <2>1 DEF ForPlan
<1>4. c[1].text = "proc" => Len(c) = 4
  <2>1. c[1].text = "proc" => BuiltinPlan(c) = ProcPlan(c)
    BY PlansOfNames
  <2> QED
    BY <1>1, <2>1 DEF ProcPlan
<1>5. c[1].text \in {"set", "put", "puts"} => FlatFits(c)
  <2>1. c[1].text \in {"set", "put", "puts"} => c[1].text \in FlatCommands
    BY DEF FlatCommands
  <2>2. c[1].text \in FlatCommands => BuiltinPlan(c) = Unless(FlatFits(c))
    BY PlansOfNames
  <2>3. Unless(FlatFits(c)) # <<Fail>> => FlatFits(c)
    BY DEF Unless
  <2>4. BuiltinPlan(c) # <<Fail>>
    BY FailDoesNotSucceed
  <2> QED
    BY <2>1, <2>2, <2>3, <2>4
<1>6. c[1].text \in {"set", "put", "puts"} => ValueArity(c[1].text, Len(c))
  <2> SUFFICES ASSUME c[1].text \in {"set", "put", "puts"} PROVE ValueArity(c[1].text, Len(c))
    OBVIOUS
  <2> DEFINE name == c[1].text
             k == Len(c)
  <2>1. ~ ControlArity(name, k) /\ ~ ListArity(name, k) /\ ~ ScopeArity(name, k)
    BY DEF ControlArity, ListArity, ScopeArity
  <2>2. ~ ShellArity(name, k) /\ ~ EventArity(name, k) /\ ~ ChannelArity(name, k)
    BY DEF ShellArity, EventArity, ChannelArity
  <2>3. ~ RegexpFits(c)
    BY DEF RegexpFits
  <2>4. name \notin {"subst", "upvar", "uplevel", "after", "return", "variable", "source", "throw"}
    OBVIOUS
  <2> QED
    BY <1>5, <2>1, <2>2, <2>3, <2>4, Zenon DEF FlatFits
<1> QED
  BY <1>2, <1>3, <1>4, <1>6 DEF ValueArity

\* Every command with a validator is known to the executor.
LEMMA BuiltinsAreExecuted == Builtins \subseteq Dispatched \union ExecutedAsNothing
<1>1. BodyCommands \subseteq Dispatched \union ExecutedAsNothing
  BY DEF BodyCommands, Dispatched, ExecutedAsNothing
<1>2. Ensembles \subseteq Dispatched \union ExecutedAsNothing
  BY DEF Ensembles, Dispatched, ExecutedAsNothing
<1>3. FlatCommands \subseteq Dispatched \union ExecutedAsNothing
  BY DEF FlatCommands, Dispatched, ExecutedAsNothing
<1> QED
  BY <1>1, <1>2, <1>3 DEF Builtins

\* What is known of a command without anything dynamic when it is executed.
LEMMA StaticCommand ==
  ASSUME IInv, WorkInv, phase = "running", pc <= Len(Program), ~ Dynamic(Words)
  PROVE  /\ Evaluates(<<Words[1]>>) /\ Evaluates(Words) /\ LiteralName(Words[1])
         /\ Names # <<>> /\ Names[1] = Words[1].text
         /\ Len(ValuesOf(Words)) = Len(Words)
         /\ Words[1].text \in Builtins \union DOMAIN procs
         /\ Words[1].text \in Builtins => \E D : Succeeds(BuiltinPlan(Words), D)
<1>1. Words \in Command
  BY CommandIsSound
<1>2. PICK D \in SUBSET visited : SoundCommand(Words, D, DOMAIN procs)
  BY CommandIsSound
<1>3. /\ Evaluates(<<Words[1]>>) /\ Evaluates(Words) /\ LiteralName(Words[1])
      /\ Names = <<Words[1].text>>
  BY <1>1, StaticName DEF Names
<1>4. Names # <<>> /\ Names[1] = Words[1].text
  BY <1>3
<1>5. Len(ValuesOf(Words)) = Len(Words)
  BY <1>1, StaticValues
<1>6. Words[1].text \in Builtins \union DOMAIN procs
  <2>1. Words[1].text \in KnownUndeclared \union DOMAIN procs
    BY <1>2, <1>3 DEF SoundCommand, SoundCall, KnownCall
  <2>2. Words[1].text \notin ValidationOnly \union TkPaths \union {"cmdsubst"}
    BY DEF Dynamic
  <2> QED
    BY <2>1, <2>2 DEF KnownUndeclared
<1>7. Words[1].text \in Builtins => Succeeds(BuiltinPlan(Words), D)
  BY <1>2, <1>3 DEF SoundCommand, SoundCall
<1> QED
  BY <1>3, <1>4, <1>5, <1>6, <1>7

\* A command that fails in its execution is one that may.
LEMMA FailuresAreExpected ==
  ASSUME IInv, WorkInv, phase = "running", pc <= Len(Program), ~ MayFail
  PROVE  /\ ~ WordsFail
         /\ ExecuteSet => Continue
         /\ ExecutePut => Continue
         /\ ExecuteCounted => Continue
         /\ ExecuteOther => Continue
<1> DEFINE name == Words[1].text
           k == Len(Words)
<1>1. ~ Dynamic(Words) /\ ~ (name = "puts" /\ k > 2)
  BY DEF MayFail
<1>2. /\ Evaluates(<<Words[1]>>) /\ Evaluates(Words)
      /\ Names # <<>> /\ Names[1] = name
      /\ Len(ValuesOf(Words)) = k
      /\ name \in Builtins \union DOMAIN procs
      /\ name \in Builtins => \E D : Succeeds(BuiltinPlan(Words), D)
  BY <1>1, StaticCommand
<1>3. ~ WordsFail
  BY <1>2 DEF WordsFail
<1>4. {"set", "put", "puts", "while", "for", "proc"} \subseteq Builtins
  BY DEF Builtins, BodyCommands, FlatCommands
<1>5. name \in {"set", "put", "puts", "while", "for", "proc"} =>
        /\ name = "while" => k = 3
        /\ name = "for" => k = 5
        /\ name = "proc" => k = 4
        /\ name = "set" => k \in {2, 3}
        /\ name = "put" => k = 2
        /\ name = "puts" => k \in 2..4
  BY <1>2, <1>4, CountsAgree
<1>6. ASSUME ExecuteSet PROVE Continue
  <2>1. name = "set" /\ k \in {2, 3}
    BY <1>2, <1>5, <1>6 DEF ExecuteSet, Called
  <2> QED
    BY <1>2, <1>6, <2>1 DEF ExecuteSet
<1>7. ASSUME ExecutePut PROVE Continue
  <2>1. name \in {"put", "puts"}
    BY <1>2, <1>7 DEF ExecutePut, Called
  <2>2. k = 2
    BY <1>1, <1>5, <2>1
  <2> QED
    BY <1>2, <1>7, <2>2 DEF ExecutePut
<1>8. ASSUME ExecuteCounted PROVE Continue
  <2>1. name \in {"while", "for", "proc"}
    BY <1>2, <1>8 DEF ExecuteCounted, Called, WordCount
  <2>2. WordCount[name] = IF name = "while" THEN 3 ELSE IF name = "for" THEN 5 ELSE 4
    BY <2>1 DEF WordCount
  <2>3. k = WordCount[Names[1]]
    BY <1>2, <1>5, <2>1, <2>2
  <2> QED
    BY <1>8, <2>3 DEF ExecuteCounted
<1>9. ASSUME ExecuteOther PROVE Continue
  <2>1. name \notin Dispatched \union ExecutedAsNothing
    BY <1>2, <1>9 DEF ExecuteOther
  <2>2. Names[1] \in DOMAIN procs
    BY <1>2, <2>1, BuiltinsAreExecuted
  <2> QED
    BY <1>9, <2>2 DEF ExecuteOther
<1> QED
  BY <1>3, <1>6, <1>7, <1>8, <1>9

\* The program ends while a command is executed.
LEMMA ExitIsExpected ==
  ASSUME NEW code, NEW e, Exit(code, e), code = "failure" /\ pc > 0 => MayFail
  PROVE  KindOK' /\ FailOK'
<1>1. phase' = "exited" /\ exitCode' = code /\ pc' = pc /\ source' = source
  BY DEF Exit
<1>2. MayFail' <=> MayFail
  <2>1. Words' = Words
    BY <1>1, SameCommand
  <2>2. (StableDefinitions' <=> StableDefinitions) /\ (Leftover' <=> Leftover)
    BY <1>1, ReadingStays, SameSource
  <2> QED
    BY <2>1, <2>2 DEF MayFail, Dynamic
<1>3. KindOK'
  BY <1>1 DEF KindOK
<1>4. FailOK'
  BY <1>1, <1>2 DEF FailOK
<1> QED
  BY <1>3, <1>4

\* Steps that do not end the program, or begin a second validation.
LEMMA RunningIsExpected ==
  ASSUME IInv, phase # "exited", exitCode' = exitCode, phase' # "rechecking"
  PROVE  KindOK' /\ FailOK'
<1>1. exitCode' # "failure"
  BY DEF IInv, PhasesOK
<1> QED
  BY <1>1 DEF KindOK, FailOK

\* Every step of the program
LEMMA NextIsExpected ==
  IInv /\ WorkInv /\ RecheckOK /\ KindOK /\ FailOK /\ [Next]_vars => KindOK' /\ FailOK'
<1> SUFFICES ASSUME IInv, WorkInv, RecheckOK, KindOK, FailOK, [Next]_vars PROVE KindOK' /\ FailOK'
  OBVIOUS
<1>1. CASE Read \/ CheckEnds
  <2>1. pc = 0 /\ phase # "exited"
    BY <1>1 DEF Read, CheckEnds, WorkInv, PlaceOK
  <2>2. (\E code, e : Exit(code, e)) \/ (exitCode' = exitCode /\ phase' # "rechecking")
    BY <1>1 DEF Read, CheckEnds
  <2>3. CASE \E code, e : Exit(code, e)
    <3>1. ~ (pc > 0)
      BY <2>1
    <3> QED
      BY <2>3, <3>1, ExitIsExpected
  <2> QED
    BY <2>1, <2>2, <2>3, RunningIsExpected
<1>2. CASE ValidatorRuns \/ UNCHANGED vars
  <2>1. UNCHANGED <<source, phase, pc, exitCode>>
    BY <1>2, StepsOfTheValidator
    DEF ValidatorRuns, mainVars, vars, validatorVars, ValidatorEffect
  <2>2. Words' = Words
    BY <2>1, SameCommand
  <2>3. (StableDefinitions' <=> StableDefinitions) /\ (Leftover' <=> Leftover)
    BY <2>1, ReadingStays, SameSource
  <2>4. (MayFail' <=> MayFail) /\ (Dynamic(Words)' <=> Dynamic(Words))
    BY <2>2, <2>3 DEF MayFail, Dynamic
  <2>5. KindOK'
    BY <2>1, <2>2, <2>4 DEF KindOK
  <2>6. FailOK'
    BY <2>1, <2>4 DEF FailOK
  <2> QED
    BY <2>5, <2>6
<1>3. CASE WordsFail \/ ExecuteSet \/ ExecutePut \/ ExecuteCounted \/ ExecuteOther
  <2>1. phase = "running" /\ pc <= Len(Program)
    BY <1>3 DEF WordsFail, ExecuteSet, ExecutePut, ExecuteCounted, ExecuteOther, Called
  <2>2. Continue \/ \E e : Exit("failure", e)
    BY <1>3 DEF WordsFail, ExecuteSet, ExecutePut, ExecuteCounted, ExecuteOther, ExitsWith
  <2>3. CASE Continue
    <3>1. exitCode' = exitCode /\ phase' = phase
      BY <2>3 DEF Continue
    <3> QED
      BY <2>1, <3>1, RunningIsExpected
  <2>4. CASE MayFail /\ \E e : Exit("failure", e)
    BY <2>4, ExitIsExpected
  <2>5. CASE ~ MayFail
    <3>1. Continue
      BY <1>3, <2>1, <2>5, FailuresAreExpected
    <3> QED
      BY <2>3, <3>1
  <2> QED
    BY <2>2, <2>3, <2>4, <2>5
<1>4. CASE SkipNameless \/ ExecuteNothing
  <2>1. phase = "running" /\ phase' = phase /\ exitCode' = exitCode
    BY <1>4 DEF SkipNameless, ExecuteNothing, Called, Continue
  <2> QED
    BY <2>1, RunningIsExpected
<1>5. CASE ExecuteIf
  <2>1. /\ phase = "running" /\ pc <= Len(Program) /\ Names[1] \in {"if"}
        /\ UNCHANGED <<source, pc, exitCode>>
    BY <1>5 DEF ExecuteIf, Called
  <2>2. Words' = Words
    BY <2>1, SameCommand
  <2>3. Dynamic(Words) \/ Words[1].text = "if"
    BY <2>1, StaticCommand
  <2>4. KindOK'
    BY <2>2, <2>3 DEF KindOK, Dynamic
  <2>5. FailOK'
    BY <2>1 DEF FailOK, IInv, PhasesOK
  <2> QED
    BY <2>4, <2>5
<1>6. CASE IfEnds
  <2>1. phase = "rechecking"
    BY <1>6 DEF IfEnds
  <2>2. CASE verdict = "refused"
    <3>1. Exit("failure", error)
      BY <1>6, <2>2 DEF IfEnds
    <3>2. ~ Settled
      BY <2>1, <2>2 DEF RecheckOK
    <3>3. Dynamic(Words) \/ Words[1].text = "if"
      BY <2>1 DEF KindOK
    <3>4. MayFail
      BY <3>2, <3>3 DEF Settled, MayFail, Keyword, Dynamic
    <3> QED
      BY <3>1, <3>4, ExitIsExpected
  <2>3. CASE verdict # "refused"
    <3>1. phase' = "running" /\ exitCode' = exitCode
      BY <1>6, <2>3 DEF IfEnds
    <3> QED
      BY <2>1, <3>1, RunningIsExpected
  <2> QED
    BY <2>2, <2>3
<1>7. CASE RunEnds
  BY <1>7, ExitIsExpected DEF RunEnds
<1> QED
  BY <1>1, <1>2, <1>3, <1>4, <1>5, <1>6, <1>7 DEF Next, Exited

(* After the whole script was accepted a command fails in its execution    *)
(* only for what the validator cannot know, or does not look at: whatever  *)
(* validator and executor both look at, they agree on.                     *)
THEOREM AcceptedCommandsFailDynamically == Spec => []ExecutionFailsDynamically
<1>1. Init => KindOK /\ FailOK
  BY DEF Init, KindOK, FailOK
<1>2. IInv /\ WorkInv /\ RecheckOK /\ KindOK /\ FailOK /\ [Next]_vars => KindOK' /\ FailOK'
  BY NextIsExpected
<1>3. FailOK => ExecutionFailsDynamically
  BY DEF FailOK, MayFail, ExecutionFailsDynamically
<1> QED
  BY <1>1, <1>2, <1>3, Invariance, WorkInvariance, RecheckInvariance, PTL DEF Spec

------------------------------------------------------------------------------
\* Only the pass that collects the definitions of a program changes the table.
LEMMA TableStepIs ==
  ASSUME AgendaOK, [Next]_vars
  PROVE  /\ source' = source
         /\ procs' = procs \/ \E t \in STRING : procs' = Updated(procs, ScriptOf(t).commands)
<1>1. CASE ValidatorRuns
  <2>1. CASE CollectProcedures
    <3>1. /\ source' = source /\ agenda # <<>>
          /\ procs' = Updated(procs, ScriptOf(Head(agenda).text).commands)
      BY <2>1 DEF CollectProcedures, Pending
    <3> QED
      BY <3>1, FirstTask
  <2>2. CASE SanitizeScript \/ ParseScript \/ ValidateWords \/ Dispatch \/ ReportSyntax
             \/ AttemptExpression \/ PassOtherwise \/ Accept
    BY <2>2 DEF SanitizeScript, ParseScript, ValidateWords, Dispatch, ReportSyntax,
                AttemptExpression, PassOtherwise, Accept
  <2> QED
    BY <1>1, <2>1, <2>2 DEF ValidatorRuns, Validate
<1>2. CASE Read \/ CheckEnds \/ IfEnds \/ WordsFail \/ RunEnds \/ ExecuteIf
  BY <1>2 DEF Read, CheckEnds, IfEnds, WordsFail, RunEnds, ExecuteIf, Exit, ExitsWith,
                validatorVars
<1>3. CASE SkipNameless \/ ExecuteSet \/ ExecutePut \/ ExecuteCounted \/ ExecuteNothing \/ ExecuteOther
  <2>1. Continue \/ \E e : ExitsWith(e)
    BY <1>3 DEF SkipNameless, ExecuteSet, ExecutePut, ExecuteCounted, ExecuteNothing, ExecuteOther
  <2> QED
    BY <2>1 DEF Continue, ExitsWith, Exit, validatorVars
<1>4. CASE UNCHANGED vars
  BY <1>4 DEF vars, validatorVars
<1> QED
  BY <1>1, <1>2, <1>3, <1>4 DEF Next, Exited

\* Once a procedure is in the table it stays, and so does its signature, unless the
\* definitions of the script contradict each other.
THEOREM ProceduresAreKept == Spec => ProceduresStay
<1>1. ASSUME IInv, WorkInv, [Next]_vars, NEW n \in DOMAIN procs
      PROVE  n \in DOMAIN procs' /\ (StableDefinitions => procs'[n] = procs[n])
  <2>1. SourceOK /\ TableOK /\ AgendaOK
    BY <1>1 DEF IInv, WorkInv
  <2>2. /\ source' = source
        /\ procs' = procs \/ \E t \in STRING : procs' = Updated(procs, ScriptOf(t).commands)
    BY <1>1, <2>1, TableStepIs
  <2>3. n \in DOMAIN procs'
    BY <1>1, <2>1, <2>2, TableStays
  <2>4. ASSUME StableDefinitions, NEW t \in STRING, procs' = Updated(procs, ScriptOf(t).commands)
        PROVE  procs'[n] = procs[n]
    <3>1. \/ procs'[n] = procs[n]
          \/ \E d \in Definitions : d[2].text = n /\ procs'[n] = SignatureOf(d[3].text)
      BY <2>1, <2>3, <2>4, UpdatedIs
    <3>2. PICK c \in Definitions : c[2].text = n /\ procs[n] = SignatureOf(c[3].text)
      BY <1>1, <2>1 DEF TableOK
    <3> QED
      BY <2>4, <3>1, <3>2 DEF StableDefinitions
  <2> QED
    BY <2>2, <2>3, <2>4
<1>2. IInv /\ WorkInv /\ [Next]_vars =>
        [\A n \in DOMAIN procs : /\ n \in DOMAIN procs'
                                 /\ StableDefinitions => procs'[n] = procs[n]]_vars
  BY <1>1
<1> QED
  BY <1>2, Invariance, WorkInvariance, PTL DEF Spec, ProceduresStay

==============================================================================
