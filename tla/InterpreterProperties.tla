------------------------ MODULE InterpreterProperties ------------------------
(***************************************************************************)
(* What a run of tcl-int must satisfy.  The reference definitions here are *)
(* written from what a script is, not from how the validator walks it.     *)
(***************************************************************************)
EXTENDS Interpreter

Texts == DOMAIN source
Leftover == \E t \in Texts : ScriptOf(t).leftover

------------------------------------------------------------------------------
(* The types of the state. *)
TypeOK ==
  /\ source \in [DOMAIN source -> DOMAIN Parsed]
  /\ agenda \in Seq(Task)
  /\ procs \in [DOMAIN procs -> Signature]
  /\ error \in {"none", "syntax", "lexical", "unknown", "evaluation"} \X STRING
  /\ verdict \in {"busy", "accepted", "refused"}
  /\ visited \subseteq STRING
  /\ mode \in {"check", "run"}
  /\ phase \in {"reading", "checking", "running", "rechecking", "exited"}
  /\ pc \in 0..(Len(Program) + 1)
  /\ variables \in [DOMAIN variables -> STRING]
  /\ output \in Seq(STRING)
  /\ exitCode \in {"none", "success", "failure"}

(* main prints the error when the program fails: there is one to print,    *)
(* although it may have been cleared on the way and set again.             *)
FailureHasReason == verdict = "refused" \/ exitCode = "failure" => error # NoError

(* A script that is accepted leaves no error behind: whatever an attempt   *)
(* recorded is cleared when the attempt is given up. Only what the lexer   *)
(* itself recorded may stay.                                               *)
AcceptedIsClean ==
  verdict = "accepted" /\ exitCode # "failure" /\ ~ Leftover => error = NoError

------------------------------------------------------------------------------
\* The bodies of a command, told from its form.  An if has them everywhere but at
\* its keywords and behind elseif; a clause of try has four words, the body last.
IfKeywords == {"then", "elseif", "else"}

BodyPlaces(c) ==
  LET n == Len(c)
      name == c[1].text
      bodies(S) == {i \in S \intersect DOMAIN c : LiteralScript(c[i])}
  IN IF ~ LiteralName(c[1]) THEN {}
     ELSE CASE name = "while" -> bodies({3})
            [] name = "for" -> bodies({2, 4, 5})
            [] name = "proc" -> bodies({4})
            [] name = "catch" -> bodies({2})
            [] name = "foreach" -> bodies({n})
            [] name = "if" -> bodies({i \in 3..n : /\ c[i].text \notin IfKeywords
                                                   /\ ~ Keyword(c[i - 1], "elseif")})
            [] name = "try" -> bodies({i \in 2..n : i % 4 = 2 \/ (i % 4 = 0 /\ i = n)})
            [] name = "dict" /\ n > 1 /\ Keyword(c[2], "for") -> bodies({5})
            [] name = "namespace" /\ n > 1 /\ Keyword(c[2], "eval") -> bodies({4})
            [] OTHER -> {}

\* The scripts that a command contains as bodies, and all that have to be valid
\* with it.
Cases(c) ==
  IF Keyword(c[1], "switch") /\ Len(c) = 3 /\ LiteralScript(c[3])
  THEN {ListOf(c[3].text).items[i] :
          i \in {j \in DOMAIN ListOf(c[3].text).items : j % 2 = 0}} \ {"-"}
  ELSE {}

Bodies(c) == {c[i].text : i \in BodyPlaces(c)} \union Cases(c)

Inside(c) ==
  Bodies(c) \union UNION {{Substitutions(c[i])[j] : j \in DOMAIN Substitutions(c[i])} : i \in DOMAIN c}

ScriptsIn(t) ==
  (UNION {Inside(ScriptOf(t).commands[i]) : i \in DOMAIN ScriptOf(t).commands})
    \union (IF t = Top THEN {}
            ELSE {ScriptOf(t).subs[i] : i \in DOMAIN ScriptOf(t).subs})

\* All scripts at any depth: texts are nested at most as deep as there are texts.
AllScripts ==
  LET upTo[n \in 0..(Cardinality(Texts) + 1)] ==
        IF n = 0 THEN {Top} ELSE upTo[n - 1] \union UNION {ScriptsIn(t) : t \in upTo[n - 1]}
  IN upTo[Cardinality(Texts) + 1]

Checked == phase \in {"checking", "exited"} /\ pc = 0 /\ verdict = "accepted"

(* No body and no script in brackets of an accepted script is skipped, at  *)
(* whatever depth it stands (README: control and procedure bodies are      *)
(* validated recursively).                                                 *)
NoBodySkipped == Checked => AllScripts \ {Top} \subseteq visited

------------------------------------------------------------------------------
Commands(t) == {ScriptOf(t).commands[i] : i \in DOMAIN ScriptOf(t).commands}

\* The definitions of the script, at any depth.
Definitions == UNION {{c \in Commands(t) : Declares(c)} : t \in Texts}

\* No name is declared twice with different signatures, or hides a name that is
\* known without a declaration.
StableDefinitions ==
  \A c \in Definitions :
    /\ \A d \in Definitions :
         c[2].text = d[2].text => SignatureOf(c[3].text) = SignatureOf(d[3].text)
    /\ c[2].text \notin KnownUndeclared

(* Every literal command of an accepted script, at any depth, is known or  *)
(* declared, and if declarations do not contradict each other then every   *)
(* call fits the table as it is in the end. A failure that is forgotten    *)
(* must not take an unknown command or a bad call of something else along. *)
GoodCall(c) ==
  LiteralName(c[1]) =>
    /\ c[1].text \in KnownUndeclared \union DOMAIN procs
    /\ StableDefinitions /\ c[1].text \in DOMAIN procs =>
         Fits(procs[c[1].text], Len(c) - 1)

AcceptedCallsAreKnown ==
  Checked => \A t \in AllScripts : \A c \in Commands(t) : GoodCall(c)

(* A command that is reported as unknown is not one that the top level of  *)
(* the script declares, before or after the call.                          *)
DeclaredIsKnown ==
  \A c \in Commands(Top) :
    Declares(c) => ~ (verdict = "refused" /\ error = UnknownCommand(c[2].text))

(* An if that was accepted with the whole script is accepted again when it *)
(* is executed, unless declarations contradict each other: the table only  *)
(* grows. An error left by the lexer may change that. An if whose name is  *)
(* not literal is looked at for the first time here.                       *)
RecheckAgrees ==
  phase = "rechecking" /\ verdict = "refused" =>
    ~ StableDefinitions \/ Leftover \/ ~ Keyword(Words[1], "if")

(* A procedure is never forgotten, from the definition that brings it in   *)
(* to the end of the execution, and a later definition does not change     *)
(* its signature behind the calls that were accepted with the first one,   *)
(* unless the script contradicts itself.                                   *)
ProceduresStay ==
  [][\A n \in DOMAIN procs :
       /\ n \in DOMAIN procs'
       /\ StableDefinitions => procs'[n] = procs[n]]_vars

\* What the validator cannot or does not look at before a command is executed.
Dynamic(c) ==
  \/ ~ LiteralName(c[1]) \/ c[1].marks # {}
  \/ \E i \in DOMAIN c : Expands(c[i]) \/ c[i].refs # {}
  \/ c[1].text \in ValidationOnly \union TkPaths \union {"cmdsubst"}

(* After the whole script was accepted, a command fails only for what the  *)
(* validator cannot know, or because its name is known to the validator    *)
(* alone, or because it is a puts with a channel.                          *)
ExecutionFailsDynamically ==
  exitCode = "failure" /\ pc > 0 =>
    \/ Dynamic(Words)
    \/ Words[1].text = "puts" /\ Len(Words) > 2
    \/ Words[1].text = "if" /\ (~ StableDefinitions \/ Leftover)

(* No step of the validator, in either pass, prints or changes a variable, *)
(* and execution starts only after the whole script was accepted.          *)
Stage == CASE phase \in {"reading", "checking"} -> "validating"
           [] phase \in {"running", "rechecking"} -> "running"
           [] phase = "exited" -> "done"

Promise == INSTANCE TwoPass WITH
             stage <- Stage, printed <- Len(output), bound <- DOMAIN variables,
             code <- exitCode

ImplementsTwoPass == Promise!TwoPassSpec

(* The program ends, whatever the script: no body makes it loop. The code  *)
(* is sequential and waits for nothing once the script is read.            *)
Terminates == <>(phase = "exited")

------------------------------------------------------------------------------
(* README: unknown literal command names are rejected unless they refer to *)
(* a declared procedure. Wherever the procedure is declared.               *)
DeclaredAnywhereIsKnown ==
  \A c \in Definitions :
    ~ (verdict = "refused" /\ error = UnknownCommand(c[2].text))

==============================================================================
