---------------------------- MODULE CommandPlans ----------------------------
(***************************************************************************)
(* What the validator does with one command, as a plan: the tasks it will  *)
(* carry out in this order unless one of them fails.                       *)
(*                                                                         *)
(*   Script(t)       validate the text t as a nested script                *)
(*   Fail            report a syntax error                                 *)
(*   Attempt(w)      validate the word w as an expression; a failure is    *)
(*                   forgotten                                             *)
(*   Otherwise(ws)   reached without a failure: nothing. A failure of the  *)
(*                   attempt before it is forgotten, and the words ws are  *)
(*                   validated as expressions instead.                     *)
(*                                                                         *)
(* An Otherwise stands behind the tasks of its own attempt only, so that a *)
(* failure of something else cannot reach it.                              *)
(*                                                                         *)
(* Validator adds the tasks parse, program, command and dispatch.          *)
(***************************************************************************)
EXTENDS CommandRules, FiniteSets

CONSTANTS
  Expression,  \* what expr.c finds in a text: the scripts in its [ ] that the
               \* parser meets, and the shape of the whole
  List         \* what the list parser finds in a text: items, and whether the
               \* text is well formed after them

Shapes == {"operand", "operator", "broken"}

ASSUME TextViews ==
  /\ Expression \in [DOMAIN Expression -> [subs : Seq(STRING), shape : Shapes]]
  /\ List \in [DOMAIN List -> [items : Seq(STRING), ok : BOOLEAN]]

\* A name that is no expression is a bareword, which expr.c refuses; a name is
\* a list of one item.
ExpressionOf(t) ==
  IF t \in DOMAIN Expression THEN Expression[t] ELSE [subs |-> <<>>, shape |-> "broken"]

ListOf(t) ==
  IF t \in DOMAIN List THEN List[t] ELSE [items |-> <<t>>, ok |-> TRUE]

------------------------------------------------------------------------------
Tasks == {"script", "parse", "program", "command", "dispatch", "fail", "attempt",
          "otherwise"}
Task == [do : Tasks, text : STRING, at : Nat, words : Seq(Word)]

MakeTask(do, t) == [do |-> do, text |-> t, at |-> 0, words |-> <<>>]

\* A fact of the language that the provers have no rule for.
ASSUME EmptyText == "" \in STRING

Script(t)     == MakeTask("script", t)
Fail          == MakeTask("fail", "")
Attempt(w)    == MakeTask("attempt", w.text)
Otherwise(ws) == [MakeTask("otherwise", "") EXCEPT !.words = ws]

Scripts(texts) == [i \in DOMAIN texts |-> Script(texts[i])]
Unless(condition) == IF condition THEN <<>> ELSE <<Fail>>

\* The sequences of a sequence, one after the other.
Concat(plans) ==
  LET upTo[i \in 0..Len(plans)] == IF i = 0 THEN <<>> ELSE upTo[i - 1] \o plans[i]
  IN upTo[Len(plans)]

------------------------------------------------------------------------------
\* validator_validate_expression_text: the scripts in [ ] are validated while
\* the expression is parsed.
ExpressionPlan(t) ==
  Scripts(ExpressionOf(t).subs) \o Unless(ExpressionOf(t).shape = "operand")

\* validate_script_word
BodyPlan(w) == IF LiteralScript(w) THEN <<Script(w.text)>> ELSE <<>>

\* A mutant of ExprWordPlan: the attempt is not a task of its own, and what
\* fails before it is forgotten with it.
ExprWordUnscoped(w) ==
  IF w.type \in {"var", "varBraced"} THEN <<>>
  ELSE IF ~ LiteralScript(w) THEN <<Fail>>
  ELSE ExpressionPlan(w.text)
         \o (IF w.type # "braced" /\ w.marks # {} THEN <<Otherwise(<<>>)>> ELSE <<>>)

\* validate_expr_word: what is not braced and has substitutions or escapes may
\* become valid at run time.
ExprWordPlan(w) ==
  IF w.type \in {"var", "varBraced"} THEN <<>>
  ELSE IF ~ LiteralScript(w) THEN <<Fail>>
  ELSE IF w.type # "braced" /\ w.marks # {} THEN <<Attempt(w)>>
  ELSE ExpressionPlan(w.text)

ExprWordPlans(words) == Concat([i \in DOMAIN words |-> ExprWordPlan(words[i])])

\* expr with several words: they are joined by blanks and parsed as one
\* expression, $ and ${ } put back. Shapes alternate in a valid one; the parser
\* stops at the word where they cease to, or inside it if it is broken.
JoinedPlan(words) ==
  LET shape(w) == IF w.type \in {"var", "varBraced"} THEN "operand"
                  ELSE ExpressionOf(w.text).shape
      fits(i) == shape(words[i]) = (IF i % 2 = 1 THEN "operand" ELSE "operator")
      met == {i \in DOMAIN words : /\ \A j \in 1..(i - 1) : fits(j)
                                   /\ fits(i) \/ shape(words[i]) = "broken"}
      subs(w) == IF w.type \in {"var", "varBraced"} THEN w.subs
                 ELSE ExpressionOf(w.text).subs
  IN Concat([i \in 1..Cardinality(met) |-> Scripts(subs(words[i]))])
       \o Unless(Len(words) % 2 = 1 /\ \A i \in DOMAIN words : fits(i))

ExprPlan(words) ==
  IF Len(words) < 2 THEN <<Fail>>
  ELSE IF Len(words) = 2 THEN ExprWordPlan(words[2])
  ELSE JoinedPlan(Tail(words)) \o <<Otherwise(Tail(words))>>

------------------------------------------------------------------------------
\* A mutant of IfPlan: an else body is not validated.
IfForgetsElse(words) ==
  LET n == Len(words)
      clause[i \in 2..(n + 1)] ==
        IF i > n THEN <<Fail>>
        ELSE LET b == IF i < n /\ Keyword(words[i + 1], "then") THEN i + 2 ELSE i + 1
             IN ExpressionPlan(words[i].text) \o
                IF b > n THEN <<Fail>>
                ELSE BodyPlan(words[b]) \o
                     IF b < n /\ Keyword(words[b + 1], "elseif") THEN clause[b + 2] ELSE <<>>
  IN IF n < 3 THEN <<Fail>> ELSE clause[2]

\* validator_validate_if_words: a condition of any type is an expression, and
\* only the body after a condition has to be a literal to be validated.
IfPlan(words) ==
  LET n == Len(words)
      final(e) == IF e > n THEN <<Fail>>
                  ELSE <<Script(words[e].text)>> \o Unless(e = n)
      clause[i \in 2..(n + 1)] ==
        IF i > n THEN <<Fail>>
        ELSE LET b == IF i < n /\ Keyword(words[i + 1], "then") THEN i + 2 ELSE i + 1
             IN ExpressionPlan(words[i].text) \o
                IF b > n THEN <<Fail>>
                ELSE BodyPlan(words[b]) \o
                     IF b = n THEN <<>>
                     ELSE IF Keyword(words[b + 1], "elseif") THEN clause[b + 2]
                     ELSE final(IF Keyword(words[b + 1], "else") THEN b + 2 ELSE b + 1)
  IN IF n < 3 THEN <<Fail>> ELSE clause[2]

WhilePlan(words) ==
  IF Len(words) # 3 THEN <<Fail>> ELSE ExprWordPlan(words[2]) \o BodyPlan(words[3])

ForPlan(words) ==
  IF Len(words) # 5 THEN <<Fail>>
  ELSE BodyPlan(words[2]) \o ExprWordPlan(words[3]) \o BodyPlan(words[4]) \o BodyPlan(words[5])

ProcPlan(words) ==
  IF Len(words) # 4 THEN <<Fail>> ELSE BodyPlan(words[4])

CatchPlan(words) ==
  IF Len(words) \notin {2, 3} THEN <<Fail>> ELSE BodyPlan(words[2])

\* validate_foreach_command: a literal list of variables has items.
ForeachPlan(words) ==
  LET n == Len(words)
      lists == {i \in 2..(n - 1) : i % 2 = 0}
      named(w) == LiteralScript(w) => ListOf(w.text).ok /\ ListOf(w.text).items # <<>>
  IN IF n < 4 \/ n % 2 # 0 THEN <<Fail>>
     ELSE Unless(\A i \in lists : named(words[i])) \o BodyPlan(words[n])

------------------------------------------------------------------------------
SwitchOptions == {"-exact", "-glob", "-nocase", "-regexp"}
SwitchVariables == {"-matchvar", "-indexvar"}

\* The options of switch from place i on: 0 if they are refused, else the place
\* after them. "--" ends them.
SwitchOperands(words) ==
  LET n == Len(words)
      after[i \in 2..(n + 2)] ==
        IF i > n \/ ~ LiteralName(words[i]) THEN i
        ELSE IF words[i].text = "--" THEN i + 1
        ELSE IF words[i].text \in SwitchOptions THEN after[i + 1]
        ELSE IF words[i].text \in SwitchVariables
             THEN IF i < n /\ LiteralName(words[i + 1]) THEN after[i + 2] ELSE 0
        ELSE IF Dashed(words[i]) THEN 0
        ELSE i
  IN IF n = 3 THEN 2 ELSE after[2]

\* A variable for the match needs -regexp among the options. The word after
\* such an option is its value, whatever it looks like.
SwitchNeedsRegexp(words, last) ==
  LET isOption[i \in 2..last] ==
        i = 2 \/ ~ (isOption[i - 1] /\ words[i - 1].text \in SwitchVariables)
      options == {words[i].text : i \in {j \in 2..last : isOption[j]}}
  IN options \intersect SwitchVariables # {} /\ "-regexp" \notin options

\* validate_switch_body_text
CasePlan(t) == IF t = "-" THEN <<>> ELSE <<Script(t)>>

\* validate_switch_braced_cases: patterns and bodies in one list
CaseListPlan(t) ==
  LET items == ListOf(t).items
      pairs == Len(items) \div 2
  IN Concat([i \in 1..pairs |-> CasePlan(items[2 * i])])
       \o Unless(/\ ListOf(t).ok
                 /\ items # <<>> /\ Len(items) % 2 = 0
                 /\ items[Len(items)] # "-")

\* Patterns and bodies as words
CaseWordsPlan(words) ==
  LET n == Len(words)
      falls(w) == Keyword(w, "-")
  IN IF n % 2 # 0 THEN <<Fail>>
     ELSE Concat([i \in 1..(n \div 2) |->
                   IF falls(words[2 * i]) THEN <<>> ELSE BodyPlan(words[2 * i])])
            \o Unless(~ falls(words[n]))

SwitchPlan(words) ==
  LET n == Len(words)
      from == SwitchOperands(words)
  IN IF from = 0 THEN <<Fail>>
     ELSE IF from > 2 /\ SwitchNeedsRegexp(words, from - 1) THEN <<Fail>>
     ELSE IF n - from < 1 THEN <<Fail>>
     ELSE IF n - from = 1
          THEN IF LiteralScript(words[n]) THEN CaseListPlan(words[n].text) ELSE <<>>
     ELSE CaseWordsPlan(SubSeq(words, from + 1, n))

\* try body, then trap and on clauses of four words, then finally as the last
TryPlan(words) ==
  LET n == Len(words)
      clause[i \in 3..(n + 4)] ==
        IF i > n THEN <<>>
        ELSE IF Keyword(words[i], "finally")
             THEN IF i = n THEN <<Fail>>
                  ELSE BodyPlan(words[i + 1]) \o Unless(i + 1 = n)
        ELSE IF Keyword(words[i], "trap") \/ Keyword(words[i], "on")
             THEN IF i + 3 > n THEN <<Fail>>
                  ELSE BodyPlan(words[i + 3]) \o clause[i + 4]
        ELSE <<Fail>>
  IN IF n < 2 THEN <<Fail>> ELSE BodyPlan(words[2]) \o clause[3]

------------------------------------------------------------------------------
BodyCommands == {"if", "while", "for", "proc", "expr", "foreach", "switch", "catch", "try"}

Builtins == BodyCommands \union FlatCommands \union Ensembles

\* Subcommands with a body
EnsemblePlan(words) ==
  IF ~ EnsembleFits(words) THEN <<Fail>>
  ELSE IF words[1].text = "dict" /\ Keyword(words[2], "for") THEN BodyPlan(words[5])
  ELSE IF words[1].text = "namespace"
            /\ (Keyword(words[2], "eval") \/ Keyword(words[2], "inscope"))
       THEN BodyPlan(words[4])
  ELSE <<>>

BuiltinPlan(words) ==
  LET name == words[1].text
  IN CASE name = "if"      -> IfPlan(words)
       [] name = "while"   -> WhilePlan(words)
       [] name = "for"     -> ForPlan(words)
       [] name = "proc"    -> ProcPlan(words)
       [] name = "expr"    -> ExprPlan(words)
       [] name = "foreach" -> ForeachPlan(words)
       [] name = "switch"  -> SwitchPlan(words)
       [] name = "catch"   -> CatchPlan(words)
       [] name = "try"     -> TryPlan(words)
       [] name \in Ensembles    -> EnsemblePlan(words)
       [] name \in FlatCommands -> Unless(FlatFits(words))

\* validate_proc_call
Fits(signature, count) ==
  /\ count >= signature.required
  /\ signature.variadic \/ count <= signature.max

\* The dispatch of validator_validate_command, after the substitutions of the
\* words. Procedures cannot hide built-in commands; widget paths and the
\* commands known to validation only are looked at last. cmdsubst stands where a
\* script in brackets has been cut out.
KnownUndeclared == {"cmdsubst"} \union Builtins \union TkPaths \union ValidationOnly

IsUnknown(words, procs) ==
  LiteralName(words[1]) /\ words[1].text \notin KnownUndeclared \union DOMAIN procs

CommandPlan(words, procs) ==
  LET name == words[1].text
  IN IF ~ LiteralName(words[1]) \/ name = "cmdsubst" THEN <<>>
     ELSE IF name \in Builtins THEN BuiltinPlan(words)
     ELSE IF name \in DOMAIN procs THEN Unless(Fits(procs[name], Len(words) - 1))
     ELSE <<>>

==============================================================================
