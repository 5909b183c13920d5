----------------------------- MODULE Expressions -----------------------------
(***************************************************************************)
(* The expression validator (expr.c): a recursive descent over the         *)
(* characters of an expression, with a C function for each level of        *)
(* precedence.  It builds nothing: it accepts or refuses, and gives the    *)
(* scripts in brackets back to the validator.                              *)
(*                                                                         *)
(* "stack" holds the calls that wait for an operand, the outermost first.  *)
(* Every call of expr_parse_expression enters all levels.                  *)
(***************************************************************************)
EXTENDS ExprTokens

CONSTANT Texts   \* the expressions

ASSUME TextsAssumption == Texts \subseteq Seq(1..255)

VARIABLES
  text,       \* the expression
  index,      \* the next character to read
  stack,      \* the calls in progress
  mode,       \* what is read next, or the outcome
  validated   \* the brackets given to the validator, by their position

vars == <<text, index, stack, mode, validated>>

\* The binary levels, the outermost first, and the whole descent.
Levels == <<"logical_or", "logical_and", "bitwise_or", "bitwise_xor", "bitwise_and",
            "equality", "relational", "shift", "additive", "multiplicative", "power">>
Expression == <<"ternary">> \o Levels

Frames ==
  {"ternary", "then", "else", "logical_or", "logical_and", "bitwise_or", "bitwise_xor",
   "bitwise_and", "equality", "relational", "shift", "additive", "multiplicative",
   "power", "power_rest", "unary", "paren", "call"}

\* The calls a level makes for its operand: all deeper levels.
Below(level) ==
  SubSeq(Levels, 1 + (CHOOSE n \in 1..Len(Levels) : Levels[n] = level), Len(Levels))

------------------------------------------------------------------------------
\* Every function skips blanks before it looks at a character.
Here == SkipBlanks(text, index)
At(class) == Has(text, Here, class)

Init ==
  /\ text \in Texts
  /\ index = 1
  /\ stack = Expression
  /\ mode = "operand"
  /\ validated = {}

GoOn(position, newStack, newMode) ==
  /\ index' = position
  /\ stack' = newStack
  /\ mode' = newMode
  /\ UNCHANGED text

\* A literal with this end was read; 0 is a syntax error.
Literal(end) ==
  /\ IF end = 0 THEN GoOn(Here, stack, "refused") ELSE GoOn(end, stack, "after")
  /\ UNCHANGED validated

------------------------------------------------------------------------------
\* A mutant of Unary: the operator is not stepped over.
UnaryInPlace ==
  /\ mode = "operand"
  /\ At(UnaryOperators)
  /\ GoOn(Here, Append(stack, "unary"), "operand")
  /\ UNCHANGED validated

Unary ==
  /\ mode = "operand"
  /\ At(UnaryOperators)
  /\ GoOn(Here + 1, Append(stack, "unary"), "operand")
  /\ UNCHANGED validated

Parenthesis ==
  /\ mode = "operand"
  /\ At({OpenParen})
  /\ GoOn(Here + 1, Append(stack, "paren") \o Expression, "operand")
  /\ UNCHANGED validated

\* 0x, 0b and 0o may be continued by a substitution.
Prefixed == /\ At({Zero})
            /\ Here + 2 <= Len(text)
            /\ PrefixDigits(text[Here + 1]) # {}
            /\ text[Here + 2] \in {Dollar, OpenBracket}
OperandAt == IF Prefixed THEN Here + 2 ELSE Here
Starts(class) == Has(text, OperandAt, class)

Variable ==
  /\ mode = "operand"
  /\ Starts({Dollar})
  /\ Literal(VariableEnd(text, OperandAt))

Braced ==
  /\ mode = "operand"
  /\ At({OpenBrace})
  /\ Literal(NestedEnd(text, Here + 1, OpenBrace, CloseBrace))

Number ==
  /\ mode = "operand"
  /\ ~Prefixed
  /\ At(Digits) \/ (At({Dot}) /\ Has(text, Here + 1, Digits))
  /\ Literal(NumberEnd(text, Here))

\* A mutant of Bracket: behind a prefix the script is not validated.
BracketPrefixUnchecked ==
  /\ mode = "operand"
  /\ Starts({OpenBracket})
  /\ LET end == BracketEnd(text, OperandAt + 1)
     IN \/ end = 0 /\ Literal(0)
        \/ /\ end # 0
           /\ validated' = IF Prefixed THEN validated ELSE validated \union {OperandAt}
           /\ \/ GoOn(end, stack, "after")
              \/ ~Prefixed /\ GoOn(Here, stack, "nested")

\* The script in the brackets is validated, with either outcome.
Bracket ==
  /\ mode = "operand"
  /\ Starts({OpenBracket})
  /\ LET end == BracketEnd(text, OperandAt + 1)
     IN \/ end = 0 /\ Literal(0)
        \/ /\ end # 0
           /\ validated' = validated \union {OperandAt}
           /\ \/ GoOn(end, stack, "after")
              \/ GoOn(Here, stack, "nested")

Quoted ==
  /\ mode = "operand"
  /\ At({Quote})
  /\ LET end == QuotedEnd(text, Here + 1)
         brackets == QuotedBrackets(text, Here + 1, end - 2)
     IN \/ end = 0 /\ Literal(0)
        \/ /\ end # 0
           /\ validated' = validated \union brackets.starts
           /\ \/ brackets.closed /\ GoOn(end, stack, "after")
              \/ (~brackets.closed \/ brackets.starts # {}) /\ GoOn(Here, stack, "nested")

\* A name: a call if a parenthesis follows, and else a constant.
NameEnd == RunEnd(text, Here, NameChars)
Calls == Has(text, SkipBlanks(text, NameEnd), {OpenParen})

Constant ==
  /\ mode = "operand"
  /\ At(NameStart)
  /\ ~Calls
  /\ Literal(IF IsConstant(SubSeq(text, Here, NameEnd - 1)) THEN NameEnd ELSE 0)

Call ==
  /\ mode = "operand"
  /\ At(NameStart)
  /\ Calls
  /\ LET arguments == SkipBlanks(text, SkipBlanks(text, NameEnd) + 1)
     IN IF Has(text, arguments, {CloseParen})
        THEN GoOn(arguments + 1, stack, "after")
        ELSE GoOn(arguments, Append(stack, "call") \o Expression, "operand")
  /\ UNCHANGED validated

\* No operand can start here.
NoOperand ==
  /\ mode = "operand"
  /\ ~At(UnaryOperators \union {OpenParen, Dollar, OpenBracket, Quote, OpenBrace}
         \union Digits \union NameStart)
  /\ ~(At({Dot}) /\ Has(text, Here + 1, Digits))
  /\ Literal(0)

------------------------------------------------------------------------------
\* Behind an operand the calls return, until one goes on: a level that finds
\* one of its operators, or a call that waits for a certain character.
GoesOn(frame) ==
  CASE frame = "ternary" -> At({Question})
    [] frame \in {"then", "paren", "call"} -> TRUE
    [] frame \in {"else", "unary", "power_rest"} -> FALSE
    [] OTHER -> \E k \in 1..Len(Operators[frame]) : OpMatches(text, Here, Operators[frame][k])

\* Call n of the stack is such a one, and all those in it return.
Resumes(n, frame) ==
  /\ stack[n] = frame
  /\ GoesOn(frame)
  /\ \A m \in (n + 1)..Len(stack) : ~GoesOn(stack[m])

Around(n) == SubSeq(stack, 1, n - 1)

Operator(level, n) ==
  /\ mode = "after"
  /\ Resumes(n, level)
  /\ \E k \in 1..Len(Operators[level]) :
        /\ FirstMatches(text, Here, level, k)
        /\ GoOn(Here + Len(Operators[level][k].spelling),
                Around(n) \o IF level = "power" THEN <<"power_rest", "power">>
                             ELSE <<level>> \o Below(level),
                "operand")
  /\ UNCHANGED validated

Condition(n) ==
  /\ mode = "after"
  /\ Resumes(n, "ternary")
  /\ GoOn(Here + 1, Append(Around(n), "then") \o Expression, "operand")
  /\ UNCHANGED validated

Otherwise(n) ==
  /\ mode = "after"
  /\ At({Colon})
  /\ Resumes(n, "then")
  /\ GoOn(Here + 1, Append(Around(n), "else") \o Expression, "operand")
  /\ UNCHANGED validated

\* A mutant of CloseParenthesis: the argument loop looks at it again.
CloseParenthesisAgain(n) ==
  /\ mode = "after"
  /\ At({CloseParen})
  /\ Resumes(n, "paren") \/ Resumes(n, "call")
  /\ GoOn(Here, stack, "after")
  /\ UNCHANGED validated

CloseParenthesis(n) ==
  /\ mode = "after"
  /\ At({CloseParen})
  /\ Resumes(n, "paren") \/ Resumes(n, "call")
  /\ GoOn(Here + 1, Around(n), "after")
  /\ UNCHANGED validated

Argument(n) ==
  /\ mode = "after"
  /\ At({Comma})
  /\ Resumes(n, "call")
  /\ GoOn(Here + 1, Append(Around(n), "call") \o Expression, "operand")
  /\ UNCHANGED validated

\* What the call waits for is not there.
Expected(n) ==
  /\ mode = "after"
  /\ \/ Resumes(n, "then") /\ ~At({Colon})
     \/ Resumes(n, "paren") /\ ~At({CloseParen})
     \/ Resumes(n, "call") /\ ~At({CloseParen, Comma})
  /\ GoOn(Here, stack, "refused")
  /\ UNCHANGED validated

\* validator_validate_expression_text: nothing may be left.
Ends ==
  /\ mode = "after"
  /\ \A n \in 1..Len(stack) : ~GoesOn(stack[n])
  /\ GoOn(Here, <<>>, IF Here > Len(text) THEN "accepted" ELSE "refused")
  /\ UNCHANGED validated

Decided == mode \in {"accepted", "refused", "nested"}

Done == Decided /\ UNCHANGED vars

Next ==
  \/ Unary
  \/ Parenthesis
  \/ Variable
  \/ Braced
  \/ Number
  \/ Bracket
  \/ Quoted
  \/ Constant
  \/ Call
  \/ NoOperand
  \/ \E n \in 1..Len(stack) :
       \/ \E k \in 1..Len(Levels) : Operator(Levels[k], n)
       \/ Condition(n)
       \/ Otherwise(n)
       \/ CloseParenthesis(n)
       \/ Argument(n)
       \/ Expected(n)
  \/ Ends
  \/ Done

Spec == Init /\ [][Next]_vars

\* One thread: the descent keeps running until the expression is decided.
FairSpec == Spec /\ WF_vars(Next)

==============================================================================
