# A verification of tcl-int

tcl-int reads a Tcl script, recognises it, and executes a small part of it. It
is a sequential C program (flex, bison, one thread, no signals, no persistent
state). What makes it hard is not concurrency: it is that the same text is
looked at several times, by scanners and rules written more than once, with an
error record and a procedure table shared by all levels of a recursion.

Paths below are relative to the repository's `src/` directory unless they start
with `tests/` or are `README.md`, the repository's own.

## Inventory

| Component | State | Operations | Who calls it |
| --- | --- | --- | --- |
| Main program (`core/main.c`) | mode, script, error, exit code | parse arguments, read, parse, validate or execute, print the error | the shell |
| Script preprocessing and parser driver (`core/script_parser.c`) | the text being parsed | join continued lines, append a line end, run the parser | main for the script, the validator for every nested one |
| Lexer (`grammar/lexer.l`) | start condition, braced-word buffer, position (all static) | one rule per token; `scan_unquoted_word` | the parser |
| Parser (`grammar/parser.y`) | the program under construction | commands, words, `{*}` | the parser driver |
| Syntax tree (`core/ast.c`) | lists of commands and words | create, append, free | parser, validator, executor |
| Error record (`core/errors.c`) | the first error since it was cleared | set, clear | everyone, by pointer |
| Validator (`runtime/validator/`) | procedure table | collect procedures, validate script, command, word, expression | main in check mode, the executor in run mode |
| Expression validator (`validator/expr.c`) | position in the text | recursive descent | the validator; calls it back for `[ ]` |
| Executor (`runtime/executor.c`) | variables, output | evaluate words, execute top-level commands | main in run mode |
| Variable store (`runtime/variables.c`, `core/list/list.c`) | linked list with head and tail | create, set, get | the executor |

How they interact: `main` parses the script once. In check mode it hands the
commands to the validator and ends. In run mode `executor_execute` hands *all*
commands to a validator first and then executes them one by one; `if` calls that
same validator again, and a call of an unknown name asks it for the procedure.
The validator parses every body and every `[ ]` again, by calling the parser
driver on a piece of text, and all levels share one `TclError` and one table.

### What is hard, and what would be correct

* **Scanners that must agree.** The lexer decides where an unquoted word with
  `[ ]` ends; the validator looks for the same brackets in that word later.
  They must see the same substitutions.
* **Order of validation.** Procedures of a script are collected before its
  commands are validated, but a nested script's `[ ]` are validated before that.
  A declared procedure must not be unknown; every body must be looked at.
* **Forgiven failures.** Some expressions may fail; the error is then cleared and
  the validation goes on. Nothing else may be forgiven, and no stale error may
  stay.
* **Two passes.** Nothing may happen before the whole script was accepted, and
  what was accepted should not fail later for a reason that was known.
* **A hand-kept tail pointer.** The variable list appends without searching again.
* **Static state of the lexer.** The start condition, the buffer of a braced word and the
  list of commands are static, and a parse may be given up anywhere. A later parse must
  not notice. The error record is shared too and is not reset between parses. Whether `#` is a comment hangs on the start condition alone.
* **Positions.** Lines and columns are advanced in three different ways in the lexer.
* **Two list parsers.** The validator splits variable lists, `switch` cases and arguments of
  procedures, the executor what `{*}` expands. No text goes to both, but both write down the
  same rules; one decodes escapes and one drops backslashes, both into buffers of fixed size.
* **Levels of precedence.** Twelve functions read operators that begin alike; every
  operand may hide a script in brackets.
* **Names that are read back.** `set` stores under an ordinary word, a reference is cut
  into base and index by another scanner, which calls the first one for the index.

`PROJECT.json` lists each of these at its line, with the properties about it.

## Modules

| Module | Models | Extends / instantiates |
| --- | --- | --- |
| `VarStore` | what `variables.h` promises: a partial map | |
| `Variables` | `variables.c` over `list.c`, one loop turn per step | instantiates `VarStore` (refinement) |
| `BracketState` | the two scanners' states for `[ ]`, one character at a time | |
| `Brackets` | one word: `scan_unquoted_word`, then the walk of `text.c` | `BracketState` |
| `Scanning` | searching a text: first position of a kind, runs of a class | |
| `Characters` | the classes of characters that `lexer.l` tells apart | |
| `LexerRules` | `preprocess_script`, and the patterns of `lexer.l` | `BracketState`, `Scanning` |
| `Scripts` | the lexer's actions, the grammar and `parse_script`, one token per step | `LexerRules` |
| `Sanitizer` | `validator_sanitize_script_text` for one script | `LexerRules` |
| `ScriptProperties` | the properties of parses | `Scripts`, `Sanitizer` |
| `Words` | parsed words and the predicates of `common.c` | |
| `CommandRules` | word counts and options of all commands in `command.c` | `Words` |
| `CommandPlans` | what is validated for a command, in order | `CommandRules` |
| `Validator` | the recursion of the validator | `CommandPlans` |
| `TwoPass` | what a run promises: no effect before acceptance | |
| `Interpreter` | `main` and `executor.c` | `Validator` |
| `InterpreterProperties` | the properties of a run | `Interpreter`, instantiates `TwoPass` |
| `ExprTokens` | the operands, operators and blanks of an expression | `Scanning` |
| `Expressions` | the recursive descent of `expr.c`, one operand or operator per step | `ExprTokens` |
| `ExprGrammar` | what an expression is, as a grammar without levels | `ExprTokens` |
| `ExprProperties` | the properties of the descent | `Expressions`, `ExprGrammar` |
| `Escapes` | backslash sequences and UTF-8 encoding of `executor.c` | |
| `Lists` | the list parsers of `executor.c` and of `common.c`, one character per step | `Escapes` |
| `Substitution` | `evaluate_word` and `resolve_string_text`, one character per step | `Escapes`, `Scanning` |
| `SubstitutionProperties` | the properties of words' values | `Substitution` |
| `Spelling` | what a word means: the rules by which a text spells its bytes, without calls and steps | `SubstitutionProperties` |
| `*_proofs` | theorems | the module of their name or its properties |
| `Texts_proofs` | lemmas about positions in a text, used by the other proofs | `Escapes`, `Scanning` |
| `MC*` | instances for TLC | |

`BracketState`, `Scanning`, `Escapes`, `Words` and `ExprTokens` have no variables: they are
the operators that several components share, as the C functions are shared.

### Variables

Node `i` is the i-th node allocated, `head` and `tail` are the two pointers, and
`cursor` is `current_node` of the call in progress. `Invoke` enters
`variables_set` or `variables_get`, `Advance` is one turn of the loop, and every
way out of the two functions is an action (`Replace`, `AppendFirst`,
`AppendLast`, `GetFound`, `GetMissing`). `SetOutOfMemory` stands for both
allocations of a set that may fail; a failure in `new_list` ends the process and
has no successor. The store is mapped to `VarStore`, whose calls are atomic.

### Brackets

A character is one of the eight classes the scanners tell apart. The lexer
builds `word` character by character; `trail` remembers its state (bracket and
brace depth, quote, escape) before each. The rules that start a word by
themselves (`{*}`, `$name`, braced and quoted words) are not part of it. At the
end of the input the last character is the line end that `preprocess_script`
appends. The validator then walks over the word: `WalkText` is the loop of
`validator_validate_command_substitutions_in_text`, `WalkMatch` the one of
`validator_find_matching_bracket`. The text between brackets is accepted or
rejected by a free choice, except that it cannot be accepted when its first
word is a token that the lexer refuses.

### Validator

Texts are names. What the parsers find in a text is given by constants:
`Parsed` (commands, bracketed scripts, outcome of the grammar), `Expression`
(bracketed scripts and shape), `List` (items) and `ArgumentList`. A text without
an entry is a plain word: as a script a call of that name, as a list one item, as
an expression a bareword and so broken.

The C recursion is an agenda of tasks, the next one first. A call that returns 0
makes its callers return 0; here a failure drops tasks up to the next
`otherwise`, which stands where `command.c` calls `tcl_error_clear`, or all of
them. The shared error keeps the first one recorded (`Recorded`), as
`tcl_error_set` does.

| Action | Code |
| --- | --- |
| `SanitizeScript` | `validator_sanitize_script_text` |
| `ParseScript` | the rest of `validator_validate_script_text`, with `parse_script` |
| `CollectProcedures` | `validator_validate_program`, `validator_collect_proc_definitions` |
| `ValidateWords` | `validate_words_substitutions` |
| `Dispatch` | the rest of `validator_validate_command` (`CommandPlan`) |
| `AttemptExpression`, `PassOtherwise` | `validate_expr_word` and `expr` with several words |
| `ReportSyntax` | the returns with a syntax error |
| `Accept` | the outermost return of 1 |

An error of a command's words is `syntax`, whatever the wording; unknown
subcommands, semantic errors in the code, count as `syntax` too. `unknown` keeps
the name of the command.

### Interpreter

`Read` parses the script, `ValidatorRuns` lets the validator do a step,
`CheckEnds` takes its result to `main` or to `executor_execute`, and one action
per group of `execute_command`'s branches executes the command at `pc`.
`ExecuteIf` starts the validator again (phase `rechecking`), `IfEnds` takes its
result. A value changed by substitutions or escapes is one constant, `Opaque`.
Its assumption says that such a value names no command. Most commands do nothing
when executed, as in the code.

### Scripts

Characters are the sixteen or so classes that the rules of `lexer.l` tell apart.
`ParseScript` is the head of `parse_script`: it resets what `lexer_reset_state` and
`parser_begin` reset and prepares the text. The error record is the caller's and is not
reset: what a parse that succeeded has left there, the error of an open bracket, is met by the
next (`left` remembers it). Then every pattern of the lexer is an action,
enabled where flex would choose it: the longest match, and among equals the first rule. The
grammar only collects words to commands, so bison's reductions belong to the action of their
token; a token that the grammar refuses ends the parse. `EndOfInput` and `Refuse` end a parse,
`ReturnProgram` gives its result to the caller, who takes it for a failure if there are no
commands and there is an error (`TakenForFailure`, mode `refused`); after that a session only goes on
if the failure is forgiven (`Forgive`: the calls of `tcl_error_clear` in `command.c`). An allocation may fail in every word (`faulted` remembers that it did). A
*session* is a sequence of scripts that are parsed one after the other, with the static
variables of lexer and grammar carried over. `results` collects what `parse_script` returned.

### Sanitizer

An operator, because the function is one loop over a text: it returns which brackets are
validated, and whether all of them are closed. The loop keeps braces, quotes and escapes in
the way of its own code, which is not the lexer's.

### Expressions

`stack` holds the C functions that wait for an operand, by the names of their levels:
`expr_parse_expression` enters all twelve. A step reads one operand, one prefix, one operator
or one closing character and then returns through all levels that see no operator of theirs
(`Resumes`). Literals, variables, quoted and braced texts are read to their end in one step.
A script in brackets goes back to the validator; the step that returns from it is accepted or
refused by a free choice.

### Lists

One text is split by the executor's parser and then by the validator's. `BeginItem` allocates
the buffer in the size that the code computes and it never grows, `capacity` is that size.
Copying goes on character by character; an escape is read digit by digit in the executor.

### Substitution

`frames` is the stack of calls of `resolve_string_text`: text, position, buffer, and the base
name that waits for the index. One step copies a character, reads a digit of an escape, or
takes a whole reference: braced, named, or the beginning of an element, which pushes a frame.
A lookup is a lookup in a map (`Variables` shows that the list is one). Two words are evaluated:
the first names the variable that `set` stores, the second reads. A backslash never stands
before a line end here (`IsJoined`), because `preprocess_script` has joined those lines (all
but one at the very end of the script, behind a word that is never closed);
`OutOfMemory` may end a word anywhere.

## What is checked

All runs finish within two minutes.

| Run | Question | States | Result |
| --- | --- | --- | --- |
| `variables` | does the list behave as a map, for every sequence of calls? | 5 886 | holds |
| `brackets` | do the two scanners agree? | 128 456 | holds without quotes |
| `brackets_open` | is every open bracket reported? | | **no** |
| `scripts` | does a script parse to all its commands, whatever was parsed before? | 572 428 | holds |
| `empty_script` | is an empty script accepted, whatever was parsed before? | | **no** |
| `nested_comment` | is a comment in a nested script skipped? | | **no** |
| `expressions` | does the descent accept the expressions, and check all scripts in them? | 29 326 | holds |
| `index_unchecked` | is a script in the index of a variable checked? | | **no** |
| `lists` | do the two list parsers agree and stay in their buffers? | 563 472 | holds |
| `strings` | does a reference read what `set` stored under that name? | 88 572 | holds |
| `interpreter` | properties of a whole run, below | 555 525 | holds |
| `late_procedure` | is a declared procedure known wherever it is declared? | | **no** |

Properties of `scripts`:

* `StartAgrees`: the lexer expects the first word of a command exactly when the grammar
  has no word of it.
* `FailureIsReported`: a parse that fails, or is taken for one that fails, has an error; one that
  goes on, and what is left between two parses, has none, except for an open bracket.
* `ParsesAlike`: a script parses to the same commands after any other script, also after one
  that was given up within braces or for lack of memory. The error is the same too if the record
  held the same error before; that it is not reset is what `empty_script` is about.
* `NothingIsLost`: what is in no word of the parsed commands is a blank, a separator or a
  comment. Comments are defined a second time, from the text.
* `PositionsHold`: the place of every word is its place in the prepared text.

Properties of `expressions`:

* `AcceptsGrammar`: what is accepted is what a grammar without precedence derives.
* `DepthFollowsText`: the recursion is bounded by the characters read.
* `SubstitutionsAreValidated`: every script in brackets of an accepted expression went to
  the validator, outside braces and indexes.
* `ExpressionIsDecided`: it ends.

Properties of `lists`:

* `WritesFit`: nothing is written behind a buffer that never grows.
* `SplitAlike`: both parsers cut a text at the same places or both refuse it, unless a
  continued line is in it.
* `ItemsAreUtf8`: the items of an ASCII text are UTF-8, whatever its escapes name.
* `ListIsSplit`: it ends.

Properties of `strings`:

* `ReadsWhatWasSet`: `$a(index)` reads what `set a(index) value` stored, also with variables,
  escapes and balanced parentheses in the index, and the value is not substituted again.
  One exception is part of the statement (`ChangesItsName`): `set b($b(b)) v`, with `b` stored in
  `b(b)`, changes the variable that its own name is made of, and the reference `$b($b(b))`
  means another one afterwards, as in Tcl.
* `RecursionFollowsText`: the calls for nested indexes are at most a third of the word's
  characters, whatever the variables contain.

Properties of `interpreter`:

* `FailureHasReason`: a refusal or a failure has an error to print.
* `AcceptedIsClean`: an accepted script leaves no error, except one that the lexer
  itself recorded.
* `NoBodySkipped`: every body and every script in brackets of an accepted script
  was validated, at every depth. Which bodies there are is defined a second time,
  from the form of a command.
* `AcceptedCallsAreKnown`: all literal commands of an accepted script, at every
  depth, are known; if declarations do not contradict each other, every call fits
  its procedure's signature.
* `DeclaredIsKnown`: what the top level declares is never unknown.
* `RecheckAgrees`: an `if` that was accepted is accepted again when it is executed,
  unless declarations contradict each other or the lexer left an error. An `if` whose name
  comes from a variable or an expansion was not accepted as an `if`: `{*}{if 1}` passes the
  validator and fails when it is executed.
* `ExecutionFailsDynamically`: what was accepted fails only for what cannot be
  known before (values, expansions), for the names that only the validator knows,
  and for a `puts` with a channel. The last is a disagreement of the code with `README.md:45`,
  which says that channel output is not supported: the validator accepts it
  (`validator/command.c:484`), so check mode approves a script that stops in its middle.
* `ProceduresStay`: a procedure that is once in the table stays there to the end of the run,
  and no later definition changes its signature unless the script contradicts itself.
* `ImplementsTwoPass`: a run refines `TwoPass`.
* `Terminates`: it ends.

### Disagreements with the documentation

* `brackets_open`. A comment in the lexer (`grammar/lexer.l:242`) leaves an
  unterminated substitution to the validator, which would "report a stable syntax
  error". In `set x [list a"]` the lexer ignores the `]` after the quote and keeps the
  word open to the end of the input; the validator closes it there and accepts.
* `late_procedure`. `README.md:27`: unknown command names are rejected "unless they
  refer to a declared procedure". In a nested script, `[ ]` are validated before
  the procedures of that script are collected (`validator/text.c:325`), so a
  procedure of the same body is unknown inside brackets.
* `index_unchecked`. `README.md:52`: the validator checks substitutions and expressions
  recursively. In `$a([nosuch])` within an expression the index is stepped over
  (`validator/expr.c:184`) and the command in it is not looked at.
* `empty_script`. `docs/fg_course_report.typ:345`: a program may be empty ("Грамматика допускает
  пустую программу"). `parse_script` returns `NULL` for it as for a failure, and its caller in the
  validator (`validator/text.c:330`) tells the two apart by the error record, which no parse
  clears. With `if 1 {}` in one line and `set x [list a"]` in the next, the parse of the whole
  succeeds but leaves `unterminated command substitution` there, and then `{}` is refused with it.
* `nested_comment`. `README.md:35`: `#` starts a comment where a command is expected. In a
  nested script every `[` outside braces is validated before that is known
  (`validator/text.c:233`), so a comment with a bracket is refused.

### Bounds

* `variables`: three names, so that a node has a predecessor, a successor and a
  middle; two values. The list cannot be longer than the number of names.
* `brackets`: `MaxLen = 5` characters (and the line end). Five are enough to open a
  bracket, a brace or quote in it, escape one character and close. The theorems
  about the same properties hold for words of every length.
* `interpreter`: all pairs of 24 top-level commands, with six contents for one body,
  two for a second one and three for a script in brackets. The commands cover every
  construct with bodies or expressions; the contents declare, call, fail or leave an
  error. A second set holds single commands of all names with up to seven words. Two
  bodies and a bracket are enough for a failure in one to meet a declaration or an
  error of another. Texts do not contain themselves.
* `scripts`: every script of up to five characters over the classes that make commands and
  over those that make quotes and braces, up to four behind a dollar or a bracket, and words
  behind `{*}`; one parse each. And all 13 x 13 pairs of scripts that end in every state of
  the lexer, with the first one parsed again.
* `expressions`: every text of up to four characters over alphabets of operators that begin
  alike, of words and of numbers, three pieces of quoting, and expressions nested twice,
  whole or with one character missing. An operator has two characters, and a level sees at
  most one character behind its own.
* `lists`: every text of up to five structural characters, and every escape with all the
  digits it could take, at the limits of octal, hex, surrogates and the last plane.
* `strings`: indexes of up to four characters over two alphabets, and one more level of
  index with up to three. Two levels of calls show that a caller finds its state again. One
  element is there before, so that `set` also updates a variable, its own index among them.
* The tables of texts that look like an option, a level or a validation-only name
  (`DashTexts`, `LevelTexts`, `ValidationOnly`) hold those that a model uses.

### Fairness

The program has one thread and waits for nothing after its input was read, so weak
fairness of the next-state relation says only that it keeps running. In `Variables`
fairness is for the steps inside a call; nobody has to call. `Expressions` and `Lists` need it
only to say that their loops come to an end.

## What is proved

For all values of the constants, with the TLA+ proof system.

**Variables** (for any names and values). `TypeCorrect`, `ListStaysChained`,
`NamesStayUnique`, `VariablesKeepTheirPlaces`, `ListImplementsMap`. The inductive invariant joins the shape of
the list with `WalkedPast`: the call in progress has compared every node behind its
cursor. Without that an append could store a name twice.

**Brackets** (for words of any length). `TypeCorrect`, `LexerIsCleanOutside`,
`ScannersAgreeWithoutQuotes`. The invariant
relates `trail` to the word (each state is the previous one, updated), and the
validator's state to `trail` at its index, for words without quotes.

**Texts_proofs** (facts for all the others). What the model computes from a text is a function
on positions or lengths, never a `RECURSIVE` operator. `LeastElement` picks the least position
where a statement fails, and everything behind or before it holds; `BoundedInduction`,
`Backwards`, `Recursion` and `RecursionAhead` turn that into induction over positions and into
the equation of a function defined by recursion, for a set of positions in the place of a
predicate. That is within reach of first-order provers.

**Scripts** (for any scripts and sequences of them). `CommentsStartCommands`,
`ErrorsAreReported`: inductive together with the fact that `words` is a
sequence, since an action either sets the start condition together with the words, or leaves both.
`TypesHold`, `NothingIsEverLost` and `PositionsAlwaysHold` follow from `ParseInv`: what has been
read so far (commands, words, the word in progress) spells the text before the position
(`Lossless`), and every word carries the line and column where it starts (`Placed`). The lexer's
rules are functions of the rest of the text; for each there is a lemma on where its match ends.

`ScriptsParseAlike` (`ParsesAlike`) compares two parses of a session, which no invariant of one
state does. It makes a parse a value (`ParseNow`: the text, the position, the lexer's state, what
the grammar has built) and the parser a function on it, `StepOf`. `LEMMA ScansOnSteps`: every step
within a parse that does not run out of memory is `StepOf`, whatever was parsed before. `Leads(v, out)` says that the
parse `v` comes to `out`: `v` is in every set that holds the parses which are over with `out`, and
with a parse those that step to it. The invariant `Alike` says that what the parse in progress leads to, the fresh parse of
its script leads to also, and that every recorded result is what its script leads to. The start
condition and the braced word that a failed parse leaves behind are not in the fresh value: that
`parse_script` resets them is what the proof is about. The error record is in it, as the parse
finds it (`left`). `StepLike` and `CommandsDoNotDepend` show that two parses that differ in the
record only come to the same commands: the lexer and the grammar read the
record only to keep the error that is first.

**Expressions** (for texts of any length). `PositionIsInText`, `DepthIsBounded`. Every scanner
of an operand returns 0 or a position behind the one it was given and in the text, which is a
lemma for each of them; a step that pushes a descent has read at least one character.

`ExpressionsAreAccepted` (`AcceptsGrammar`) compares the descent with `ExprGrammar`, which knows
no levels. The argument:

1. `ExprGrammar` builds its table of spans by their length. `GrammarRules`: a span is in it if and
   only if a rule makes it of others that are in it.
2. `Sound`: what was read is an expression, or the beginning of one (`From`). Every call on the
   stack is given a position, where its own expression began (`Reaches` with `Opening`), and
   these fit together from the whole text inwards. So what is accepted is an expression.
3. `Completable`, the converse: if the text is an expression, every call has a position where its
   own ends (`Reaches` with `Closing`), and what is left of the text can be read up to it. So what
   is refused is none. For that the level of every operator must be in progress (`Chained`: the calls
   are a path down the levels), and it must read the operator that the grammar has there and
   no longer or shorter one (`OperatorIsFound`, `OperatorLength`).

`TypesHold`; `ScriptsAreValidated` from `Behind`: every script in brackets that begins before
the position has been given to the validator. An operand read in one step may hold several,
and the lemmas on its scanner say that it calls the validator for each of them.

**Escapes and lists** (for texts of any length). `EncodingIsWellFormed`: the bytes of any
codepoint spell it, or U+FFFD for what has no encoding. `TypeCorrect` and
`BufferNeverOverflows`: the invariant `Room` says that what is in the buffer and what is left
of the text fit; `EscapeBounded` says of a half read escape that its value respects the limit
of its digits. The lemma that joins them is `EscapeShrinks`: an escape is replaced by no more
bytes than it has characters. A single digit names a value below 16, two more digits are
needed for a second byte; this is why the state keeps the count and the value together.
`ItemsStayUtf8` from `Utf8Inv`: the bytes in the buffer are whole characters, and what is cut
off at the end of an item is. `BothSplitAlike` from `CutInv`: the validator's splitter and the
executor's are each on the way (`Reach`) of one abstract cutter, so that they end with the same
items or both refuse.

**Substitution** (for any words, variables and values). `TypeCorrect`, `RecursionIsBounded`,
`WordsAreEvaluatedAsMeant`, `ReferencesReadWhatWasSet`.
`FramesHold` says of every call that its position is in its text and that its text is shorter
than the first one by three characters per level. It is kept by the three ways a stack changes,
each a lemma about sequences of frames: the last one replaced (`LastReplaced`), one more
(`FrameAppended`), one less (`LastRemoved`). The half read escape is bounded as in `Lists`, with
the same lemmas.

`WordsAreEvaluatedAsMeant` shows that `Substitution` computes what `Spelling` says: a relation
`Spells`, the least one closed under rules (a character copies itself, an escape is decoded, a
name is replaced, an index is a text of its own that is spelled first). A value that is handed
out is the only one the rules derive, and a word is refused, except for lack of memory, only if
they derive none. Where a name, an index or an escape ends is decided by the same operators in
both; what the theorem is about is the rest: calls in calls, buffers, where a caller goes on, the
digits of an escape that is half read, and the order of failures. The argument:

1. What is spelled is spelled by one of the rules (`SpelledSomehow`), and at each position only
   one applies, in one way (`MovesAgree`, `NoMoveAtCall`).
2. `Steps`: every step of `resolve_string_text` takes a rule, waits within one, enters or leaves a
   call, ends, or fails where no rule applies (`Stuck`) or no variable has the name (`Unnamed`).
3. `Continues`, an invariant: whatever the rest of the innermost text spells, behind what is in
   the buffers, the whole word spells. So what is handed out is derived.
4. `LeadsNow`, its converse: if the word spells a value at all, there is for every call on the
   stack the text it is going to hand out, and these fit together. So a failure means that the
   word spells nothing, and the value is the only one.

`ReferencesReadWhatWasSet` (`ReadsWhatWasSet`) is then a fact about texts: `a(index)` as a word of
its own is resolved as a whole, in `$a(index)` only the index is, by a call of its own, and both
have to come to the same name. No invariant of the steps is needed but that the second word
is evaluated at all (`ReadIsEvaluated`); the argument is about `Spells`:

1. A reference ends where the name does (`OuterEnd`, `PlainNameEnds`): counted from the first
   parenthesis, the last one is the first that closes more than were opened.
2. Escapes, names and indexes in the index end at the same places whether it is read alone or
   within the word (`TakesWithin`, `NameEndWithin`, `WithinEnd`). It is needed that its
   parentheses are balanced, that it does not end within an escape, and that the resolution only
   stops where the scanner for indexes does not step over a backslash (`Sound`).
3. So every rule that applies in the word applies in the index (`MoveWithin`, `CallWithin`), and
   the word spells what the index does, between what stands before it and a parenthesis
   (`IndexSpells`, by induction over what is spelled, `SpelledInduction`; `ElementIsNamed`).
4. No byte 0 is spelled, so nothing is cut off where the bytes become a C string
   (`SpelledIsCharacters`): this is why `IsElement` excludes a digit 0
   behind a backslash.
5. The index spells the same after the variable is set (`SpelledUnderUpdated`), if no dollar
   is in it, or if the variable is new or keeps its value: `ChangesItsName` is what is left.

**Interpreter** (for any sources and any readings of the texts, under the
assumptions named in `Validator` and `Interpreter`). `TypesHold`, `FailuresHaveReasons`,
`AcceptanceIsClean`, `DeclaredProceduresAreKnown`, `EveryBodyIsValidated`,
`AcceptedCallsAreGood`, `IfIsAcceptedAgain`, `AcceptedCommandsFailDynamically`,
`ProceduresAreKept` and
`ScriptsTakeEffectAfterAcceptance` (the refinement of `TwoPass`). The argument:

1. `StepsOfTheValidator` says what one step of the validator can do to the error and
   the verdict: it leaves both, forgets the error, takes over one of the lexer's, or
   refuses with the first error recorded. An unknown command is reported only for a
   name outside the table, and the table never shrinks.
2. `FirstStep`: the first step collects the procedures of the top level, or refuses.
3. `IInv` adds to the properties where the phases are, that output and variables
   are empty before `running` (`PhasesOK`), and that from the first step on the
   table holds what the top level declares (`TopOK`, `RunOK`). `DeclaredIsKnown`
   alone is not inductive: it says nothing of the table.
4. The refinement follows from `IInv` step by step (`StepsArePromised`).
5. **Whatever was accepted is valid.** `EveryBodyIsValidated` and `AcceptedCallsAreGood`
   (`NoBodySkipped`, `AcceptedCallsAreKnown`) speak of the end of a validation, when the agenda
   is empty. `WorkInv` says what is true on the way, as a conditional promise (`Promised`): if the
   tasks that are left all succeed, whatever else is visited and declared until then, some set of
   scripts already visited is valid together with the whole script (`AllValid`). An attempt that
   fails drops tasks up to its `Otherwise`. So the promise is kept for several lists of tasks
   (`Cuts`): the whole agenda, and what would be left if an attempt on it failed (`Later`,
   `Left`). Each action of the validator has one lemma; acceptance leaves no condition, and
   `DoneOK` carries the valid set into execution. `TableOK` says that every signature is that of
   a definition, `RestOK` the types of the error, the table and the variables.
6. **The second validation agrees with the first.** `DoneOK` gives a set D of scripts, valid for
   the table at that time; it stays valid for a larger one (`DeclaringKeeps`). `RecheckOK`
   says that while an `if` is validated again every task of the agenda either succeeds, given
   D, or has an `Otherwise` behind it whose own tasks do (`Covered`). A failure then never
   refuses. It holds under `Settled`: no contradictory declarations, no error left by the lexer,
   a literal `if`; `RecheckAgrees` states the same exceptions.
7. **Executor and validator agree.** `AcceptedCommandsFailDynamically`: a command without anything
   dynamic is evaluated to its own words (`StaticName`, `StaticValues`), its arguments are counted
   alike (`CountsAgree`), the executor knows every name the validator takes for a builtin
   (`BuiltinsAreExecuted`), and an `if` is accepted again by 6. `FailuresAreExpected` and
   `NextIsExpected` put this together, one case per action of the executor.
8. **The table only grows.** `ProceduresAreKept` (`ProceduresStay`): the table changes only by
   `Updated`, which keeps what it had (`TableStepIs`), and by `TableOK` every signature in it is
   that of a definition of its name, of which there is only one if the script does not contradict
   itself.

**Only model-checked.** Liveness: `CallsReturn`, `WordIsDecided`, `ExpressionIsDecided`,
`ListIsSplit` and `Terminates`, which the provers do not reach. The part of it that is safety is
proved for four components: each step makes something smaller that cannot get smaller forever,
so only that steps are taken at all is left to fairness. `EveryTurnWalksOn`: a walk through the
variables goes one node further in a chain that ends. `EveryMatchReads`: a match of the lexer takes a
character (`Scripts` has no liveness property; this is what stands for it). `EveryStepReads`: a step
of the descent reads a character or decides. `EveryTurnComesCloser`: a turn of a list parser reads a
character, or comes closer to reading one, where an item begins or ends or an escape takes a
digit (`Rank`); `Left` is the number that gets smaller, at most 24 for each character.

## What is not modelled

* Command-line arguments, reading of files, printing of diagnostics: plain I/O, without
  state that outlives it.
* The generated automata of flex and bison: the patterns and the rules they are made from are
  modelled instead, and the choice among patterns as flex documents it.
* The composition of all levels. `Interpreter` works on names of texts with what the parsers
  find in them as constants, `Scripts`, `Expressions`, `Lists` and `Substitution` on characters.
  One model with both would have no instance that is small and still interesting.
* Continued lines in diagnostics: a joined line is not counted, so all later places are early
  by one line. `PositionsHold` speaks of the prepared text, and no document promises more.
* Columns of nested scripts: they start where the enclosing word does, by design.
* Pointers and ownership in `ast.c`: words and commands are sequences that grow at the end.
* Memory: ownership, and allocation failures outside the variable store, the lexer and the
  evaluation of words. Stack depth is bounded for expressions and indexes; for nested scripts
  the texts of the model are nested finitely.
* `tests/`, `README.md`, `docs/`, the makefile: read, not modelled.

## Plan

Done: all components that keep state, with the theorems above. What is left, in this order:

1. **The sanitizer and the lexer on one text**: they agree on braces for texts without quotes;
   as a theorem, in the manner of `Brackets_proofs`.
2. **Arguments and input** (`MainArguments`): the options of `main` and the growth of the read
   buffer.
