---------------------------- MODULE MCInterpreter ----------------------------
(* Scripts of one or two top-level commands over a small vocabulary, with  *)
(* two bodies (b1, b2) and one script in brackets (s1) that vary too.      *)
EXTENDS InterpreterProperties, TLC

S(t) == MakeWord("string", t)
B(t) == MakeWord("braced", t)
V(t) == MakeWord("var", t)
Quoted(t) == [MakeWord("quoted", t) EXCEPT !.marks = {"dollar"}, !.refs = {"x"}]
Bracketed == [MakeWord("string", "[s1]") EXCEPT !.marks = {"bracket"}, !.subs = <<"s1">>]
Torn == [MakeWord("string", "[") EXCEPT !.marks = {"bracket"}, !.torn = TRUE]

MCExpression ==
  [t \in {"yes", "call", "soft", "bad", "plus"} |->
     CASE t = "yes"  -> [subs |-> <<>>, shape |-> "operand"]
       [] t = "call" -> [subs |-> <<"s1">>, shape |-> "operand"]
       [] t = "soft" -> [subs |-> <<"s1">>, shape |-> "broken"]
       [] t = "bad"  -> [subs |-> <<>>, shape |-> "broken"]
       [] t = "plus" -> [subs |-> <<>>, shape |-> "operator"]]

MCList ==
  [t \in {"none", "cases", "fall", "odd", "if"} |->
     CASE t = "none"  -> [items |-> <<>>, ok |-> TRUE]
       [] t = "if"    -> [items |-> <<"if">>, ok |-> TRUE]
       [] t = "cases" -> [items |-> <<"a", "-", "b", "b1">>, ok |-> TRUE]
       [] t = "fall"  -> [items |-> <<"a", "b1", "b", "-">>, ok |-> TRUE]
       [] t = "odd"   -> [items |-> <<"a", "b1">>, ok |-> FALSE]]

MCArgumentList ==
  [t \in {"none", "two", "early"} |->
     CASE t = "none"  -> <<>>
       [] t = "two"   -> <<"required", "optional">>
       [] t = "early" -> <<"args", "required">>]

Text(commands) ==
  [subs |-> <<>>, torn |-> FALSE, parse |-> IF commands = <<>> THEN "empty" ELSE "commands",
   leftover |-> FALSE, commands |-> commands]

Bad == [Text(<<>>) EXCEPT !.parse = "refused"]
WithSub(t) == [t EXCEPT !.subs = <<"s1">>]

Call0 == <<S("p")>>
Call1 == <<S("p"), S("v")>>
Call2 == <<S("p"), S("v"), S("v")>>
Proc0 == <<S("proc"), S("p"), B("none"), B("b1")>>
Proc0Leaf == <<S("proc"), S("p"), B("none"), B("list")>>
Proc2 == <<S("proc"), S("p"), B("two"), B("b2")>>

Vocabulary ==
  [set     |-> <<S("set"), S("x"), S("v")>>,
   subst   |-> <<S("set"), S("y"), Bracketed>>,
   spread  |-> <<S("set"), MakeWord("expandBraced", "cases")>>,
   get     |-> <<S("puts"), V("x")>>,
   raw     |-> <<S("puts"), S("-nonewline"), B("v")>>,
   torn    |-> <<S("puts"), S("chan"), Torn>>,
   if      |-> <<S("if"), B("yes"), S("then"), B("b1"), S("else"), B("b2")>>,
   elseif  |-> <<S("if"), B("call"), B("b2"), S("elseif"), B("yes"), B("b1")>>,
   while   |-> <<S("while"), Quoted("soft"), B("b1")>>,
   for     |-> <<S("for"), B("b1"), Quoted("bad"), B("b2"), B("b2")>>,
   switch  |-> <<S("switch"), S("v"), B("cases")>>,
   match   |-> <<S("switch"), S("-matchvar"), S("x"), S("-regexp"), S("v"), B("fall")>>,
   expr    |-> <<S("expr"), B("yes"), V("x"), Quoted("soft")>>,
   try     |-> <<S("try"), B("b1"), S("on"), S("v"), S("x"), B("b2"), S("finally"), B("b1")>>,
   dict    |-> <<S("dict"), S("for"), B("v"), S("v"), B("b1")>>,
   empty   |-> <<MakeWord("expandEmpty", ""), S("v")>>,
   dynamic |-> <<V("x"), S("v")>>,
   late    |-> <<MakeWord("expandBraced", "if"), B("yes")>>,
   pop     |-> <<S("pop")>>,
   proc0   |-> Proc0, proc2 |-> Proc2, call0 |-> Call0, call1 |-> Call1,
   early   |-> <<S("proc"), S("p"), B("early"), B("b1")>>]

BodyTexts ==
  [none    |-> Text(<<>>),
   call0   |-> Text(<<Call0>>),
   narrow  |-> Text(<<Proc0Leaf, Call2>>),
   wide    |-> Text(<<Call1, Proc2>>),
   late    |-> WithSub(Text(<<Proc0Leaf, <<S("set"), S("y"), S("cmdsubst")>> >>)),
   subst   |-> WithSub(Text(<< <<S("set"), S("y"), S("cmdsubst")>> >>)),
   refused |-> Bad,
   call1   |-> Text(<<Call1>>),
   left    |-> [Text(<< <<S("list")>> >>) EXCEPT !.leftover = TRUE],
   torn    |-> [Text(<<>>) EXCEPT !.torn = TRUE]]

\* Single commands of every name, with a subcommand or an option or neither, and
\* up to five words after that. Their keys are their words.
Seconds(name) ==
  CASE name = "array" -> {"size", "names", "set", "anymore"}
    [] name = "string" -> {"length", "index", "range", "first", "trim", "replace"}
    [] name = "info" -> {"exists", "level", "default", "hostname"}
    [] name = "dict" -> {"create", "get", "set", "unset", "size", "keys", "incr", "replace",
                         "merge", "for"}
    [] name = "namespace" -> {"eval", "current", "code", "which", "export"}
    [] name = "package" -> {"require", "provide", "vcompare", "versions", "forget",
                            "ifneeded", "names"}
    [] name = "trace" -> {"add", "info", "variable", "vinfo"}
    [] name = "clock" -> {"seconds", "format"}
    [] name = "file" -> {"size", "mtime", "join", "mkdir", "delete", "copy"}
    [] name = "encoding" -> {"names", "system", "convertto"}
    [] name = "binary" -> {"format", "scan"}
    [] name \in {"upvar", "uplevel"} -> {"1"}
    [] name \in {"regexp", "regsub"} -> {"-start", "-all"}
    [] name = "subst" -> {"-nocommands"}
    [] name = "after" -> {"idle"}
    [] name = "return" -> {"-code"}
    [] OTHER -> {}

Rules ==
  UNION {{<<"words", name>> \o start \o [i \in 1..n |-> "v"] :
            start \in {<<>>} \union {<<t>> : t \in Seconds(name)}, n \in 0..5} :
         name \in FlatCommands \union Ensembles
                    \union {"put", "proc", "while", "for", ".button", "...", "lsort", "cmdsubst"}}

\* Scripts of the top level are named by their commands.
TopNames ==
  {<<a>> : a \in DOMAIN Vocabulary} \union ((DOMAIN Vocabulary) \X (DOMAIN Vocabulary))

BodyNames == {<<"body", b>> : b \in DOMAIN BodyTexts}

MCParsed ==
  [k \in TopNames \union BodyNames \union Rules |->
     CASE k \in BodyNames -> BodyTexts[k[2]]
       [] k[1] = "words" -> Text(<<[i \in 1..(Len(k) - 1) |-> S(k[i + 1])]>>)
       [] OTHER -> Text([i \in DOMAIN k |-> Vocabulary[k[i]]])]

MakeSource(top, b1, b2, s1) ==
  [t \in {"top", "b1", "b2", "s1"} |->
     CASE t = "top" -> top [] t = "b1" -> <<"body", b1>>
       [] t = "b2" -> <<"body", b2>> [] t = "s1" -> <<"body", s1>>]

MCSources ==
  {MakeSource(top, b1, b2, s1) :
     top \in TopNames, b1 \in {"none", "call0", "narrow", "wide", "subst", "refused"},
     b2 \in {"none", "call0"}, s1 \in {"call1", "left", "torn"}}
    \union {MakeSource(top, "none", "none", "call1") :
              top \in Rules \union {<<"body", "none">>, <<"body", "left">>, <<"body", "refused">>}}

\* A body that declares a procedure and then calls it inside brackets.
LateSources ==
  {MakeSource(<<c>>, "late", "none", s1) :
     c \in {"if", "dict", "switch"}, s1 \in {"call0", "left"}}

==============================================================================
