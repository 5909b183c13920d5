---------------------------- MODULE CommandRules ----------------------------
(***************************************************************************)
(* How many words each command of the validator's dispatcher may have.     *)
(* k is the number of words of the command, its name included, as count is *)
(* in command.c.  The commands whose bodies or expressions are validated   *)
(* too are in CommandPlans.                                                *)
(***************************************************************************)
EXTENDS Words

\* Texts that start with '-', and texts that start with a digit or '#', as
\* far as the scripts of the model use any.
DashTexts == {"-", "--", "-exact", "-glob", "-nocase", "-regexp", "-matchvar",
              "-indexvar", "-start", "-all", "-force", "-command", "-variable",
              "-nobackslashes", "-nocommands", "-novariables", "-nonewline",
              "-code", "-1:", "-2:"}
LevelTexts == {"0", "1", "#0", "2", "2a", "0!", "0:", "1 1"}

Dashed(w) == w.text \in DashTexts
Option(w, options) == LiteralName(w) /\ w.text \in options

\* The first word from place i on that is not one of the options; an option of
\* valued takes the next word with it, which may be missing.
AfterOptions(words, i, options, valued) ==
  LET n == Len(words)
      after[j \in 1..(n + 2)] ==
        IF j <= n /\ Option(words[j], options)
        THEN IF words[j].text \in valued THEN after[j + 2] ELSE after[j + 1]
        ELSE j
  IN after[i]

------------------------------------------------------------------------------
\* set, put, puts, incr and list
ValueArity(name, k) ==
  \/ name \in {"set", "incr"} /\ k \in {2, 3}
  \/ name = "put" /\ k = 2
  \/ name = "puts" /\ k \in 2..4
  \/ name = "list"

\* break, continue and unset
ControlArity(name, k) ==
  \/ name \in {"break", "continue"} /\ k = 1
  \/ name = "unset" /\ k >= 2

ArrayArity(sub, k) ==
  \/ sub \in {"size", "exists"} /\ k = 3
  \/ sub \in {"names", "get", "unset"} /\ k \in {3, 4}
  \/ sub \in {"startsearch", "anymore", "nextelement", "donesearch"} /\ k >= 3
  \/ sub = "set" /\ k = 4

\* append to join
ListArity(name, k) ==
  \/ name \in {"append", "lappend", "lindex"} /\ k >= 3
  \/ name = "llength" /\ k = 2
  \/ name = "concat" /\ k >= 2
  \/ name = "lrange" /\ k = 4
  \/ name \in {"linsert", "lreplace"} /\ k >= 4
  \/ name \in {"split", "join"} /\ k \in {2, 3}

\* format to global
ScopeArity(name, k) ==
  \/ name \in {"format", "eval", "global"} /\ k >= 2
  \/ name = "scan" /\ k >= 3
  \/ name = "error" /\ k \in 2..4

StringArity(sub, k) ==
  \/ sub \in {"length", "tolower", "toupper"} /\ k = 3
  \/ sub \in {"index", "match", "compare", "equal", "map", "repeat"} /\ k = 4
  \/ sub = "range" /\ k = 5
  \/ sub \in {"first", "last"} /\ k \in {4, 5}
  \/ sub \in {"trim", "trimleft", "trimright"} /\ k \in {3, 4}
  \/ sub = "replace" /\ k \in {5, 6}

InfoArity(sub, k) ==
  \/ sub \in {"exists", "exist", "args", "body", "complete"} /\ k = 3
  \/ sub \in {"commands", "procs", "vars", "level", "script"} /\ k \in {2, 3}
  \/ sub = "default" /\ k = 5
  \/ sub = "hostname" /\ k = 2

DictArity(sub, k) ==
  \/ sub = "create" /\ k % 2 = 0
  \/ sub \in {"get", "exists", "remove"} /\ k >= 3
  \/ sub = "set" /\ k >= 5
  \/ sub \in {"unset", "append", "lappend"} /\ k >= 4
  \/ sub \in {"size", "info"} /\ k = 3
  \/ sub \in {"keys", "values"} /\ k \in {3, 4}
  \/ sub = "incr" /\ k \in {4, 5}
  \/ sub = "replace" /\ k >= 3 /\ k % 2 = 1
  \/ sub = "merge"
  \/ sub = "for" /\ k = 5

\* "which" is in OptionsFit
NamespaceArity(sub, k) ==
  \/ sub \in {"eval", "inscope"} /\ k >= 4
  \/ sub = "current" /\ k = 2
  \/ sub \in {"code", "exists", "qualifiers", "tail"} /\ k = 3
  \/ sub \in {"delete", "export", "import", "parent", "children"}

\* "require" and "present" are in OptionsFit
PackageArity(sub, k) ==
  \/ sub = "provide" /\ k \in {3, 4}
  \/ sub = "vcompare" /\ k = 4
  \/ sub = "versions" /\ k = 3
  \/ sub = "forget"
  \/ sub = "ifneeded" /\ k = 5
  \/ sub = "names" /\ k = 2

\* rename to pwd
ShellArity(name, k) ==
  \/ name = "rename" /\ k = 3
  \/ name \in {"exit", "cd"} /\ k \in {1, 2}
  \/ name = "pwd" /\ k = 1

TraceArity(sub, k) ==
  \/ sub \in {"add", "remove"} /\ k = 6
  \/ sub = "info" /\ k = 4
  \/ sub \in {"variable", "vdelete"} /\ k = 5
  \/ sub = "vinfo" /\ k = 3

ClockArity(sub, k) ==
  \/ sub \in {"seconds", "clicks"} /\ k \in {2, 3}
  \/ sub \in {"format", "scan"} /\ k >= 3

\* vwait and update
EventArity(name, k) ==
  \/ name = "vwait" /\ k = 2
  \/ name = "update" /\ k \in {1, 2}

\* "delete", "copy" and "rename" are in OptionsFit
FileArity(sub, k) ==
  \/ /\ sub \in {"dirname", "tail", "rootname", "extension", "normalize", "exists",
                 "isdirectory", "isfile", "size", "atime", "readable", "writable",
                 "executable"}
     /\ k = 3
  \/ sub = "mtime" /\ k \in {3, 4}
  \/ sub = "join" /\ k >= 3
  \/ sub = "mkdir"

\* open to fileevent
ChannelArity(name, k) ==
  \/ name = "open" /\ k \in 2..4
  \/ name \in {"close", "tell", "eof", "flush"} /\ k = 2
  \/ name \in {"gets", "read"} /\ k \in {2, 3}
  \/ name \in {"seek", "fileevent"} /\ k \in {3, 4}
  \/ name = "fcopy" /\ k >= 3
  \/ name = "fconfigure" /\ k >= 2 /\ k % 2 = 0

EncodingArity(sub, k) ==
  \/ sub = "names" /\ k = 2
  \/ sub = "system" /\ k \in {2, 3}
  \/ sub \in {"convertfrom", "convertto"} /\ k \in {3, 4}

BinaryArity(sub, k) ==
  \/ sub = "format" /\ k >= 3
  \/ sub = "scan" /\ k >= 4

------------------------------------------------------------------------------
\* Commands whose words are counted after their options.
RegexpFits(words) ==
  LET k == Len(words)
      left == (k + 1) - AfterOptions(words, 2, DashTexts, {"-start"})
  IN \/ words[1].text = "regexp" /\ left >= 2
     \/ words[1].text = "regsub" /\ left \in {3, 4}

SubstFits(words) ==
  AfterOptions(words, 2, {"-nobackslashes", "-nocommands", "-novariables"}, {}) = Len(words)

\* The level of upvar and uplevel counts only if it looks like one.
HasLevel(words, least) ==
  Len(words) >= least /\ Option(words[2], LevelTexts)

UpvarFits(words) ==
  Len(words) >= 3 /\ (Len(words) - (IF HasLevel(words, 4) THEN 2 ELSE 1)) % 2 = 0

UplevelFits(words) ==
  Len(words) >= (IF HasLevel(words, 3) THEN 3 ELSE 2)

\* Without the words after them there is nothing to schedule.
AfterFits(words) ==
  Len(words) >= (IF Len(words) >= 2 /\ Keyword(words[2], "idle") THEN 3 ELSE 2)

\* return: with two arguments or more the first must look like an option.
ReturnFits(words) == Len(words) <= 2 \/ Dashed(words[2])

\* Subcommands whose words are counted after their options.
OptionsFit(name, sub, words) ==
  LET k == Len(words)
  IN \/ /\ name = "namespace" /\ sub = "which"
        /\ AfterOptions(words, 3, {"-command", "-variable"}, {}) = k
     \/ /\ name = "package" /\ sub \in {"require", "present"} /\ k >= 3
        /\ k - (IF Keyword(words[3], "-exact") THEN 3 ELSE 2) \in {1, 2}
     \/ /\ name = "file" /\ sub \in {"delete", "copy", "rename"}
        /\ LET left == (k + 1) - AfterOptions(words, 3, {"-force", "--"}, {})
           IN IF sub = "delete" THEN left >= 1 ELSE left = 2

------------------------------------------------------------------------------
SubArity(name, sub, k) ==
  \/ name = "array" /\ ArrayArity(sub, k)
  \/ name = "string" /\ StringArity(sub, k)
  \/ name = "info" /\ InfoArity(sub, k)
  \/ name = "dict" /\ DictArity(sub, k)
  \/ name = "namespace" /\ NamespaceArity(sub, k)
  \/ name = "package" /\ PackageArity(sub, k)
  \/ name = "trace" /\ TraceArity(sub, k)
  \/ name = "clock" /\ ClockArity(sub, k)
  \/ name = "file" /\ FileArity(sub, k)
  \/ name = "encoding" /\ EncodingArity(sub, k)
  \/ name = "binary" /\ BinaryArity(sub, k)

Ensembles == {"array", "string", "info", "dict", "namespace", "package", "trace",
              "clock", "file", "encoding", "binary"}

\* A subcommand is needed; one that is not literal passes unchecked.
EnsembleFits(words) ==
  /\ Len(words) >= 2
  /\ \/ ~ LiteralName(words[2])
     \/ SubArity(words[1].text, words[2].text, Len(words))
     \/ OptionsFit(words[1].text, words[2].text, words)

\* Commands without bodies, other than ensembles.
FlatCommands ==
  {"set", "put", "puts", "incr", "list", "return", "break", "continue", "unset",
   "append", "lappend", "lindex", "llength", "concat", "lrange", "linsert", "lreplace",
   "split", "join", "format", "scan", "error", "eval", "global", "upvar", "regexp",
   "regsub", "uplevel", "variable", "source", "rename", "exit", "cd", "pwd", "after",
   "vwait", "update", "throw", "open", "close", "tell", "eof", "flush", "gets", "read",
   "seek", "fcopy", "fconfigure", "fileevent", "subst"}

FlatFits(words) ==
  LET name == words[1].text
      k == Len(words)
  IN \/ ValueArity(name, k) \/ ControlArity(name, k) \/ ListArity(name, k)
     \/ ScopeArity(name, k) \/ ShellArity(name, k) \/ EventArity(name, k)
     \/ ChannelArity(name, k)
     \/ RegexpFits(words)
     \/ name = "subst" /\ SubstFits(words)
     \/ name = "upvar" /\ UpvarFits(words)
     \/ name = "uplevel" /\ UplevelFits(words)
     \/ name = "after" /\ AfterFits(words)
     \/ name = "return" /\ ReturnFits(words)
     \/ name = "variable" /\ k >= 2
     \/ name = "source" /\ k = 2
     \/ name = "throw" /\ k = 3

\* Names of Tk widgets: texts that start with a dot. The second one is on the
\* list of names below as well.
TkPaths == {".button", "..."}

\* validation_only_commands, as far as the scripts of the model use any
ValidationOnly == {"lsort", "lmap", "pop", "push", "know", "f", "g", "a", "-", "..."}

==============================================================================
