-------------------------------- MODULE Words --------------------------------
(***************************************************************************)
(* The words of a parsed command and what the validator asks of them: is   *)
(* the word a literal name, a keyword, a literal script.                   *)
(*                                                                         *)
(* A text is a name: "while", "-exact" and "b1" are texts.  What is inside *)
(* a text is not spelled out; a word says which of the marks $ [ and \ its *)
(* text contains, which scripts stand in its [ ] (subs), whether one of    *)
(* its brackets has no end (torn), and which variables it refers to.       *)
(***************************************************************************)
EXTENDS Naturals, Sequences

PlainTypes == {"string", "quoted", "braced", "var", "varBraced"}

ExpandTypes == {"expandString", "expandQuoted", "expandBraced", "expandVar",
                "expandVarBraced", "expandEmpty"}

WordTypes == PlainTypes \union ExpandTypes

Marks == {"dollar", "bracket", "backslash"}

VariableTypes == {"var", "varBraced", "expandVar", "expandVarBraced"}

\* A word that is a variable refers to it.
Word ==
  {w \in [type : WordTypes, text : STRING, marks : SUBSET Marks,
          subs : Seq(STRING), torn : BOOLEAN, refs : SUBSET STRING] :
     w.type \in VariableTypes => w.text \in w.refs}

Command == Seq(Word) \ {<<>>}

MakeWord(type, text) ==
  [type |-> type, text |-> text, marks |-> {}, subs |-> <<>>, torn |-> FALSE,
   refs |-> IF type \in VariableTypes THEN {text} ELSE {}]

------------------------------------------------------------------------------
\* validator_word_is_literal_name with word_has_substitution: a lone $ is a
\* name; a backslash does not matter.
LiteralName(w) ==
  \/ w.type = "braced"
  \/ /\ w.type \in {"string", "quoted"}
     /\ w.text = "$" \/ w.marks \intersect {"dollar", "bracket"} = {}

\* validator_word_is_literal_keyword
Keyword(w, keyword) == LiteralName(w) /\ w.text = keyword

\* validator_word_is_literal_script: substitutions do not matter here.
LiteralScript(w) == w.type \in {"braced", "string", "quoted"}

\* is_expand_word_type
Expands(w) == w.type \in ExpandTypes

\* validate_word_substitutions: the scripts inside [ ] that a word shows to
\* the validator. Braced words and ${name} show none; of $name(index) the index
\* does. The word may turn out to be torn after them.
ShowsSubstitutions(w) ==
  w.type \in {"string", "quoted", "var", "expandString", "expandQuoted", "expandVar"}

Substitutions(w) == IF ShowsSubstitutions(w) THEN w.subs ELSE <<>>
IsTorn(w) == ShowsSubstitutions(w) /\ w.torn

==============================================================================
