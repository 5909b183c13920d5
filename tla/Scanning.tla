------------------------------- MODULE Scanning -------------------------------
(***************************************************************************)
(* How the scanners of the lexer and of the expression validator search a  *)
(* text.  Positions count from 1; a search that finds nothing ends behind  *)
(* the last character.                                                     *)
(***************************************************************************)
EXTENDS Integers, Sequences, FiniteSets

\* The first position from i on that is in stops, or the end of the text.
FirstIn(text, i, stops) ==
  i + Cardinality({j \in i..Len(text) : (i..j) \intersect stops = {}})

\* The end of the characters of a class that start at i.
RunEnd(text, i, class) == FirstIn(text, i, {k \in i..Len(text) : text[k] \notin class})

Has(text, i, class) == i <= Len(text) /\ text[i] \in class

==============================================================================
