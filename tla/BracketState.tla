----------------------------- MODULE BracketState -----------------------------
(***************************************************************************)
(* What a scanner remembers on its way to the end of a [ ]: how many       *)
(* brackets and braces are open, and whether it is in quotes or behind a   *)
(* backslash.  The rules are written down twice: for the lexer             *)
(* (update_bracket_state) and for the validator (find_matching_bracket).   *)
(***************************************************************************)
EXTENDS Naturals

Start == [bracket |-> 0, brace |-> 0, quote |-> 0, escaped |-> 0]
Opened == [Start EXCEPT !.bracket = 1]

Flag(condition) == IF condition THEN 1 ELSE 0

\* Mutants of UpdateBracketState: braces are counted outside brackets too; a
\* closing bracket is counted without an open one.
UpdateBraceAnywhere(s, c) ==
  [bracket |-> CASE s.escaped = 0 /\ c = "openBracket" /\ s.brace = 0 -> s.bracket + 1
                 [] s.escaped = 0 /\ c = "closeBracket" /\ s.bracket > 0 -> s.bracket - 1
                 [] OTHER -> s.bracket,
   brace   |-> IF s.escaped = 0 /\ c = "openBrace" THEN s.brace + 1 ELSE s.brace,
   quote   |-> s.quote,
   escaped |-> Flag(s.escaped = 0 /\ c = "backslash")]

UpdateAnyClose(s, c) ==
  [bracket |-> CASE s.escaped = 0 /\ c = "openBracket" -> s.bracket + 1
                 [] s.escaped = 0 /\ c = "closeBracket" -> s.bracket - 1
                 [] OTHER -> s.bracket,
   brace   |-> s.brace,
   quote   |-> s.quote,
   escaped |-> Flag(s.escaped = 0 /\ c = "backslash")]

\* update_bracket_state: quotes and braces count only inside brackets, and
\* inside quotes nothing else does.
UpdateBracketState(s, c) ==
  LET active == s.escaped = 0
      inside == active /\ s.bracket > 0
      unquoted == s.quote = 0
      bare == s.brace = 0 /\ unquoted
  IN [bracket |-> IF active /\ bare /\ c = "openBracket" THEN s.bracket + 1
                  ELSE IF inside /\ bare /\ c = "closeBracket" THEN s.bracket - 1
                  ELSE s.bracket,
      brace   |-> IF inside /\ unquoted /\ c = "openBrace" THEN s.brace + 1
                  ELSE IF inside /\ unquoted /\ c = "closeBrace" /\ s.brace > 0
                  THEN s.brace - 1
                  ELSE s.brace,
      quote   |-> IF inside /\ s.brace = 0 /\ c = "quote" THEN 1 - s.quote
                  ELSE s.quote,
      escaped |-> Flag(active /\ c = "backslash")]

\* A mutant of MatchStep: braces inside the brackets are not counted.
MatchIgnoresBraces(m, c) ==
  [bracket |-> CASE m.escaped = 0 /\ c = "openBracket" -> m.bracket + 1
                 [] m.escaped = 0 /\ c = "closeBracket" -> m.bracket - 1
                 [] OTHER -> m.bracket,
   brace   |-> m.brace,
   quote   |-> IF m.escaped = 0 /\ c = "quote" THEN 1 - m.quote ELSE m.quote,
   escaped |-> Flag(m.escaped = 0 /\ c = "backslash")]

\* One turn of the loop of find_matching_bracket: here brackets count inside
\* quotes too.
MatchStep(m, c) ==
  LET active == m.escaped = 0
      unquoted == m.quote = 0
  IN [bracket |-> IF active /\ m.brace = 0 /\ c = "openBracket" THEN m.bracket + 1
                  ELSE IF active /\ m.brace = 0 /\ c = "closeBracket" THEN m.bracket - 1
                  ELSE m.bracket,
      brace   |-> IF active /\ unquoted /\ c = "openBrace" THEN m.brace + 1
                  ELSE IF active /\ unquoted /\ c = "closeBrace" /\ m.brace > 0
                  THEN m.brace - 1
                  ELSE m.brace,
      quote   |-> IF active /\ m.brace = 0 /\ c = "quote" THEN 1 - m.quote
                  ELSE m.quote,
      escaped |-> Flag(active /\ c = "backslash")]

==============================================================================
