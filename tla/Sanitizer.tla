------------------------------- MODULE Sanitizer -------------------------------
(***************************************************************************)
(* The validator prepares a nested script before it is parsed: it walks    *)
(* over the characters, validates every script in brackets outside braces, *)
(* and replaces it by a word (validator_sanitize_script_text).             *)
(***************************************************************************)
EXTENDS LexerRules

\* validator_find_matching_bracket, for a bracket at i: its end, or 0.
MatchEnd(script, i) ==
  LET state[k \in i..Len(script)] ==
        IF k = i THEN Opened ELSE MatchStep(state[k - 1], script[k])
      end == FirstIn(script, i + 1, {k \in (i + 1)..Len(script) : state[k].bracket = 0})
  IN IF end > Len(script) THEN 0 ELSE end

\* The walk so far: what of the scanner's state it keeps itself, where it goes
\* on, and the brackets whose contents it validates.
AtStart == [braces |-> 0, quoted |-> FALSE, escaped |-> FALSE, goesOn |-> 1,
            brackets |-> {}, closed |-> TRUE]

Walk(w, script, i) ==
  LET c == script[i]
  IN IF i < w.goesOn THEN w
     ELSE IF ~w.escaped /\ c = "openBracket" /\ w.braces = 0
     THEN LET end == MatchEnd(script, i)
          IN IF end = 0
             THEN [w EXCEPT !.goesOn = Len(script) + 1, !.closed = FALSE]
             ELSE [w EXCEPT !.goesOn = end + 1, !.brackets = @ \union {i}]
     ELSE [w EXCEPT
       !.escaped = ~w.escaped /\ c = "backslash",
       !.braces = IF w.escaped \/ w.quoted THEN @
                  ELSE IF c = "openBrace" THEN @ + 1
                  ELSE IF c = "closeBrace" /\ @ > 0 THEN @ - 1
                  ELSE @,
       !.quoted = IF ~w.escaped /\ c = "quote" /\ w.braces = 0 THEN ~@ ELSE @]

Sanitize(script) ==
  LET walk[i \in 0..Len(script)] == IF i = 0 THEN AtStart ELSE Walk(walk[i - 1], script, i)
  IN walk[Len(script)]

==============================================================================
