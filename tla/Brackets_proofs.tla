--------------------------- MODULE Brackets_proofs ---------------------------
(***************************************************************************)
(* Proofs about Brackets, for words of any length: the lexer's scanner is  *)
(* clean outside brackets, and in a word without quotes the validator's    *)
(* scanner repeats the lexer's states one by one, so that a substitution   *)
(* the lexer left open is always reported.                                 *)
(***************************************************************************)
EXTENDS Brackets, TLAPS

\* The trail is what update_bracket_state makes of the word.
TrailFollows ==
  /\ Len(trail) = Len(word) + 1
  /\ \A i \in 1..Len(word) : trail[i + 1] = UpdateBracketState(trail[i], word[i])

QuotelessTrail == ~HasQuote => \A i \in 1..Len(trail) : trail[i].quote = 0

\* What the phases leave behind for each other.
Handover ==
  /\ index <= Len(word) + 1
  /\ phase = "scan" => index = 1 /\ escaped = 0 /\ verdict = "none" /\ ~lexError
  /\ phase \in {"text", "match"} =>
       /\ verdict = "none"
       /\ lexError <=> trail[Len(trail)].bracket > 0
  /\ phase = "match" => match.bracket > 0 /\ escaped = 0

IInv ==
  /\ TypeOK
  /\ TrailFollows
  /\ OutsideIsClean
  /\ QuotelessTrail
  /\ Handover
  /\ trail[1] = Start
  /\ StatesAgree
  /\ AgreeOnTermination

------------------------------------------------------------------------------
LEMMA UpdateType ==
  ASSUME NEW s \in ScannerState, NEW c \in Chars,
         s.bracket = 0 => s.brace = 0 /\ s.quote = 0
  PROVE  /\ UpdateBracketState(s, c) \in ScannerState
         /\ UpdateBracketState(s, c).bracket = 0 =>
              /\ UpdateBracketState(s, c).brace = 0
              /\ UpdateBracketState(s, c).quote = 0
         /\ c # "quote" => UpdateBracketState(s, c).quote = s.quote
  <1> DEFINE u == UpdateBracketState(s, c)
  <1>1. s.bracket \in Nat /\ s.brace \in Nat /\ s.quote \in {0, 1}
    BY DEF ScannerState
  <1>2. u.bracket \in Nat /\ u.brace \in Nat
    BY <1>1 DEF UpdateBracketState, Flag
  <1>3. u.quote \in {0, 1} /\ u.escaped \in {0, 1}
    BY <1>1 DEF UpdateBracketState, Flag
  <1>4. u \in ScannerState
    BY <1>2, <1>3 DEF UpdateBracketState, Flag, ScannerState
  <1>5. u.bracket = 0 => u.brace = 0
    BY <1>1 DEF UpdateBracketState, Flag
  <1>6. u.bracket = 0 => u.quote = 0
    BY <1>1 DEF UpdateBracketState, Flag
  <1>7. c # "quote" => u.quote = s.quote
    BY DEF UpdateBracketState, Flag
  <1>8. QED
    BY <1>4, <1>5, <1>6, <1>7

LEMMA MatchType ==
  ASSUME NEW m \in ScannerState, NEW c \in Chars, m.bracket > 0
  PROVE  MatchStep(m, c) \in ScannerState
  BY DEF ScannerState, MatchStep, Flag

\* Inside brackets and without quotes the two scanners have the same rules.
LEMMA SameRules ==
  ASSUME NEW s \in ScannerState, NEW c \in Chars,
         s.bracket > 0, s.quote = 0, c # "quote"
  PROVE  /\ MatchStep(s, c) = UpdateBracketState(s, c)
         /\ MatchStep(s, c).bracket = 0 => MatchStep(s, c).escaped = 0
  BY DEF ScannerState, MatchStep, UpdateBracketState, Flag

\* Outside brackets the lexer only opens a bracket or flips its escape flag.
LEMMA OutsideRules ==
  ASSUME NEW s \in ScannerState, NEW c \in Chars,
         s.bracket = 0, s.brace = 0, s.quote = 0
  PROVE  /\ s.escaped = 0 /\ c = "openBracket" => UpdateBracketState(s, c) = Opened
         /\ ~(s.escaped = 0 /\ c = "openBracket") =>
              /\ UpdateBracketState(s, c).bracket = 0
              /\ UpdateBracketState(s, c).escaped =
                   Flag(s.escaped = 0 /\ c = "backslash")
  BY DEF ScannerState, UpdateBracketState, Flag, Opened, Start

------------------------------------------------------------------------------
LEMMA InitIInv == Init => IInv
  <1> SUFFICES ASSUME Init PROVE IInv
    OBVIOUS
  <1>1. /\ Start \in ScannerState /\ Start.bracket = 0 /\ Start.brace = 0
        /\ Start.quote = 0
    BY DEF Start, ScannerState
  <1>2. /\ word = <<>> /\ Len(word) = 0 /\ trail = <<Start>> /\ Len(trail) = 1
        /\ trail[1] = Start /\ trail \in Seq(ScannerState)
    BY <1>1 DEF Init
  <1>3. TypeOK
    <2>1. word \in Seq(Chars)
      BY <1>2
    <2>2. lexError \in BOOLEAN /\ verdict \in Verdicts
      BY DEF Init, Verdicts
    <2>3. QED
      BY <1>1, <1>2, <2>1, <2>2 DEF Init, TypeOK
  <1>4. TrailFollows /\ OutsideIsClean /\ QuotelessTrail
    BY <1>1, <1>2 DEF TrailFollows, OutsideIsClean, QuotelessTrail
  <1>5. Handover /\ StatesAgree /\ AgreeOnTermination
    BY <1>2 DEF Init, Handover, StatesAgree, AgreeOnTermination
  <1>6. QED
    BY <1>2, <1>3, <1>4, <1>5 DEF IInv

LEMMA ScanPreserves ==
  ASSUME IInv, NEW c \in Chars, ScanCharacter(c) PROVE IInv'
  <1> DEFINE n == Len(word) + 1
             u == UpdateBracketState(Current, c)
  <1>1. /\ n \in Nat \ {0} /\ Len(word) \in Nat /\ Len(trail) = n
        /\ Current = trail[n] /\ Current \in ScannerState
    BY DEF IInv, TypeOK, TrailFollows, Current
  <1>2. /\ u \in ScannerState
        /\ u.bracket = 0 => u.brace = 0 /\ u.quote = 0
        /\ c # "quote" => u.quote = Current.quote
    BY <1>1, UpdateType DEF IInv, OutsideIsClean
  <1>3. word' = Append(word, c) /\ trail' = Append(trail, u)
    BY DEF ScanCharacter
  <1> HIDE DEF u
  <1>4. /\ Len(word') = n /\ Len(trail') = n + 1
        /\ \A i \in 1..Len(word) : word'[i] = word[i]
        /\ \A i \in 1..n : trail'[i] = trail[i]
        /\ word'[n] = c /\ trail'[n + 1] = u
        /\ word' \in Seq(Chars) /\ trail' \in Seq(ScannerState)
    BY <1>1, <1>2, <1>3 DEF IInv, TypeOK
  <1>5. TypeOK'
    BY <1>4 DEF IInv, TypeOK, ScanCharacter
  <1>6. TrailFollows'
    <2> SUFFICES ASSUME NEW i \in 1..n
                 PROVE  trail'[i + 1] = UpdateBracketState(trail'[i], word'[i])
      BY <1>4 DEF TrailFollows
    <2>1. CASE i = n
      BY <1>1, <1>4, <2>1 DEF u
    <2>2. CASE i # n
      <3>1. i \in 1..Len(word) /\ i + 1 \in 1..n /\ i \in 1..n
        BY <1>1, <2>2
      <3>2. QED
        BY <1>4, <3>1 DEF IInv, TrailFollows
    <2>3. QED
      BY <2>1, <2>2
  <1>7. OutsideIsClean'
    BY <1>1, <1>2, <1>4 DEF IInv, OutsideIsClean
  <1>8. QuotelessTrail'
    <2> SUFFICES ASSUME ~HasQuote', NEW i \in 1..(n + 1) PROVE trail'[i].quote = 0
      BY <1>4 DEF QuotelessTrail
    <2>1. c # "quote" /\ ~HasQuote
      BY <1>1, <1>4 DEF HasQuote
    <2>2. \A j \in 1..n : trail[j].quote = 0
      BY <1>1, <2>1 DEF IInv, QuotelessTrail
    <2>3. QED
      BY <1>1, <1>2, <1>4, <2>1, <2>2
  <1>9. /\ Handover' /\ trail'[1] = Start
        /\ StatesAgree' /\ AgreeOnTermination'
    BY <1>1, <1>4 DEF IInv, Handover, ScanCharacter, StatesAgree,
       AgreeOnTermination
  <1>10. QED
    BY <1>5, <1>6, <1>7, <1>8, <1>9 DEF IInv

\* The steps after the scan leave the word and the trail alone.
LEMMA WordIsFixed ==
  ASSUME IInv, UNCHANGED <<word, trail>>
  PROVE  /\ TrailFollows' /\ OutsideIsClean' /\ QuotelessTrail'
         /\ trail'[1] = Start /\ HasQuote' = HasQuote
         /\ word' \in Seq(Chars) /\ trail' \in Seq(ScannerState)
  BY DEF IInv, TypeOK, TrailFollows, OutsideIsClean, QuotelessTrail, HasQuote

LEMMA ScanEndPreserves ==
  IInv /\ (ScanDelimiter \/ ScanEndOfInput) => IInv'
  <1> SUFFICES ASSUME IInv, ScanDelimiter \/ ScanEndOfInput PROVE IInv'
    OBVIOUS
  <1>1. /\ UNCHANGED <<word, trail>> /\ UNCHANGED <<index, escaped, open, match>>
        /\ phase = "scan" /\ phase' \in {"text", "done"}
    BY DEF ScanDelimiter, ScanEndOfInput
  <1>2. /\ Len(trail) \in Nat \ {0} /\ Current = trail[Len(trail)]
        /\ Current.bracket \in Nat
    <2>1. Len(trail) \in 1..Len(trail)
      BY DEF IInv, TypeOK, TrailFollows
    <2>2. trail[Len(trail)] \in ScannerState
      BY <2>1 DEF IInv, TypeOK
    <2>3. QED
      BY <2>1, <2>2 DEF Current, ScannerState
  <1>3. /\ index = 1 /\ escaped = 0 /\ verdict = "none" /\ ~lexError
    BY <1>1 DEF IInv, Handover
  <1>4. /\ lexError' \in BOOLEAN /\ verdict' \in {"none", "outOfMemory"}
        /\ phase' = "text" => /\ verdict' = "none"
                              /\ lexError' <=> Current.bracket > 0
    <2>1. CASE ScanDelimiter
      <3>1. Current.bracket = 0
        BY <2>1 DEF ScanDelimiter, EndsWord
      <3>2. lexError' = FALSE /\ verdict' = "none"
        BY <1>3, <2>1 DEF ScanDelimiter
      <3>3. ~(Current.bracket > 0)
        BY <3>1, SMT
      <3>4. verdict' \in {"none", "outOfMemory"}
        BY <3>2
      <3>5. ~lexError' /\ lexError' \in BOOLEAN
        BY <3>2, Zenon
      <3>6. QED
        BY <3>2, <3>3, <3>4, <3>5, Zenon
    <2>2. CASE ScanEndOfInput /\ Current.bracket > 0
      BY <1>3, <2>2 DEF ScanEndOfInput
    <2>3. CASE ScanEndOfInput /\ ~(Current.bracket > 0)
      <3>1. lexError' = FALSE /\ verdict' = "outOfMemory" /\ phase' = "done"
        BY <1>3, <2>3 DEF ScanEndOfInput
      <3>2. phase' # "text" /\ verdict' \in {"none", "outOfMemory"}
        BY <3>1
      <3>3. lexError' \in BOOLEAN
        BY <3>1
      <3>4. QED
        BY <3>2, <3>3
    <2>4. QED
      BY <2>1, <2>2, <2>3
  <1>5. TypeOK'
    BY <1>1, <1>4, WordIsFixed DEF IInv, TypeOK, Verdicts
  <1>6. Handover'
    BY <1>1, <1>2, <1>3, <1>4 DEF IInv, Handover
  <1>7. StatesAgree' /\ AgreeOnTermination'
    <2>1. trail[1].bracket = 0 /\ trail[1].escaped = 0
      BY DEF IInv, Start
    <2>2. QED
      BY <1>1, <1>3, <1>4, <2>1 DEF StatesAgree, AgreeOnTermination
  <1>8. QED
    BY <1>1, <1>5, <1>6, <1>7, WordIsFixed DEF IInv

\* The states of both scanners at the character the validator looks at.
LEMMA AtIndex ==
  ASSUME IInv, index <= Len(word)
  PROVE  /\ index \in 1..Len(word) /\ index + 1 \in 1..Len(trail)
         /\ word[index] \in Chars /\ trail[index] \in ScannerState
         /\ trail[index + 1] = UpdateBracketState(trail[index], word[index])
         /\ trail[index].bracket = 0 =>
              trail[index].brace = 0 /\ trail[index].quote = 0
         /\ ~HasQuote => word[index] # "quote" /\ trail[index].quote = 0
  BY DEF IInv, TypeOK, TrailFollows, OutsideIsClean, QuotelessTrail, HasQuote

LEMMA WalkTextPreserves == IInv /\ WalkText => IInv'
  <1> SUFFICES ASSUME IInv, WalkText PROVE IInv'
    OBVIOUS
  <1> DEFINE c == word[index]
             s == trail[index]
  <1>1. UNCHANGED <<word, trail, lexError, verdict>> /\ index' = index + 1
    BY DEF WalkText
  <1>2. /\ index \in 1..Len(word) /\ index + 1 \in 1..Len(trail)
        /\ c \in Chars /\ s \in ScannerState
        /\ trail[index + 1] = UpdateBracketState(s, c)
        /\ s.bracket = 0 => s.brace = 0 /\ s.quote = 0
    BY AtIndex DEF WalkText
  <1>3. ~HasQuote => s.bracket = 0 /\ s.escaped = escaped
    BY DEF IInv, StatesAgree, WalkText
  <1>4. Opened \in ScannerState /\ Opened.bracket = 1
    BY DEF Opened, Start, ScannerState
  <1>5. TypeOK'
    <2>1. /\ phase' \in {"text", "match"} /\ index' \in Nat \ {0}
          /\ open' \in Nat \ {0} /\ match' \in ScannerState /\ escaped' \in {0, 1}
      BY <1>1, <1>2, <1>4 DEF IInv, TypeOK, WalkText, Flag
    <2>2. QED
      BY <1>1, <2>1, WordIsFixed DEF IInv, TypeOK
  <1>6. Handover'
    <2>1. phase' = "match" => match'.bracket > 0 /\ escaped' = 0
      BY <1>4 DEF WalkText
    <2>2. /\ phase \in {"text", "match"} /\ phase' \in {"text", "match"}
          /\ index + 1 <= Len(word) + 1
      BY <1>2 DEF WalkText, IInv, TypeOK
    <2>3. QED
      BY <1>1, <2>1, <2>2 DEF IInv, Handover
  <1>7. StatesAgree'
    <2> SUFFICES ASSUME ~HasQuote
                 PROVE  /\ phase' = "text" => /\ trail[index + 1].bracket = 0
                                              /\ trail[index + 1].escaped = escaped'
                        /\ phase' = "match" => trail[index + 1] = match'
      BY <1>1, WordIsFixed DEF StatesAgree
    <2>1. /\ s.escaped = 0 /\ c = "openBracket" => trail[index + 1] = Opened
          /\ ~(s.escaped = 0 /\ c = "openBracket") =>
               /\ trail[index + 1].bracket = 0
               /\ trail[index + 1].escaped = Flag(s.escaped = 0 /\ c = "backslash")
      BY <1>2, <1>3, OutsideRules
    <2>2. QED
      BY <1>3, <2>1 DEF WalkText
  <1>8. AgreeOnTermination'
    BY <1>1, WordIsFixed DEF IInv, AgreeOnTermination
  <1>9. QED
    BY <1>1, <1>5, <1>6, <1>7, <1>8, WordIsFixed DEF IInv

LEMMA WalkMatchPreserves == IInv /\ (WalkMatch \/ WalkMatched) => IInv'
  <1> SUFFICES ASSUME IInv, WalkMatch \/ WalkMatched PROVE IInv'
    OBVIOUS
  <1> DEFINE c == word[index]
             s == trail[index]
  <1>1. /\ UNCHANGED <<word, trail, lexError>> /\ index' = index + 1
        /\ UNCHANGED <<escaped, open>> /\ phase = "match"
        /\ match' = MatchStep(match, c)
    BY DEF WalkMatch, WalkMatched
  <1>2. /\ index \in 1..Len(word) /\ index + 1 \in 1..Len(trail)
        /\ c \in Chars /\ s \in ScannerState
        /\ trail[index + 1] = UpdateBracketState(s, c)
        /\ ~HasQuote => c # "quote" /\ s.quote = 0
    BY AtIndex DEF WalkMatch, WalkMatched
  <1>3. match \in ScannerState /\ match.bracket > 0 /\ escaped = 0 /\ verdict = "none"
    BY <1>1 DEF IInv, TypeOK, Handover
  <1>4. match' \in ScannerState
    BY <1>1, <1>2, <1>3, MatchType
  <1>5. /\ phase' = "match" => match'.bracket > 0
        /\ phase' = "text" => match'.bracket = 0
        /\ phase' \in {"text", "match"} => verdict' = "none"
        /\ phase' \in {"text", "match", "done"}
        /\ verdict' \in {"none", "rejected"}
    BY <1>1, <1>3 DEF WalkMatch, WalkMatched
  <1>6. TypeOK'
    BY <1>1, <1>2, <1>4, <1>5, WordIsFixed DEF IInv, TypeOK, Verdicts
  <1>7. Handover'
    <2>1. index + 1 <= Len(word) + 1
      BY <1>2 DEF IInv, TypeOK
    <2>2. QED
      BY <1>1, <1>3, <1>5, <2>1 DEF IInv, Handover
  <1>8. StatesAgree'
    <2> SUFFICES ASSUME ~HasQuote
                 PROVE  /\ phase' = "text" => /\ trail[index + 1].bracket = 0
                                              /\ trail[index + 1].escaped = escaped
                        /\ phase' = "match" => trail[index + 1] = match'
      BY <1>1, WordIsFixed DEF StatesAgree
    <2>1. s = match
      BY <1>1 DEF IInv, StatesAgree
    <2>2. /\ match' = trail[index + 1]
          /\ match'.bracket = 0 => match'.escaped = 0
      BY <1>1, <1>2, <1>3, <2>1, SameRules
    <2>3. match'.escaped \in {0, 1} /\ escaped \in {0, 1}
      BY <1>4 DEF ScannerState, IInv, TypeOK
    <2>4. QED
      BY <1>3, <1>5, <2>2, <2>3
  <1>9. AgreeOnTermination'
    BY <1>5 DEF AgreeOnTermination
  <1>10. QED
    BY <1>1, <1>6, <1>7, <1>8, <1>9, WordIsFixed DEF IInv

LEMMA WalkEndPreserves == IInv /\ (WalkTextEnd \/ WalkMatchEnd) => IInv'
  <1> SUFFICES ASSUME IInv, WalkTextEnd \/ WalkMatchEnd PROVE IInv'
    OBVIOUS
  <1>1. /\ UNCHANGED <<word, trail, lexError, index, escaped, open, match>>
        /\ phase \in {"text", "match"} /\ phase' = "done"
        /\ verdict' \in {"accepted", "unterminated"}
    BY DEF WalkTextEnd, WalkMatchEnd
  <1>2. /\ index = Len(trail) /\ trail[index].bracket \in Nat
        /\ lexError \in BOOLEAN
    <2>1. ~(index <= Len(word))
      BY DEF WalkTextEnd, WalkMatchEnd, IInv, TypeOK
    <2>2. index = Len(trail) /\ index \in 1..Len(trail)
      BY <2>1 DEF IInv, TypeOK, Handover, TrailFollows
    <2>3. trail[index] \in ScannerState /\ lexError \in BOOLEAN
      BY <2>2 DEF IInv, TypeOK
    <2>4. QED
      BY <2>2, <2>3 DEF ScannerState
  <1>3. TypeOK' /\ Handover'
    BY <1>1, WordIsFixed DEF IInv, TypeOK, Handover, Verdicts
  <1>4. AgreeOnTermination'
    <2> SUFFICES ASSUME ~HasQuote
                 PROVE  /\ verdict' = "accepted" => ~lexError
                        /\ verdict' = "unterminated" => lexError
      BY <1>1, WordIsFixed DEF AgreeOnTermination
    <2>1. lexError <=> trail[index].bracket > 0
      BY <1>1, <1>2 DEF IInv, Handover
    <2>2. CASE WalkTextEnd
      BY <1>2, <2>1, <2>2 DEF WalkTextEnd, IInv, StatesAgree
    <2>3. CASE WalkMatchEnd
      BY <1>2, <2>1, <2>3 DEF WalkMatchEnd, IInv, StatesAgree, Handover
    <2>4. QED
      BY <2>2, <2>3
  <1>5. StatesAgree'
    BY <1>1 DEF StatesAgree
  <1>6. QED
    BY <1>1, <1>3, <1>4, <1>5, WordIsFixed DEF IInv

LEMMA StepPreserves == IInv /\ [Next]_vars => IInv'
  <1> SUFFICES ASSUME IInv, [Next]_vars PROVE IInv'
    OBVIOUS
  <1>1. CASE UNCHANGED vars
    BY <1>1, WordIsFixed
    DEF vars, IInv, TypeOK, Handover, StatesAgree, AgreeOnTermination
  <1>2. CASE Next
    BY <1>1, <1>2, ScanPreserves, ScanEndPreserves, WalkTextPreserves,
       WalkMatchPreserves, WalkEndPreserves DEF Next, Done
  <1>3. QED
    BY <1>1, <1>2

THEOREM Invariance == Spec => []IInv
  <1>1. QED
    BY InitIInv, StepPreserves, PTL DEF Spec

\* Every variable has its type; in particular no depth goes below zero.
THEOREM TypeCorrect == Spec => []TypeOK
  <1>1. IInv => TypeOK
    BY DEF IInv
  <1>2. QED
    BY Invariance, <1>1, PTL

\* update_bracket_state never leaves the last bracket from a brace or a quote.
THEOREM LexerIsCleanOutside == Spec => []OutsideIsClean
  <1>1. IInv => OutsideIsClean
    BY DEF IInv
  <1>2. QED
    BY Invariance, <1>1, PTL

\* Without quotes the validator sees the substitutions that the lexer saw, and
\* "unterminated" is reported exactly when the lexer met it.
THEOREM ScannersAgreeWithoutQuotes == Spec => []ScannersAgree
  <1>1. IInv => ScannersAgree
    BY DEF IInv, ScannersAgree
  <1>2. QED
    BY Invariance, <1>1, PTL
==============================================================================
