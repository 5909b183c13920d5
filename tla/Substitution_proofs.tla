-------------------------- MODULE Substitution_proofs --------------------------
(***************************************************************************)
(* Theorems about the values of words, for words, variables and values of  *)
(* every length: the scanner reads no character behind its text, and calls *)
(* itself no deeper than the word is long; and what it hands out is what   *)
(* the rules of "Spelling" derive.                                         *)
(***************************************************************************)
EXTENDS Spelling, Texts_proofs

\* A half read escape: its digits lie in the text, and one digit is below 16.
EscapeBounded ==
  scanning =>
    /\ frames # <<>>
    /\ Top.index < Len(Top.text) /\ Top.text[Top.index] = Backslash
    /\ DigitsAt(Escaped, Top.index) + scanned.count <= Len(Top.text) + 1
    /\ scanned.count <= DigitRule(Escaped).most
    /\ scanned.value <= DigitRule(Escaped).limit
    /\ scanned.count = 1 => scanned.value <= 15
    /\ scanned.count = 0 => scanned.value = 0

\* The parts of the type invariant, and the bound, as facts about one variable.
FramesHold(fs) ==
  /\ fs \in Seq(Frame)
  /\ \A n \in 1..Len(fs) : /\ fs[n].index \in 1..(Len(fs[n].text) + 1)
                           /\ Len(fs[n].text) + 3 * (n - 1) <= Len(fs[1].text)

VariablesHold(s) == DOMAIN s \subseteq Seq(Byte) /\ \A name \in DOMAIN s : s[name] \in Seq(Byte)

OthersHold ==
  /\ test \in [Phases -> Word]
  /\ phase \in Phases \union {"done"}
  /\ scanning \in BOOLEAN
  /\ scanned \in Scanned
  /\ outcomes \in [Phases -> Outcome]

IInv == FramesHold(frames) /\ VariablesHold(store) /\ OthersHold /\ EscapeBounded

LEMMA InvariantSuffices == IInv => TypeOK /\ RecursionFollowsText
BY DEF IInv, FramesHold, VariablesHold, OthersHold, TypeOK, RecursionFollowsText

------------------------------------------------------------------------------
\* A search ends where it begins or behind it, at most behind the last character.
LEMMA FirstInBounds ==
  ASSUME NEW t \in Seq(Character), NEW i \in 1..(Len(t) + 1), NEW stops
  PROVE  FirstIn(t, i, stops) \in i..(Len(t) + 1)
BY FirstInIs

LEMMA NameEndBounds ==
  ASSUME NEW t \in Seq(Character), NEW i \in 1..(Len(t) + 1)
  PROVE  NameEnd(t, i) \in i..(Len(t) + 1)
BY Zenon, FirstInBounds DEF NameEnd

LEMMA IndexEndBounds ==
  ASSUME NEW t \in Seq(Character), NEW i \in 1..(Len(t) + 1)
  PROVE  IndexEnd(t, i) \in i..(Len(t) + 1)
BY Zenon, FirstInBounds DEF IndexEnd

\* A text is a sequence of bytes.
LEMMA TextsAreBytes == Seq(Character) \subseteq Seq(Byte)
<1>1. Character \subseteq Byte
  BY DEF Character, Byte
<1> QED
  BY <1>1, SeqMonotonic

\* What the invariant says of a frame.
LEMMA FrameFacts ==
  ASSUME NEW f \in Frame, f.index \in 1..(Len(f.text) + 1)
  PROVE  /\ f.text \in Seq(Character) /\ Len(f.text) \in Nat
         /\ f.index \in Nat /\ f.index >= 1 /\ f.index <= Len(f.text) + 1
         /\ f.buffer \in Seq(Byte) /\ f.base \in Seq(Character)
         /\ \A i \in 1..Len(f.text) : f.text[i] \in Character /\ f.text[i] \in Byte
<1>1. f.text \in Seq(Character) /\ f.buffer \in Seq(Byte) /\ f.base \in Seq(Character)
  BY DEF Frame
<1>2. Len(f.text) \in Nat /\ \A i \in 1..Len(f.text) : f.text[i] \in Character
  BY <1>1
<1>3. \A c \in Character : c \in Byte
  BY DEF Character, Byte
<1> QED
  BY <1>1, <1>2, <1>3

\* The innermost call is a frame like the others.
LEMMA TopFacts ==
  ASSUME FramesHold(frames), frames # <<>>
  PROVE  /\ Len(frames) \in Nat /\ Len(frames) >= 1
         /\ Top \in Frame /\ Top.index \in 1..(Len(Top.text) + 1)
         /\ Top.text \in Seq(Character) /\ Len(Top.text) \in Nat
         /\ Top.index \in Nat /\ Top.index >= 1 /\ Top.index <= Len(Top.text) + 1
         /\ Top.buffer \in Seq(Byte) /\ Top.base \in Seq(Character)
         /\ \A i \in 1..Len(Top.text) : Top.text[i] \in Character /\ Top.text[i] \in Byte
<1>1. frames \in Seq(Frame) /\ Len(frames) \in Nat /\ Len(frames) >= 1
  BY EmptySeq DEF FramesHold
<1>2. Top \in Frame /\ Top.index \in 1..(Len(Top.text) + 1)
  <2>1. Len(frames) \in 1..Len(frames)
    BY <1>1
  <2>2. \A n \in 1..Len(frames) : frames[n] \in Frame
    BY <1>1
  <2> QED
    BY Zenon, <2>1, <2>2 DEF FramesHold, Top
<1> QED
  BY Zenon, <1>1, <1>2, FrameFacts

LEMMA AdvancedIsFrame ==
  ASSUME NEW f \in Frame, NEW next \in Nat, NEW bytes \in Seq(Byte)
  PROVE  /\ Advanced(f, next, bytes) \in Frame
         /\ Advanced(f, next, bytes).text = f.text
         /\ Advanced(f, next, bytes).index = next
<1>1. f.buffer \o bytes \in Seq(Byte)
  <2>1. f.buffer \in Seq(Byte)
    BY DEF Frame
  <2> QED
    BY Zenon, <2>1, ConcatProperties
<1>2. Advanced(f, next, bytes)
        = [text |-> f.text, index |-> next, buffer |-> f.buffer \o bytes, base |-> f.base]
  BY DEF Advanced
<1> QED
  BY <1>1, <1>2 DEF Frame

\* Another frame for the same text in place of the last one.
LEMMA LastReplaced ==
  ASSUME NEW fs, FramesHold(fs), NEW k \in 1..Len(fs), k = Len(fs),
         NEW f \in Frame, f.text = fs[k].text, f.index \in 1..(Len(f.text) + 1)
  PROVE  FramesHold([fs EXCEPT ![k] = f])
<1> DEFINE new == [fs EXCEPT ![k] = f]
<1>1. fs \in Seq(Frame)
  BY DEF FramesHold
<1>2. new \in Seq(Frame) /\ Len(new) = Len(fs)
  BY <1>1
<1>3. \A n \in 1..Len(fs) : new[n] = IF n = k THEN f ELSE fs[n]
  BY <1>1
<1>4. \A n \in 1..Len(fs) : new[n].text = fs[n].text
  BY <1>3
<1>5. \A n \in 1..Len(fs) : new[n].index \in 1..(Len(new[n].text) + 1)
  <2> HIDE DEF new
  <2> QED
    BY Zenon, <1>3 DEF FramesHold
<1>6. \A n \in 1..Len(fs) : Len(new[n].text) + 3 * (n - 1) <= Len(new[1].text)
  <2>1. 1 \in 1..Len(fs)
    BY <1>1
  <2> HIDE DEF new
  <2> QED
    BY <1>4, <2>1 DEF FramesHold
<1> HIDE DEF new
<1>7. FramesHold(new)
  BY <1>2, <1>5, <1>6 DEF FramesHold
<1> QED
  BY <1>7 DEF new

\* Every text is at most as long as the first one.
LEMMA FirstText ==
  ASSUME NEW fs, FramesHold(fs), NEW k \in Nat, k = Len(fs), k >= 1
  PROVE  /\ Len(fs[1].text) \in Nat
         /\ Len(fs[k].text) \in Nat
         /\ Len(fs[k].text) + 3 * (k - 1) <= Len(fs[1].text)
<1>1. 1 \in 1..Len(fs) /\ k \in 1..Len(fs)
  OBVIOUS
<1>2. \A n \in 1..Len(fs) : fs[n] \in Frame /\ fs[n].index \in 1..(Len(fs[n].text) + 1)
  <2>1. fs \in Seq(Frame)
    BY DEF FramesHold
  <2>2. \A n \in 1..Len(fs) : fs[n] \in Frame
    BY <2>1
  <2> QED
    BY Zenon, <2>2 DEF FramesHold
<1>3. Len(fs[1].text) \in Nat /\ Len(fs[k].text) \in Nat
  BY Zenon, <1>1, <1>2, FrameFacts
<1>4. Len(fs[k].text) + 3 * (k - 1) <= Len(fs[1].text)
  BY Zenon, <1>1 DEF FramesHold
<1> QED
  BY <1>3, <1>4

\* A frame for a text that is shorter by three characters, on top.
LEMMA FrameAppended ==
  ASSUME NEW fs, FramesHold(fs), NEW k \in Nat, k = Len(fs), k >= 1,
         NEW g \in Frame, g.index \in 1..(Len(g.text) + 1),
         Len(g.text) + 3 <= Len(fs[k].text)
  PROVE  FramesHold(Append(fs, g))
<1> DEFINE new == Append(fs, g)
<1>1. fs \in Seq(Frame)
  BY DEF FramesHold
<1>2. /\ new \in Seq(Frame) /\ Len(new) = k + 1 /\ new[k + 1] = g
      /\ \A n \in 1..k : new[n] = fs[n]
  BY <1>1, AppendProperties
<1> HIDE DEF new
<1>3. new[1] = fs[1]
  BY <1>2
<1>4. Len(g.text) + 3 * k <= Len(fs[1].text)
  <2>1. Len(g.text) \in Nat
    BY Zenon, FrameFacts
  <2>2. /\ Len(fs[1].text) \in Nat /\ Len(fs[k].text) \in Nat
        /\ Len(fs[k].text) + 3 * (k - 1) <= Len(fs[1].text)
    BY Zenon, FirstText
  <2> DEFINE a == Len(g.text)
             b == Len(fs[k].text)
             c == Len(fs[1].text)
  <2>3. a \in Nat /\ b \in Nat /\ c \in Nat /\ a + 3 <= b /\ b + 3 * (k - 1) <= c
    BY Zenon, <2>1, <2>2
  <2> HIDE DEF a, b, c
  <2>4. a + 3 * k <= c
    BY <2>3
  <2> QED
    BY Zenon, <2>4 DEF a, c
<1>5. \A n \in 1..k : /\ new[n].index \in 1..(Len(new[n].text) + 1)
                      /\ Len(new[n].text) + 3 * (n - 1) <= Len(new[1].text)
  BY Zenon, <1>2, <1>3 DEF FramesHold
<1>6. \A n \in 1..Len(new) : n \in 1..k \/ n = k + 1
  BY <1>2
<1>7. (k + 1) - 1 = k
  OBVIOUS
<1>8. \A n \in 1..Len(new) : /\ new[n].index \in 1..(Len(new[n].text) + 1)
                             /\ Len(new[n].text) + 3 * (n - 1) <= Len(new[1].text)
  BY Zenon, <1>2, <1>3, <1>4, <1>5, <1>6, <1>7
<1>9. FramesHold(new)
  BY Zenon, <1>2, <1>8 DEF FramesHold
<1> QED
  BY <1>9 DEF new

\* The innermost frame is gone.
LEMMA LastRemoved ==
  ASSUME NEW fs, FramesHold(fs), NEW k \in Nat, k >= 1, k = Len(fs) - 1
  PROVE  /\ FramesHold(SubSeq(fs, 1, k)) /\ Len(SubSeq(fs, 1, k)) = k
         /\ SubSeq(fs, 1, k)[k] \in Frame
         /\ SubSeq(fs, 1, k)[k].index \in 1..(Len(SubSeq(fs, 1, k)[k].text) + 1)
<1> DEFINE new == SubSeq(fs, 1, k)
<1>1. fs \in Seq(Frame) /\ Len(fs) = k + 1
  BY DEF FramesHold
<1>2. new \in Seq(Frame) /\ Len(new) = k /\ \A n \in 1..k : new[n] = fs[n]
  BY <1>1, SubSeqProperties
<1> HIDE DEF new
<1>3. 1 \in 1..k /\ k \in 1..k /\ \A n \in 1..k : n \in 1..Len(fs)
  BY <1>1
<1>4. \A n \in 1..k : /\ new[n].index \in 1..(Len(new[n].text) + 1)
                      /\ Len(new[n].text) + 3 * (n - 1) <= Len(new[1].text)
  BY Zenon, <1>2, <1>3 DEF FramesHold
<1>5. FramesHold(new)
  BY Zenon, <1>2, <1>4 DEF FramesHold
<1>6. new[k] \in Frame
  BY <1>2, <1>3
<1>7. /\ FramesHold(new) /\ Len(new) = k /\ new[k] \in Frame
      /\ new[k].index \in 1..(Len(new[k].text) + 1)
  BY Zenon, <1>2, <1>3, <1>4, <1>5, <1>6
<1> QED
  BY <1>7 DEF new

------------------------------------------------------------------------------
\* The ways in which an action ends.
LEMMA GoOnKeeps ==
  ASSUME IInv, frames # <<>>, NEW next \in 1..(Len(Top.text) + 1), NEW bytes \in Seq(Byte),
         GoOn(next, bytes), SameWord, scanning' = FALSE, scanned' = scanned
  PROVE  IInv'
<1> DEFINE f == Advanced(Top, next, bytes)
           k == Len(frames)
<1>1. FramesHold(frames) /\ k \in 1..Len(frames) /\ Top = frames[k]
  BY TopFacts DEF IInv, Top
<1>2. next \in Nat
  BY <1>1, TopFacts
<1>3. f \in Frame /\ f.text = Top.text /\ f.index = next
  BY Zenon, <1>1, <1>2, TopFacts, AdvancedIsFrame
<1>4. frames' = [frames EXCEPT ![k] = f]
  BY DEF GoOn
<1> HIDE DEF f, k
<1>5. f.index \in 1..(Len(f.text) + 1) /\ f.text = frames[k].text
  BY Zenon, <1>1, <1>3
<1>6. FramesHold(frames')
  BY Zenon, <1>1, <1>3, <1>4, <1>5, LastReplaced DEF k
<1> QED
  BY <1>6 DEF IInv, OthersHold, EscapeBounded, SameWord

LEMMA NoFrames == FramesHold(<<>>)
BY EmptySeq DEF FramesHold

LEMMA FailKeeps ==
  ASSUME IInv, NEW verdict \in Verdicts, Fail(verdict)
  PROVE  IInv'
<1>1. outcomes' \in [Phases -> Outcome]
  <2>1. [verdict |-> verdict, value |-> <<>>] \in Outcome
    BY EmptySeq DEF Outcome
  <2>2. outcomes \in [Phases -> Outcome]
    BY DEF IInv, OthersHold
  <2> QED
    BY <2>1, <2>2 DEF Fail
<1>2. OthersHold'
  BY <1>1 DEF Fail, IInv, OthersHold
<1>3. FramesHold(frames')
  BY NoFrames DEF Fail
<1> QED
  BY <1>2, <1>3 DEF Fail, IInv, EscapeBounded

LEMMA FinishKeeps ==
  ASSUME IInv, ~scanning, NEW bytes \in Seq(Byte), Finish(bytes)
  PROVE  IInv'
<1>1. outcomes' \in [Phases -> Outcome]
  <2>1. [verdict |-> "ok", value |-> bytes] \in Outcome
    BY DEF Outcome, Verdicts
  <2>2. outcomes \in [Phases -> Outcome]
    BY DEF IInv, OthersHold
  <2> QED
    BY <2>1, <2>2 DEF Finish
<1>2. VariablesHold(store')
  <2>1. VariablesHold(store)
    BY DEF IInv
  <2>2. CASE phase = "set"
    BY <2>1, <2>2, ValueAssumption, TextsAreBytes DEF Finish, VariablesHold
  <2>3. CASE phase # "set"
    BY <2>1, <2>3 DEF Finish
  <2> QED
    BY <2>2, <2>3
<1>3. phase' \in Phases \union {"done"}
  BY DEF Finish, Phases
<1>4. OthersHold'
  BY <1>1, <1>3 DEF Finish, IInv, OthersHold
<1>5. FramesHold(frames')
  BY NoFrames DEF Finish
<1> QED
  BY <1>2, <1>4, <1>5 DEF Finish, IInv, EscapeBounded

LEMMA SubstituteKeeps ==
  ASSUME IInv, frames # <<>>, ~scanning, NEW name, NEW next \in 1..(Len(Top.text) + 1),
         Substitute(name, next)
  PROVE  IInv'
<1>1. scanning = FALSE /\ <<Dollar>> \in Seq(Byte)
  BY DEF IInv, OthersHold, Dollar, Byte
<1>2. CASE name = <<>>
  BY Zenon, <1>1, <1>2, GoOnKeeps DEF Substitute, SameEscape
<1>3. CASE name # <<>> /\ name \in DOMAIN store
  <2>1. store[name] \in Seq(Byte)
    BY <1>3 DEF IInv, VariablesHold
  <2> QED
    BY Zenon, <1>1, <1>3, <2>1, GoOnKeeps DEF Substitute, SameEscape
<1>4. CASE name # <<>> /\ name \notin DOMAIN store
  <2>1. "semantic" \in Verdicts
    BY DEF Verdicts
  <2> QED
    BY Zenon, <1>4, <2>1, FailKeeps DEF Substitute
<1> QED
  BY <1>2, <1>3, <1>4

\* An index is evaluated: a shorter text on top.
LEMMA IndexKeeps ==
  ASSUME IInv, frames # <<>>, scanning' = FALSE, scanned' = scanned, SameWord,
         NEW first \in Nat, NEW last \in Nat, NEW base \in Seq(Character),
         first >= Top.index + 2, first <= last, last <= Len(Top.text),
         frames' = Append([frames EXCEPT ![Len(frames)] = Advanced(Top, last + 1, <<>>)],
                          Entered(SubSeq(Top.text, first, last - 1), base))
  PROVE  IInv'
<1> DEFINE k == Len(frames)
           f == Advanced(Top, last + 1, <<>>)
           fs == [frames EXCEPT ![k] = f]
           index == SubSeq(Top.text, first, last - 1)
           g == Entered(index, base)
<1>1. /\ FramesHold(frames) /\ k \in Nat /\ k >= 1 /\ k \in 1..Len(frames)
      /\ Top = frames[k] /\ Top \in Frame
      /\ Top.text \in Seq(Character) /\ Len(Top.text) \in Nat
      /\ Top.index \in Nat /\ Top.index >= 1
  BY TopFacts DEF IInv, Top
<1>2. <<>> \in Seq(Byte) /\ last + 1 \in Nat
  BY EmptySeq
<1>3. f \in Frame /\ f.text = Top.text /\ f.index = last + 1
  BY Zenon, <1>1, <1>2, AdvancedIsFrame
<1>4. index \in Seq(Character) /\ Len(index) = last - first
  <2>1. \A i \in first..(last - 1) : Top.text[i] \in Character
    BY <1>1
  <2> QED
    BY <1>1, <2>1, SubSeqProperties
<1>5. g \in Frame /\ g.text = index /\ g.index = 1
  BY <1>2, <1>4 DEF Entered, Frame
<1> HIDE DEF f, index, g
<1>6. FramesHold(fs)
  <2>1. last + 1 \in 1..(Len(Top.text) + 1)
    BY <1>1
  <2>2. f.index \in 1..(Len(f.text) + 1) /\ f.text = frames[k].text
    BY Zenon, <1>1, <1>3, <2>1
  <2> QED
    BY Zenon, <1>1, <1>3, <2>2, LastReplaced
<1>7. k = Len(fs) /\ fs[k] = f
  <2>1. frames \in Seq(Frame)
    BY Zenon, <1>1 DEF FramesHold
  <2> QED
    BY <1>1, <2>1
<1>8. frames' = Append(fs, g)
  BY Zenon DEF f, g, index
<1> HIDE DEF fs, k
<1>9. g.index \in 1..(Len(g.text) + 1) /\ Len(g.text) + 3 <= Len(fs[k].text)
  <2>1. Len(g.text) \in Nat /\ Len(g.text) + 3 <= Len(Top.text)
    BY <1>1, <1>4, <1>5
  <2>2. Len(fs[k].text) = Len(Top.text)
    BY Zenon, <1>3, <1>7
  <2> QED
    BY <1>5, <2>1, <2>2
<1>10. FramesHold(frames')
  BY Zenon, <1>1, <1>5, <1>6, <1>7, <1>8, <1>9, FrameAppended
<1> QED
  BY <1>10 DEF IInv, OthersHold, EscapeBounded, SameWord

\* An index has a value: its caller goes on.
LEMMA ReturnKeeps ==
  ASSUME IInv, Len(frames) > 1, scanning' = FALSE, scanned' = scanned, SameWord,
         NEW bytes \in Seq(Byte), NEW k, k = Len(frames) - 1,
         frames' = [SubSeq(frames, 1, k) EXCEPT ![k] = Advanced(@, @.index, bytes)]
  PROVE  IInv'
<1> DEFINE fs == SubSeq(frames, 1, k)
           f == Advanced(fs[k], fs[k].index, bytes)
<1>1. FramesHold(frames) /\ k \in Nat /\ k >= 1
  <2>1. frames \in Seq(Frame)
    BY DEF IInv, FramesHold
  <2>2. Len(frames) \in Nat
    BY <2>1
  <2> QED
    BY <2>2 DEF IInv
<1>2. /\ FramesHold(fs) /\ Len(fs) = k /\ fs[k] \in Frame
      /\ fs[k].index \in 1..(Len(fs[k].text) + 1)
  BY Zenon, <1>1, LastRemoved
<1>3. frames' = [fs EXCEPT ![k] = f]
  OBVIOUS
<1> HIDE DEF fs
<1>4. k \in 1..Len(fs) /\ k = Len(fs)
  BY <1>1, <1>2
<1>5. fs[k].index \in Nat
  BY Zenon, <1>2, FrameFacts
<1>6. f \in Frame /\ f.text = fs[k].text /\ f.index = fs[k].index
  BY Zenon, <1>2, <1>5, AdvancedIsFrame
<1> HIDE DEF f
<1>7. f.index \in 1..(Len(f.text) + 1)
  BY Zenon, <1>2, <1>6
<1>8. FramesHold([fs EXCEPT ![k] = f])
  BY Zenon, <1>2, <1>4, <1>6, <1>7, LastReplaced
<1>9. FramesHold(frames')
  BY Zenon, <1>3, <1>8
<1> QED
  BY <1>9 DEF IInv, OthersHold, EscapeBounded, SameWord

------------------------------------------------------------------------------
LEMMA InitIInv == Init => IInv
<1> SUFFICES ASSUME Init
             PROVE  IInv
  OBVIOUS
<1>1. frames = <<>> /\ FramesHold(frames)
  BY NoFrames DEF Init
<1>2. VariablesHold(store)
  BY StoredAssumption, TextsAreBytes DEF Init, VariablesHold
<1>3. outcomes \in [Phases -> Outcome]
  <2>1. Pending \in Outcome
    BY EmptySeq DEF Pending, Outcome, Verdicts
  <2> QED
    BY <2>1 DEF Init
<1>4. test \in [Phases -> Word]
  BY TestsAssumption DEF Init
<1>5. NoDigits \in Scanned
  BY DEF NoDigits, Scanned
<1>6. phase \in Phases \union {"done"} /\ scanning \in BOOLEAN /\ scanned \in Scanned
  BY <1>5 DEF Init, Phases
<1>7. OthersHold
  BY <1>3, <1>4, <1>6 DEF OthersHold
<1> QED
  BY <1>1, <1>2, <1>7 DEF Init, IInv, EscapeBounded

\* The word of the phase.
LEMMA WordFacts ==
  ASSUME IInv, phase # "done"
  PROVE  /\ test[phase].text \in Seq(Character) /\ test[phase].text \in Seq(Byte)
         /\ <<Dollar>> \o test[phase].text \in Seq(Character)
<1>1. test[phase] \in Word
  BY DEF IInv, OthersHold
<1>2. test[phase].text \in Seq(Character) /\ <<Dollar>> \in Seq(Character)
  BY <1>1 DEF Word, Dollar, Character
<1> HIDE DEF Dollar
<1>3. <<Dollar>> \o test[phase].text \in Seq(Character)
  BY Zenon, <1>2, ConcatProperties
<1>4. test[phase].text \in Seq(Byte)
  BY <1>2, TextsAreBytes
<1> QED
  BY <1>2, <1>3, <1>4

LEMMA BeginTextKeeps ==
  ASSUME IInv, BeginText
  PROVE  IInv'
<1>1. phase # "done"
  BY DEF BeginText, Called
<1> DEFINE text == IF test[phase].kind = "var" THEN <<Dollar>> \o test[phase].text
                   ELSE test[phase].text
           f == Entered(text, <<>>)
<1>2. text \in Seq(Character)
  BY <1>1, WordFacts
<1> HIDE DEF text
<1>3. f \in Frame /\ f.text = text /\ f.index = 1
  BY <1>2, EmptySeq DEF Entered, Frame
<1>4. frames' = <<f>>
  BY DEF BeginText, text
<1> HIDE DEF f
<1>5. f.index \in 1..(Len(f.text) + 1)
  BY <1>2, <1>3
<1>6. FramesHold(<<f>>)
  <2> DEFINE fs == <<f>>
  <2>1. fs \in Seq(Frame) /\ Len(fs) = 1 /\ fs[1] = f
    BY <1>3
  <2>2. Len(f.text) \in Nat
    BY <1>2, <1>3
  <2>3. \A n \in 1..Len(fs) : n = 1
    BY <2>1
  <2>4. Len(f.text) + 3 * (1 - 1) <= Len(f.text)
    BY <2>2
  <2> HIDE DEF fs
  <2>5. FramesHold(fs)
    BY Zenon, <1>5, <2>1, <2>3, <2>4 DEF FramesHold
  <2> QED
    BY <2>5 DEF fs
<1>7. FramesHold(frames')
  BY Zenon, <1>4, <1>6
<1>8. ~scanning
  BY DEF BeginText, Called, IInv, EscapeBounded
<1> QED
  BY <1>7, <1>8 DEF BeginText, IInv, OthersHold, EscapeBounded

\* A reference reads a part of the text behind its dollar.
LEMMA ReferenceFacts ==
  ASSUME IInv, AtReference
  PROVE  /\ frames # <<>> /\ scanning = FALSE
         /\ Top.text \in Seq(Character) /\ Len(Top.text) \in Nat
         /\ Top.index \in Nat /\ Top.index >= 1 /\ Top.index < Len(Top.text)
<1>1. frames # <<>> /\ scanning = FALSE /\ FramesHold(frames)
  BY DEF AtReference, At, Resolving, IInv, OthersHold
<1> QED
  BY <1>1, TopFacts DEF AtReference

LEMMA BracedKeeps ==
  ASSUME IInv, BracedReference
  PROVE  IInv'
<1>1. /\ frames # <<>> /\ scanning = FALSE
      /\ Top.text \in Seq(Character) /\ Len(Top.text) \in Nat
      /\ Top.index \in Nat /\ Top.index >= 1 /\ Top.index < Len(Top.text)
  BY ReferenceFacts DEF BracedReference
<1> DEFINE end == FirstIn(Top.text, Top.index + 2,
                        {k \in 1..Len(Top.text) : Top.text[k] = CloseBrace})
<1>2. Top.index + 2 \in 1..(Len(Top.text) + 1)
  BY <1>1
<1>3. end \in (Top.index + 2)..(Len(Top.text) + 1)
  BY Zenon, <1>1, <1>2, FirstInBounds
<1>4. CASE end > Len(Top.text)
  <2>1. "syntax" \in Verdicts
    BY DEF Verdicts
  <2>2. Fail("syntax")
    BY <1>4 DEF BracedReference
  <2> QED
    BY Zenon, <2>1, <2>2, FailKeeps
<1>5. CASE ~(end > Len(Top.text))
  <2>1. Substitute(SubSeq(Top.text, Top.index + 2, end - 1), end + 1)
    BY <1>5 DEF BracedReference
  <2> HIDE DEF end
  <2>2. end + 1 \in 1..(Len(Top.text) + 1)
    BY <1>1, <1>3, <1>5
  <2> QED
    BY Zenon, <1>1, <2>1, <2>2, SubstituteKeeps
<1> QED
  BY <1>4, <1>5

\* Where the name behind a dollar ends.
LEMMA BaseEndBounds ==
  ASSUME IInv, AtReference
  PROVE  BaseEnd \in (Top.index + 1)..(Len(Top.text) + 1)
<1>1. /\ Top.text \in Seq(Character) /\ Len(Top.text) \in Nat
      /\ Top.index \in Nat /\ Top.index >= 1 /\ Top.index < Len(Top.text)
  BY ReferenceFacts
<1>2. Top.index + 1 \in 1..(Len(Top.text) + 1)
  BY <1>1
<1> QED
  BY Zenon, <1>1, <1>2, NameEndBounds DEF BaseEnd

LEMMA NamedKeeps ==
  ASSUME IInv, NamedReference
  PROVE  IInv'
<1>1. AtReference
  BY DEF NamedReference
<1>2. /\ frames # <<>> /\ scanning = FALSE
      /\ Len(Top.text) \in Nat /\ Top.index \in Nat /\ Top.index >= 1
  BY <1>1, ReferenceFacts
<1>3. BaseEnd \in 1..(Len(Top.text) + 1)
  BY <1>1, <1>2, BaseEndBounds
<1>4. Substitute(SubSeq(Top.text, Top.index + 1, BaseEnd - 1), BaseEnd)
  BY DEF NamedReference
<1> QED
  BY Zenon, <1>2, <1>3, <1>4, SubstituteKeeps

LEMMA ElementKeeps ==
  ASSUME IInv, ElementReference
  PROVE  IInv'
<1>1. AtReference /\ HasIndex
  BY DEF ElementReference
<1>2. /\ frames # <<>> /\ scanning = FALSE
      /\ Top.text \in Seq(Character) /\ Len(Top.text) \in Nat
      /\ Top.index \in Nat /\ Top.index >= 1 /\ Top.index < Len(Top.text)
  BY <1>1, ReferenceFacts
<1>3. BaseEnd \in (Top.index + 1)..(Len(Top.text) + 1) /\ BaseEnd <= Len(Top.text)
  BY <1>1, BaseEndBounds DEF HasIndex, Has
<1> DEFINE end == IndexEnd(Top.text, BaseEnd + 1)
           first == BaseEnd + 1
           base == SubSeq(Top.text, Top.index + 1, BaseEnd - 1)
<1>4. BaseEnd + 1 \in 1..(Len(Top.text) + 1)
  BY <1>2, <1>3
<1>5. end \in (BaseEnd + 1)..(Len(Top.text) + 1)
  BY Zenon, <1>2, <1>4, IndexEndBounds
<1>6. CASE end > Len(Top.text)
  <2>1. "syntax" \in Verdicts
    BY DEF Verdicts
  <2>2. Fail("syntax")
    BY <1>6 DEF ElementReference
  <2> QED
    BY Zenon, <2>1, <2>2, FailKeeps
<1>7. CASE ~(end > Len(Top.text))
  <2>1. /\ frames' = Append([frames EXCEPT ![Len(frames)] = Advanced(Top, end + 1, <<>>)],
                            Entered(SubSeq(Top.text, first, end - 1), base))
        /\ SameWord /\ SameEscape
    BY <1>7 DEF ElementReference
  <2>2. base \in Seq(Character)
    <3>1. \A i \in (Top.index + 1)..(BaseEnd - 1) : Top.text[i] \in Character
      BY <1>2, <1>3
    <3> QED
      BY <1>2, <1>3, <3>1, SubSeqProperties
  <2>3. scanning' = FALSE /\ scanned' = scanned
    BY <1>2, <2>1 DEF SameEscape
  <2> HIDE DEF end, base
  <2>4. /\ first \in Nat /\ end \in Nat /\ first >= Top.index + 2
        /\ first <= end /\ end <= Len(Top.text)
    BY <1>2, <1>3, <1>5, <1>7
  <2> HIDE DEF first
  <2> QED
    BY Zenon, <1>2, <2>1, <2>2, <2>3, <2>4, IndexKeeps
<1> QED
  BY <1>6, <1>7

------------------------------------------------------------------------------
\* The character behind the backslash of a half read escape.
LEMMA EscapeFacts ==
  ASSUME IInv, scanning
  PROVE  /\ frames # <<>>
         /\ Top.text \in Seq(Character) /\ Len(Top.text) \in Nat
         /\ Top.index \in Nat /\ Top.index >= 1 /\ Top.index < Len(Top.text)
         /\ Escaped \in Character /\ scanned \in Scanned
<1>1. frames # <<>> /\ FramesHold(frames) /\ Top.index < Len(Top.text) /\ scanned \in Scanned
  BY DEF IInv, EscapeBounded, OthersHold
<1>2. /\ Top.text \in Seq(Character) /\ Len(Top.text) \in Nat
      /\ Top.index \in Nat /\ Top.index >= 1
  BY <1>1, TopFacts
<1>3. Top.index + 1 \in 1..Len(Top.text)
  BY <1>1, <1>2
<1>4. Escaped \in Character
  BY <1>2, <1>3 DEF Escaped
<1> QED
  BY <1>1, <1>2, <1>4

LEMMA CopyKeeps ==
  ASSUME IInv, Resolving, Top.index <= Len(Top.text),
         GoOn(Top.index + 1, <<Top.text[Top.index]>>), SameWord, SameEscape
  PROVE  IInv'
<1>1. frames # <<>> /\ scanning = FALSE /\ FramesHold(frames)
  BY DEF Resolving, IInv, OthersHold
<1>2. /\ Len(Top.text) \in Nat /\ Top.index \in Nat /\ Top.index >= 1
      /\ \A i \in 1..Len(Top.text) : Top.text[i] \in Byte
  BY <1>1, TopFacts
<1>3. Top.index \in 1..Len(Top.text) /\ Top.index + 1 \in 1..(Len(Top.text) + 1)
  BY <1>2
<1>4. Top.text[Top.index] \in Byte
  BY <1>2, <1>3
<1>5. <<Top.text[Top.index]>> \in Seq(Byte)
  BY <1>4
<1>6. scanning' = FALSE /\ scanned' = scanned
  BY <1>1 DEF SameEscape
<1> QED
  BY Zenon, <1>1, <1>3, <1>5, <1>6, GoOnKeeps

LEMMA BeginEscapeKeeps ==
  ASSUME IInv, BeginEscape
  PROVE  IInv'
<1>1. frames # <<>> /\ FramesHold(frames) /\ Top.text[Top.index] = Backslash
  BY DEF BeginEscape, At, Has, Resolving, IInv
<1>2. /\ Top.index < Len(Top.text) /\ Len(Top.text) \in Nat /\ Top.index \in Nat
      /\ Top' = Top /\ frames' = frames /\ scanned' = NoDigits
  BY <1>1, TopFacts DEF BeginEscape, Top
<1>3. DigitsAt(Escaped, Top.index) + 0 <= Len(Top.text) + 1
  BY <1>2 DEF DigitsAt
<1>4. 0 <= DigitRule(Escaped).most /\ 0 <= DigitRule(Escaped).limit
  <2>1. DigitRule(Escaped) \in Rules
    BY DEF DigitRule, Rules
  <2> QED
    BY <2>1, RuleBounds
<1>5. scanned'.count = 0 /\ scanned'.value = 0
  BY <1>2 DEF NoDigits
<1>6. scanned' \in Scanned
  BY <1>2 DEF NoDigits, Scanned
<1>7. Escaped' = Escaped
  BY <1>2 DEF Escaped
<1>8. EscapeBounded'
  BY <1>1, <1>2, <1>3, <1>4, <1>5, <1>7 DEF EscapeBounded
<1> QED
  BY <1>2, <1>6, <1>8 DEF BeginEscape, SameWord, IInv, OthersHold

LEMMA ScanDigitKeeps ==
  ASSUME IInv, ScanDigit
  PROVE  IInv'
<1>1. scanning /\ scanning' /\ frames' = frames /\ Top' = Top /\ Escaped' = Escaped
  BY DEF ScanDigit, Top, Escaped, IInv, OthersHold
<1>2. /\ frames # <<>> /\ Top.index < Len(Top.text)
      /\ Top.text \in Seq(Character) /\ Top.index \in Nat /\ Len(Top.text) \in Nat
      /\ Escaped \in Character /\ scanned \in Scanned
  BY <1>1, EscapeFacts
<1> DEFINE at == DigitsAt(Escaped, Top.index)
           rule == DigitRule(Escaped)
<1>3. at \in Nat /\ rule \in Rules
  BY <1>2 DEF DigitsAt, DigitRule, Rules
<1>4. /\ TakesDigit(Top.text, at, rule, scanned)
      /\ scanned' = TakeDigit(Top.text, at, rule, scanned)
  BY DEF ScanDigit, MoreDigits
<1>5. /\ at + scanned.count <= Len(Top.text) + 1
      /\ scanned.count <= rule.most /\ scanned.value <= rule.limit
      /\ scanned.count = 0 => scanned.value = 0
  BY <1>1 DEF IInv, EscapeBounded
<1> HIDE DEF at, rule
<1>6. /\ scanned' \in Scanned
      /\ at + scanned'.count <= Len(Top.text) + 1
      /\ scanned'.count <= rule.most /\ scanned'.value <= rule.limit
      /\ scanned'.count = 1 => scanned'.value <= 15
      /\ scanned'.count = 0 => scanned'.value = 0
  BY <1>2, <1>3, <1>4, <1>5, DigitKeepsBounds
<1>7. EscapeBounded'
  <2>1. Top.text[Top.index] = Backslash
    BY <1>1 DEF IInv, EscapeBounded
  <2> QED
    BY <1>1, <1>2, <1>6, <2>1 DEF EscapeBounded, at, rule
<1> QED
  BY <1>1, <1>6, <1>7 DEF ScanDigit, SameWord, IInv, OthersHold

LEMMA EndEscapeKeeps ==
  ASSUME IInv, EndEscape
  PROVE  IInv'
<1>1. scanning
  BY DEF EndEscape
<1>2. /\ frames # <<>> /\ Len(Top.text) \in Nat
      /\ Top.index \in Nat /\ Top.index >= 1 /\ Top.index < Len(Top.text)
      /\ Escaped \in Character /\ scanned \in Scanned
  BY <1>1, EscapeFacts
<1>3. /\ DigitsAt(Escaped, Top.index) + scanned.count <= Len(Top.text) + 1
      /\ scanned.value <= DigitRule(Escaped).limit
      /\ scanned.count = 1 => scanned.value <= 15
  BY <1>1 DEF IInv, EscapeBounded
<1>4. /\ Output(Escaped, scanned) \in Seq(Byte)
      /\ Top.index + Consumed(Escaped, scanned) \in 1..(Len(Top.text) + 1)
  BY Zenon, <1>2, <1>3, EscapeShrinks
<1>5. /\ GoOn(Top.index + Consumed(Escaped, scanned), Output(Escaped, scanned))
      /\ SameWord /\ scanning' = FALSE /\ scanned' = scanned
  BY DEF EndEscape
<1> QED
  BY Zenon, <1>2, <1>4, <1>5, GoOnKeeps

LEMMA EndIndexKeeps ==
  ASSUME IInv, EndIndex
  PROVE  IInv'
<1> DEFINE name == Top.base \o <<OpenParen>> \o CString(Top.buffer) \o <<CloseParen>>
           caller == Len(frames) - 1
<1>1. scanning = FALSE /\ Len(frames) > 1
  BY DEF EndIndex, AtEnd, Resolving, IInv, OthersHold
<1>2. CASE name \in DOMAIN store
  <2>1. store[name] \in Seq(Byte)
    BY <1>2 DEF IInv, VariablesHold
  <2>2. /\ frames' = [SubSeq(frames, 1, caller) EXCEPT
                        ![caller] = Advanced(@, @.index, store[name])]
        /\ SameWord /\ SameEscape
    BY <1>2 DEF EndIndex
  <2>3. scanning' = FALSE /\ scanned' = scanned
    BY <1>1, <2>2 DEF SameEscape
  <2> HIDE DEF name
  <2> QED
    BY Zenon, <1>1, <2>1, <2>2, <2>3, ReturnKeeps
<1>3. CASE name \notin DOMAIN store
  <2>1. "semantic" \in Verdicts
    BY DEF Verdicts
  <2>2. Fail("semantic")
    BY <1>3 DEF EndIndex
  <2> QED
    BY Zenon, <2>1, <2>2, FailKeeps
<1> QED
  BY <1>2, <1>3

LEMMA EndTextKeeps ==
  ASSUME IInv, EndText
  PROVE  IInv'
<1>1. frames # <<>> /\ ~scanning /\ FramesHold(frames)
  BY DEF EndText, AtEnd, Resolving, IInv
<1>2. Top.buffer \in Seq(Byte)
  BY Zenon, <1>1, TopFacts
<1>3. CString(Top.buffer) \in Seq(Byte)
  BY Zenon, <1>2, CStringType
<1>4. Finish(CString(Top.buffer))
  BY DEF EndText
<1> QED
  BY Zenon, <1>1, <1>3, <1>4, FinishKeeps

------------------------------------------------------------------------------
\* Every step keeps the invariant.
LEMMA NextKeepsIInv == IInv /\ [Next]_vars => IInv'
<1> SUFFICES ASSUME IInv, [Next]_vars
             PROVE  IInv'
  OBVIOUS
<1>1. "syntax" \in Verdicts /\ "semantic" \in Verdicts /\ "system" \in Verdicts
  BY DEF Verdicts
<1>2. CASE CopyBraced
  <2>1. test[phase].text \in Seq(Byte)
    BY <1>2, WordFacts DEF CopyBraced, Called
  <2>2. ~scanning /\ Finish(test[phase].text)
    BY <1>2 DEF CopyBraced, Called, IInv, EscapeBounded
  <2> QED
    BY Zenon, <2>1, <2>2, FinishKeeps
<1>3. CASE ReadBraced
  <2>1. ~scanning
    BY <1>3 DEF ReadBraced, Called, IInv, EscapeBounded
  <2>2. CASE test[phase].text \in DOMAIN store
    <3>1. store[test[phase].text] \in Seq(Byte) /\ Finish(store[test[phase].text])
      BY <1>3, <2>2 DEF ReadBraced, IInv, VariablesHold
    <3> QED
      BY Zenon, <2>1, <3>1, FinishKeeps
  <2>3. CASE test[phase].text \notin DOMAIN store
    <3>1. Fail("semantic")
      BY <1>3, <2>3 DEF ReadBraced
    <3> QED
      BY Zenon, <1>1, <3>1, FailKeeps
  <2> QED
    BY <2>2, <2>3
<1>4. CASE BeginText
  BY <1>4, BeginTextKeeps
<1>5. CASE CopyCharacter
  BY <1>5, CopyKeeps DEF CopyCharacter, At, Has
<1>6. CASE CopyLast
  BY <1>6, CopyKeeps DEF CopyLast, At, Has
<1>7. CASE BeginEscape
  BY <1>7, BeginEscapeKeeps
<1>8. CASE ScanDigit
  BY <1>8, ScanDigitKeeps
<1>9. CASE EndEscape
  BY <1>9, EndEscapeKeeps
<1>10. CASE BracedReference
  BY <1>10, BracedKeeps
<1>11. CASE NamedReference
  BY <1>11, NamedKeeps
<1>12. CASE ElementReference
  BY <1>12, ElementKeeps
<1>13. CASE EndIndex
  BY <1>13, EndIndexKeeps
<1>14. CASE EndText
  BY <1>14, EndTextKeeps
<1>15. CASE OutOfMemory
  BY Zenon, <1>1, <1>15, FailKeeps DEF OutOfMemory
<1>16. CASE Done \/ UNCHANGED vars
  BY <1>16 DEF Done, vars, IInv, OthersHold, EscapeBounded, Top, Escaped
<1> QED
  BY <1>2, <1>3, <1>4, <1>5, <1>6, <1>7, <1>8, <1>9, <1>10, <1>11, <1>12, <1>13, <1>14,
     <1>15, <1>16 DEF Next

\* The position of every call of resolve_string_text stays in its text or right
\* behind it, whatever the word and the variables contain: no escape, name,
\* brace or index that is cut off makes it read further.
THEOREM TypeCorrect == Spec => []TypeOK
<1>1. IInv => TypeOK
  BY InvariantSuffices
<1> QED
  BY <1>1, InitIInv, NextKeepsIInv, PTL DEF Spec

\* The calls that resolve_string_text makes to itself for indexes are at most as
\* many as a third of the word's characters.
THEOREM RecursionIsBounded == Spec => []RecursionFollowsText
<1>1. IInv => RecursionFollowsText
  BY InvariantSuffices
<1> QED
  BY <1>1, InitIInv, NextKeepsIInv, PTL DEF Spec

------------------------------------------------------------------------------
(* What is spelled, by the last of the rules. *)

SpelledByMove(s, t, i, d, v) ==
  \E j \in Nat, e \in Scanned, b, x \in Seq(Byte) :
    Moves(s, t, i, d, j, e, b) /\ Spells(s, t, j, e, x) /\ v = b \o x

SpelledByCall(s, t, i, d, v) ==
  \E base, index \in Seq(Character), j \in Nat, w, b, x \in Seq(Byte) :
    /\ Calls(t, i, base, index, j) /\ d = NoDigits /\ Spells(s, index, 1, NoDigits, w)
    /\ Holds(s, ElementName(base, w), b) /\ Spells(s, t, j, NoDigits, x) /\ v = b \o x

AtItsEnd(t, i, d, v) == i = Len(t) + 1 /\ d = NoDigits /\ v = <<>>

Points == Seq(Character) \X Nat \X Scanned \X Seq(Byte)

LEMMA EndSpells ==
  ASSUME NEW s, NEW t \in Seq(Character)
  PROVE  Spells(s, t, Len(t) + 1, NoDigits, <<>>)
BY DEF Spells, Closed, EndsIn

LEMMA MoveSpells ==
  ASSUME NEW s, NEW t \in Seq(Character), NEW i \in Nat, NEW j \in Nat,
         NEW d \in Scanned, NEW e \in Scanned, NEW b \in Seq(Byte), NEW v \in Seq(Byte),
         Moves(s, t, i, d, j, e, b), Spells(s, t, j, e, v)
  PROVE  Spells(s, t, i, d, b \o v)
<1> SUFFICES ASSUME NEW R, Closed(R, s) PROVE <<t, i, d, b \o v>> \in R
  BY DEF Spells
<1>1. <<t, j, e, v>> \in R
  BY DEF Spells
<1> QED
  BY Zenon, <1>1 DEF Closed, MovesIn

LEMMA CallSpells ==
  ASSUME NEW s, NEW t \in Seq(Character), NEW base \in Seq(Character),
         NEW index \in Seq(Character), NEW i \in Nat, NEW j \in Nat,
         NEW w \in Seq(Byte), NEW b \in Seq(Byte), NEW v \in Seq(Byte),
         Calls(t, i, base, index, j), Spells(s, index, 1, NoDigits, w),
         Holds(s, ElementName(base, w), b), Spells(s, t, j, NoDigits, v)
  PROVE  Spells(s, t, i, NoDigits, b \o v)
<1> SUFFICES ASSUME NEW R, Closed(R, s) PROVE <<t, i, NoDigits, b \o v>> \in R
  BY DEF Spells
<1>1. <<t, j, NoDigits, v>> \in R /\ <<index, 1, NoDigits, w>> \in R
  BY DEF Spells
<1> QED
  BY Zenon, <1>1 DEF Closed, CallsIn

LEMMA NoDigitsScanned == NoDigits \in Scanned
BY DEF NoDigits, Scanned

LEMMA EmptyBytes == <<>> \in Seq(Byte)
BY EmptySeq

LEMMA BytesJoin ==
  ASSUME NEW a \in Seq(Byte), NEW b \in Seq(Byte)
  PROVE  a \o b \in Seq(Byte)
BY ConcatProperties

\* What is spelled is spelled by one of the rules.
LEMMA SpelledSomehow ==
  ASSUME NEW s, NEW t, NEW i, NEW d, NEW v, Spells(s, t, i, d, v)
  PROVE  /\ t \in Seq(Character) /\ i \in Nat /\ d \in Scanned /\ v \in Seq(Byte)
         /\ AtItsEnd(t, i, d, v) \/ SpelledByMove(s, t, i, d, v) \/ SpelledByCall(s, t, i, d, v)
<1> DEFINE By(p) == \/ AtItsEnd(p[1], p[2], p[3], p[4])
                    \/ SpelledByMove(s, p[1], p[2], p[3], p[4])
                    \/ SpelledByCall(s, p[1], p[2], p[3], p[4])
           R == {p \in Points : By(p) /\ Spells(s, p[1], p[2], p[3], p[4])}
<1>1. ASSUME NEW T \in Seq(Character), NEW I \in Nat, NEW D \in Scanned, NEW V \in Seq(Byte)
      PROVE  /\ <<T, I, D, V>> \in R <=>
                  /\ AtItsEnd(T, I, D, V) \/ SpelledByMove(s, T, I, D, V) \/ SpelledByCall(s, T, I, D, V)
                  /\ Spells(s, T, I, D, V)
  <2> DEFINE p == <<T, I, D, V>>
  <2>1. p \in Points /\ p[1] = T /\ p[2] = I /\ p[3] = D /\ p[4] = V
    BY DEF Points
  <2> HIDE DEF p
  <2>2. p \in R <=> By(p) /\ Spells(s, p[1], p[2], p[3], p[4])
    BY Zenon, <2>1
  <2>3. p \in R <=> /\ AtItsEnd(T, I, D, V) \/ SpelledByMove(s, T, I, D, V) \/ SpelledByCall(s, T, I, D, V)
                    /\ Spells(s, T, I, D, V)
    BY Zenon, <2>1, <2>2
  <2> QED
    BY Zenon, <2>3 DEF p
<1>2. ASSUME NEW p \in R
      PROVE  p[1] \in Seq(Character) /\ p[2] \in Nat /\ p[3] \in Scanned /\ p[4] \in Seq(Byte)
             /\ By(p)
  BY DEF Points
<1> HIDE DEF R
<1>3. EndsIn(R)
  <2> SUFFICES ASSUME NEW T \in Seq(Character) PROVE <<T, Len(T) + 1, NoDigits, <<>>>> \in R
    BY DEF EndsIn
  <2>1. Len(T) + 1 \in Nat /\ AtItsEnd(T, Len(T) + 1, NoDigits, <<>>)
    BY DEF AtItsEnd
  <2> QED
    BY Zenon, <2>1, <1>1, EndSpells, NoDigitsScanned, EmptyBytes
<1>4. MovesIn(R, s)
  <2> SUFFICES ASSUME NEW T \in Seq(Character), NEW I \in Nat, NEW J \in Nat,
                      NEW D \in Scanned, NEW E \in Scanned, NEW B \in Seq(Byte), NEW V \in Seq(Byte),
                      Moves(s, T, I, D, J, E, B), <<T, J, E, V>> \in R
               PROVE  <<T, I, D, B \o V>> \in R
    BY Zenon DEF MovesIn
  <2>1. Spells(s, T, J, E, V)
    BY Zenon, <1>1
  <2>2. Spells(s, T, I, D, B \o V) /\ B \o V \in Seq(Byte)
    BY Zenon, <2>1, MoveSpells, BytesJoin
  <2>3. SpelledByMove(s, T, I, D, B \o V)
    BY Zenon, <2>1 DEF SpelledByMove
  <2> QED
    BY Zenon, <1>1, <2>2, <2>3
<1>5. CallsIn(R, s)
  <2> SUFFICES ASSUME NEW T \in Seq(Character), NEW base \in Seq(Character),
                      NEW index \in Seq(Character), NEW I \in Nat, NEW J \in Nat,
                      NEW W \in Seq(Byte), NEW B \in Seq(Byte), NEW V \in Seq(Byte),
                      Calls(T, I, base, index, J), <<index, 1, NoDigits, W>> \in R,
                      Holds(s, ElementName(base, W), B), <<T, J, NoDigits, V>> \in R
               PROVE  <<T, I, NoDigits, B \o V>> \in R
    BY Zenon DEF CallsIn
  <2>1. Spells(s, T, J, NoDigits, V) /\ Spells(s, index, 1, NoDigits, W)
    BY Zenon, <1>1, NoDigitsScanned, 1 \in Nat
  <2>2. Spells(s, T, I, NoDigits, B \o V) /\ B \o V \in Seq(Byte)
    BY Zenon, <2>1, CallSpells, BytesJoin
  <2>3. SpelledByCall(s, T, I, NoDigits, B \o V)
    BY Zenon, <2>1 DEF SpelledByCall
  <2> QED
    BY Zenon, <1>1, <2>2, <2>3, NoDigitsScanned
<1>6. <<t, i, d, v>> \in R
  BY Zenon, <1>3, <1>4, <1>5 DEF Spells, Closed
<1> DEFINE p == <<t, i, d, v>>
<1>7. p \in R /\ p[1] = t /\ p[2] = i /\ p[3] = d /\ p[4] = v
  BY <1>6
<1> HIDE DEF p
<1>8. p[1] \in Seq(Character) /\ p[2] \in Nat /\ p[3] \in Scanned /\ p[4] \in Seq(Byte) /\ By(p)
  BY Zenon, <1>2, <1>7
<1> HIDE DEF By
<1> QED
  BY Zenon, <1>7, <1>8 DEF By

------------------------------------------------------------------------------
\* At every position at most one rule applies, in one way.
LEMMA MovesAgree ==
  ASSUME NEW s, NEW t, NEW i, NEW d, NEW j, NEW e, NEW b, NEW k, NEW f, NEW c,
         Moves(s, t, i, d, j, e, b), Moves(s, t, i, d, k, f, c)
  PROVE  k = j /\ f = e /\ c = b
<1>1. Backslash # Dollar
  BY DEF Backslash, Dollar
<1>2. CASE Copies(t, i, d, j, e, b)
  BY <1>2, Zenon DEF Moves, Copies, Scans, Decodes, Reads
<1>3. CASE Scans(t, i, d, j, e, b)
  BY <1>1, <1>3, Zenon DEF Moves, Copies, Scans, Decodes, Reads, Escapes, Refers
<1>4. CASE Decodes(t, i, d, j, e, b)
  BY <1>1, <1>4, Zenon DEF Moves, Copies, Scans, Decodes, Reads, Escapes, Refers
<1>5. CASE Reads(s, t, i, d, j, e, b)
  <2>1. Reads(s, t, i, d, k, f, c)
    BY <1>1, <1>5, Zenon DEF Moves, Copies, Scans, Decodes, Reads, Escapes, Refers
  <2>2. PICK m : Names(t, i, m, j) /\ (\/ m = <<>> /\ b = <<Dollar>>
                                       \/ m # <<>> /\ Holds(s, m, b))
    BY <1>5 DEF Reads
  <2>3. PICK n : Names(t, i, n, k) /\ (\/ n = <<>> /\ c = <<Dollar>>
                                       \/ n # <<>> /\ Holds(s, n, c))
    BY <2>1 DEF Reads
  <2>4. m = n /\ j = k
    BY <2>2, <2>3, Zenon DEF Names
  <2> QED
    BY <1>5, <2>1, <2>2, <2>3, <2>4 DEF Reads, Holds
<1> QED
  BY <1>2, <1>3, <1>4, <1>5 DEF Moves

LEMMA NoMoveAtCall ==
  ASSUME NEW s, NEW t, NEW i, NEW d, NEW j, NEW e, NEW b, NEW base, NEW index, NEW k,
         Moves(s, t, i, d, j, e, b), Calls(t, i, base, index, k)
  PROVE  FALSE
<1>1. Backslash # Dollar
  BY DEF Backslash, Dollar
<1> QED
  BY <1>1, Zenon DEF Moves, Copies, Scans, Decodes, Reads, Escapes, Refers, Calls, Names

LEMMA NotAtItsEnd ==
  ASSUME NEW t \in Seq(Character), NEW i, i \in 1..Len(t)
  PROVE  i # Len(t) + 1
OBVIOUS

LEMMA MovesInText ==
  ASSUME NEW s, NEW t \in Seq(Character), NEW i, NEW d, NEW j, NEW e, NEW b,
         Moves(s, t, i, d, j, e, b)
  PROVE  i \in 1..Len(t)
<1>1. Len(t) \in Nat
  OBVIOUS
<1> QED
  BY <1>1 DEF Moves, Copies, Scans, Decodes, Reads, Escapes, Refers

LEMMA CallsInText ==
  ASSUME NEW t \in Seq(Character), NEW i, NEW base, NEW index, NEW j,
         Calls(t, i, base, index, j)
  PROVE  i \in 1..Len(t)
<1>1. Len(t) \in Nat
  OBVIOUS
<1> QED
  BY <1>1 DEF Calls, Refers

\* What a text spells goes on as the rule at its position says.
MovedOn(s, t, j, e, b, v) == \E x \in Seq(Byte) : Spells(s, t, j, e, x) /\ v = b \o x

CalledFor(s, t, base, index, j, v) ==
  \E w, b, x \in Seq(Byte) :
    /\ Spells(s, index, 1, NoDigits, w) /\ Holds(s, ElementName(base, w), b)
    /\ Spells(s, t, j, NoDigits, x) /\ v = b \o x

LEMMA MoveIsTaken ==
  ASSUME NEW s, NEW t, NEW i, NEW d, NEW v, NEW j, NEW e, NEW b,
         Spells(s, t, i, d, v), Moves(s, t, i, d, j, e, b)
  PROVE  MovedOn(s, t, j, e, b, v)
<1>1. t \in Seq(Character)
  BY SpelledSomehow
<1>2. i # Len(t) + 1
  BY <1>1, MovesInText, NotAtItsEnd
<1>3. ~AtItsEnd(t, i, d, v)
  BY <1>2 DEF AtItsEnd
<1>4. ~SpelledByCall(s, t, i, d, v)
  BY Zenon, NoMoveAtCall DEF SpelledByCall
<1>5. PICK k \in Nat, f \in Scanned, c, x \in Seq(Byte) :
        Moves(s, t, i, d, k, f, c) /\ Spells(s, t, k, f, x) /\ v = c \o x
  BY Zenon, <1>3, <1>4, SpelledSomehow DEF SpelledByMove
<1>6. k = j /\ f = e /\ c = b
  BY Zenon, <1>5, MovesAgree
<1> QED
  BY Zenon, <1>5, <1>6 DEF MovedOn

LEMMA CallIsTaken ==
  ASSUME NEW s, NEW t, NEW i, NEW d, NEW v, NEW base, NEW index, NEW j,
         Spells(s, t, i, d, v), Calls(t, i, base, index, j)
  PROVE  CalledFor(s, t, base, index, j, v)
<1>1. t \in Seq(Character)
  BY SpelledSomehow
<1>2. i # Len(t) + 1
  BY <1>1, CallsInText, NotAtItsEnd
<1>3. ~AtItsEnd(t, i, d, v)
  BY <1>2 DEF AtItsEnd
<1>4. ~SpelledByMove(s, t, i, d, v)
  BY Zenon, NoMoveAtCall DEF SpelledByMove
<1>5. SpelledByCall(s, t, i, d, v)
  BY Zenon, <1>3, <1>4, SpelledSomehow
<1>6. PICK base2, index2 \in Seq(Character), k \in Nat, w, b, x \in Seq(Byte) :
        /\ Calls(t, i, base2, index2, k) /\ d = NoDigits /\ Spells(s, index2, 1, NoDigits, w)
        /\ Holds(s, ElementName(base2, w), b) /\ Spells(s, t, k, NoDigits, x) /\ v = b \o x
  BY <1>5 DEF SpelledByCall
<1>7. k = j /\ base2 = base /\ index2 = index
  BY Zenon, <1>6 DEF Calls
<1> QED
  BY Zenon, <1>6, <1>7 DEF CalledFor

LEMMA EndIsEmpty ==
  ASSUME NEW s, NEW t \in Seq(Character), NEW d, NEW v, Spells(s, t, Len(t) + 1, d, v)
  PROVE  v = <<>>
<1>1. ~(Len(t) + 1 \in 1..Len(t))
  OBVIOUS
<1>2. ~SpelledByMove(s, t, Len(t) + 1, d, v)
  BY Zenon, <1>1, MovesInText DEF SpelledByMove
<1>3. ~SpelledByCall(s, t, Len(t) + 1, d, v)
  BY Zenon, <1>1, CallsInText DEF SpelledByCall
<1> QED
  BY Zenon, <1>2, <1>3, SpelledSomehow DEF AtItsEnd

\* A position where no rule applies spells nothing.
LEMMA SomeRuleApplies ==
  ASSUME NEW s, NEW t, NEW i, NEW d, NEW v, Spells(s, t, i, d, v), i # Len(t) + 1
  PROVE  \/ \E j, e, b : Moves(s, t, i, d, j, e, b)
         \/ \E base, index, j, w, b : Calls(t, i, base, index, j) /\ Spells(s, index, 1, NoDigits, w)
                                        /\ Holds(s, ElementName(base, w), b)
<1>1. ~AtItsEnd(t, i, d, v)
  BY DEF AtItsEnd
<1> QED
  BY Zenon, <1>1, SpelledSomehow DEF SpelledByMove, SpelledByCall

------------------------------------------------------------------------------
\* The digits of the escape that is being read, none if there is none.
DigitsRead == IF scanning THEN scanned ELSE NoDigits

\* The innermost call goes on at j, with more bytes and the digits e of an escape.
Carried(j, e, b) ==
  /\ Len(frames') = Len(frames)
  /\ \A n \in 1..(Len(frames) - 1) : frames'[n] = frames[n]
  /\ Top'.text = Top.text /\ Top'.base = Top.base
  /\ Top'.index = j /\ Top'.buffer = Top.buffer \o b
  /\ DigitsRead' = e

\* It goes on at j when a call for an index returns.
Entering(base, index, j) ==
  /\ Len(frames') = Len(frames) + 1
  /\ \A n \in 1..(Len(frames) - 1) : frames'[n] = frames[n]
  /\ frames'[Len(frames)].text = Top.text /\ frames'[Len(frames)].base = Top.base
  /\ frames'[Len(frames)].index = j /\ frames'[Len(frames)].buffer = Top.buffer
  /\ Top'.text = index /\ Top'.base = base /\ Top'.index = 1 /\ Top'.buffer = <<>>
  /\ DigitsRead = NoDigits /\ DigitsRead' = NoDigits

Caller == frames[Len(frames) - 1]

\* The innermost call returns, and its caller goes on with more bytes.
Returning(b) ==
  /\ Len(frames) > 1 /\ Len(frames') = Len(frames) - 1
  /\ Top.index = Len(Top.text) + 1 /\ DigitsRead = NoDigits
  /\ \A n \in 1..(Len(frames) - 2) : frames'[n] = frames[n]
  /\ Top'.text = Caller.text /\ Top'.base = Caller.base
  /\ Top'.index = Caller.index /\ Top'.buffer = Caller.buffer \o b
  /\ Holds(store, ElementName(Top.base, Top.buffer), b)
  /\ DigitsRead' = NoDigits

\* The text spells nothing from here on.
Stuck == \A v : ~Spells(store, Top.text, Top.index, DigitsRead, v)

MovesOn ==
  \E j \in Nat, e \in Scanned, b \in Seq(Byte) :
    Moves(store, Top.text, Top.index, DigitsRead, j, e, b) /\ Carried(j, e, b) /\ SameWord

Enters ==
  \E base, index \in Seq(Character), j \in Nat :
    Calls(Top.text, Top.index, base, index, j) /\ Entering(base, index, j) /\ SameWord

Returns == \E b \in Seq(Byte) : Returning(b) /\ SameWord

Waits == frames' = frames /\ DigitsRead' = DigitsRead /\ SameWord

Fails == \E verdict \in {"semantic", "syntax"} : Fail(verdict)

LEMMA ScanningType == IInv => scanning \in BOOLEAN /\ scanned \in Scanned /\ DigitsRead \in Scanned
BY NoDigitsScanned DEF IInv, OthersHold, DigitsRead

LEMMA GoOnCarries ==
  ASSUME IInv, frames # <<>>, NEW j \in Nat, NEW b \in Seq(Byte), GoOn(j, b), ~scanning'
  PROVE  Carried(j, NoDigits, b)
<1>1. frames \in Seq(Frame) /\ Len(frames) \in Nat /\ Len(frames) >= 1
  BY TopFacts DEF IInv, FramesHold
<1> DEFINE k == Len(frames)
           f == Advanced(Top, j, b)
<1>2. /\ f.text = Top.text /\ f.index = j /\ f.buffer = Top.buffer \o b /\ f.base = Top.base
  BY DEF Advanced
<1>3. frames' = [frames EXCEPT ![k] = f]
  BY DEF GoOn
<1> HIDE DEF f
<1>4. Len(frames') = k /\ frames'[k] = f /\ \A n \in 1..(k - 1) : frames'[n] = frames[n]
  BY <1>1, <1>3
<1>5. Top' = f
  BY <1>4 DEF Top
<1>6. DigitsRead' = NoDigits
  BY DEF DigitsRead
<1> QED
  BY <1>2, <1>4, <1>5, <1>6 DEF Carried

\* Nothing changes but the digits.
LEMMA DigitsCarry ==
  ASSUME IInv, frames # <<>>, frames' = frames
  PROVE  Carried(Top.index, DigitsRead', <<>>)
<1>1. Top.buffer \in Seq(Byte)
  BY TopFacts DEF IInv
<1>2. Top.buffer \o <<>> = Top.buffer
  BY <1>1, ConcatEmptySeq
<1>3. Top' = Top
  BY DEF Top
<1> QED
  BY <1>2, <1>3 DEF Carried

LEMMA CopyMoves ==
  ASSUME IInv, CopyCharacter \/ CopyLast
  PROVE  MovesOn
<1>1. /\ frames # <<>> /\ scanning = FALSE /\ FramesHold(frames)
      /\ Top.index <= Len(Top.text) /\ SameWord /\ scanning' = FALSE
      /\ GoOn(Top.index + 1, <<Top.text[Top.index]>>)
  BY DEF CopyCharacter, CopyLast, At, Has, Resolving, IInv, OthersHold, SameEscape
<1>2. /\ Len(Top.text) \in Nat /\ Top.index \in 1..Len(Top.text)
      /\ \A i \in 1..Len(Top.text) : Top.text[i] \in Byte
  BY <1>1, TopFacts
<1>3. <<Top.text[Top.index]>> \in Seq(Byte) /\ Top.index + 1 \in Nat
  BY <1>2
<1>4. ~Escapes(Top.text, Top.index) /\ ~Refers(Top.text, Top.index)
  BY <1>2 DEF CopyCharacter, CopyLast, At, Has, Escapes, Refers
<1>5. Copies(Top.text, Top.index, DigitsRead, Top.index + 1, NoDigits, <<Top.text[Top.index]>>)
  BY <1>1, <1>2, <1>4 DEF Copies, DigitsRead
<1>6. Carried(Top.index + 1, NoDigits, <<Top.text[Top.index]>>)
  BY <1>1, <1>3, GoOnCarries
<1> QED
  BY Zenon, <1>1, <1>3, <1>5, <1>6, NoDigitsScanned DEF MovesOn, Moves

LEMMA BeginWaits ==
  ASSUME IInv, BeginEscape
  PROVE  Waits
BY DEF BeginEscape, At, Resolving, DigitsRead, Waits

\* What the scanner of escapes stands at
LEMMA AtEscape ==
  ASSUME IInv, scanning
  PROVE  /\ Escapes(Top.text, Top.index) /\ Escaped = Top.text[Top.index + 1]
         /\ DigitsRead = scanned
<1>1. Top.text[Top.index] = Backslash
  BY DEF IInv, EscapeBounded
<1> QED
  BY <1>1, EscapeFacts DEF Escapes, Escaped, DigitsRead

LEMMA ScanMoves ==
  ASSUME IInv, ScanDigit
  PROVE  MovesOn
<1>1. scanning /\ frames' = frames /\ SameWord /\ scanning' = scanning /\ MoreDigits
      /\ scanned' = TakeDigit(Top.text, DigitsAt(Escaped, Top.index), DigitRule(Escaped), scanned)
  BY DEF ScanDigit
<1>2. /\ Escapes(Top.text, Top.index) /\ Escaped = Top.text[Top.index + 1]
      /\ DigitsRead = scanned
  BY <1>1, AtEscape
<1>3. frames # <<>> /\ Top.index \in Nat
  BY <1>1, EscapeFacts
<1>4. DigitsRead' = scanned' /\ DigitsRead' \in Scanned
  <2>1. IInv'
    BY NextKeepsIInv DEF Next
  <2> QED
    BY <1>1, <2>1 DEF DigitsRead, IInv, OthersHold
<1>5. Scans(Top.text, Top.index, DigitsRead, Top.index, DigitsRead', <<>>)
  BY <1>1, <1>2, <1>4 DEF Scans, Takes, MoreDigits
<1>6. Carried(Top.index, DigitsRead', <<>>)
  BY <1>1, <1>3, DigitsCarry
<1> QED
  BY Zenon, <1>1, <1>3, <1>4, <1>5, <1>6, EmptyBytes DEF MovesOn, Moves

LEMMA DecodeMoves ==
  ASSUME IInv, EndEscape
  PROVE  MovesOn
<1>1. /\ scanning /\ SameWord /\ ~scanning' /\ ~MoreDigits
      /\ GoOn(Top.index + Consumed(Escaped, scanned), Output(Escaped, scanned))
  BY DEF EndEscape
<1>2. /\ Escapes(Top.text, Top.index) /\ Escaped = Top.text[Top.index + 1]
      /\ DigitsRead = scanned
  BY <1>1, AtEscape
<1> DEFINE j == Top.index + Consumed(Escaped, scanned)
           b == Output(Escaped, scanned)
<1>3. frames # <<>> /\ j \in Nat /\ b \in Seq(Byte)
  <2>1. /\ frames # <<>> /\ Len(Top.text) \in Nat
        /\ Top.index \in Nat /\ Top.index >= 1 /\ Top.index < Len(Top.text)
        /\ Escaped \in Character /\ scanned \in Scanned
    BY <1>1, EscapeFacts
  <2>2. /\ DigitsAt(Escaped, Top.index) + scanned.count <= Len(Top.text) + 1
        /\ scanned.value <= DigitRule(Escaped).limit
        /\ scanned.count = 1 => scanned.value <= 15
    BY <1>1 DEF IInv, EscapeBounded
  <2>3. b \in Seq(Byte) /\ j \in 1..(Len(Top.text) + 1)
    BY Zenon, <2>1, <2>2, EscapeShrinks
  <2> HIDE DEF j, b
  <2> QED
    BY <2>1, <2>3
<1>4. Decodes(Top.text, Top.index, DigitsRead, j, NoDigits, b)
  BY <1>1, <1>2 DEF Decodes, Takes, MoreDigits
<1>5. Carried(j, NoDigits, b)
  <2> HIDE DEF j, b
  <2>1. GoOn(j, b)
    BY <1>1 DEF j, b
  <2> QED
    BY <1>1, <1>3, <2>1, GoOnCarries
<1> HIDE DEF j, b
<1> QED
  BY Zenon, <1>1, <1>3, <1>4, <1>5, NoDigitsScanned DEF MovesOn, Moves

------------------------------------------------------------------------------
\* The place of a reference
LEMMA AtReferenceRefers ==
  ASSUME IInv, AtReference
  PROVE  /\ Refers(Top.text, Top.index) /\ DigitsRead = NoDigits
         /\ Top.index # Len(Top.text) + 1 /\ frames # <<>> /\ scanning = FALSE
<1>1. Top.text[Top.index] = Dollar
  BY DEF AtReference, At, Has
<1> QED
  BY <1>1, ReferenceFacts DEF Refers, DigitsRead

\* A reference whose name and end are known is read, or nothing is spelled.
LEMMA SubstituteMoves ==
  ASSUME IInv, AtReference, NEW name, NEW j \in Nat, Names(Top.text, Top.index, name, j),
         Substitute(name, j), ~(\E base, index, k : Calls(Top.text, Top.index, base, index, k)),
         \A m, k : Names(Top.text, Top.index, m, k) => m = name
  PROVE  MovesOn \/ (Fails /\ Stuck)
<1>1. /\ Refers(Top.text, Top.index) /\ DigitsRead = NoDigits
      /\ Top.index # Len(Top.text) + 1 /\ frames # <<>> /\ scanning = FALSE
  BY AtReferenceRefers
<1>2. ASSUME NEW b \in Seq(Byte), GoOn(j, b), SameWord, SameEscape,
             \/ name = <<>> /\ b = <<Dollar>>
             \/ name # <<>> /\ Holds(store, name, b)
      PROVE  MovesOn
  <2>1. Carried(j, NoDigits, b)
    BY <1>1, <1>2, GoOnCarries DEF SameEscape
  <2>2. Reads(store, Top.text, Top.index, DigitsRead, j, NoDigits, b)
    BY Zenon, <1>1, <1>2 DEF Reads
  <2> QED
    BY Zenon, <1>2, <2>1, <2>2, NoDigitsScanned DEF MovesOn, Moves
<1>3. CASE name = <<>>
  <2>1. <<Dollar>> \in Seq(Byte)
    BY DEF Dollar, Byte
  <2> QED
    BY Zenon, <1>2, <1>3, <2>1 DEF Substitute
<1>4. CASE name # <<>> /\ name \in DOMAIN store
  <2>1. store[name] \in Seq(Byte)
    BY <1>4 DEF IInv, VariablesHold
  <2> QED
    BY Zenon, <1>2, <1>4, <2>1 DEF Substitute, Holds
<1>5. CASE name # <<>> /\ name \notin DOMAIN store
  <2>1. Fail("semantic") /\ "semantic" \in {"semantic", "syntax"}
    BY <1>5 DEF Substitute
  <2>2. ASSUME NEW k, NEW e, NEW b, Moves(store, Top.text, Top.index, DigitsRead, k, e, b)
        PROVE  FALSE
    <3>1. Reads(store, Top.text, Top.index, DigitsRead, k, e, b)
      <4>1. Backslash # Dollar
        BY DEF Backslash, Dollar
      <4> QED
        BY Zenon, <1>1, <2>2, <4>1 DEF Moves, Copies, Scans, Decodes, Escapes, Refers
    <3> QED
      BY Zenon, <1>5, <3>1 DEF Reads, Holds
  <2>3. Stuck
    BY Zenon, <1>1, <2>2, SomeRuleApplies DEF Stuck
  <2> QED
    BY <2>1, <2>3 DEF Fails
<1> QED
  BY <1>3, <1>4, <1>5

\* A reference that is cut off spells nothing.
LEMMA CutOffIsStuck ==
  ASSUME IInv, AtReference, ~(\E base, index, k : Calls(Top.text, Top.index, base, index, k)),
         ~(\E m, k : Names(Top.text, Top.index, m, k))
  PROVE  Stuck
<1>1. /\ Refers(Top.text, Top.index) /\ DigitsRead = NoDigits
      /\ Top.index # Len(Top.text) + 1
  BY AtReferenceRefers
<1>2. ASSUME NEW k, NEW e, NEW b, Moves(store, Top.text, Top.index, DigitsRead, k, e, b)
      PROVE  FALSE
  <2>1. Backslash # Dollar
    BY DEF Backslash, Dollar
  <2> QED
    BY Zenon, <1>1, <1>2, <2>1 DEF Moves, Copies, Scans, Decodes, Escapes, Refers, Reads
<1> QED
  BY Zenon, <1>1, <1>2, SomeRuleApplies DEF Stuck

LEMMA BracedMoves ==
  ASSUME IInv, BracedReference
  PROVE  MovesOn \/ (Fails /\ Stuck)
<1>1. AtReference /\ Top.text[Top.index + 1] = OpenBrace
  BY DEF BracedReference, InBraces
<1>2. /\ Len(Top.text) \in Nat /\ Top.text \in Seq(Character)
      /\ Top.index \in Nat /\ Top.index >= 1 /\ Top.index < Len(Top.text)
  BY <1>1, ReferenceFacts
<1>3. ~(\E base, index, k : Calls(Top.text, Top.index, base, index, k))
  BY <1>1 DEF Calls
<1> DEFINE end == BraceEnd(Top.text, Top.index)
           name == SubSeq(Top.text, Top.index + 2, end - 1)
<1>4. end = FirstIn(Top.text, Top.index + 2, {k \in 1..Len(Top.text) : Top.text[k] = CloseBrace})
  BY DEF BraceEnd
<1>5. end \in (Top.index + 2)..(Len(Top.text) + 1)
  <2>1. Top.index + 2 \in 1..(Len(Top.text) + 1)
    BY <1>2
  <2> QED
    BY Zenon, <1>2, <1>4, <2>1, FirstInBounds
<1>6. CASE end > Len(Top.text)
  <2>1. Fail("syntax") /\ "syntax" \in {"semantic", "syntax"}
    BY <1>4, <1>6 DEF BracedReference
  <2>2. ~(end <= Len(Top.text))
    BY <1>2, <1>5, <1>6
  <2>3. ~(\E m, k : Names(Top.text, Top.index, m, k))
    BY Zenon, <1>1, <2>2 DEF Names
  <2> QED
    BY Zenon, <1>1, <1>3, <2>1, <2>3, CutOffIsStuck DEF Fails
<1>7. CASE ~(end > Len(Top.text))
  <2>1. Substitute(name, end + 1)
    BY <1>4, <1>7 DEF BracedReference
  <2>2. end <= Len(Top.text) /\ end + 1 \in Nat
    BY <1>2, <1>5, <1>7
  <2>3. Names(Top.text, Top.index, name, end + 1)
    BY Zenon, <1>1, <2>2 DEF Names
  <2>4. \A m, k : Names(Top.text, Top.index, m, k) => m = name
    BY Zenon, <1>1 DEF Names
  <2> HIDE DEF end, name
  <2> QED
    BY Zenon, <1>1, <1>3, <2>1, <2>2, <2>3, <2>4, SubstituteMoves
<1> QED
  BY <1>6, <1>7

LEMMA NamedMoves ==
  ASSUME IInv, NamedReference
  PROVE  MovesOn \/ (Fails /\ Stuck)
<1>1. AtReference /\ Top.text[Top.index + 1] # OpenBrace
      /\ BaseEnd = NameEnd(Top.text, Top.index + 1) /\ ~Has(Top.text, BaseEnd, {OpenParen})
  BY DEF NamedReference, InBraces, BaseEnd, HasIndex
<1>2. /\ Len(Top.text) \in Nat /\ Top.index \in Nat
      /\ BaseEnd \in (Top.index + 1)..(Len(Top.text) + 1)
  BY <1>1, ReferenceFacts, BaseEndBounds
<1>3. BaseEnd \in Nat
  BY <1>2
<1>4. ~(\E base, index, k : Calls(Top.text, Top.index, base, index, k))
  BY <1>1 DEF Calls
<1> DEFINE name == SubSeq(Top.text, Top.index + 1, BaseEnd - 1)
<1>5. Names(Top.text, Top.index, name, BaseEnd)
  BY Zenon, <1>1 DEF Names
<1>6. \A m, k : Names(Top.text, Top.index, m, k) => m = name
  BY Zenon, <1>1 DEF Names
<1>7. Substitute(name, BaseEnd)
  BY DEF NamedReference
<1> HIDE DEF name
<1> QED
  BY Zenon, <1>1, <1>3, <1>4, <1>5, <1>6, <1>7, SubstituteMoves

LEMMA ElementEnters ==
  ASSUME IInv, ElementReference
  PROVE  Enters \/ (Fails /\ Stuck)
<1>1. AtReference /\ Top.text[Top.index + 1] # OpenBrace
      /\ BaseEnd = NameEnd(Top.text, Top.index + 1) /\ Has(Top.text, BaseEnd, {OpenParen})
  BY DEF ElementReference, InBraces, BaseEnd, HasIndex
<1>2. /\ frames # <<>> /\ scanning = FALSE
      /\ Top.text \in Seq(Character) /\ Len(Top.text) \in Nat
      /\ Top.index \in Nat /\ Top.index >= 1 /\ Top.index < Len(Top.text)
      /\ DigitsRead = NoDigits /\ Refers(Top.text, Top.index)
  BY <1>1, ReferenceFacts, AtReferenceRefers
<1>3. BaseEnd \in (Top.index + 1)..(Len(Top.text) + 1) /\ BaseEnd <= Len(Top.text)
  BY <1>1, BaseEndBounds DEF Has
<1> DEFINE end == IndexEnd(Top.text, BaseEnd + 1)
           base == SubSeq(Top.text, Top.index + 1, BaseEnd - 1)
           index == SubSeq(Top.text, BaseEnd + 1, end - 1)
<1>4. end \in (BaseEnd + 1)..(Len(Top.text) + 1)
  <2>1. BaseEnd + 1 \in 1..(Len(Top.text) + 1)
    BY <1>2, <1>3
  <2> QED
    BY Zenon, <1>2, <2>1, IndexEndBounds
<1>5. CASE end > Len(Top.text)
  <2>1. Fail("syntax") /\ "syntax" \in {"semantic", "syntax"}
    BY <1>5 DEF ElementReference
  <2>2. ~(end <= Len(Top.text))
    BY <1>2, <1>4, <1>5
  <2>3. ~(\E m, k : Names(Top.text, Top.index, m, k))
    BY Zenon, <1>1 DEF Names
  <2>4. ~(\E b, x, k : Calls(Top.text, Top.index, b, x, k))
    BY Zenon, <1>1, <2>2 DEF Calls
  <2> QED
    BY Zenon, <1>1, <2>1, <2>3, <2>4, CutOffIsStuck DEF Fails
<1>6. CASE ~(end > Len(Top.text))
  <2>1. end <= Len(Top.text) /\ end + 1 \in Nat /\ end \in Nat
    <3> HIDE DEF end
    <3> QED
      BY <1>2, <1>3, <1>4, <1>6
  <2>2. base \in Seq(Character) /\ index \in Seq(Character)
    <3>1. /\ \A i \in (Top.index + 1)..(BaseEnd - 1) : Top.text[i] \in Character
          /\ \A i \in (BaseEnd + 1)..(end - 1) : Top.text[i] \in Character
      BY <1>2, <1>3, <1>4, <2>1
    <3>2. Top.index + 1 \in Int /\ BaseEnd - 1 \in Int /\ BaseEnd + 1 \in Int /\ end - 1 \in Int
      BY <1>2, <1>3, <2>1
    <3> HIDE DEF end
    <3> QED
      BY <1>2, <1>3, <1>4, <2>1, <3>1, <3>2, SubSeqProperties
  <2>3. Calls(Top.text, Top.index, base, index, end + 1)
    BY Zenon, <1>1, <1>2, <2>1 DEF Calls
  <2>4. /\ frames' = Append([frames EXCEPT ![Len(frames)] = Advanced(Top, end + 1, <<>>)],
                            Entered(index, base))
        /\ SameWord /\ SameEscape
    BY <1>6 DEF ElementReference
  <2> HIDE DEF end, base, index
  <2>5. Entering(base, index, end + 1)
    <3> DEFINE k == Len(frames)
               f == Advanced(Top, end + 1, <<>>)
               fs == [frames EXCEPT ![k] = f]
               g == Entered(index, base)
    <3>1. frames \in Seq(Frame) /\ k \in Nat /\ k >= 1 /\ Top.buffer \in Seq(Byte) /\ Top \in Frame
      BY <1>2, TopFacts DEF IInv, FramesHold
    <3>2. f.text = Top.text /\ f.base = Top.base /\ f.index = end + 1 /\ f.buffer = Top.buffer
      <4>1. Top.buffer \o <<>> = Top.buffer
        BY <3>1, ConcatEmptySeq
      <4> QED
        BY <4>1 DEF Advanced
    <3>3. g.text = index /\ g.base = base /\ g.index = 1 /\ g.buffer = <<>>
      BY DEF Entered
    <3>4. f \in Frame
      <4>1. <<>> \in Seq(Byte)
        BY EmptyBytes
      <4> QED
        BY Zenon, <3>1, <2>1, <4>1, AdvancedIsFrame
    <3> HIDE DEF f, g
    <3>5. fs \in Seq(Frame) /\ Len(fs) = k /\ fs[k] = f /\ \A n \in 1..(k - 1) : fs[n] = frames[n]
      BY <3>1, <3>4
    <3>6. frames' = Append(fs, g)
      BY <2>4 DEF f, g
    <3> HIDE DEF fs
    <3>7. Len(frames') = k + 1 /\ frames'[k + 1] = g /\ \A n \in 1..k : frames'[n] = fs[n]
      BY <3>1, <3>5, <3>6, AppendProperties
    <3>8. Top' = g
      BY <3>7 DEF Top
    <3>9. frames'[k] = f /\ \A n \in 1..(k - 1) : frames'[n] = frames[n]
      BY <3>1, <3>5, <3>7
    <3>10. DigitsRead' = NoDigits
      BY <1>2, <2>4 DEF SameEscape, DigitsRead
    <3> QED
      BY <1>2, <3>2, <3>3, <3>7, <3>8, <3>9, <3>10 DEF Entering
  <2> QED
    BY Zenon, <2>1, <2>2, <2>3, <2>4, <2>5 DEF Enters
<1> QED
  BY <1>5, <1>6

\* No variable is named by the index that has been read.
Unnamed ==
  /\ Len(frames) > 1 /\ Top.index = Len(Top.text) + 1 /\ DigitsRead = NoDigits
  /\ ElementName(Top.base, Top.buffer) \notin DOMAIN store

LEMMA EndIndexReturns ==
  ASSUME IInv, EndIndex
  PROVE  Returns \/ (Fails /\ Unnamed)
<1> DEFINE name == ElementName(Top.base, Top.buffer)
           k == Len(frames) - 1
<1>1. /\ scanning = FALSE /\ DigitsRead = NoDigits /\ Len(frames) > 1 /\ frames # <<>>
      /\ Top.index > Len(Top.text)
  BY DEF EndIndex, AtEnd, Resolving, IInv, OthersHold, DigitsRead
<1>2. /\ frames \in Seq(Frame) /\ Len(frames) \in Nat /\ k \in Nat /\ k >= 1
      /\ Top.index = Len(Top.text) + 1 /\ FramesHold(frames)
  <2>1. FramesHold(frames)
    BY DEF IInv
  <2>2. /\ Len(frames) \in Nat /\ Len(Top.text) \in Nat /\ Top.index \in Nat
        /\ Top.index <= Len(Top.text) + 1
    BY <1>1, <2>1, TopFacts
  <2>3. frames \in Seq(Frame)
    BY <2>1 DEF FramesHold
  <2> QED
    BY <1>1, <2>1, <2>2, <2>3
<1>3. CASE name \notin DOMAIN store
  <2>1. Fail("semantic") /\ "semantic" \in {"semantic", "syntax"}
    BY <1>3 DEF EndIndex, ElementName
  <2> QED
    BY Zenon, <1>1, <1>2, <1>3, <2>1 DEF Fails, Unnamed
<1>4. CASE name \in DOMAIN store
  <2> DEFINE b == store[name]
             fs == SubSeq(frames, 1, k)
             f == Advanced(fs[k], fs[k].index, b)
  <2>1. b \in Seq(Byte) /\ Holds(store, name, b)
    BY <1>4 DEF IInv, VariablesHold, Holds
  <2>2. /\ frames' = [fs EXCEPT ![k] = f]
        /\ SameWord /\ SameEscape
    BY <1>4 DEF EndIndex, ElementName
  <2> HIDE DEF name, b
  <2>3. fs \in Seq(Frame) /\ Len(fs) = k /\ \A n \in 1..k : fs[n] = frames[n]
    BY <1>2, SubSeqProperties
  <2>4. fs[k] = Caller
    BY <1>2, <2>3 DEF Caller
  <2> HIDE DEF fs
  <2>5. /\ f.text = Caller.text /\ f.base = Caller.base /\ f.index = Caller.index
        /\ f.buffer = Caller.buffer \o b
    BY <2>4 DEF Advanced
  <2> HIDE DEF f
  <2>6. Len(frames') = k /\ frames'[k] = f /\ \A n \in 1..(k - 1) : frames'[n] = frames[n]
    BY <1>2, <2>2, <2>3
  <2>7. Top' = f
    BY <2>6 DEF Top
  <2>8. DigitsRead' = NoDigits
    BY <1>1, <2>2 DEF SameEscape, DigitsRead
  <2>9. k - 1 = Len(frames) - 2
    BY <1>2
  <2>10. Returning(b)
    <3> USE DEF name
    <3>1. Holds(store, ElementName(Top.base, Top.buffer), b)
      BY <2>1
    <3>2. /\ Len(frames') = Len(frames) - 1
          /\ \A n \in 1..(Len(frames) - 2) : frames'[n] = frames[n]
      BY <2>6, <2>9
    <3>3. /\ Top'.text = Caller.text /\ Top'.base = Caller.base
          /\ Top'.index = Caller.index /\ Top'.buffer = Caller.buffer \o b
      BY <2>5, <2>7
    <3> QED
      BY Zenon, <1>1, <1>2, <2>8, <3>1, <3>2, <3>3 DEF Returning
  <2> QED
    BY <2>1, <2>2, <2>10 DEF Returns
<1> QED
  BY <1>3, <1>4

\* The word is resolved.
Resolves ==
  /\ Len(frames) = 1 /\ Top.index = Len(Top.text) + 1 /\ DigitsRead = NoDigits
  /\ Finish(CString(Top.buffer))

LEMMA EndTextResolves ==
  ASSUME IInv, EndText
  PROVE  Resolves
<1>1. frames # <<>> /\ FramesHold(frames) /\ ~scanning
  BY DEF EndText, AtEnd, Resolving, IInv
<1>2. Top.index \in 1..(Len(Top.text) + 1) /\ Top.index > Len(Top.text) /\ Len(Top.text) \in Nat
  BY <1>1, TopFacts DEF EndText, AtEnd
<1> QED
  BY <1>1, <1>2 DEF EndText, Resolves, DigitsRead

\* The steps of resolve_string_text.
LEMMA Steps ==
  ASSUME IInv, frames # <<>>, Next
  PROVE  \/ Waits \/ MovesOn \/ Enters \/ Returns \/ Resolves
         \/ Fails /\ (Stuck \/ Unnamed)
         \/ Fail("system")
         \/ phase = "done" /\ UNCHANGED vars
<1>1. CASE CopyBraced \/ ReadBraced \/ BeginText
  BY <1>1 DEF CopyBraced, ReadBraced, BeginText, Called
<1>2. CASE CopyCharacter \/ CopyLast
  BY <1>2, CopyMoves
<1>3. CASE BeginEscape
  BY <1>3, BeginWaits
<1>4. CASE ScanDigit
  BY <1>4, ScanMoves
<1>5. CASE EndEscape
  BY <1>5, DecodeMoves
<1>6. CASE BracedReference
  BY <1>6, BracedMoves
<1>7. CASE NamedReference
  BY <1>7, NamedMoves
<1>8. CASE ElementReference
  BY <1>8, ElementEnters
<1>9. CASE EndIndex
  BY <1>9, EndIndexReturns
<1>10. CASE EndText
  BY <1>10, EndTextResolves
<1>11. CASE OutOfMemory
  BY <1>11 DEF OutOfMemory
<1>12. CASE Done
  BY <1>12 DEF Done
<1> QED
  BY <1>1, <1>2, <1>3, <1>4, <1>5, <1>6, <1>7, <1>8, <1>9, <1>10, <1>11, <1>12 DEF Next

------------------------------------------------------------------------------
\* What the calls of resolve_string_text have done so far, when all goes well, is
\* what their texts spell up to where they stand.
TopContinues(s, g, d) ==
  \A v \in Seq(Byte) :
    Spells(s, g.text, g.index, d, v) => Spells(s, g.text, 1, NoDigits, g.buffer \o v)

CallerContinues(s, f, g) ==
  \A w, b, v \in Seq(Byte) :
    /\ Spells(s, g.text, 1, NoDigits, w) /\ Holds(s, ElementName(g.base, w), b)
    /\ Spells(s, f.text, f.index, NoDigits, v)
    => Spells(s, f.text, 1, NoDigits, (f.buffer \o b) \o v)

Continues ==
  /\ TopContinues(store, Top, DigitsRead)
  /\ \A k \in 1..(Len(frames) - 1) : CallerContinues(store, frames[k], frames[k + 1])

LEMMA BytesAssociate ==
  ASSUME NEW a \in Seq(Byte), NEW b \in Seq(Byte), NEW c \in Seq(Byte)
  PROVE  a \o (b \o c) = (a \o b) \o c
BY ConcatAssociative

\* Frames of which only text and base are asked
LEMMA SameCallee ==
  ASSUME NEW s, NEW f, NEW g, NEW h, h.text = g.text, h.base = g.base, CallerContinues(s, f, g)
  PROVE  CallerContinues(s, f, h)
BY DEF CallerContinues

LEMMA Buffers ==
  ASSUME IInv, frames # <<>>
  PROVE  /\ Len(frames) \in Nat /\ Len(frames) >= 1 /\ Top = frames[Len(frames)]
         /\ \A n \in 1..Len(frames) : /\ frames[n].buffer \in Seq(Byte)
                                      /\ frames[n].text \in Seq(Character)
                                      /\ frames[n].base \in Seq(Character)
                                      /\ frames[n].index \in Nat
<1>1. frames \in Seq(Frame) /\ Len(frames) \in Nat /\ Len(frames) >= 1
  BY TopFacts DEF IInv, FramesHold
<1>2. \A n \in 1..Len(frames) : frames[n] \in Frame
  BY <1>1
<1> QED
  BY <1>1, <1>2 DEF Frame, Top

LEMMA MovesContinue ==
  ASSUME IInv, frames # <<>>, Continues, MovesOn
  PROVE  Continues'
<1>1. PICK j \in Nat, e \in Scanned, b \in Seq(Byte) :
        Moves(store, Top.text, Top.index, DigitsRead, j, e, b) /\ Carried(j, e, b) /\ SameWord
  BY DEF MovesOn
<1>2. /\ Len(frames) \in Nat /\ Len(frames) >= 1 /\ Len(frames') = Len(frames)
      /\ Top = frames[Len(frames)] /\ Top' = frames'[Len(frames)]
      /\ Top.text \in Seq(Character) /\ Top.buffer \in Seq(Byte) /\ Top.index \in Nat
  BY <1>1, Buffers DEF Carried, Top
<1>3. store' = store /\ DigitsRead \in Scanned
  BY <1>1, ScanningType DEF SameWord
<1>4. TopContinues(store, Top', e)
  <2> SUFFICES ASSUME NEW v \in Seq(Byte), Spells(store, Top'.text, Top'.index, e, v)
               PROVE  Spells(store, Top'.text, 1, NoDigits, Top'.buffer \o v)
    BY DEF TopContinues
  <2>1. Spells(store, Top.text, j, e, v)
    BY <1>1 DEF Carried
  <2>2. Spells(store, Top.text, Top.index, DigitsRead, b \o v)
    BY Zenon, <1>1, <1>2, <1>3, <2>1, MoveSpells
  <2>3. b \o v \in Seq(Byte)
    BY BytesJoin
  <2>4. Spells(store, Top.text, 1, NoDigits, Top.buffer \o (b \o v))
    BY Zenon, <2>2, <2>3 DEF Continues, TopContinues
  <2>5. Top.buffer \o (b \o v) = (Top.buffer \o b) \o v
    BY Zenon, <1>1, <1>2, BytesAssociate
  <2> QED
    BY <1>1, <2>4, <2>5 DEF Carried
<1>5. ASSUME NEW k \in 1..(Len(frames') - 1)
      PROVE  CallerContinues(store, frames'[k], frames'[k + 1])
  <2>1. k \in 1..(Len(frames) - 1) /\ frames'[k] = frames[k]
    BY <1>1, <1>2 DEF Carried
  <2>2. CallerContinues(store, frames[k], frames[k + 1])
    BY <2>1 DEF Continues
  <2>3. frames'[k + 1].text = frames[k + 1].text /\ frames'[k + 1].base = frames[k + 1].base
    <3>1. CASE k + 1 = Len(frames)
      BY <1>1, <1>2, <3>1 DEF Carried
    <3>2. CASE k + 1 # Len(frames)
      <4>1. k + 1 \in 1..(Len(frames) - 1)
        BY <1>2, <2>1, <3>2
      <4> QED
        BY <1>1, <4>1 DEF Carried
    <3> QED
      BY <3>1, <3>2
  <2> QED
    BY Zenon, <2>1, <2>2, <2>3, SameCallee
<1>6. DigitsRead' = e
  BY <1>1 DEF Carried
<1> QED
  BY <1>3, <1>4, <1>5, <1>6 DEF Continues

LEMMA EntersContinues ==
  ASSUME IInv, frames # <<>>, Continues, Enters
  PROVE  Continues'
<1>1. PICK base, index \in Seq(Character), j \in Nat :
        Calls(Top.text, Top.index, base, index, j) /\ Entering(base, index, j) /\ SameWord
  BY DEF Enters
<1>2. /\ Len(frames) \in Nat /\ Len(frames) >= 1 /\ Len(frames') = Len(frames) + 1
      /\ Top = frames[Len(frames)] /\ Top' = frames'[Len(frames) + 1]
      /\ Top.text \in Seq(Character) /\ Top.buffer \in Seq(Byte) /\ Top.index \in Nat
  BY <1>1, Buffers DEF Entering, Top
<1>3. store' = store
  BY <1>1 DEF SameWord
<1>4. TopContinues(store, Top', NoDigits)
  <2>1. /\ Top'.text = index /\ Top'.index = 1 /\ Top'.buffer = <<>>
    BY <1>1 DEF Entering
  <2>2. \A v \in Seq(Byte) : <<>> \o v = v
    BY ConcatEmptySeq
  <2> QED
    BY <2>1, <2>2 DEF TopContinues
<1> DEFINE f == frames'[Len(frames)]
<1>5. CallerContinues(store, f, Top')
  <2>1. /\ Top'.text = index /\ Top'.base = base
        /\ f.text = Top.text /\ f.index = j /\ f.buffer = Top.buffer
    BY <1>1 DEF Entering
  <2> HIDE DEF f
  <2> SUFFICES ASSUME NEW w \in Seq(Byte), NEW b \in Seq(Byte), NEW v \in Seq(Byte),
                      Spells(store, index, 1, NoDigits, w), Holds(store, ElementName(base, w), b),
                      Spells(store, Top.text, j, NoDigits, v)
               PROVE  Spells(store, Top.text, 1, NoDigits, (Top.buffer \o b) \o v)
    BY <2>1 DEF CallerContinues
  <2>2. Spells(store, Top.text, Top.index, NoDigits, b \o v)
    BY Zenon, <1>1, <1>2, CallSpells
  <2>3. b \o v \in Seq(Byte)
    BY BytesJoin
  <2>4. DigitsRead = NoDigits
    BY <1>1 DEF Entering
  <2>5. Spells(store, Top.text, 1, NoDigits, Top.buffer \o (b \o v))
    BY <2>2, <2>3, <2>4 DEF Continues, TopContinues
  <2>6. Top.buffer \o (b \o v) = (Top.buffer \o b) \o v
    BY Zenon, <1>2, BytesAssociate
  <2> QED
    BY <2>5, <2>6
<1>6. ASSUME NEW k \in 1..(Len(frames') - 1)
      PROVE  CallerContinues(store, frames'[k], frames'[k + 1])
  <2>1. CASE k = Len(frames)
    BY <1>2, <1>5, <2>1
  <2>2. CASE k # Len(frames)
    <3>1. k \in 1..(Len(frames) - 1) /\ frames'[k] = frames[k]
      BY <1>1, <1>2, <2>2 DEF Entering
    <3>2. CallerContinues(store, frames[k], frames[k + 1])
      BY <3>1 DEF Continues
    <3>3. frames'[k + 1].text = frames[k + 1].text /\ frames'[k + 1].base = frames[k + 1].base
      <4>1. CASE k + 1 = Len(frames)
        BY <1>1, <1>2, <4>1 DEF Entering
      <4>2. CASE k + 1 # Len(frames)
        <5>1. k + 1 \in 1..(Len(frames) - 1)
          BY <1>2, <3>1, <4>2
        <5> QED
          BY <1>1, <5>1 DEF Entering
      <4> QED
        BY <4>1, <4>2
    <3> QED
      BY Zenon, <3>1, <3>2, <3>3, SameCallee
  <2> QED
    BY <2>1, <2>2
<1>7. DigitsRead' = NoDigits
  BY <1>1 DEF Entering
<1> QED
  BY <1>3, <1>4, <1>6, <1>7 DEF Continues

LEMMA ReturnsContinue ==
  ASSUME IInv, frames # <<>>, Continues, Returns
  PROVE  Continues'
<1>1. PICK b \in Seq(Byte) : Returning(b) /\ SameWord
  BY DEF Returns
<1> DEFINE k == Len(frames) - 1
<1>2. /\ Len(frames) \in Nat /\ Len(frames) > 1 /\ Len(frames') = k /\ k \in 1..Len(frames)
      /\ Top = frames[k + 1] /\ Top' = frames'[k] /\ Caller = frames[k]
      /\ Top.text \in Seq(Character) /\ Top.buffer \in Seq(Byte)
      /\ Caller.buffer \in Seq(Byte)
  <2>1. /\ Len(frames) \in Nat /\ Len(frames) > 1 /\ Len(frames') = Len(frames) - 1
    BY <1>1, Buffers DEF Returning
  <2>2. k \in 1..Len(frames) /\ k + 1 = Len(frames) /\ Len(frames) \in 1..Len(frames)
    BY <2>1
  <2>3. Top = frames[k + 1] /\ Top' = frames'[k] /\ Caller = frames[k]
    BY Zenon, <2>1, <2>2 DEF Top, Caller
  <2>4. /\ frames[k].buffer \in Seq(Byte) /\ frames[Len(frames)].buffer \in Seq(Byte)
        /\ frames[Len(frames)].text \in Seq(Character)
    BY Zenon, <2>2, Buffers
  <2> QED
    BY Zenon, <2>1, <2>2, <2>3, <2>4
<1>3. store' = store
  BY <1>1 DEF SameWord
<1>4. Spells(store, Top.text, 1, NoDigits, Top.buffer)
  <2>1. Spells(store, Top.text, Top.index, DigitsRead, <<>>)
    BY <1>1, <1>2, EndSpells DEF Returning
  <2>2. Spells(store, Top.text, 1, NoDigits, Top.buffer \o <<>>)
    BY <2>1, EmptyBytes DEF Continues, TopContinues
  <2>3. Top.buffer \o <<>> = Top.buffer
    BY <1>2, ConcatEmptySeq
  <2> QED
    BY <2>2, <2>3
<1>5. TopContinues(store, Top', NoDigits)
  <2> SUFFICES ASSUME NEW v \in Seq(Byte), Spells(store, Caller.text, Caller.index, NoDigits, v)
               PROVE  Spells(store, Caller.text, 1, NoDigits, (Caller.buffer \o b) \o v)
    BY <1>1 DEF TopContinues, Returning
  <2>1. CallerContinues(store, Caller, Top)
    <3>1. k \in 1..(Len(frames) - 1)
      BY <1>2
    <3> QED
      BY <1>2, <3>1 DEF Continues
  <2>2. Holds(store, ElementName(Top.base, Top.buffer), b)
    BY <1>1 DEF Returning
  <2> QED
    BY Zenon, <1>2, <1>4, <2>1, <2>2 DEF CallerContinues
<1>6. ASSUME NEW n \in 1..(Len(frames') - 1)
      PROVE  CallerContinues(store, frames'[n], frames'[n + 1])
  <2>1. n \in 1..(Len(frames) - 2) /\ n \in 1..(Len(frames) - 1) /\ frames'[n] = frames[n]
    BY <1>1, <1>2 DEF Returning
  <2>2. CallerContinues(store, frames[n], frames[n + 1])
    BY <2>1 DEF Continues
  <2>3. frames'[n + 1].text = frames[n + 1].text /\ frames'[n + 1].base = frames[n + 1].base
    <3>1. CASE n + 1 = k
      BY <1>1, <1>2, <3>1 DEF Returning
    <3>2. CASE n + 1 # k
      <4>1. n + 1 \in 1..(Len(frames) - 2)
        BY <1>2, <2>1, <3>2
      <4> QED
        BY <1>1, <4>1 DEF Returning
    <3> QED
      BY <3>1, <3>2
  <2> QED
    BY Zenon, <2>1, <2>2, <2>3, SameCallee
<1>7. DigitsRead' = NoDigits
  BY <1>1 DEF Returning
<1> QED
  BY <1>3, <1>5, <1>6, <1>7 DEF Continues

------------------------------------------------------------------------------
\* Conversely, the calls are about to hand out what their texts spell: w is what
\* the text of every call spells.
TopLeads(s, g, d, w) ==
  \E v \in Seq(Byte) : Spells(s, g.text, g.index, d, v) /\ w = g.buffer \o v

CallerLeads(s, f, g, w, x) ==
  \E b, v \in Seq(Byte) :
    /\ Holds(s, ElementName(g.base, x), b) /\ Spells(s, f.text, f.index, NoDigits, v)
    /\ w = (f.buffer \o b) \o v

Leads(s, fs, d, w) ==
  /\ TopLeads(s, fs[Len(fs)], d, w[Len(fs)])
  /\ \A k \in 1..(Len(fs) - 1) : CallerLeads(s, fs[k], fs[k + 1], w[k], w[k + 1])

LeadsTo(s, fs, d, value) ==
  \E w \in [1..Len(fs) -> Seq(Byte)] : w[1] = value /\ Leads(s, fs, d, w)

LeadsNow(value) == LeadsTo(store, frames, DigitsRead, value)

\* Naming what the calls spell
LEMMA LeadingNow ==
  ASSUME NEW value, LeadsNow(value)
  PROVE  \E w \in [1..Len(frames) -> Seq(Byte)] :
           /\ w[1] = value
           /\ TopLeads(store, Top, DigitsRead, w[Len(frames)])
           /\ \A k \in 1..(Len(frames) - 1) :
                CallerLeads(store, frames[k], frames[k + 1], w[k], w[k + 1])
BY DEF LeadsNow, LeadsTo, Leads, Top

LEMMA LeadingThen ==
  ASSUME NEW value, NEW n, Len(frames') = n, NEW w \in [1..n -> Seq(Byte)], w[1] = value,
         NEW d, DigitsRead' = d, store' = store,
         TopLeads(store, frames'[n], d, w[n]),
         \A k \in 1..(n - 1) : CallerLeads(store, frames'[k], frames'[k + 1], w[k], w[k + 1])
  PROVE  LeadsNow(value)'
<1> DEFINE fs == frames'
<1>1. Leads(store, fs, d, w)
  BY DEF Leads
<1>2. LeadsTo(store, fs, d, value)
  BY <1>1 DEF LeadsTo
<1> QED
  BY <1>2 DEF LeadsNow

LEMMA SameLead ==
  ASSUME NEW s, NEW f, NEW g, NEW h, NEW w, NEW x, h.base = g.base, CallerLeads(s, f, g, w, x)
  PROVE  CallerLeads(s, f, h, w, x)
BY DEF CallerLeads

LEMMA MovesLead ==
  ASSUME IInv, frames # <<>>, NEW value, LeadsNow(value), MovesOn
  PROVE  LeadsNow(value)'
<1>1. PICK j \in Nat, e \in Scanned, b \in Seq(Byte) :
        Moves(store, Top.text, Top.index, DigitsRead, j, e, b) /\ Carried(j, e, b) /\ SameWord
  BY DEF MovesOn
<1>2. /\ Len(frames) \in Nat /\ Len(frames) >= 1 /\ Len(frames') = Len(frames)
      /\ Top = frames[Len(frames)] /\ Top' = frames'[Len(frames)]
      /\ Top.text \in Seq(Character) /\ Top.buffer \in Seq(Byte) /\ Top.index \in Nat
  BY <1>1, Buffers DEF Carried, Top
<1>3. store' = store /\ DigitsRead' = e
  BY <1>1 DEF SameWord, Carried
<1>4. PICK w \in [1..Len(frames) -> Seq(Byte)] :
        /\ w[1] = value
        /\ TopLeads(store, Top, DigitsRead, w[Len(frames)])
        /\ \A k \in 1..(Len(frames) - 1) :
             CallerLeads(store, frames[k], frames[k + 1], w[k], w[k + 1])
  BY LeadingNow
<1>5. TopLeads(store, Top', e, w[Len(frames)])
  <2>1. PICK v \in Seq(Byte) : /\ Spells(store, Top.text, Top.index, DigitsRead, v)
                               /\ w[Len(frames)] = Top.buffer \o v
    BY <1>4 DEF TopLeads
  <2>2. PICK x \in Seq(Byte) : Spells(store, Top.text, j, e, x) /\ v = b \o x
    <3>1. Moves(store, Top.text, Top.index, DigitsRead, j, e, b)
      BY <1>1
    <3>2. MovedOn(store, Top.text, j, e, b, v)
      BY Zenon, <2>1, <3>1, MoveIsTaken
    <3> QED
      BY Zenon, <3>2 DEF MovedOn
  <2>3. Top.buffer \o (b \o x) = (Top.buffer \o b) \o x
    BY Zenon, <1>1, <1>2, <2>2, BytesAssociate
  <2>4. Top'.text = Top.text /\ Top'.index = j /\ Top'.buffer = Top.buffer \o b
    BY <1>1 DEF Carried
  <2> QED
    BY Zenon, <2>1, <2>2, <2>3, <2>4 DEF TopLeads
<1>6. ASSUME NEW k \in 1..(Len(frames') - 1)
      PROVE  CallerLeads(store, frames'[k], frames'[k + 1], w[k], w[k + 1])
  <2>1. k \in 1..(Len(frames) - 1) /\ frames'[k] = frames[k]
    BY <1>1, <1>2 DEF Carried
  <2>2. CallerLeads(store, frames[k], frames[k + 1], w[k], w[k + 1])
    BY <1>4, <2>1
  <2>3. frames'[k + 1].base = frames[k + 1].base
    <3>1. CASE k + 1 = Len(frames)
      BY <1>1, <1>2, <3>1 DEF Carried
    <3>2. CASE k + 1 # Len(frames)
      <4>1. k + 1 \in 1..(Len(frames) - 1)
        BY <1>2, <2>1, <3>2
      <4> QED
        BY <1>1, <4>1 DEF Carried
    <3> QED
      BY <3>1, <3>2
  <2> QED
    BY Zenon, <2>1, <2>2, <2>3, SameLead
<1> QED
  BY <1>2, <1>3, <1>4, <1>5, <1>6, LeadingThen

LEMMA EntersLeads ==
  ASSUME IInv, frames # <<>>, NEW value, LeadsNow(value), Enters
  PROVE  LeadsNow(value)'
<1>1. PICK base, index \in Seq(Character), j \in Nat :
        Calls(Top.text, Top.index, base, index, j) /\ Entering(base, index, j) /\ SameWord
  BY DEF Enters
<1> DEFINE k == Len(frames)
<1>2. /\ k \in Nat /\ k >= 1 /\ Len(frames') = k + 1
      /\ Top = frames[k] /\ Top' = frames'[k + 1]
      /\ Top.text \in Seq(Character) /\ Top.buffer \in Seq(Byte) /\ Top.index \in Nat
  BY <1>1, Buffers DEF Entering, Top
<1>3. store' = store /\ DigitsRead = NoDigits /\ DigitsRead' = NoDigits
  BY <1>1 DEF SameWord, Entering
<1>4. PICK w \in [1..k -> Seq(Byte)] :
        /\ w[1] = value
        /\ TopLeads(store, Top, DigitsRead, w[k])
        /\ \A n \in 1..(k - 1) : CallerLeads(store, frames[n], frames[n + 1], w[n], w[n + 1])
  BY LeadingNow
<1>5. PICK v \in Seq(Byte) : /\ Spells(store, Top.text, Top.index, DigitsRead, v)
                             /\ w[k] = Top.buffer \o v
  BY <1>4 DEF TopLeads
<1>6. PICK x, b, y \in Seq(Byte) :
        /\ Spells(store, index, 1, NoDigits, x) /\ Holds(store, ElementName(base, x), b)
        /\ Spells(store, Top.text, j, NoDigits, y) /\ v = b \o y
  <2>1. Calls(Top.text, Top.index, base, index, j)
    BY <1>1
  <2>2. CalledFor(store, Top.text, base, index, j, v)
    BY Zenon, <1>5, <2>1, CallIsTaken
  <2> QED
    BY Zenon, <2>2 DEF CalledFor
<1> DEFINE u == [n \in 1..(k + 1) |-> IF n = k + 1 THEN x ELSE w[n]]
<1>7. /\ u \in [1..(k + 1) -> Seq(Byte)] /\ u[k + 1] = x
      /\ \A n \in 1..k : u[n] = w[n]
  BY <1>2, <1>4, <1>6
<1> HIDE DEF u
<1>8. u[1] = value /\ 1 \in 1..k /\ u[k] = w[k]
  BY <1>2, <1>4, <1>7
<1>9. TopLeads(store, Top', NoDigits, u[k + 1])
  <2>1. Top'.text = index /\ Top'.index = 1 /\ Top'.buffer = <<>>
    BY <1>1 DEF Entering
  <2>2. <<>> \o x = x
    BY <1>6, ConcatEmptySeq
  <2> QED
    BY Zenon, <1>6, <1>7, <2>1, <2>2 DEF TopLeads
<1>10. CallerLeads(store, frames'[k], Top', u[k], u[k + 1])
  <2>1. /\ Top'.base = base /\ frames'[k].text = Top.text /\ frames'[k].index = j
        /\ frames'[k].buffer = Top.buffer
    BY <1>1 DEF Entering
  <2>2. Top.buffer \o (b \o y) = (Top.buffer \o b) \o y
    BY Zenon, <1>2, <1>6, BytesAssociate
  <2> QED
    BY Zenon, <1>5, <1>6, <1>7, <1>8, <2>1, <2>2 DEF CallerLeads
<1>11. ASSUME NEW n \in 1..(Len(frames') - 1)
       PROVE  CallerLeads(store, frames'[n], frames'[n + 1], u[n], u[n + 1])
  <2>1. CASE n = k
    BY <1>2, <1>10, <2>1
  <2>2. CASE n # k
    <3>1. n \in 1..(k - 1) /\ frames'[n] = frames[n] /\ n \in 1..k /\ n + 1 \in 1..k
      BY <1>1, <1>2, <2>2 DEF Entering
    <3>2. CallerLeads(store, frames[n], frames[n + 1], w[n], w[n + 1])
      BY <1>4, <3>1
    <3>3. frames'[n + 1].base = frames[n + 1].base
      <4>1. CASE n + 1 = k
        BY <1>1, <1>2, <4>1 DEF Entering
      <4>2. CASE n + 1 # k
        <5>1. n + 1 \in 1..(k - 1)
          BY <1>2, <3>1, <4>2
        <5> QED
          BY <1>1, <5>1 DEF Entering
      <4> QED
        BY <4>1, <4>2
    <3>4. u[n] = w[n] /\ u[n + 1] = w[n + 1]
      BY <1>7, <3>1
    <3> QED
      BY Zenon, <3>1, <3>2, <3>3, <3>4, SameLead
  <2> QED
    BY <2>1, <2>2
<1> QED
  BY <1>2, <1>3, <1>7, <1>8, <1>9, <1>11, LeadingThen

\* A call at the end of its text hands out what that spells.
LEMMA EndLeads ==
  ASSUME IInv, frames # <<>>, NEW w, TopLeads(store, Top, DigitsRead, w),
         Top.index = Len(Top.text) + 1
  PROVE  w = Top.buffer
<1>1. Top.text \in Seq(Character) /\ Top.buffer \in Seq(Byte)
  BY Buffers
<1>2. PICK v \in Seq(Byte) : Spells(store, Top.text, Top.index, DigitsRead, v)
                             /\ w = Top.buffer \o v
  BY DEF TopLeads
<1>3. v = <<>>
  BY <1>1, <1>2, EndIsEmpty
<1> QED
  BY <1>1, <1>2, <1>3, ConcatEmptySeq

LEMMA ReturnsLead ==
  ASSUME IInv, frames # <<>>, NEW value, LeadsNow(value), Returns
  PROVE  LeadsNow(value)'
<1>1. PICK b \in Seq(Byte) : Returning(b) /\ SameWord
  BY DEF Returns
<1> DEFINE k == Len(frames) - 1
<1>2. /\ k \in Nat /\ k >= 1 /\ Len(frames') = k /\ Len(frames) = k + 1
      /\ k \in 1..(Len(frames) - 1)
      /\ Top = frames[k + 1] /\ Top' = frames'[k] /\ Caller = frames[k]
  <2>1. /\ Len(frames) \in Nat /\ Len(frames) > 1 /\ Len(frames') = Len(frames) - 1
    BY <1>1, Buffers DEF Returning
  <2>2. k + 1 = Len(frames)
    BY <2>1
  <2>3. Top = frames[k + 1] /\ Top' = frames'[k] /\ Caller = frames[k]
    BY Zenon, <2>1, <2>2 DEF Top, Caller
  <2> QED
    BY <2>1, <2>3
<1>3. store' = store /\ DigitsRead' = NoDigits
  BY <1>1 DEF SameWord, Returning
<1>4. PICK w \in [1..Len(frames) -> Seq(Byte)] :
        /\ w[1] = value
        /\ TopLeads(store, Top, DigitsRead, w[Len(frames)])
        /\ \A n \in 1..(Len(frames) - 1) :
             CallerLeads(store, frames[n], frames[n + 1], w[n], w[n + 1])
  BY LeadingNow
<1>5. w[k + 1] = Top.buffer
  BY <1>1, <1>2, <1>4, EndLeads DEF Returning
<1>6. PICK c, v \in Seq(Byte) :
        /\ Holds(store, ElementName(Top.base, w[k + 1]), c)
        /\ Spells(store, Caller.text, Caller.index, NoDigits, v)
        /\ w[k] = (Caller.buffer \o c) \o v
  <2>1. CallerLeads(store, frames[k], frames[k + 1], w[k], w[k + 1])
    BY <1>2, <1>4
  <2> QED
    BY <1>2, <2>1 DEF CallerLeads
<1>7. c = b
  BY <1>1, <1>5, <1>6 DEF Returning, Holds
<1> DEFINE u == [n \in 1..k |-> w[n]]
<1>8. u \in [1..k -> Seq(Byte)] /\ \A n \in 1..k : u[n] = w[n]
  BY <1>2, <1>4
<1> HIDE DEF u
<1>9. u[1] = value /\ u[k] = w[k]
  BY <1>2, <1>4, <1>8
<1>10. TopLeads(store, Top', NoDigits, u[k])
  <2>1. /\ Top'.text = Caller.text /\ Top'.index = Caller.index
        /\ Top'.buffer = Caller.buffer \o b
    BY <1>1 DEF Returning
  <2> QED
    BY Zenon, <1>6, <1>7, <1>9, <2>1 DEF TopLeads
<1>11. ASSUME NEW n \in 1..(Len(frames') - 1)
       PROVE  CallerLeads(store, frames'[n], frames'[n + 1], u[n], u[n + 1])
  <2>1. /\ n \in 1..(Len(frames) - 2) /\ n \in 1..(Len(frames) - 1) /\ frames'[n] = frames[n]
        /\ n \in 1..k /\ n + 1 \in 1..k
    BY <1>1, <1>2 DEF Returning
  <2>2. CallerLeads(store, frames[n], frames[n + 1], w[n], w[n + 1])
    BY <1>4, <2>1
  <2>3. frames'[n + 1].base = frames[n + 1].base
    <3>1. CASE n + 1 = k
      BY <1>1, <1>2, <3>1 DEF Returning
    <3>2. CASE n + 1 # k
      <4>1. n + 1 \in 1..(Len(frames) - 2)
        BY <1>2, <2>1, <3>2
      <4> QED
        BY <1>1, <4>1 DEF Returning
    <3> QED
      BY <3>1, <3>2
  <2>4. u[n] = w[n] /\ u[n + 1] = w[n + 1]
    BY <1>8, <2>1
  <2> QED
    BY Zenon, <2>1, <2>2, <2>3, <2>4, SameLead
<1> QED
  BY <1>2, <1>3, <1>8, <1>9, <1>10, <1>11, LeadingThen

\* What leads to a value does not fail.
LEMMA LeadIsNotStuck ==
  ASSUME NEW value, LeadsNow(value)
  PROVE  ~Stuck
BY LeadingNow DEF TopLeads, Stuck

LEMMA LeadIsNamed ==
  ASSUME IInv, frames # <<>>, NEW value, LeadsNow(value)
  PROVE  ~Unnamed
<1> SUFFICES ASSUME Unnamed PROVE FALSE
  OBVIOUS
<1> DEFINE k == Len(frames) - 1
<1>1. k \in 1..(Len(frames) - 1) /\ k + 1 = Len(frames)
  BY Buffers DEF Unnamed
<1>2. PICK w \in [1..Len(frames) -> Seq(Byte)] :
        /\ w[1] = value
        /\ TopLeads(store, Top, DigitsRead, w[Len(frames)])
        /\ \A n \in 1..(Len(frames) - 1) :
             CallerLeads(store, frames[n], frames[n + 1], w[n], w[n + 1])
  BY LeadingNow
<1>3. w[Len(frames)] = Top.buffer
  BY <1>2, EndLeads DEF Unnamed
<1>4. CallerLeads(store, frames[k], frames[k + 1], w[k], w[k + 1])
  BY <1>1, <1>2
<1>5. Top = frames[k + 1]
  BY <1>1 DEF Top
<1> QED
  BY <1>1, <1>3, <1>4, <1>5 DEF CallerLeads, Holds, Unnamed

------------------------------------------------------------------------------
Updated(s, name) ==
  [n \in DOMAIN s \union {name} |-> IF n = name THEN Value ELSE s[n]]

OutcomesHold ==
  /\ EvaluatedAsMeant
  /\ phase \in Phases => outcomes[phase] = Pending
  /\ phase = "set" => store = Stored /\ outcomes["read"] = Pending
  /\ outcomes["set"].verdict = "ok" => store = Updated(Stored, outcomes["set"].value)

\* While a text is resolved
TextHolds ==
  frames # <<>> =>
    /\ phase \in Phases /\ test[phase].kind \in TextKinds
    /\ frames[1].text = TextOf(test[phase])
    /\ Continues
    /\ \A v : Spells(store, frames[1].text, 1, NoDigits, v) => LeadsNow(v)

\* Only one of the rules for words applies.
LEMMA MeansByText ==
  ASSUME NEW s, NEW word, NEW value, word.kind \in TextKinds
  PROVE  Means(s, word, value) <=>
           \E v \in Seq(Byte) : Spells(s, TextOf(word), 1, NoDigits, v) /\ value = CString(v)
BY DEF Means, TextKinds

LEMMA PhaseFacts ==
  /\ Phases = {"set", "read"} /\ "set" # "read" /\ "done" \notin Phases
  /\ Pending.verdict = "pending" /\ "pending" # "ok" /\ "pending" \notin {"semantic", "syntax"}
BY DEF Phases, Pending

\* The store of the phase is that of its word.
LEMMA StoreOfPhase ==
  ASSUME OutcomesHold, phase \in Phases
  PROVE  StoreOf(phase) = store
BY DEF OutcomesHold, StoreOf

LEMMA FinishMeans ==
  ASSUME IInv, OutcomesHold, phase \in Phases, NEW bytes, Finish(bytes),
         \A value : Means(store, test[phase], value) <=> value = bytes
  PROVE  OutcomesHold'
<1> DEFINE o == [verdict |-> "ok", value |-> bytes]
<1>1. /\ outcomes \in [Phases -> Outcome] /\ outcomes' = [outcomes EXCEPT ![phase] = o]
      /\ test' = test
  BY DEF IInv, OthersHold, Finish
<1>2. o.verdict = "ok" /\ o.value = bytes
  OBVIOUS
<1> HIDE DEF o
<1>3. CASE phase = "set"
  <2>1. /\ phase' = "read" /\ store = Stored /\ store' = Updated(Stored, bytes)
        /\ outcomes["read"] = Pending
    BY <1>3 DEF Finish, OutcomesHold, Updated
  <2>2. outcomes'["set"] = o /\ outcomes'["read"] = Pending
    BY <1>1, <1>3, <2>1, PhaseFacts
  <2>3. StoreOf("set")' = Stored
    BY DEF StoreOf
  <2>4. EvaluatedAsMeant'
    <3> SUFFICES ASSUME NEW p \in Phases
                 PROVE  /\ outcomes'[p].verdict = "ok" =>
                             \A value : Means(StoreOf(p)', test'[p], value) <=> value = outcomes'[p].value
                        /\ outcomes'[p].verdict \in {"semantic", "syntax"} =>
                             \A value : ~Means(StoreOf(p)', test'[p], value)
      BY DEF EvaluatedAsMeant
    <3>1. CASE p = "set"
      <4>1. outcomes'[p].verdict = "ok" /\ outcomes'[p].value = bytes
        BY <1>2, <2>2, <3>1
      <4>2. StoreOf(p)' = store /\ test'[p] = test[phase]
        BY <1>1, <1>3, <2>1, <2>3, <3>1
      <4>3. "ok" \notin {"semantic", "syntax"}
        OBVIOUS
      <4> QED
        BY Zenon, <4>1, <4>2, <4>3
    <3>2. CASE p = "read"
      BY <2>2, <3>2, PhaseFacts
    <3> QED
      BY <3>1, <3>2, PhaseFacts
  <2> QED
    BY <1>2, <2>1, <2>2, <2>4, PhaseFacts DEF OutcomesHold
<1>4. CASE phase = "read"
  <2>1. phase' = "done" /\ store' = store
    BY <1>4, PhaseFacts DEF Finish
  <2>2. outcomes'["read"] = o /\ outcomes'["set"] = outcomes["set"]
    BY <1>1, <1>4, PhaseFacts
  <2>3. StoreOf("set")' = StoreOf("set") /\ StoreOf("read")' = store /\ StoreOf("read") = store
    BY <2>1, PhaseFacts DEF StoreOf
  <2>4. EvaluatedAsMeant'
    <3> SUFFICES ASSUME NEW p \in Phases
                 PROVE  /\ outcomes'[p].verdict = "ok" =>
                             \A value : Means(StoreOf(p)', test'[p], value) <=> value = outcomes'[p].value
                        /\ outcomes'[p].verdict \in {"semantic", "syntax"} =>
                             \A value : ~Means(StoreOf(p)', test'[p], value)
      BY DEF EvaluatedAsMeant
    <3>1. CASE p = "read"
      <4>1. outcomes'[p].verdict = "ok" /\ outcomes'[p].value = bytes
        BY <1>2, <2>2, <3>1
      <4>2. StoreOf(p)' = store /\ test'[p] = test[phase]
        BY <1>1, <1>4, <2>1, <2>3, <3>1
      <4>3. "ok" \notin {"semantic", "syntax"}
        OBVIOUS
      <4> QED
        BY Zenon, <4>1, <4>2, <4>3
    <3>2. CASE p = "set"
      <4>1. outcomes'[p] = outcomes[p] /\ StoreOf(p)' = StoreOf(p) /\ test'[p] = test[p]
        BY <1>1, <2>2, <2>3, <3>2
      <4>2. /\ outcomes[p].verdict = "ok" =>
                 \A value : Means(StoreOf(p), test[p], value) <=> value = outcomes[p].value
            /\ outcomes[p].verdict \in {"semantic", "syntax"} =>
                 \A value : ~Means(StoreOf(p), test[p], value)
        BY DEF OutcomesHold, EvaluatedAsMeant
      <4> QED
        BY Zenon, <4>1, <4>2
    <3> QED
      BY <3>1, <3>2, PhaseFacts
  <2> QED
    BY <2>1, <2>2, <2>4, PhaseFacts DEF OutcomesHold
<1> QED
  BY <1>3, <1>4, PhaseFacts

LEMMA FailMeans ==
  ASSUME IInv, OutcomesHold, phase \in Phases, NEW verdict, Fail(verdict),
         verdict \in {"semantic", "syntax", "system"},
         verdict # "system" => \A value : ~Means(store, test[phase], value)
  PROVE  OutcomesHold'
<1> DEFINE o == [verdict |-> verdict, value |-> <<>>]
<1>1. /\ outcomes \in [Phases -> Outcome] /\ outcomes' = [outcomes EXCEPT ![phase] = o]
      /\ test' = test /\ phase' = "done" /\ store' = store
  BY DEF IInv, OthersHold, Fail
<1>2. o.verdict = verdict /\ verdict # "ok"
  OBVIOUS
<1> HIDE DEF o
<1>3. \A p \in Phases : StoreOf(p)' = StoreOf(p)
  BY <1>1 DEF StoreOf
<1>4. outcomes'[phase] = o /\ \A p \in Phases : p # phase => outcomes'[p] = outcomes[p]
  BY <1>1
<1>5. EvaluatedAsMeant'
  <2> SUFFICES ASSUME NEW p \in Phases
               PROVE  /\ outcomes'[p].verdict = "ok" =>
                           \A value : Means(StoreOf(p)', test'[p], value) <=> value = outcomes'[p].value
                      /\ outcomes'[p].verdict \in {"semantic", "syntax"} =>
                           \A value : ~Means(StoreOf(p)', test'[p], value)
    BY DEF EvaluatedAsMeant
  <2>1. CASE p = phase
    <3>1. outcomes'[p].verdict = verdict /\ verdict # "ok"
      BY <1>2, <1>4, <2>1
    <3>2. StoreOf(p)' = store /\ test'[p] = test[phase]
      BY <1>1, <1>3, <2>1, StoreOfPhase
    <3>3. verdict \in {"semantic", "syntax"} => verdict # "system"
      OBVIOUS
    <3> QED
      BY Zenon, <3>1, <3>2, <3>3
  <2>2. CASE p # phase
    <3>1. outcomes'[p] = outcomes[p] /\ StoreOf(p)' = StoreOf(p) /\ test'[p] = test[p]
      BY <1>1, <1>3, <1>4, <2>2
    <3>2. /\ outcomes[p].verdict = "ok" =>
               \A value : Means(StoreOf(p), test[p], value) <=> value = outcomes[p].value
          /\ outcomes[p].verdict \in {"semantic", "syntax"} =>
               \A value : ~Means(StoreOf(p), test[p], value)
      BY DEF OutcomesHold, EvaluatedAsMeant
    <3> QED
      BY Zenon, <3>1, <3>2
  <2> QED
    BY <2>1, <2>2
<1>6. outcomes'["set"].verdict = "ok" => store' = Updated(Stored, outcomes'["set"].value)
  <2>1. CASE phase = "set"
    BY <1>2, <1>4, <2>1
  <2>2. CASE phase # "set"
    BY <1>1, <1>4, <2>2, PhaseFacts DEF OutcomesHold
  <2> QED
    BY <2>1, <2>2
<1> QED
  BY <1>1, <1>5, <1>6, PhaseFacts DEF OutcomesHold

LEMMA SameMeans ==
  ASSUME OutcomesHold, SameWord
  PROVE  OutcomesHold'
<1>1. \A p \in Phases : StoreOf(p)' = StoreOf(p)
  BY DEF StoreOf, SameWord
<1> QED
  BY <1>1 DEF OutcomesHold, EvaluatedAsMeant, SameWord

------------------------------------------------------------------------------
\* The text of the first call is that of the word.
LEMMA FirstStays ==
  ASSUME IInv, frames # <<>>, Waits \/ MovesOn \/ Enters \/ Returns
  PROVE  frames' # <<>> /\ frames'[1].text = frames[1].text /\ SameWord
<1>1. Len(frames) \in Nat /\ Len(frames) >= 1 /\ Top = frames[Len(frames)]
  BY Buffers
<1>2. CASE Waits
  BY <1>2 DEF Waits
<1>3. CASE MovesOn
  <2>1. PICK j, e, b : Carried(j, e, b) /\ SameWord
    BY <1>3 DEF MovesOn
  <2>2. Len(frames') = Len(frames) /\ Top' = frames'[Len(frames)]
    BY <2>1 DEF Carried, Top
  <2>3. CASE Len(frames) = 1
    <3>1. frames'[Len(frames)].text = Top.text
      BY <2>1, <2>2 DEF Carried
    <3>2. frames' # <<>>
      BY <2>2, <2>3
    <3>3. frames'[1].text = frames[1].text
      BY Zenon, <1>1, <2>3, <3>1
    <3> QED
      BY Zenon, <2>1, <3>2, <3>3
  <2>4. CASE Len(frames) # 1
    <3> DEFINE n == Len(frames)
    <3>1. n \in Nat /\ n >= 1 /\ n # 1
      BY <1>1, <2>4
    <3> HIDE DEF n
    <3>2. 1 \in 1..(n - 1)
      BY <3>1
    <3>3. 1 \in 1..(Len(frames) - 1)
      BY <3>2 DEF n
    <3> QED
      BY <1>1, <2>1, <2>2, <3>3 DEF Carried
  <2> QED
    BY <2>3, <2>4
<1>4. CASE Enters
  <2>1. PICK base, index, j : Entering(base, index, j) /\ SameWord
    BY <1>4 DEF Enters
  <2>2. Len(frames') = Len(frames) + 1
    BY <2>1 DEF Entering
  <2>3. CASE Len(frames) = 1
    <3>1. frames'[Len(frames)].text = Top.text
      BY <2>1, <2>2 DEF Entering
    <3>2. frames' # <<>>
      BY <2>2, <2>3
    <3>3. frames'[1].text = frames[1].text
      BY Zenon, <1>1, <2>3, <3>1
    <3> QED
      BY Zenon, <2>1, <3>2, <3>3
  <2>4. CASE Len(frames) # 1
    <3> DEFINE n == Len(frames)
    <3>1. n \in Nat /\ n >= 1 /\ n # 1
      BY <1>1, <2>4
    <3> HIDE DEF n
    <3>2. 1 \in 1..(n - 1)
      BY <3>1
    <3>3. 1 \in 1..(Len(frames) - 1)
      BY <3>2 DEF n
    <3> QED
      BY <1>1, <2>1, <2>2, <3>3 DEF Entering
  <2> QED
    BY <2>3, <2>4
<1>5. CASE Returns
  <2>1. PICK b : Returning(b) /\ SameWord
    BY <1>5 DEF Returns
  <2>2. /\ Len(frames) > 1 /\ Len(frames') = Len(frames) - 1
        /\ Top'.text = frames[Len(frames) - 1].text
        /\ \A n \in 1..(Len(frames) - 2) : frames'[n] = frames[n]
    BY <2>1 DEF Returning, Caller
  <2>3. Top' = frames'[Len(frames) - 1]
    BY <2>2 DEF Top
  <2>4. CASE Len(frames) = 2
    BY <1>1, <2>1, <2>2, <2>3, <2>4
  <2>5. CASE Len(frames) # 2
    <3>1. 1 \in 1..(Len(frames) - 2)
      BY <1>1, <2>2, <2>5
    <3> QED
      BY <1>1, <2>1, <2>2, <3>1
  <2> QED
    BY <2>4, <2>5
<1> QED
  BY <1>2, <1>3, <1>4, <1>5

LEMMA WaitsKeeps ==
  ASSUME Waits, Continues
  PROVE  Continues'
BY DEF Waits, Continues, SameWord, Top

LEMMA WaitsLeads ==
  ASSUME Waits, NEW value, LeadsNow(value)
  PROVE  LeadsNow(value)'
BY DEF Waits, LeadsNow, SameWord

LEMMA StepsKeepText ==
  ASSUME IInv, frames # <<>>, TextHolds, Waits \/ MovesOn \/ Enters \/ Returns
  PROVE  TextHolds'
<1>1. frames'[1].text = frames[1].text /\ SameWord
  BY FirstStays
<1>2. Continues'
  BY WaitsKeeps, MovesContinue, EntersContinues, ReturnsContinue DEF TextHolds
<1>3. ASSUME NEW v, Spells(store', frames'[1].text, 1, NoDigits, v)
      PROVE  LeadsNow(v)'
  <2>1. LeadsNow(v)
    BY <1>1, <1>3 DEF TextHolds, SameWord
  <2> QED
    BY <2>1, WaitsLeads, MovesLead, EntersLeads, ReturnsLead
<1> QED
  BY <1>1, <1>2, <1>3 DEF TextHolds, SameWord

\* A text that begins
LEMMA BeginTextHolds ==
  ASSUME IInv, OutcomesHold, BeginText
  PROVE  TextHolds'
<1> DEFINE text == TextOf(test[phase])
           f == Entered(text, <<>>)
<1>1. /\ frames' = <<f>> /\ phase \in Phases /\ test[phase].kind \in TextKinds
      /\ UNCHANGED <<test, phase, store, scanning>> /\ ~scanning
  <2>1. phase # "done" /\ test[phase].kind \in TextKinds
    BY DEF BeginText, Called, TextKinds
  <2>2. phase \in Phases
    BY <2>1 DEF IInv, OthersHold
  <2>3. frames' = <<f>>
    BY DEF BeginText, TextOf
  <2>4. ~scanning
    BY DEF BeginText, Called, IInv, EscapeBounded
  <2> QED
    BY <2>1, <2>2, <2>3, <2>4 DEF BeginText
<1>2. f.text = text /\ f.index = 1 /\ f.buffer = <<>>
  BY DEF Entered
<1> HIDE DEF f, text
<1>3. Len(frames') = 1 /\ frames'[1] = f /\ Top' = f /\ DigitsRead' = NoDigits /\ store' = store
  <2>1. Len(frames') = 1 /\ frames'[1] = f
    BY <1>1
  <2> QED
    BY <1>1, <2>1 DEF Top, DigitsRead
<1>4. Continues'
  <2>1. TopContinues(store, f, NoDigits)
    <3>1. \A v \in Seq(Byte) : <<>> \o v = v
      BY ConcatEmptySeq
    <3> QED
      BY <1>2, <3>1 DEF TopContinues
  <2>2. \A k \in 1..(Len(frames') - 1) : FALSE
    BY <1>3
  <2> QED
    BY <1>3, <2>1, <2>2 DEF Continues
<1>5. ASSUME NEW v, Spells(store, text, 1, NoDigits, v)
      PROVE  LeadsNow(v)'
  <2> DEFINE w == [n \in 1..1 |-> v]
  <2>1. v \in Seq(Byte)
    BY Zenon, <1>5, SpelledSomehow
  <2>2. w \in [1..1 -> Seq(Byte)] /\ w[1] = v
    BY <2>1
  <2> HIDE DEF w
  <2>3. <<>> \o v = v
    BY <2>1, ConcatEmptySeq
  <2>4. TopLeads(store, frames'[1], NoDigits, w[1])
    BY <1>2, <1>3, <1>5, <2>1, <2>2, <2>3 DEF TopLeads
  <2>5. \A k \in 1..(1 - 1) : CallerLeads(store, frames'[k], frames'[k + 1], w[k], w[k + 1])
    OBVIOUS
  <2> QED
    BY <1>3, <2>2, <2>4, <2>5, LeadingThen
<1> QED
  BY <1>1, <1>2, <1>3, <1>4, <1>5 DEF TextHolds, text

\* The end of a text: its value is what the text spells, as a string.
LEMMA ResolvesAsMeant ==
  ASSUME IInv, OutcomesHold, TextHolds, frames # <<>>, Resolves
  PROVE  \A value : Means(store, test[phase], value) <=> value = CString(Top.buffer)
<1> DEFINE text == TextOf(test[phase])
<1>1. /\ phase \in Phases /\ test[phase].kind \in TextKinds /\ Continues
      /\ frames[1].text = text /\ \A v : Spells(store, text, 1, NoDigits, v) => LeadsNow(v)
  BY DEF TextHolds
<1>2. /\ Len(frames) = 1 /\ Top = frames[1] /\ Top.index = Len(Top.text) + 1
      /\ Top.text \in Seq(Character) /\ Top.buffer \in Seq(Byte) /\ DigitsRead = NoDigits
  <2>1. Len(frames) = 1 /\ Top.index = Len(Top.text) + 1 /\ DigitsRead = NoDigits
    BY DEF Resolves
  <2> QED
    BY <2>1, Buffers
<1> HIDE DEF text
<1>3. Spells(store, text, 1, NoDigits, Top.buffer)
  <2>1. Spells(store, Top.text, Top.index, DigitsRead, <<>>)
    BY <1>2, EndSpells
  <2>2. Spells(store, Top.text, 1, NoDigits, Top.buffer \o <<>>)
    BY <1>1, <2>1, EmptyBytes DEF Continues, TopContinues
  <2>3. Top.buffer \o <<>> = Top.buffer
    BY <1>2, ConcatEmptySeq
  <2> QED
    BY <1>1, <1>2, <2>2, <2>3
<1>4. ASSUME NEW v, Spells(store, text, 1, NoDigits, v)
      PROVE  v = Top.buffer
  <2>1. LeadsNow(v)
    BY <1>1, <1>4
  <2>2. PICK w \in [1..Len(frames) -> Seq(Byte)] :
          w[1] = v /\ TopLeads(store, Top, DigitsRead, w[Len(frames)])
    BY <2>1, LeadingNow
  <2> QED
    BY <1>2, <2>2, EndLeads
<1>5. ASSUME NEW value
      PROVE  Means(store, test[phase], value) <=> value = CString(Top.buffer)
  <2>1. Means(store, test[phase], value) <=>
          \E v \in Seq(Byte) : Spells(store, text, 1, NoDigits, v) /\ value = CString(v)
    BY <1>1, MeansByText DEF text
  <2> QED
    BY Zenon, <1>2, <1>3, <1>4, <2>1
<1> QED
  BY <1>5

\* A text is refused only when it means nothing.
LEMMA FailsAsMeant ==
  ASSUME IInv, TextHolds, frames # <<>>, Stuck \/ Unnamed
  PROVE  \A value : ~Means(store, test[phase], value)
<1>1. /\ test[phase].kind \in TextKinds
      /\ \A v : Spells(store, TextOf(test[phase]), 1, NoDigits, v) => LeadsNow(v)
  BY DEF TextHolds
<1>2. \A v : ~LeadsNow(v)
  BY LeadIsNotStuck, LeadIsNamed
<1> QED
  BY <1>1, <1>2, MeansByText

LEMMA NextAsMeant ==
  ASSUME IInv, OutcomesHold, TextHolds, [Next]_vars
  PROVE  OutcomesHold' /\ TextHolds'
<1>1. "system" \in {"semantic", "syntax", "system"}
  OBVIOUS
<1>2. ASSUME NEW verdict, Fail(verdict) \/ Finish(verdict) PROVE TextHolds'
  BY <1>2 DEF Fail, Finish, TextHolds
<1>3. phase # "done" => phase \in Phases
  BY DEF IInv, OthersHold
<1>4. CASE UNCHANGED vars
  BY <1>4 DEF vars, OutcomesHold, EvaluatedAsMeant, StoreOf, TextHolds, Continues, LeadsNow, Top,
              DigitsRead
<1>5. CASE frames # <<>> /\ Next
  <2>1. phase \in Phases /\ phase # "done"
    BY <1>5, PhaseFacts DEF TextHolds
  <2>2. CASE Waits \/ MovesOn \/ Enters \/ Returns
    BY <1>5, <2>2, FirstStays, StepsKeepText, SameMeans
  <2>3. CASE Resolves
    <3>1. Finish(CString(Top.buffer))
      BY <2>3 DEF Resolves
    <3>2. \A value : Means(store, test[phase], value) <=> value = CString(Top.buffer)
      BY <1>5, <2>3, ResolvesAsMeant
    <3> QED
      BY Zenon, <1>2, <2>1, <3>1, <3>2, FinishMeans
  <2>4. CASE Fails /\ (Stuck \/ Unnamed)
    <3>1. PICK verdict \in {"semantic", "syntax"} : Fail(verdict)
      BY <2>4 DEF Fails
    <3>2. \A value : ~Means(store, test[phase], value)
      BY <1>5, <2>4, FailsAsMeant
    <3>3. verdict \in {"semantic", "syntax", "system"}
      OBVIOUS
    <3> QED
      BY Zenon, <1>2, <2>1, <3>1, <3>2, <3>3, FailMeans
  <2>5. CASE Fail("system")
    BY Zenon, <1>1, <1>2, <2>1, <2>5, FailMeans
  <2> QED
    BY <1>5, <2>1, <2>2, <2>3, <2>4, <2>5, Steps
<1>6. CASE frames = <<>> /\ Next
  <2>1. CASE CopyBraced
    <3>1. phase \in Phases /\ test[phase].kind = "braced" /\ Finish(test[phase].text)
      BY <1>3, <2>1 DEF CopyBraced, Called
    <3>2. \A value : Means(store, test[phase], value) <=> value = test[phase].text
      BY <3>1 DEF Means, TextKinds
    <3> QED
      BY Zenon, <1>2, <3>1, <3>2, FinishMeans
  <2>2. CASE ReadBraced /\ test[phase].text \in DOMAIN store
    <3>1. /\ phase \in Phases /\ test[phase].kind = "varBraced"
          /\ Finish(store[test[phase].text])
      BY <1>3, <2>2 DEF ReadBraced, Called
    <3>2. \A value : Means(store, test[phase], value) <=> value = store[test[phase].text]
      BY <2>2, <3>1 DEF Means, TextKinds, Holds
    <3> QED
      BY Zenon, <1>2, <3>1, <3>2, FinishMeans
  <2>3. CASE ReadBraced /\ test[phase].text \notin DOMAIN store
    <3>1. /\ phase \in Phases /\ test[phase].kind = "varBraced" /\ Fail("semantic")
      BY <1>3, <2>3 DEF ReadBraced, Called
    <3>2. \A value : ~Means(store, test[phase], value)
      BY <2>3, <3>1 DEF Means, TextKinds, Holds
    <3>3. "semantic" \in {"semantic", "syntax", "system"}
      OBVIOUS
    <3> QED
      BY Zenon, <1>2, <3>1, <3>2, <3>3, FailMeans
  <2>4. CASE BeginText
    <3>1. SameWord
      BY <2>4 DEF BeginText, SameWord
    <3> QED
      BY <2>4, <3>1, SameMeans, BeginTextHolds
  <2>5. CASE OutOfMemory
    <3>1. phase \in Phases /\ Fail("system")
      BY <1>3, <2>5 DEF OutOfMemory
    <3> QED
      BY Zenon, <1>1, <1>2, <3>1, FailMeans
  <2>6. CASE Done
    BY <1>4, <2>6 DEF Done
  <2>7. ~scanning
    BY <1>6 DEF IInv, EscapeBounded
  <2>8. ~(CopyCharacter \/ CopyLast \/ BeginEscape \/ ScanDigit \/ EndEscape \/ BracedReference
          \/ NamedReference \/ ElementReference \/ EndIndex \/ EndText)
    BY <1>6, <2>7 DEF CopyCharacter, CopyLast, BeginEscape, ScanDigit, EndEscape, BracedReference,
       NamedReference, ElementReference, EndIndex, EndText, AtReference, AtEnd, At, Resolving
  <2> QED
    BY <1>6, <2>1, <2>2, <2>3, <2>4, <2>5, <2>6, <2>8 DEF Next
<1> QED
  BY <1>4, <1>5, <1>6

LEMMA InitAsMeant ==
  ASSUME Init
  PROVE  OutcomesHold /\ TextHolds
<1>1. frames = <<>> /\ store = Stored /\ phase = "set"
      /\ \A p \in Phases : outcomes[p] = Pending
  BY DEF Init
<1>2. EvaluatedAsMeant
  BY <1>1, PhaseFacts DEF EvaluatedAsMeant
<1> QED
  BY <1>1, <1>2, PhaseFacts DEF OutcomesHold, TextHolds

\* evaluate_word and resolve_string_text compute what the rules for words say,
\* whatever the word and the variables: a value only if the rules derive it, and
\* then no other is derived; an error other than for lack of memory only if they
\* derive none.  Bytes that a nested call has written are in the right place.
THEOREM WordsAreEvaluatedAsMeant == Spec => []EvaluatedAsMeant
<1>1. Init => IInv /\ OutcomesHold /\ TextHolds
  BY InitIInv, InitAsMeant
<1>2. IInv /\ OutcomesHold /\ TextHolds /\ [Next]_vars => (IInv /\ OutcomesHold /\ TextHolds)'
  BY NextKeepsIInv, NextAsMeant
<1>3. OutcomesHold => EvaluatedAsMeant
  BY DEF OutcomesHold
<1> QED
  BY <1>1, <1>2, <1>3, PTL DEF Spec

------------------------------------------------------------------------------
(* Backslashes before a position, and parentheses up to one, step by step. *)

\* The backslashes right before k, from i on
Slashes(t, i, k) == {j \in i..(k - 1) : \A m \in j..(k - 1) : t[m] = Backslash}

LEMMA SlashesFinite ==
  ASSUME NEW t, NEW i \in Nat, NEW k \in Nat
  PROVE  IsFiniteSet(Slashes(t, i, k)) /\ Cardinality(Slashes(t, i, k)) \in Nat
<1>1. IsFiniteSet(i..(k - 1))
  BY FS_Interval
<1>2. Slashes(t, i, k) \subseteq i..(k - 1)
  BY DEF Slashes
<1> QED
  BY <1>1, <1>2, FS_Subset, FS_CardinalityType

LEMMA SteppedFirst ==
  ASSUME NEW t, NEW i \in Nat
  PROVE  ~SteppedOver(t, i, i)
<1>1. Slashes(t, i, i) = {}
  BY DEF Slashes
<1>2. Cardinality(Slashes(t, i, i)) = 0
  BY <1>1, FS_EmptySet
<1> QED
  BY <1>2 DEF SteppedOver, Slashes

\* A backslash that is not stepped over steps over the next character.
LEMMA SteppedNext ==
  ASSUME NEW t, NEW i \in Nat, NEW k \in Nat, i <= k
  PROVE  SteppedOver(t, i, k + 1) <=> (t[k] = Backslash /\ ~SteppedOver(t, i, k))
<1> DEFINE S == Slashes(t, i, k)
           n == Cardinality(S)
           N == Slashes(t, i, k + 1)
<1>1. IsFiniteSet(S) /\ n \in Nat
  BY SlashesFinite
<1>2. SteppedOver(t, i, k) <=> n % 2 = 1
  BY DEF SteppedOver, Slashes
<1>3. SteppedOver(t, i, k + 1) <=> Cardinality(N) % 2 = 1
  BY DEF SteppedOver, Slashes
<1>4. CASE t[k] # Backslash
  <2>1. N = {}
    BY <1>4 DEF Slashes
  <2>2. Cardinality(N) = 0
    BY <2>1, FS_EmptySet
  <2> QED
    BY <1>3, <1>4, <2>2
<1>5. CASE t[k] = Backslash
  <2>1. N = S \union {k}
    <3>1. \A j \in i..k : (\A m \in j..k : t[m] = Backslash)
                            <=> (j = k \/ (j \in i..(k - 1) /\ \A m \in j..(k - 1) : t[m] = Backslash))
      BY <1>5
    <3> QED
      BY <3>1 DEF Slashes
  <2>2. k \notin S
    BY DEF Slashes
  <2> HIDE DEF S, N
  <2>3. Cardinality(N) = n + 1
    BY <1>1, <2>1, <2>2, FS_AddElement
  <2> HIDE DEF n
  <2>4. (n + 1) % 2 = 1 <=> ~(n % 2 = 1)
    BY <1>1
  <2> QED
    BY <1>2, <1>3, <1>5, <2>3, <2>4
<1> QED
  BY <1>4, <1>5

\* The characters c that count up to k
Counted(t, i, k, c) == Cardinality({j \in i..k : t[j] = c /\ ~SteppedOver(t, i, j)})

LEMMA CountedNone ==
  ASSUME NEW t, NEW i \in Nat, NEW c
  PROVE  Counted(t, i, i - 1, c) = 0
<1>1. {j \in i..(i - 1) : t[j] = c /\ ~SteppedOver(t, i, j)} = {}
  OBVIOUS
<1> QED
  BY <1>1, FS_EmptySet DEF Counted

\* One more position counts one character more, or none.
LEMMA CountedNext ==
  ASSUME NEW t, NEW i \in Nat, NEW k \in Nat, i <= k, NEW c
  PROVE  /\ Counted(t, i, k - 1, c) \in Nat
         /\ Counted(t, i, k, c) = IF t[k] = c /\ ~SteppedOver(t, i, k)
                                  THEN Counted(t, i, k - 1, c) + 1 ELSE Counted(t, i, k - 1, c)
<1> DEFINE Good(j) == t[j] = c /\ ~SteppedOver(t, i, j)
           S == {j \in i..(k - 1) : Good(j)}
           N == {j \in i..k : Good(j)}
<1>1. IsFiniteSet(S) /\ Cardinality(S) \in Nat
  <2>1. IsFiniteSet(i..(k - 1)) /\ S \subseteq i..(k - 1)
    BY FS_Interval
  <2> HIDE DEF S
  <2> QED
    BY <2>1, FS_Subset, FS_CardinalityType
<1>2. Counted(t, i, k - 1, c) = Cardinality(S) /\ Counted(t, i, k, c) = Cardinality(N)
  BY DEF Counted
<1>3. k \notin S /\ (Good(k) => N = S \union {k}) /\ (~Good(k) => N = S)
  <2> HIDE DEF Good
  <2> QED
    OBVIOUS
<1> HIDE DEF S, N
<1>4. Good(k) => Cardinality(N) = Cardinality(S) + 1
  BY <1>1, <1>3, FS_AddElement
<1> QED
  BY <1>1, <1>2, <1>3, <1>4
------------------------------------------------------------------------------
(* A text within another one, with a parenthesis behind it. *)

Within(t, o, index) ==
  /\ Len(t) > o + Len(index) /\ t[o + Len(index) + 1] = CloseParen
  /\ \A j \in 1..Len(index) : t[o + j] = index[j]

\* The same characters are stepped over in the text around.
LEMMA SteppedWithin ==
  ASSUME NEW t \in Seq(Character), NEW o \in Nat, NEW index \in Seq(Character), Within(t, o, index),
         NEW q \in 1..(Len(index) + 1)
  PROVE  \A k \in q..(Len(index) + 1) : SteppedOver(t, o + q, o + k) <=> SteppedOver(index, q, k)
<1> DEFINE m == Len(index)
           S == {k \in q..(m + 1) : SteppedOver(t, o + q, o + k) <=> SteppedOver(index, q, k)}
<1>1. m \in Nat /\ q \in Nat /\ o + q \in Nat /\ m + 1 \in Int /\ q \in Int /\ q >= 1
  OBVIOUS
<1>2. q \in S
  <2>1. q \in q..(m + 1)
    BY <1>1
  <2> QED
    BY <1>1, <2>1, SteppedFirst
<1>3. \A i \in (q + 1)..(m + 1) : i - 1 \in S => i \in S
  <2> TAKE i \in (q + 1)..(m + 1)
  <2> HAVE i - 1 \in S
  <2> DEFINE k == i - 1
  <2>1. k \in Nat /\ q <= k /\ k \in 1..m /\ o + k \in Nat /\ o + q <= o + k /\ k + 1 = i
        /\ (o + k) + 1 = o + i /\ i \in q..(m + 1)
    BY <1>1
  <2>2. SteppedOver(t, o + q, o + k) <=> SteppedOver(index, q, k)
    OBVIOUS
  <2>3. t[o + k] = index[k]
    BY <2>1 DEF Within
  <2> HIDE DEF k, S
  <2>4. SteppedOver(t, o + q, (o + k) + 1) <=> (t[o + k] = Backslash /\ ~SteppedOver(t, o + q, o + k))
    BY <1>1, <2>1, SteppedNext
  <2>5. SteppedOver(index, q, k + 1) <=> (index[k] = Backslash /\ ~SteppedOver(index, q, k))
    BY <1>1, <2>1, SteppedNext
  <2>6. SteppedOver(t, o + q, o + i) <=> SteppedOver(index, q, i)
    BY <2>1, <2>2, <2>3, <2>4, <2>5
  <2> QED
    BY <2>1, <2>6 DEF S
<1> HIDE DEF S
<1>4. \A i \in q..(m + 1) : i \in S
  BY <1>1, <1>2, <1>3, BoundedInduction
<1> QED
  BY <1>4 DEF S

\* The same parentheses count in the text around.
LEMMA CountedWithin ==
  ASSUME NEW t \in Seq(Character), NEW o \in Nat, NEW index \in Seq(Character), Within(t, o, index),
         NEW q \in 1..(Len(index) + 1), NEW c
  PROVE  \A k \in (q - 1)..Len(index) : Counted(t, o + q, o + k, c) = Counted(index, q, k, c)
<1> DEFINE m == Len(index)
           S == {k \in (q - 1)..m : Counted(t, o + q, o + k, c) = Counted(index, q, k, c)}
<1>1. m \in Nat /\ q \in Nat /\ o + q \in Nat /\ q - 1 \in Int /\ q >= 1 /\ q <= m + 1
  OBVIOUS
<1>2. q - 1 \in S
  <2>1. q - 1 \in (q - 1)..m /\ o + (q - 1) = (o + q) - 1
    BY <1>1
  <2>2. Counted(t, o + q, (o + q) - 1, c) = 0 /\ Counted(index, q, q - 1, c) = 0
    BY <1>1, CountedNone
  <2> QED
    BY <2>1, <2>2
<1>3. \A i \in ((q - 1) + 1)..m : i - 1 \in S => i \in S
  <2> TAKE i \in ((q - 1) + 1)..m
  <2> HAVE i - 1 \in S
  <2>1. i \in Nat /\ q <= i /\ o + i \in Nat /\ o + q <= o + i /\ (o + i) - 1 = o + (i - 1)
        /\ i \in (q - 1)..m /\ i \in 1..m /\ i \in q..(m + 1)
    BY <1>1
  <2>2. Counted(t, o + q, (o + i) - 1, c) = Counted(index, q, i - 1, c)
    BY <2>1
  <2> HIDE DEF S
  <2>3. t[o + i] = index[i]
    BY <2>1 DEF Within
  <2>4. SteppedOver(t, o + q, o + i) <=> SteppedOver(index, q, i)
    BY <2>1, SteppedWithin
  <2>5. Counted(t, o + q, o + i, c) = IF t[o + i] = c /\ ~SteppedOver(t, o + q, o + i)
                                      THEN Counted(t, o + q, (o + i) - 1, c) + 1
                                      ELSE Counted(t, o + q, (o + i) - 1, c)
    BY <1>1, <2>1, CountedNext
  <2>6. Counted(index, q, i, c) = IF index[i] = c /\ ~SteppedOver(index, q, i)
                                  THEN Counted(index, q, i - 1, c) + 1
                                  ELSE Counted(index, q, i - 1, c)
    BY <1>1, <2>1, CountedNext
  <2>7. Counted(t, o + q, o + i, c) = Counted(index, q, i, c)
    BY <2>2, <2>3, <2>4, <2>5, <2>6
  <2> QED
    BY <2>1, <2>7 DEF S
<1> DEFINE a == q - 1
<1>4. a \in Int /\ m \in Int
  BY <1>1
<1>5. a \in S
  BY <1>2
<1>6. \A i \in (a + 1)..m : i - 1 \in S => i \in S
  BY <1>3
<1> HIDE DEF S, a, m
<1>7. \A i \in a..m : i \in S
  BY <1>4, <1>5, <1>6, BoundedInduction
<1> QED
  BY <1>7 DEF S, a, m

\* From a position that no backslash stands before, the same are stepped over.
LEMMA SteppedFromPlain ==
  ASSUME NEW t \in Seq(Character), NEW q \in 1..(Len(t) + 1), ~SteppedOver(t, 1, q)
  PROVE  \A k \in q..(Len(t) + 1) : SteppedOver(t, q, k) <=> SteppedOver(t, 1, k)
<1> DEFINE m == Len(t)
           S == {k \in q..(m + 1) : SteppedOver(t, q, k) <=> SteppedOver(t, 1, k)}
<1>1. m \in Nat /\ q \in Nat /\ m + 1 \in Int /\ q \in Int /\ q >= 1
  OBVIOUS
<1>2. q \in S
  <2>1. q \in q..(m + 1)
    BY <1>1
  <2> QED
    BY <1>1, <2>1, SteppedFirst
<1>3. \A i \in (q + 1)..(m + 1) : i - 1 \in S => i \in S
  <2> TAKE i \in (q + 1)..(m + 1)
  <2> HAVE i - 1 \in S
  <2> DEFINE k == i - 1
  <2>1. k \in Nat /\ q <= k /\ 1 <= k /\ k + 1 = i /\ i \in q..(m + 1)
    BY <1>1
  <2>2. SteppedOver(t, q, k) <=> SteppedOver(t, 1, k)
    OBVIOUS
  <2> HIDE DEF k, S
  <2>4. SteppedOver(t, q, k + 1) <=> (t[k] = Backslash /\ ~SteppedOver(t, q, k))
    BY <1>1, <2>1, SteppedNext
  <2>5. SteppedOver(t, 1, k + 1) <=> (t[k] = Backslash /\ ~SteppedOver(t, 1, k))
    BY <1>1, <2>1, SteppedNext
  <2>6. SteppedOver(t, q, i) <=> SteppedOver(t, 1, i)
    BY <2>1, <2>2, <2>4, <2>5
  <2> QED
    BY <2>1, <2>6 DEF S
<1> HIDE DEF S
<1>4. \A i \in q..(m + 1) : i \in S
  BY <1>1, <1>2, <1>3, BoundedInduction
<1> QED
  BY <1>4 DEF S
------------------------------------------------------------------------------
(* Balanced parentheses *)

\* The positions that no backslash counts before are those that are not stepped over.
LEMMA PlainlyIs ==
  ASSUME NEW t \in Seq(Character)
  PROVE  Plainly(t) = {k \in 1..Len(t) : ~SteppedOver(t, 1, k)}
<1> DEFINE last == Len(t)
           Written(g) == [k \in 0..last |-> k > 0 /\ ~g[k - 1] /\ t[k] = Backslash]
           open == CHOOSE g : g = Written(g)
           f == [k \in 0..last |-> SteppedOver(t, 1, k + 1)]
<1>1. last \in Nat
  OBVIOUS
<1>2. Plainly(t) = {k \in 1..last : ~open[k - 1]}
  BY DEF Plainly
<1>3. ASSUME NEW k \in 1..last
      PROVE  SteppedOver(t, 1, k + 1) <=> (t[k] = Backslash /\ ~SteppedOver(t, 1, k))
  BY <1>1, SteppedNext
<1>4. ~SteppedOver(t, 1, 1)
  BY SteppedFirst
<1> HIDE DEF last
<1>5. f = Written(f)
  <2>1. ASSUME NEW k \in 0..last
        PROVE  SteppedOver(t, 1, k + 1) <=> (k > 0 /\ ~f[k - 1] /\ t[k] = Backslash)
    <3>1. CASE k = 0
      BY <1>4, <3>1
    <3>2. CASE k # 0
      <4>1. k \in 1..last /\ k - 1 \in 0..last /\ k > 0 /\ (k - 1) + 1 = k
        BY <1>1, <3>2
      <4>2. f[k - 1] = SteppedOver(t, 1, k)
        BY <4>1
      <4> HIDE DEF f
      <4> QED
        BY <1>3, <4>1, <4>2
    <3> QED
      BY <3>1, <3>2
  <2>2. \A k \in 0..last : SteppedOver(t, 1, k + 1) = (k > 0 /\ ~f[k - 1] /\ t[k] = Backslash)
    <3>1. \A i, k : SteppedOver(t, i, k) \in BOOLEAN
      BY DEF SteppedOver
    <3> QED
      BY <2>1, <3>1
  <2> QED
    BY Zenon, <2>2
<1>6. open = Written(open)
  BY ONLY <1>5
<1> HIDE DEF open, f
<1>7. \A k \in 0..last : open[k] <=> (k > 0 /\ ~open[k - 1] /\ t[k] = Backslash)
  <2>1. \A k \in 0..last : Written(open)[k] <=> (k > 0 /\ ~open[k - 1] /\ t[k] = Backslash)
    BY Zenon
  <2> DEFINE h == Written(open)
             Solves(g) == \A k \in 0..last : g[k] <=> (k > 0 /\ ~open[k - 1] /\ t[k] = Backslash)
  <2>2. open = h
    BY Zenon, <1>6
  <2>3. Solves(h)
    BY Zenon, <2>1
  <2> HIDE DEF h, Solves
  <2>4. Solves(open)
    BY Zenon, <2>2, <2>3
  <2> QED
    BY Zenon, <2>4 DEF Solves
<1> HIDE DEF Written
<1> DEFINE S == {k \in 0..last : open[k] <=> SteppedOver(t, 1, k + 1)}
<1>8. 0 \in S
  BY <1>1, <1>4, <1>7
<1>9. \A k \in (0 + 1)..last : k - 1 \in S => k \in S
  <2> TAKE k \in (0 + 1)..last
  <2> HAVE k - 1 \in S
  <2>1. k \in 1..last /\ k \in 0..last /\ k > 0 /\ (k - 1) + 1 = k
    BY <1>1
  <2>2. open[k - 1] <=> SteppedOver(t, 1, k)
    BY <2>1
  <2>3. open[k] <=> SteppedOver(t, 1, k + 1)
    BY <1>3, <1>7, <2>1, <2>2
  <2> QED
    BY <2>1, <2>3
<1> HIDE DEF S
<1>10. \A k \in 0..last : k \in S
  BY <1>1, <1>8, <1>9, BoundedInduction
<1>11. \A k \in 1..last : open[k - 1] <=> SteppedOver(t, 1, k)
  <2> TAKE k \in 1..last
  <2>1. k - 1 \in 0..last /\ (k - 1) + 1 = k
    BY <1>1
  <2>2. k - 1 \in S
    BY <1>10, <2>1
  <2> QED
    BY <2>1, <2>2 DEF S
<1> QED
  BY <1>2, <1>11 DEF last

LEMMA CountedType ==
  ASSUME NEW t, NEW i \in Nat, NEW k \in Nat, NEW c
  PROVE  Counted(t, i, k, c) \in Nat
<1>1. IsFiniteSet(i..k) /\ {j \in i..k : t[j] = c /\ ~SteppedOver(t, i, j)} \subseteq i..k
  BY FS_Interval
<1> QED
  BY <1>1, FS_Subset, FS_CardinalityType DEF Counted

\* Balanced, in terms of what counts for the end of an index.
LEMMA BalancedIs ==
  ASSUME NEW t \in Seq(Character), IsBalanced(t)
  PROVE  /\ \A k \in 0..Len(t) : Counted(t, 1, k, CloseParen) <= Counted(t, 1, k, OpenParen)
         /\ Counted(t, 1, Len(t), CloseParen) = Counted(t, 1, Len(t), OpenParen)
         /\ ~SteppedOver(t, 1, Len(t) + 1)
<1> DEFINE plainly == Plainly(t)
           In(k, c) == Cardinality({j \in plainly : j <= k /\ t[j] = c})
<1>1. /\ \A k \in 0..Len(t) : In(k, OpenParen) - In(k, CloseParen) >= 0
      /\ In(Len(t), OpenParen) - In(Len(t), CloseParen) = 0
      /\ t # <<>> => ~(t[Len(t)] = Backslash /\ Len(t) \in plainly)
  BY DEF IsBalanced
<1>2. Len(t) \in Nat /\ plainly = {k \in 1..Len(t) : ~SteppedOver(t, 1, k)}
  BY PlainlyIs
<1>3. ASSUME NEW k \in 0..Len(t), NEW c
      PROVE  In(k, c) = Counted(t, 1, k, c) /\ Counted(t, 1, k, c) \in Nat
  <2>1. {j \in plainly : j <= k /\ t[j] = c} = {j \in 1..k : t[j] = c /\ ~SteppedOver(t, 1, j)}
    BY <1>2
  <2>2. In(k, c) = Counted(t, 1, k, c)
    BY <2>1 DEF Counted
  <2>3. k \in Nat
    BY <1>2
  <2> QED
    BY <2>2, <2>3, CountedType
<1> HIDE DEF In
<1>4. ASSUME NEW k \in 0..Len(t)
      PROVE  Counted(t, 1, k, CloseParen) <= Counted(t, 1, k, OpenParen)
  BY <1>1, <1>3
<1>5. Counted(t, 1, Len(t), CloseParen) = Counted(t, 1, Len(t), OpenParen)
  <2>1. Len(t) \in 0..Len(t)
    BY <1>2
  <2> QED
    BY <1>1, <1>3, <2>1
<1>6. ~SteppedOver(t, 1, Len(t) + 1)
  <2>1. CASE t = <<>>
    BY <2>1, SteppedFirst
  <2>2. CASE t # <<>>
    <3>1. Len(t) \in 1..Len(t)
      BY <1>2, <2>2
    <3>2. SteppedOver(t, 1, Len(t) + 1) <=> (t[Len(t)] = Backslash /\ ~SteppedOver(t, 1, Len(t)))
      BY <3>1, SteppedNext
    <3> QED
      BY <1>1, <1>2, <2>2, <3>1, <3>2
  <2> QED
    BY <2>1, <2>2
<1> QED
  BY <1>4, <1>5, <1>6

\* From a plain position on, the count is the rest of the count from 1.
LEMMA CountedFromPlain ==
  ASSUME NEW t \in Seq(Character), NEW q \in 1..(Len(t) + 1), ~SteppedOver(t, 1, q), NEW c
  PROVE  \A k \in (q - 1)..Len(t) :
           Counted(t, 1, k, c) = Counted(t, 1, q - 1, c) + Counted(t, q, k, c)
<1> DEFINE m == Len(t)
           a == q - 1
           S == {k \in a..m : Counted(t, 1, k, c) = Counted(t, 1, q - 1, c) + Counted(t, q, k, c)}
<1>1. m \in Nat /\ q \in Nat /\ q >= 1 /\ q <= m + 1 /\ a \in Nat /\ m \in Int /\ a \in Int
  OBVIOUS
<1>2. a \in S
  <2>1. Counted(t, q, q - 1, c) = 0 /\ Counted(t, 1, q - 1, c) \in Nat
    BY <1>1, CountedNone, CountedType
  <2>2. a \in a..m
    BY <1>1
  <2> QED
    BY <2>1, <2>2
<1>3. \A i \in (a + 1)..m : i - 1 \in S => i \in S
  <2> TAKE i \in (a + 1)..m
  <2> HAVE i - 1 \in S
  <2>1. i \in Nat /\ q <= i /\ 1 <= i /\ i \in a..m /\ i \in q..(m + 1)
    BY <1>1
  <2>2. Counted(t, 1, i - 1, c) = Counted(t, 1, q - 1, c) + Counted(t, q, i - 1, c)
    OBVIOUS
  <2> HIDE DEF S
  <2>4. SteppedOver(t, q, i) <=> SteppedOver(t, 1, i)
    BY <2>1, SteppedFromPlain
  <2>5. /\ Counted(t, q, i - 1, c) \in Nat
        /\ Counted(t, q, i, c) = IF t[i] = c /\ ~SteppedOver(t, q, i)
                                 THEN Counted(t, q, i - 1, c) + 1 ELSE Counted(t, q, i - 1, c)
    BY <1>1, <2>1, CountedNext
  <2>6. Counted(t, 1, i, c) = IF t[i] = c /\ ~SteppedOver(t, 1, i)
                              THEN Counted(t, 1, i - 1, c) + 1 ELSE Counted(t, 1, i - 1, c)
    BY <1>1, <2>1, CountedNext
  <2>7. Counted(t, 1, q - 1, c) \in Nat
    BY <1>1, CountedType
  <2>8. Counted(t, 1, i, c) = Counted(t, 1, q - 1, c) + Counted(t, q, i, c)
    BY <2>2, <2>4, <2>5, <2>6, <2>7
  <2> QED
    BY <2>1, <2>8 DEF S
<1> HIDE DEF S, a, m
<1>4. \A k \in a..m : k \in S
  BY <1>1, <1>2, <1>3, BoundedInduction
<1> QED
  BY <1>4 DEF S, a, m
------------------------------------------------------------------------------
(* The ends of searches *)

LEMMA FirstInFound ==
  ASSUME NEW t \in Seq(Character), NEW i \in 1..(Len(t) + 1), NEW stops, NEW e \in i..(Len(t) + 1),
         \A k \in i..(e - 1) : k \notin stops, e <= Len(t) => e \in stops
  PROVE  FirstIn(t, i, stops) = e
<1> DEFINE f == FirstIn(t, i, stops)
<1>1. /\ Len(t) \in Nat /\ i \in Nat \ {0} /\ i <= Len(t) + 1
  OBVIOUS
<1>2. /\ f \in i..(Len(t) + 1) /\ \A k \in i..(f - 1) : k \notin stops
      /\ f <= Len(t) => f \in stops
  BY <1>1, FirstInIs
<1> HIDE DEF f
<1>3. ~(f < e)
  BY <1>1, <1>2
<1>4. ~(e < f)
  BY <1>1, <1>2
<1> QED
  BY <1>1, <1>2, <1>3, <1>4 DEF f

\* Where more parentheses are closed than opened
Closing(t, i, k) == Counted(t, i, k, CloseParen) > Counted(t, i, k, OpenParen)

\* An index ends at the first parenthesis that closes more than were opened.
LEMMA IndexEndIs ==
  ASSUME NEW t \in Seq(Character), NEW i \in 1..(Len(t) + 1)
  PROVE  /\ IndexEnd(t, i) \in i..(Len(t) + 1)
         /\ \A k \in i..(IndexEnd(t, i) - 1) : ~Closing(t, i, k)
         /\ IndexEnd(t, i) <= Len(t) => Closing(t, i, IndexEnd(t, i))
<1> DEFINE stops == {k \in i..Len(t) : Closing(t, i, k)}
<1>1. IndexEnd(t, i) = FirstIn(t, i, stops)
  BY DEF IndexEnd, Closing, Counted
<1>2. /\ Len(t) \in Nat /\ i \in Nat \ {0} /\ i <= Len(t) + 1
  OBVIOUS
<1>3. /\ IndexEnd(t, i) \in i..(Len(t) + 1)
      /\ \A k \in i..(IndexEnd(t, i) - 1) : k \notin stops
      /\ IndexEnd(t, i) <= Len(t) => IndexEnd(t, i) \in stops
  BY <1>1, <1>2, FirstInIs
<1> QED
  BY <1>2, <1>3

LEMMA IndexEndFound ==
  ASSUME NEW t \in Seq(Character), NEW i \in 1..(Len(t) + 1), NEW e \in i..Len(t),
         \A k \in i..(e - 1) : ~Closing(t, i, k), Closing(t, i, e)
  PROVE  IndexEnd(t, i) = e
<1> DEFINE stops == {k \in i..Len(t) : Closing(t, i, k)}
<1>1. IndexEnd(t, i) = FirstIn(t, i, stops)
  BY DEF IndexEnd, Closing, Counted
<1>2. e \in i..(Len(t) + 1) /\ e \in stops /\ \A k \in i..(e - 1) : k \notin stops
  OBVIOUS
<1> QED
  BY <1>1, <1>2, FirstInFound

\* An index ends at a parenthesis that closes.
LEMMA IndexEndCloses ==
  ASSUME NEW t \in Seq(Character), NEW i \in 1..(Len(t) + 1), IndexEnd(t, i) <= Len(t)
  PROVE  t[IndexEnd(t, i)] = CloseParen
<1> DEFINE e == IndexEnd(t, i)
<1>1. e \in i..(Len(t) + 1) /\ e <= Len(t) /\ Closing(t, i, e)
      /\ \A k \in i..(e - 1) : ~Closing(t, i, k)
  BY IndexEndIs
<1> HIDE DEF e
<1>2. /\ i \in Nat /\ e \in Nat /\ i <= e /\ e - 1 \in Int
  BY <1>1
<1>3. Counted(t, i, e - 1, CloseParen) <= Counted(t, i, e - 1, OpenParen)
  <2>1. CASE e = i
    <3>1. Counted(t, i, e - 1, CloseParen) = 0 /\ Counted(t, i, e - 1, OpenParen) = 0
      BY <1>2, <2>1, CountedNone
    <3> QED
      BY <3>1
  <2>2. CASE e # i
    <3>1. e - 1 \in i..(e - 1) /\ e - 1 \in Nat
      BY <1>2, <2>2
    <3>2. Counted(t, i, e - 1, CloseParen) \in Nat /\ Counted(t, i, e - 1, OpenParen) \in Nat
      BY <1>2, <3>1, CountedType
    <3> QED
      BY <1>1, <3>1, <3>2 DEF Closing
  <2> QED
    BY <2>1, <2>2
<1>4. ASSUME NEW c
      PROVE  /\ Counted(t, i, e - 1, c) \in Nat
             /\ Counted(t, i, e, c) = IF t[e] = c /\ ~SteppedOver(t, i, e)
                                  THEN Counted(t, i, e - 1, c) + 1 ELSE Counted(t, i, e - 1, c)
  BY <1>2, CountedNext
<1>5. t[e] = CloseParen
  BY <1>1, <1>3, <1>4 DEF Closing
<1> QED
  BY <1>5 DEF e

\* In a balanced text, what is opened is closed.
LEMMA InnerEnd ==
  ASSUME NEW t \in Seq(Character), IsBalanced(t), NEW p \in 1..Len(t), t[p] = OpenParen,
         ~SteppedOver(t, 1, p)
  PROVE  IndexEnd(t, p + 1) <= Len(t)
<1> DEFINE m == Len(t)
           q == p + 1
<1>1. m \in Nat /\ p \in Nat /\ p >= 1 /\ p <= m /\ q \in 1..(m + 1) /\ q - 1 = p /\ q \in Nat
      /\ p \in 0..m /\ p - 1 \in 0..m /\ m \in 0..m /\ OpenParen # CloseParen /\ OpenParen # Backslash
  BY DEF OpenParen, CloseParen, Backslash
<1>2. ~SteppedOver(t, 1, q)
  <2>1. SteppedOver(t, 1, p + 1) <=> (t[p] = Backslash /\ ~SteppedOver(t, 1, p))
    BY <1>1, SteppedNext
  <2> QED
    BY <1>1, <2>1
<1> DEFINE O(k) == Counted(t, 1, k, OpenParen)
           C(k) == Counted(t, 1, k, CloseParen)
<1>3. \A k \in 0..m : C(k) <= O(k) /\ C(k) \in Nat /\ O(k) \in Nat
  BY BalancedIs, CountedType
<1>4. C(m) = O(m)
  BY BalancedIs
<1>5. O(p) = O(p - 1) + 1 /\ C(p) = C(p - 1)
  BY <1>1, CountedNext
<1>6. C(p) < O(p)
  BY <1>1, <1>3, <1>5
<1>7. p # m
  BY <1>1, <1>3, <1>4, <1>6
<1>8. /\ O(m) = O(p) + Counted(t, q, m, OpenParen)
      /\ C(m) = C(p) + Counted(t, q, m, CloseParen)
      /\ Counted(t, q, m, OpenParen) \in Nat /\ Counted(t, q, m, CloseParen) \in Nat
  <2>1. m \in (q - 1)..m
    BY <1>1
  <2> QED
    BY <1>1, <1>2, <2>1, CountedFromPlain, CountedType
<1>9. Closing(t, q, m)
  BY <1>1, <1>3, <1>4, <1>6, <1>8 DEF Closing
<1>10. m \in q..m
  BY <1>1, <1>7
<1> HIDE DEF O, C
<1>11. /\ IndexEnd(t, q) \in q..(m + 1)
       /\ \A k \in q..(IndexEnd(t, q) - 1) : ~Closing(t, q, k)
  BY <1>1, IndexEndIs
<1>12. IndexEnd(t, q) # m + 1
  BY <1>1, <1>9, <1>10, <1>11
<1> QED
  BY <1>1, <1>11, <1>12

LEMMA ClosingWithin ==
  ASSUME NEW t \in Seq(Character), NEW o \in Nat, NEW index \in Seq(Character), Within(t, o, index),
         NEW q \in 1..(Len(index) + 1), NEW k \in q..Len(index)
  PROVE  Closing(t, o + q, o + k) <=> Closing(index, q, k)
<1>1. k \in (q - 1)..Len(index)
  OBVIOUS
<1> QED
  BY <1>1, CountedWithin DEF Closing

\* It is closed at the same place in the text around it.
LEMMA WithinEnd ==
  ASSUME NEW t \in Seq(Character), NEW o \in Nat, NEW index \in Seq(Character), Within(t, o, index),
         NEW q \in 1..(Len(index) + 1), IndexEnd(index, q) <= Len(index)
  PROVE  IndexEnd(t, o + q) = o + IndexEnd(index, q)
<1> DEFINE e == IndexEnd(index, q)
           m == Len(index)
<1>1. /\ e \in q..m /\ Closing(index, q, e) /\ \A k \in q..(e - 1) : ~Closing(index, q, k)
      /\ m \in Nat /\ q \in Nat /\ q >= 1
  BY IndexEndIs
<1> HIDE DEF e
<1>2. Len(t) > o + m /\ Len(t) \in Nat
  BY DEF Within
<1>3. o + q \in 1..(Len(t) + 1) /\ o + e \in (o + q)..Len(t)
  BY <1>1, <1>2
<1>4. Closing(t, o + q, o + e)
  BY <1>1, ClosingWithin
<1>5. ASSUME NEW x \in (o + q)..((o + e) - 1) PROVE ~Closing(t, o + q, x)
  <2> DEFINE k == x - o
  <2>1. k \in q..(e - 1) /\ k \in q..m /\ x = o + k
    BY <1>1, <1>3
  <2> HIDE DEF k
  <2> QED
    BY <1>1, <2>1, ClosingWithin
<1>6. IndexEnd(t, o + q) = o + e
  BY <1>3, <1>4, <1>5, IndexEndFound
<1> QED
  BY <1>6 DEF e

\* And a balanced text ends where the parenthesis stands behind it.
LEMMA OuterEnd ==
  ASSUME NEW t \in Seq(Character), NEW o \in Nat, NEW index \in Seq(Character), Within(t, o, index),
         IsBalanced(index)
  PROVE  IndexEnd(t, o + 1) = o + Len(index) + 1
<1> DEFINE m == Len(index)
           e == o + m + 1
<1>1. /\ m \in Nat /\ Len(t) \in Nat /\ Len(t) > o + m /\ t[e] = CloseParen
      /\ e \in Nat /\ o + 1 \in Nat /\ o + 1 \in 1..(Len(t) + 1) /\ e \in (o + 1)..Len(t)
      /\ 1 \in 1..(m + 1) /\ m + 1 \in 1..(m + 1) /\ e - 1 = o + m /\ e = o + (m + 1) /\ m \in (1 - 1)..m
      /\ OpenParen # CloseParen
  BY DEF Within, OpenParen, CloseParen
<1>2. ASSUME NEW x \in (o + 1)..(e - 1) PROVE ~Closing(t, o + 1, x)
  <2> DEFINE k == x - o
  <2>1. k \in 1..m /\ k \in 0..m /\ k \in Nat /\ x = o + k
    BY <1>1
  <2> HIDE DEF k
  <2>2. Counted(index, 1, k, CloseParen) <= Counted(index, 1, k, OpenParen)
    BY <2>1, BalancedIs
  <2>3. Counted(index, 1, k, CloseParen) \in Nat /\ Counted(index, 1, k, OpenParen) \in Nat
    BY <2>1, CountedType
  <2>4. ~Closing(index, 1, k)
    BY <2>2, <2>3 DEF Closing
  <2>5. Closing(t, o + 1, o + k) <=> Closing(index, 1, k)
    BY <1>1, <2>1, ClosingWithin
  <2> QED
    BY <2>1, <2>4, <2>5
<1>3. \A c : Counted(t, o + 1, e - 1, c) = Counted(index, 1, m, c)
  BY <1>1, CountedWithin
<1>4. ~SteppedOver(t, o + 1, e)
  <2>1. SteppedOver(t, o + 1, o + (m + 1)) <=> SteppedOver(index, 1, m + 1)
    BY <1>1, SteppedWithin
  <2>2. ~SteppedOver(index, 1, m + 1)
    BY BalancedIs
  <2> QED
    BY <1>1, <2>1, <2>2
<1>5. Counted(index, 1, m, CloseParen) = Counted(index, 1, m, OpenParen)
  BY BalancedIs
<1> HIDE DEF e
<1>6. ASSUME NEW c
      PROVE  /\ Counted(t, o + 1, e - 1, c) \in Nat
             /\ Counted(t, o + 1, e, c) = IF t[e] = c /\ ~SteppedOver(t, o + 1, e)
                  THEN Counted(t, o + 1, e - 1, c) + 1 ELSE Counted(t, o + 1, e - 1, c)
  BY <1>1, CountedNext
<1>7. Closing(t, o + 1, e)
  <2>1. Counted(t, o + 1, e - 1, CloseParen) = Counted(t, o + 1, e - 1, OpenParen)
    BY <1>3, <1>5
  <2>2. Counted(t, o + 1, e, CloseParen) = Counted(t, o + 1, e - 1, CloseParen) + 1
    BY <1>1, <1>4, <1>6
  <2>3. Counted(t, o + 1, e, OpenParen) = Counted(t, o + 1, e - 1, OpenParen)
    BY <1>1, <1>6
  <2>4. Counted(t, o + 1, e - 1, OpenParen) \in Nat
    BY <1>6
  <2> QED
    BY <2>1, <2>2, <2>3, <2>4 DEF Closing
<1>8. IndexEnd(t, o + 1) = e
  BY <1>1, <1>2, <1>7, IndexEndFound
<1> QED
  BY <1>8 DEF e
------------------------------------------------------------------------------
(* Names within a text *)

\* A part of the index is a part of the text around it.
LEMMA PartWithin ==
  ASSUME NEW t \in Seq(Character), NEW o \in Nat, NEW index \in Seq(Character), Within(t, o, index),
         NEW a \in 1..(Len(index) + 1), NEW b \in (a - 1)..Len(index)
  PROVE  SubSeq(t, o + a, o + b) = SubSeq(index, a, b)
<1>1. /\ Len(t) \in Nat /\ Len(index) \in Nat /\ Len(t) > o + Len(index)
      /\ a \in Nat /\ b \in Nat /\ a >= 1 /\ b >= a - 1 /\ b <= Len(index)
  BY DEF Within
<1> DEFINE x == SubSeq(t, o + a, o + b)
           y == SubSeq(index, a, b)
<1>2. /\ x = [i \in 1..((o + b) - (o + a) + 1) |-> t[i + (o + a) - 1]]
      /\ y = [i \in 1..(b - a + 1) |-> index[i + a - 1]]
  OBVIOUS
<1>3. (o + b) - (o + a) + 1 = b - a + 1
  BY <1>1
<1>4. ASSUME NEW i \in 1..(b - a + 1) PROVE t[i + (o + a) - 1] = index[i + a - 1]
  <2>1. i + a - 1 \in 1..Len(index) /\ i + (o + a) - 1 = o + (i + a - 1)
    BY <1>1
  <2> QED
    BY <2>1 DEF Within
<1> HIDE DEF x, y
<1>5. x = y
  BY <1>2, <1>3, <1>4
<1> QED
  BY <1>5 DEF x, y

\* A position where a name ends
EndsName(t, i, k) ==
  /\ k \in i..Len(t) /\ t[k] \notin NameChars
  /\ t[k] = Colon => /\ k > i => t[k - 1] # Colon
                     /\ ~Has(t, k + 1, {Colon})

\* A name ends at the first position where names end.
LEMMA NameEndIs ==
  ASSUME NEW t \in Seq(Character), NEW i \in 1..(Len(t) + 1)
  PROVE  /\ NameEnd(t, i) \in i..(Len(t) + 1)
         /\ \A k \in i..(NameEnd(t, i) - 1) : t[k] \in NameChars \union {Colon}
         /\ \A k \in i..(NameEnd(t, i) - 1) : ~EndsName(t, i, k)
         /\ NameEnd(t, i) <= Len(t) => EndsName(t, i, NameEnd(t, i))
<1> DEFINE stops == {k \in i..Len(t) : EndsName(t, i, k)}
           e == NameEnd(t, i)
<1>1. e = FirstIn(t, i, stops)
  <2>1. stops = {k \in i..Len(t) :
                   /\ t[k] \notin NameChars
                   /\ t[k] = Colon => /\ k > i => t[k - 1] # Colon
                                      /\ ~Has(t, k + 1, {Colon})}
    BY DEF EndsName
  <2> HIDE DEF stops
  <2> QED
    BY <2>1 DEF NameEnd
<1>2. /\ Len(t) \in Nat /\ i \in Nat \ {0} /\ i <= Len(t) + 1
  OBVIOUS
<1>3. /\ e \in i..(Len(t) + 1) /\ \A k \in i..(e - 1) : k \notin stops
      /\ e <= Len(t) => e \in stops
  BY <1>1, <1>2, FirstInIs
<1> HIDE DEF e
<1>4. ASSUME NEW k \in i..(e - 1)
      PROVE  ~EndsName(t, i, k) /\ t[k] \in NameChars \union {Colon}
  <2>1. k \in i..Len(t)
    BY <1>2, <1>3
  <2>2. ~EndsName(t, i, k)
    BY <1>3, <2>1
  <2> QED
    BY <2>1, <2>2 DEF EndsName
<1> QED
  BY <1>3, <1>4 DEF e

LEMMA NameEndFound ==
  ASSUME NEW t \in Seq(Character), NEW i \in 1..(Len(t) + 1), NEW e \in i..(Len(t) + 1),
         \A k \in i..(e - 1) : ~EndsName(t, i, k), e <= Len(t) => EndsName(t, i, e)
  PROVE  NameEnd(t, i) = e
<1> DEFINE f == NameEnd(t, i)
<1>1. /\ f \in i..(Len(t) + 1) /\ \A k \in i..(f - 1) : ~EndsName(t, i, k)
      /\ f <= Len(t) => EndsName(t, i, f)
  BY NameEndIs
<1>2. i \in Nat /\ Len(t) \in Nat
  OBVIOUS
<1> HIDE DEF f
<1>3. ~(f < e) /\ ~(e < f)
  BY <1>1, <1>2
<1> QED
  BY <1>1, <1>2, <1>3 DEF f

\* A name ends at the same place in the text around.
LEMMA NameEndWithin ==
  ASSUME NEW t \in Seq(Character), NEW o \in Nat, NEW index \in Seq(Character), Within(t, o, index),
         NEW q \in 1..(Len(index) + 1)
  PROVE  /\ NameEnd(t, o + q) = o + NameEnd(index, q)
         /\ Has(t, o + NameEnd(index, q), {OpenParen}) <=> Has(index, NameEnd(index, q), {OpenParen})
<1> DEFINE m == Len(index)
           e == NameEnd(index, q)
<1>1. /\ m \in Nat /\ q \in Nat /\ q >= 1 /\ Len(t) \in Nat /\ Len(t) > o + m
      /\ o + q \in 1..(Len(t) + 1) /\ t[o + m + 1] = CloseParen
      /\ \A j \in 1..m : t[o + j] = index[j]
  BY DEF Within
<1>2. /\ e \in q..(m + 1) /\ \A k \in q..(e - 1) : ~EndsName(index, q, k)
      /\ e <= m => EndsName(index, q, e)
  BY NameEndIs
<1> HIDE DEF e
<1>3. CloseParen # Colon /\ CloseParen # OpenParen /\ CloseParen \notin NameChars
  BY DEF CloseParen, OpenParen, Colon, NameChars
<1>4. ASSUME NEW k \in q..m PROVE EndsName(t, o + q, o + k) <=> EndsName(index, q, k)
  <2>1. k \in 1..m /\ o + k \in (o + q)..Len(t) /\ (o + k > o + q <=> k > q) /\ k \in q..Len(index)
    BY <1>1
  <2>2. t[o + k] = index[k]
    BY <1>1, <2>1
  <2>3. k > q => t[(o + k) - 1] = index[k - 1]
    <3> HAVE k > q
    <3>1. k - 1 \in 1..m /\ (o + k) - 1 = o + (k - 1)
      BY <1>1
    <3> QED
      BY <1>1, <3>1
  <2>4. Has(t, (o + k) + 1, {Colon}) <=> Has(index, k + 1, {Colon})
    <3>1. CASE k = m
      <4>1. (o + k) + 1 = o + m + 1 /\ ~(k + 1 <= m)
        BY <1>1, <3>1
      <4> QED
        BY <1>1, <1>3, <4>1 DEF Has
    <3>2. CASE k # m
      <4>1. k + 1 \in 1..m /\ (o + k) + 1 = o + (k + 1) /\ k + 1 <= m /\ o + (k + 1) <= Len(t)
        BY <1>1, <3>2
      <4>2. t[o + (k + 1)] = index[k + 1]
        BY <1>1, <4>1
      <4> QED
        BY <4>1, <4>2 DEF Has
    <3> QED
      BY <3>1, <3>2
  <2> QED
    BY <2>1, <2>2, <2>3, <2>4 DEF EndsName
<1>5. o + e \in (o + q)..(Len(t) + 1)
  BY <1>1, <1>2
<1>6. ASSUME NEW x \in (o + q)..((o + e) - 1) PROVE ~EndsName(t, o + q, x)
  <2> DEFINE k == x - o
  <2>1. k \in q..(e - 1) /\ k \in q..m /\ x = o + k
    BY <1>1, <1>2
  <2> HIDE DEF k
  <2> QED
    BY <1>2, <1>4, <2>1
<1>7. EndsName(t, o + q, o + e)
  <2>1. CASE e <= m
    <3>1. e \in q..m
      BY <1>1, <1>2, <2>1
    <3> QED
      BY <1>2, <1>4, <2>1, <3>1
  <2>2. CASE ~(e <= m)
    <3>1. o + e = o + m + 1 /\ o + e \in (o + q)..Len(t)
      BY <1>1, <1>2, <2>2
    <3> QED
      BY <1>1, <1>3, <3>1 DEF EndsName
  <2> QED
    BY <2>1, <2>2
<1>8. NameEnd(t, o + q) = o + e
  BY <1>1, <1>5, <1>6, <1>7, NameEndFound
<1>9. Has(t, o + e, {OpenParen}) <=> Has(index, e, {OpenParen})
  <2>1. CASE e <= m
    <3>1. e \in 1..m /\ o + e <= Len(t)
      BY <1>1, <1>2, <2>1
    <3> QED
      BY <1>1, <2>1, <3>1 DEF Has
  <2>2. CASE ~(e <= m)
    <3>1. o + e = o + m + 1
      BY <1>1, <1>2, <2>2
    <3> QED
      BY <1>1, <1>3, <2>2, <3>1 DEF Has
  <2> QED
    BY <2>1, <2>2
<1> QED
  BY <1>8, <1>9 DEF e

\* The name behind a dollar ends where it should.
LEMMA PlainNameEnds ==
  ASSUME NEW t \in Seq(Character), NEW name \in Seq(Character), name = <<>> \/ IsPlain(name),
         Len(t) >= Len(name) + 1, \A k \in 1..Len(name) : t[k + 1] = name[k],
         Len(t) > Len(name) + 1 => t[Len(name) + 2] = OpenParen
  PROVE  NameEnd(t, 2) = Len(name) + 2
<1> DEFINE n == Len(name)
           e == n + 2
<1>1. n \in Nat /\ Len(t) \in Nat /\ 2 \in 1..(Len(t) + 1) /\ e \in 2..(Len(t) + 1)
  OBVIOUS
<1>2. ASSUME NEW k \in 2..(e - 1) PROVE ~EndsName(t, 2, k)
  <2> DEFINE j == k - 1
  <2>1. j \in 1..n /\ k = j + 1 /\ name # <<>>
    BY <1>1
  <2>2. t[k] = name[j]
    BY <2>1
  <2>3. \/ name[j] \in NameChars
        \/ name[j] = Colon /\ \E x \in {j - 1, j + 1} : x \in 1..n /\ name[x] = Colon
    BY <2>1 DEF IsPlain
  <2>4. CASE name[j] \in NameChars
    BY <2>2, <2>4 DEF EndsName
  <2>5. CASE name[j] = Colon /\ j - 1 \in 1..n /\ name[j - 1] = Colon
    <3>1. k > 2 /\ t[k - 1] = Colon
      <4>1. k - 1 = (j - 1) + 1
        BY <2>1
      <4> QED
        BY <1>1, <2>1, <2>5, <4>1
    <3> QED
      BY <2>2, <2>5, <3>1 DEF EndsName
  <2>6. CASE name[j] = Colon /\ j + 1 \in 1..n /\ name[j + 1] = Colon
    <3>1. t[k + 1] = Colon /\ k + 1 <= Len(t)
      <4>1. k + 1 = (j + 1) + 1
        BY <2>1
      <4> QED
        BY <1>1, <2>1, <2>6, <4>1
    <3> QED
      BY <2>2, <2>6, <3>1 DEF EndsName, Has
  <2> QED
    BY <2>3, <2>4, <2>5, <2>6
<1>3. e <= Len(t) => EndsName(t, 2, e)
  <2> HAVE e <= Len(t)
  <2>1. t[e] = OpenParen /\ e \in 2..Len(t)
    BY <1>1
  <2>2. OpenParen \notin NameChars /\ OpenParen # Colon
    BY DEF OpenParen, NameChars, Colon
  <2> QED
    BY <2>1, <2>2 DEF EndsName
<1> HIDE DEF e
<1>4. NameEnd(t, 2) = e
  BY <1>1, <1>2, <1>3, NameEndFound
<1> QED
  BY <1>4 DEF e
------------------------------------------------------------------------------
(* A rule that applies to a text applies to the index in it. *)

Enclosed(t, o, index) ==
  /\ Within(t, o, index) /\ IsBalanced(index)
  /\ \A k \in 1..Len(index) : index[k] # OpenBrace

\* A place in a text that the resolution of the text itself can reach
Sound(index, j, d) ==
  /\ ~SteppedOver(index, 1, j)
  /\ d.count > 0 => /\ Escapes(index, j)
                    /\ DigitsAt(index[j + 1], j) + d.count <= Len(index) + 1
                    /\ index[(DigitsAt(index[j + 1], j) + d.count) - 1] # Backslash

MovesWithin(s, index, o, j, d, i, e, b) ==
  \E k \in 1..(Len(index) + 1) :
    i = o + k /\ Moves(s, index, j, d, k, e, b) /\ Sound(index, k, e)

LEMMA EnclosedFacts ==
  ASSUME NEW t \in Seq(Character), NEW o \in Nat, NEW index \in Seq(Character), Enclosed(t, o, index)
  PROVE  /\ Len(index) \in Nat /\ Len(t) \in Nat /\ Len(t) > o + Len(index)
         /\ t[o + Len(index) + 1] = CloseParen
         /\ \A j \in 1..Len(index) : t[o + j] = index[j]
         /\ ~SteppedOver(index, 1, Len(index) + 1)
<1>1. ~SteppedOver(index, 1, Len(index) + 1)
  BY BalancedIs DEF Enclosed
<1> QED
  BY <1>1 DEF Enclosed, Within

LEMMA SoundPlain ==
  ASSUME NEW index, NEW k, ~SteppedOver(index, 1, k)
  PROVE  Sound(index, k, NoDigits)
<1>1. ~(NoDigits.count > 0)
  BY DEF NoDigits
<1> QED
  BY <1>1 DEF Sound

\* Behind a character that is no backslash nothing is half read.
LEMMA SoundBehind ==
  ASSUME NEW index \in Seq(Character), NEW k \in 2..(Len(index) + 1), index[k - 1] # Backslash
  PROVE  Sound(index, k, NoDigits)
<1>1. k - 1 \in Nat /\ 1 <= k - 1 /\ (k - 1) + 1 = k
  OBVIOUS
<1>2. ~SteppedOver(index, 1, (k - 1) + 1)
  BY <1>1, SteppedNext
<1> QED
  BY <1>1, <1>2, SoundPlain

LEMMA DigitsAtIs ==
  ASSUME NEW c, NEW j \in Nat, NEW o \in Nat
  PROVE  /\ DigitsAt(c, j) \in {j + 1, j + 2} /\ DigitsAt(c, o + j) = o + DigitsAt(c, j)
         /\ DigitsAt(c, j) = j + DigitsAt(c, 0) /\ DigitRule(c).base <= 16
BY DEF DigitsAt, DigitRule, Octal, Hex, Unicode, LongUnicode

LEMMA NotADigit == Digit(CloseParen) = 16 /\ Digit(Backslash) = 16
BY DEF Digit, CloseParen, Backslash

\* An escape is not cut off by the end of a balanced index.
LEMMA EscapesWithin ==
  ASSUME NEW t \in Seq(Character), NEW o \in Nat, NEW index \in Seq(Character), Enclosed(t, o, index),
         NEW j \in 1..Len(index), NEW d, Sound(index, j, d)
  PROVE  /\ Escapes(t, o + j) <=> Escapes(index, j)
         /\ Escapes(index, j) => t[(o + j) + 1] = index[j + 1]
<1>1. /\ Len(index) \in Nat /\ Len(t) \in Nat /\ Len(t) > o + Len(index) /\ j \in Nat /\ 1 <= j
      /\ o + j \in 1..(Len(t) - 1) /\ (o + j) + 1 = o + (j + 1)
      /\ t[o + j] = index[j] /\ \A k \in 1..Len(index) : t[o + k] = index[k]
      /\ ~SteppedOver(index, 1, Len(index) + 1)
  BY EnclosedFacts
<1>2. index[j] = Backslash => j # Len(index)
  <2> HAVE index[j] = Backslash
  <2>1. SteppedOver(index, 1, j + 1)
    BY <1>1, SteppedNext DEF Sound
  <2> QED
    BY <1>1, <2>1
<1>3. j # Len(index) => j \in 1..(Len(index) - 1) /\ j + 1 \in 1..Len(index)
  BY <1>1
<1> QED
  BY <1>1, <1>2, <1>3 DEF Escapes

\* It takes the same digits.
LEMMA TakesWithin ==
  ASSUME NEW t \in Seq(Character), NEW o \in Nat, NEW index \in Seq(Character), Enclosed(t, o, index),
         NEW j \in 1..Len(index), NEW d \in Scanned, Sound(index, j, d), Escapes(index, j)
  PROVE  /\ Takes(t, o + j, d) <=> Takes(index, j, d)
         /\ Takes(index, j, d) =>
              /\ TakeDigit(t, DigitsAt(t[(o + j) + 1], o + j), DigitRule(t[(o + j) + 1]), d)
                   = TakeDigit(index, DigitsAt(index[j + 1], j), DigitRule(index[j + 1]), d)
              /\ DigitsAt(index[j + 1], j) + d.count \in 1..Len(index)
              /\ index[DigitsAt(index[j + 1], j) + d.count] # Backslash
<1> DEFINE c == index[j + 1]
           a == DigitsAt(c, j)
           p == a + d.count
           m == Len(index)
<1>1. /\ m \in Nat /\ Len(t) \in Nat /\ Len(t) > o + m
      /\ t[o + m + 1] = CloseParen /\ \A k \in 1..m : t[o + k] = index[k]
  BY EnclosedFacts
<1>2. t[(o + j) + 1] = c
  BY EscapesWithin
<1>3. j \in Nat /\ d.count \in Nat /\ j <= m - 1
  BY <1>1 DEF Scanned, Escapes
<1>4. a \in {j + 1, j + 2} /\ DigitsAt(c, o + j) = o + a /\ DigitRule(c).base <= 16
  BY <1>3, DigitsAtIs
<1>5. DigitRule(c).base \in {8, 16}
  BY DEF DigitRule, Octal, Hex, Unicode, LongUnicode
<1>6. p <= m + 1
  <2>1. CASE d.count > 0
    BY <2>1 DEF Sound
  <2>2. CASE ~(d.count > 0)
    BY <1>3, <1>4, <2>2
  <2> QED
    BY <2>1, <2>2
<1>7. p \in Nat /\ p >= 1 /\ (o + a) + d.count = o + p
  <2> DEFINE count == d.count
  <2>1. a \in Nat /\ a >= 1 /\ count \in Nat
    BY <1>3, <1>4
  <2> HIDE DEF a, count
  <2>2. a + count \in Nat /\ a + count >= 1 /\ (o + a) + count = o + (a + count)
    BY <2>1
  <2> QED
    BY <2>2 DEF count
<1> HIDE DEF p, a, c, m
<1>8. Takes(index, j, d) <=> TakesDigit(index, a, DigitRule(c), d)
  BY DEF Takes, a, c
<1>9. Takes(t, o + j, d) <=> TakesDigit(t, o + a, DigitRule(c), d)
  BY <1>2, <1>4 DEF Takes
<1>10. CASE p <= m
  <2>1. p \in 1..m /\ o + p <= Len(t) /\ t[o + p] = index[p]
    BY <1>1, <1>7, <1>10
  <2>2. TakesDigit(t, o + a, DigitRule(c), d) <=> TakesDigit(index, a, DigitRule(c), d)
    BY <1>7, <1>10, <2>1 DEF TakesDigit, p, m
  <2>3. TakeDigit(t, o + a, DigitRule(c), d) = TakeDigit(index, a, DigitRule(c), d)
    BY <1>7, <2>1 DEF TakeDigit, p
  <2>4. TakesDigit(index, a, DigitRule(c), d) => index[p] # Backslash
    <3> HAVE TakesDigit(index, a, DigitRule(c), d)
    <3>1. Digit(index[p]) < DigitRule(c).base
      BY DEF TakesDigit, p
    <3> QED
      BY <1>5, <3>1, NotADigit
  <2>5. DigitsAt(t[(o + j) + 1], o + j) = o + a
    BY <1>2, <1>4
  <2>6. Takes(t, o + j, d) <=> Takes(index, j, d)
    BY Zenon, <1>8, <1>9, <2>2
  <2>7. TakeDigit(t, DigitsAt(t[(o + j) + 1], o + j), DigitRule(t[(o + j) + 1]), d)
          = TakeDigit(index, a, DigitRule(c), d)
    BY Zenon, <1>2, <2>3, <2>5
  <2>8. Takes(index, j, d) => p \in 1..m /\ index[p] # Backslash
    BY Zenon, <1>8, <2>1, <2>4
  <2> QED
    BY <2>6, <2>7, <2>8 DEF p, a, c, m
<1>11. CASE ~(p <= m)
  <2>0. m \in Nat /\ p \in Nat
    BY <1>1, <1>7
  <2>1. p = m + 1 /\ o + p = o + m + 1
    BY <1>6, <1>11, <2>0
  <2>2. ~TakesDigit(index, a, DigitRule(c), d)
    BY <1>11 DEF TakesDigit, p, m
  <2>3. ~TakesDigit(t, o + a, DigitRule(c), d)
    <3>1. Digit(t[(o + a) + d.count]) = 16
      BY <1>1, <1>7, <2>1, NotADigit
    <3> QED
      BY <1>5, <3>1 DEF TakesDigit
  <2> QED
    BY <1>8, <1>9, <2>2, <2>3
<1> QED
  BY <1>10, <1>11

LEMMA CopiesWithin ==
  ASSUME NEW t \in Seq(Character), NEW o \in Nat, NEW index \in Seq(Character), Enclosed(t, o, index),
         NEW s, NEW j \in 1..Len(index), NEW d, Sound(index, j, d), NEW i, NEW e, NEW b,
         Copies(t, o + j, d, i, e, b)
  PROVE  MovesWithin(s, index, o, j, d, i, e, b)
<1>1. /\ Len(index) \in Nat /\ Len(t) \in Nat /\ Len(t) > o + Len(index) /\ j \in Nat /\ 1 <= j
      /\ o + j \in 1..(Len(t) - 1) /\ t[o + j] = index[j]
      /\ j \in 1..Len(index) /\ j <= Len(index)
  BY EnclosedFacts
<1>2. t[o + j] # Backslash /\ t[o + j] # Dollar
  BY <1>1 DEF Copies, Escapes, Refers
<1>3. d = NoDigits /\ i = (o + j) + 1 /\ e = NoDigits /\ b = <<index[j]>>
  BY <1>1 DEF Copies
<1> DEFINE k == j + 1
<1>4. k \in 1..(Len(index) + 1) /\ k \in 2..(Len(index) + 1) /\ k - 1 = j /\ i = o + k
  BY <1>1, <1>3
<1>5. Copies(index, j, d, k, e, b)
  BY <1>1, <1>2, <1>3 DEF Copies, Escapes, Refers
<1> HIDE DEF k
<1>6. Sound(index, k, e)
  BY <1>1, <1>2, <1>3, <1>4, SoundBehind
<1> QED
  BY Zenon, <1>4, <1>5, <1>6 DEF MovesWithin, Moves

LEMMA ScansWithin ==
  ASSUME NEW t \in Seq(Character), NEW o \in Nat, NEW index \in Seq(Character), Enclosed(t, o, index),
         NEW s, NEW j \in 1..Len(index), NEW d \in Scanned, Sound(index, j, d),
         NEW i, NEW e, NEW b, Scans(t, o + j, d, i, e, b)
  PROVE  MovesWithin(s, index, o, j, d, i, e, b)
<1> DEFINE c == index[j + 1]
           a == DigitsAt(c, j)
<1>1. Escapes(index, j) /\ Takes(t, o + j, d) /\ i = o + j /\ b = <<>>
  BY EscapesWithin DEF Scans
<1>2. Takes(index, j, d)
  BY <1>1, TakesWithin
<1>3. e = TakeDigit(index, DigitsAt(index[j + 1], j), DigitRule(index[j + 1]), d)
  BY <1>1, <1>2, TakesWithin DEF Scans
<1>4. Scans(index, j, d, j, e, b)
  BY <1>1, <1>2, <1>3 DEF Scans
<1>5. a + d.count \in 1..Len(index) /\ index[a + d.count] # Backslash
  BY <1>1, <1>2, TakesWithin
<1>6. e.count = d.count + 1
  BY <1>3 DEF TakeDigit
<1>7. a \in Nat /\ d.count \in Nat /\ Len(index) \in Nat
  <2>1. j \in Nat /\ 0 \in Nat
    OBVIOUS
  <2> HIDE DEF c
  <2>2. a \in {j + 1, j + 2}
    BY Zenon, <2>1, DigitsAtIs
  <2> HIDE DEF a
  <2>3. a \in Nat
    BY <2>1, <2>2
  <2> QED
    BY <2>3 DEF Scanned
<1>8. a + e.count <= Len(index) + 1 /\ (a + e.count) - 1 = a + d.count
  <2> DEFINE n == d.count
             m == Len(index)
  <2>1. a \in Nat /\ n \in Nat /\ m \in Nat /\ a + n <= m /\ e.count = n + 1
    BY <1>5, <1>6, <1>7
  <2> HIDE DEF a, n, m
  <2>2. a + (n + 1) <= m + 1 /\ (a + (n + 1)) - 1 = a + n
    BY <2>1
  <2> QED
    BY <2>1, <2>2 DEF n, m
<1>9. Sound(index, j, e)
  BY <1>1, <1>5, <1>8 DEF Sound
<1>10. j \in 1..(Len(index) + 1)
  BY <1>7
<1> QED
  BY Zenon, <1>1, <1>4, <1>9, <1>10 DEF MovesWithin, Moves

LEMMA DecodesWithin ==
  ASSUME NEW t \in Seq(Character), NEW o \in Nat, NEW index \in Seq(Character), Enclosed(t, o, index),
         NEW s, NEW j \in 1..Len(index), NEW d \in Scanned, Sound(index, j, d),
         NEW i, NEW e, NEW b, Decodes(t, o + j, d, i, e, b)
  PROVE  MovesWithin(s, index, o, j, d, i, e, b)
<1> DEFINE c == index[j + 1]
           a == DigitsAt(c, j)
           n == d.count
           m == Len(index)
           k == j + Consumed(c, d)
<1>1. /\ Escapes(index, j) /\ ~Takes(t, o + j, d) /\ t[(o + j) + 1] = c
      /\ i = (o + j) + Consumed(c, d) /\ e = NoDigits /\ b = Output(c, d)
  BY EscapesWithin DEF Decodes
<1>0. e = NoDigits
  BY <1>1
<1>2. ~Takes(index, j, d)
  BY <1>1, TakesWithin
<1>3. Decodes(index, j, d, k, e, b)
  BY <1>1, <1>2 DEF Decodes
<1>4. j \in Nat /\ 1 <= j /\ j <= m - 1 /\ m \in Nat /\ n \in Nat /\ index[j] = Backslash
  <2>1. m \in Nat
    OBVIOUS
  <2> QED
    BY <1>1, <2>1 DEF Escapes, Scanned
<1>5. Consumed(c, d) = IF n = 0 THEN 2 ELSE DigitsAt(c, 0) + n
  BY DEF Consumed
<1>6. DigitsAt(c, 0) \in {1, 2} /\ a = j + DigitsAt(c, 0)
  BY <1>4, DigitsAtIs
<1>7. n = 0 => k \in 1..(m + 1) /\ Sound(index, k, e)
  <2> HAVE n = 0
  <2>1. k = (j + 1) + 1 /\ j + 1 \in Nat /\ 1 <= j + 1 /\ k \in 1..(m + 1)
    BY <1>4, <1>5
  <2>2. ~SteppedOver(index, 1, j)
    BY DEF Sound
  <2>3. SteppedOver(index, 1, j + 1)
    BY <1>4, <2>2, SteppedNext
  <2>4. ~SteppedOver(index, 1, k)
    BY <1>4, <2>1, <2>3, SteppedNext
  <2> HIDE DEF k
  <2>5. Sound(index, k, e)
    BY Zenon, <1>0, <2>4, SoundPlain
  <2> QED
    BY Zenon, <2>1, <2>5
<1>8. n # 0 => k \in 1..(m + 1) /\ Sound(index, k, e)
  <2> HAVE n # 0
  <2>1. n > 0
    BY <1>4
  <2>2. a + n <= m + 1 /\ index[(a + n) - 1] # Backslash
    BY <2>1 DEF Sound
  <2> DEFINE z == DigitsAt(c, 0)
  <2>3. z \in {1, 2} /\ a = j + z /\ k = j + (z + n)
    BY <1>5, <1>6
  <2> HIDE DEF a, z, n, m, k
  <2>4. k = a + n /\ k \in 2..(m + 1)
    BY <1>4, <2>1, <2>2, <2>3
  <2>5. k \in 2..(Len(index) + 1) /\ index[k - 1] # Backslash
    BY <2>2, <2>4 DEF m
  <2>6. Sound(index, k, e)
    BY Zenon, <1>0, <2>5, SoundBehind
  <2>7. m \in Nat
    BY <1>4
  <2>8. k \in 1..(m + 1)
    BY <2>4, <2>7
  <2> QED
    BY Zenon, <2>6, <2>8
<1>9. k \in 1..(m + 1) /\ Sound(index, k, e)
  BY <1>7, <1>8
<1>10. i = o + k
  <2>1. Consumed(c, d) \in Int
    BY <1>4, <1>5, <1>6
  <2> QED
    BY <1>1, <1>4, <2>1
<1> HIDE DEF k
<1> QED
  BY Zenon, <1>3, <1>9, <1>10 DEF MovesWithin, Moves

\* A dollar in the index, and the end of the name behind it
LEMMA RefersWithin ==
  ASSUME NEW t \in Seq(Character), NEW o \in Nat, NEW index \in Seq(Character), Enclosed(t, o, index),
         NEW j \in 1..Len(index), Refers(t, o + j)
  PROVE  /\ index[j] = Dollar
         /\ j \in Nat /\ (o + j) + 1 = o + (j + 1) /\ j + 1 \in 1..(Len(index) + 1)
         /\ NameEnd(index, j + 1) \in (j + 1)..(Len(index) + 1)
         /\ NameEnd(t, (o + j) + 1) = o + NameEnd(index, j + 1)
         /\ Has(t, NameEnd(t, (o + j) + 1), {OpenParen}) <=> Has(index, NameEnd(index, j + 1), {OpenParen})
         /\ index[NameEnd(index, j + 1) - 1] # Backslash
         /\ SubSeq(t, (o + j) + 1, NameEnd(t, (o + j) + 1) - 1)
              = SubSeq(index, j + 1, NameEnd(index, j + 1) - 1)
         /\ t[(o + j) + 1] # OpenBrace
<1> DEFINE q == j + 1
           n == NameEnd(index, q)
           m == Len(index)
<1>1. /\ m \in Nat /\ t[o + m + 1] = CloseParen
      /\ \A k \in 1..m : t[o + k] = index[k] /\ index[k] # OpenBrace
  BY EnclosedFacts DEF Enclosed
<1>2. j \in Nat /\ j >= 1 /\ j <= m /\ (o + j) + 1 = o + q /\ q \in 1..(m + 1)
  BY <1>1
<1>3. index[j] = Dollar
  BY <1>1 DEF Refers
<1>4. n \in q..(m + 1) /\ \A k \in q..(n - 1) : index[k] \in NameChars \union {Colon}
  BY <1>2, NameEndIs
<1>5. Within(t, o, index)
  BY DEF Enclosed
<1>6. NameEnd(t, o + q) = o + n /\ (Has(t, o + n, {OpenParen}) <=> Has(index, n, {OpenParen}))
  BY <1>2, <1>5, NameEndWithin
<1> HIDE DEF n, m
<1>7. index[n - 1] # Backslash
  <2>1. Backslash \notin NameChars \union {Colon} /\ Backslash # Dollar
    BY DEF Backslash, NameChars, Colon, Dollar
  <2>2. CASE n = q
    <3>1. n - 1 = j
      BY <1>2, <2>2
    <3> QED
      BY <1>3, <2>1, <3>1
  <2>3. CASE n # q
    <3>1. n - 1 \in q..(n - 1)
      BY <1>1, <1>2, <1>4, <2>3
    <3> QED
      BY <1>4, <2>1, <3>1
  <2> QED
    BY <2>2, <2>3
<1>8. SubSeq(t, o + q, (o + n) - 1) = SubSeq(index, q, n - 1)
  <2>1. n - 1 \in (q - 1)..Len(index) /\ (o + n) - 1 = o + (n - 1) /\ q \in 1..(Len(index) + 1)
    BY <1>1, <1>2, <1>4 DEF m
  <2> HIDE DEF q
  <2>2. SubSeq(t, o + q, o + (n - 1)) = SubSeq(index, q, n - 1)
    BY <1>5, <2>1, PartWithin
  <2> QED
    BY <2>1, <2>2
<1>9. t[o + q] # OpenBrace
  <2>1. CloseParen # OpenBrace
    BY DEF CloseParen, OpenBrace
  <2>2. CASE q \in 1..m
    BY <1>1, <2>2
  <2>3. CASE q \notin 1..m
    <3>1. o + q = o + m + 1
      BY <1>1, <1>2, <2>3
    <3> QED
      BY <1>1, <2>1, <3>1
  <2> QED
    BY <2>2, <2>3
<1> QED
  BY <1>2, <1>3, <1>4, <1>6, <1>7, <1>8, <1>9 DEF n, m

LEMMA ReadsWithin ==
  ASSUME NEW t \in Seq(Character), NEW o \in Nat, NEW index \in Seq(Character), Enclosed(t, o, index),
         NEW s, NEW j \in 1..Len(index), NEW d, NEW i, NEW e, NEW b, Reads(s, t, o + j, d, i, e, b)
  PROVE  MovesWithin(s, index, o, j, d, i, e, b)
<1> DEFINE q == j + 1
           k == NameEnd(index, q)
           n == SubSeq(index, q, k - 1)
<1>1. PICK name : /\ Names(t, o + j, name, i)
                  /\ \/ name = <<>> /\ b = <<Dollar>>
                     \/ name # <<>> /\ Holds(s, name, b)
  BY DEF Reads
<1>2. Refers(t, o + j) /\ d = NoDigits /\ e = NoDigits
  BY DEF Reads
<1>3. /\ index[j] = Dollar /\ j \in Nat /\ q \in 1..(Len(index) + 1)
      /\ k \in q..(Len(index) + 1) /\ index[k - 1] # Backslash
  BY <1>2, RefersWithin
<1>4. ~Has(index, k, {OpenParen}) /\ name = n /\ i = o + k
  <2>1. Names(t, o + j, name, i) /\ t[(o + j) + 1] # OpenBrace
    BY <1>1, <1>2, RefersWithin
  <2>2. /\ ~Has(t, NameEnd(t, (o + j) + 1), {OpenParen})
        /\ name = SubSeq(t, (o + j) + 1, NameEnd(t, (o + j) + 1) - 1) /\ i = NameEnd(t, (o + j) + 1)
    BY Zenon, <2>1 DEF Names
  <2> QED
    BY <1>2, <2>2, RefersWithin
<1> HIDE DEF k, n
<1>5. Len(index) \in Nat /\ k \in 2..(Len(index) + 1) /\ k \in 1..(Len(index) + 1)
  BY <1>3
<1>6. Sound(index, k, e)
  BY <1>2, <1>3, <1>5, SoundBehind
<1>7. CASE j = Len(index)
  <2>1. q = Len(index) + 1 /\ k = q
    BY <1>3, <1>5, <1>7
  <2>2. n = <<>>
    BY <1>3, <2>1 DEF n
  <2>3. b = <<Dollar>>
    BY <1>1, <1>4, <2>2
  <2>4. ~Escapes(index, j) /\ ~Refers(index, j)
    BY <1>5, <1>7 DEF Escapes, Refers
  <2>5. Copies(index, j, d, k, e, b)
    BY <1>2, <1>3, <2>1, <2>3, <2>4 DEF Copies
  <2> QED
    BY Zenon, <1>4, <1>5, <1>6, <2>5 DEF MovesWithin, Moves
<1>8. CASE j # Len(index)
  <2>1. Refers(index, j)
    BY <1>3, <1>5, <1>8 DEF Refers
  <2>2. index[q] # OpenBrace
    <3>1. q \in 1..Len(index)
      BY <1>3, <1>5, <1>8
    <3> QED
      BY <3>1 DEF Enclosed
  <2>3. Names(index, j, n, k)
    BY <1>4, <2>2 DEF Names, n, k
  <2>4. Reads(s, index, j, d, k, e, b)
    BY Zenon, <1>1, <1>2, <1>4, <2>1, <2>3 DEF Reads
  <2> QED
    BY Zenon, <1>4, <1>5, <1>6, <2>4 DEF MovesWithin, Moves
<1> QED
  BY <1>7, <1>8

\* Every move on the text around is one on the index.
LEMMA MoveWithin ==
  ASSUME NEW t \in Seq(Character), NEW o \in Nat, NEW index \in Seq(Character), Enclosed(t, o, index),
         NEW s, NEW j \in 1..Len(index), NEW d \in Scanned, Sound(index, j, d),
         NEW i, NEW e, NEW b, Moves(s, t, o + j, d, i, e, b)
  PROVE  MovesWithin(s, index, o, j, d, i, e, b)
BY Zenon, CopiesWithin, ScansWithin, DecodesWithin, ReadsWithin DEF Moves

CallsWithin(index, o, j, base, inner, i) ==
  \E k \in 1..(Len(index) + 1) :
    i = o + k /\ Calls(index, j, base, inner, k) /\ Sound(index, k, NoDigits)

\* So is every reference with an index.
LEMMA CallWithin ==
  ASSUME NEW t \in Seq(Character), NEW o \in Nat, NEW index \in Seq(Character), Enclosed(t, o, index),
         NEW j \in 1..Len(index), NEW base, NEW inner, NEW i, Calls(t, o + j, base, inner, i)
  PROVE  CallsWithin(index, o, j, base, inner, i)
<1> DEFINE q == j + 1
           n == NameEnd(index, q)
           z == IndexEnd(index, n + 1)
           m == Len(index)
           k == z + 1
<1>1. Refers(t, o + j)
  BY DEF Calls
<1>0. m \in Nat
  OBVIOUS
<1>2. /\ index[j] = Dollar /\ j \in Nat /\ q \in 1..(m + 1) /\ m \in Nat
      /\ n \in q..(m + 1) /\ index[n - 1] # Backslash
      /\ NameEnd(t, (o + j) + 1) = o + n
      /\ SubSeq(t, (o + j) + 1, NameEnd(t, (o + j) + 1) - 1) = SubSeq(index, q, n - 1)
      /\ Has(t, NameEnd(t, (o + j) + 1), {OpenParen}) <=> Has(index, n, {OpenParen})
  BY <1>0, <1>1, RefersWithin
<1>3. /\ Has(index, n, {OpenParen})
      /\ base = SubSeq(index, q, n - 1)
      /\ inner = SubSeq(t, (o + n) + 1, IndexEnd(t, (o + n) + 1) - 1)
      /\ i = IndexEnd(t, (o + n) + 1) + 1
  BY <1>2 DEF Calls
<1> HIDE DEF n
<1>4. n <= m /\ index[n] = OpenParen /\ n \in 1..m /\ n >= 2 /\ n \in Nat
  <2>1. n <= m /\ index[n] = OpenParen
    BY <1>3 DEF Has
  <2> QED
    BY <1>2, <2>1
<1>5. ~SteppedOver(index, 1, n)
  <2>1. (n - 1) + 1 = n /\ n - 1 \in Nat /\ 1 <= n - 1
    BY <1>4
  <2>2. ~SteppedOver(index, 1, (n - 1) + 1)
    BY <1>2, <2>1, SteppedNext
  <2> QED
    BY <2>1, <2>2
<1>6. z <= m
  BY <1>4, <1>5, InnerEnd DEF Enclosed
<1>7. n + 1 \in 1..(m + 1) /\ (o + n) + 1 = o + (n + 1)
  BY <1>2, <1>4
<1>8. z \in (n + 1)..(m + 1)
  BY <1>7, IndexEndIs
<1>9. IndexEnd(t, (o + n) + 1) = o + z
  BY <1>6, <1>7, WithinEnd DEF Enclosed
<1>10. index[z] = CloseParen
  BY <1>6, <1>7, IndexEndCloses
<1> HIDE DEF z
<1>11. inner = SubSeq(index, n + 1, z - 1)
  <2> DEFINE x == n + 1
             y == z - 1
  <2>1. x \in 1..(m + 1) /\ y \in (x - 1)..m /\ (o + z) - 1 = o + y
    BY <1>2, <1>4, <1>6, <1>8
  <2>2. Within(t, o, index)
    BY DEF Enclosed
  <2>3. inner = SubSeq(t, o + x, o + y)
    BY <1>3, <1>7, <1>9, <2>1
  <2> HIDE DEF x, y
  <2>4. SubSeq(t, o + x, o + y) = SubSeq(index, x, y)
    BY <2>1, <2>2, PartWithin
  <2> QED
    BY <2>3, <2>4 DEF x, y
<1>12. k \in 1..(m + 1) /\ k \in 2..(m + 1) /\ k - 1 = z /\ i = o + k
  BY <1>2, <1>3, <1>4, <1>6, <1>8, <1>9
<1>13. Refers(index, j) /\ index[q] # OpenBrace
  <2>1. j \in 1..(m - 1) /\ q \in 1..m
    BY <1>2, <1>4
  <2>2. index[q] # OpenBrace
    BY <2>1 DEF Enclosed
  <2> QED
    BY <1>2, <2>1, <2>2 DEF Refers
<1>14. Calls(index, j, base, inner, k)
  BY Zenon, <1>3, <1>6, <1>11, <1>13 DEF Calls, z, n
<1>15. Sound(index, k, NoDigits)
  <2>1. CloseParen # Backslash
    BY DEF CloseParen, Backslash
  <2>2. index[k - 1] # Backslash /\ k \in 2..(Len(index) + 1)
    BY <1>10, <1>12, <2>1
  <2> HIDE DEF k
  <2> QED
    BY <2>2, SoundBehind
<1> HIDE DEF k
<1> QED
  BY <1>12, <1>14, <1>15 DEF CallsWithin

------------------------------------------------------------------------------
(* What holds of the end of every text, and is kept by the rules, holds of  *)
(* all that is spelled.                                                     *)

MovesKeep(R, s) ==
  \A t \in Seq(Character), i, j \in Nat, d, e \in Scanned, b, v \in Seq(Byte) :
    Moves(s, t, i, d, j, e, b) /\ Spells(s, t, j, e, v) /\ <<t, j, e, v>> \in R
      => <<t, i, d, b \o v>> \in R

CallsKeep(R, s) ==
  \A t, base, index \in Seq(Character), i, j \in Nat, w, b, v \in Seq(Byte) :
    /\ Calls(t, i, base, index, j) /\ Spells(s, index, 1, NoDigits, w)
    /\ Holds(s, ElementName(base, w), b) /\ Spells(s, t, j, NoDigits, v)
    /\ <<t, j, NoDigits, v>> \in R
    => <<t, i, NoDigits, b \o v>> \in R

\* Induction over what is spelled
LEMMA SpelledInduction ==
  ASSUME NEW s, NEW Q, EndsIn(Q), MovesKeep(Q, s), CallsKeep(Q, s),
         NEW t, NEW i, NEW d, NEW v, Spells(s, t, i, d, v)
  PROVE  <<t, i, d, v>> \in Q
<1> DEFINE R == {p \in Points : p \in Q /\ Spells(s, p[1], p[2], p[3], p[4])}
<1>1. ASSUME NEW T \in Seq(Character), NEW I \in Nat, NEW D \in Scanned, NEW V \in Seq(Byte)
      PROVE  <<T, I, D, V>> \in R <=> <<T, I, D, V>> \in Q /\ Spells(s, T, I, D, V)
  <2> DEFINE p == <<T, I, D, V>>
  <2>1. p \in Points /\ p[1] = T /\ p[2] = I /\ p[3] = D /\ p[4] = V
    BY DEF Points
  <2> HIDE DEF p
  <2>2. p \in R <=> p \in Q /\ Spells(s, p[1], p[2], p[3], p[4])
    BY Zenon, <2>1
  <2>3. p \in R <=> p \in Q /\ Spells(s, T, I, D, V)
    BY Zenon, <2>1, <2>2
  <2> QED
    BY Zenon, <2>3 DEF p
<1>2. R \subseteq Q
  OBVIOUS
<1> HIDE DEF R
<1>3. EndsIn(R)
  <2> SUFFICES ASSUME NEW T \in Seq(Character) PROVE <<T, Len(T) + 1, NoDigits, <<>>>> \in R
    BY DEF EndsIn
  <2>1. Len(T) + 1 \in Nat
    OBVIOUS
  <2>2. <<T, Len(T) + 1, NoDigits, <<>>>> \in Q
    BY DEF EndsIn
  <2> QED
    BY Zenon, <2>1, <2>2, <1>1, EndSpells, NoDigitsScanned, EmptyBytes
<1>4. MovesIn(R, s)
  <2> SUFFICES ASSUME NEW T \in Seq(Character), NEW I \in Nat, NEW J \in Nat,
                      NEW D \in Scanned, NEW E \in Scanned, NEW B \in Seq(Byte), NEW V \in Seq(Byte),
                      Moves(s, T, I, D, J, E, B), <<T, J, E, V>> \in R
               PROVE  <<T, I, D, B \o V>> \in R
    BY Zenon DEF MovesIn
  <2>1. Spells(s, T, J, E, V) /\ <<T, J, E, V>> \in Q
    BY Zenon, <1>1
  <2>2. Spells(s, T, I, D, B \o V) /\ B \o V \in Seq(Byte)
    BY Zenon, <2>1, MoveSpells, BytesJoin
  <2>3. <<T, I, D, B \o V>> \in Q
    BY Zenon, <2>1 DEF MovesKeep
  <2> QED
    BY Zenon, <1>1, <2>2, <2>3
<1>5. CallsIn(R, s)
  <2> SUFFICES ASSUME NEW T \in Seq(Character), NEW base \in Seq(Character),
                      NEW index \in Seq(Character), NEW I \in Nat, NEW J \in Nat,
                      NEW W \in Seq(Byte), NEW B \in Seq(Byte), NEW V \in Seq(Byte),
                      Calls(T, I, base, index, J), <<index, 1, NoDigits, W>> \in R,
                      Holds(s, ElementName(base, W), B), <<T, J, NoDigits, V>> \in R
               PROVE  <<T, I, NoDigits, B \o V>> \in R
    BY Zenon DEF CallsIn
  <2>1. /\ Spells(s, T, J, NoDigits, V) /\ Spells(s, index, 1, NoDigits, W)
        /\ <<T, J, NoDigits, V>> \in Q
    BY Zenon, <1>1, NoDigitsScanned, 1 \in Nat
  <2>2. Spells(s, T, I, NoDigits, B \o V) /\ B \o V \in Seq(Byte)
    BY Zenon, <2>1, CallSpells, BytesJoin
  <2>3. <<T, I, NoDigits, B \o V>> \in Q
    BY Zenon, <2>1 DEF CallsKeep
  <2> QED
    BY Zenon, <1>1, <2>2, <2>3, NoDigitsScanned
<1>6. <<t, i, d, v>> \in R
  BY Zenon, <1>3, <1>4, <1>5 DEF Spells, Closed
<1> QED
  BY Zenon, <1>2, <1>6

------------------------------------------------------------------------------
\* From position j of the index on the text around spells what the index does, and ")".
IndexSpelled(s, index, j, d, v) ==
  \E w \in Seq(Byte) : Spells(s, index, j, d, w) /\ v = w \o <<CloseParen>>

LEMMA CloseParenIsBytes == <<CloseParen>> \in Seq(Byte)
BY DEF CloseParen, Byte

LEMMA IndexSpelledMoves ==
  ASSUME NEW s, NEW index \in Seq(Character), NEW j \in Nat, NEW d \in Scanned,
         NEW k \in Nat, NEW e \in Scanned, NEW b \in Seq(Byte), NEW v,
         Moves(s, index, j, d, k, e, b), IndexSpelled(s, index, k, e, v)
  PROVE  IndexSpelled(s, index, j, d, b \o v)
<1>1. PICK w \in Seq(Byte) : Spells(s, index, k, e, w) /\ v = w \o <<CloseParen>>
  BY DEF IndexSpelled
<1>2. Spells(s, index, j, d, b \o w) /\ b \o w \in Seq(Byte)
  BY Zenon, <1>1, MoveSpells, BytesJoin
<1>3. b \o v = (b \o w) \o <<CloseParen>>
  BY <1>1, CloseParenIsBytes, BytesAssociate
<1> QED
  BY Zenon, <1>2, <1>3 DEF IndexSpelled

LEMMA IndexSpelledCalls ==
  ASSUME NEW s, NEW index \in Seq(Character), NEW j \in Nat, NEW base \in Seq(Character),
         NEW inner \in Seq(Character), NEW k \in Nat, NEW w \in Seq(Byte), NEW b \in Seq(Byte), NEW v,
         Calls(index, j, base, inner, k), Spells(s, inner, 1, NoDigits, w),
         Holds(s, ElementName(base, w), b), IndexSpelled(s, index, k, NoDigits, v)
  PROVE  IndexSpelled(s, index, j, NoDigits, b \o v)
<1>1. PICK x \in Seq(Byte) : Spells(s, index, k, NoDigits, x) /\ v = x \o <<CloseParen>>
  BY DEF IndexSpelled
<1>2. Spells(s, index, j, NoDigits, b \o x) /\ b \o x \in Seq(Byte)
  BY Zenon, <1>1, CallSpells, BytesJoin
<1>3. b \o v = (b \o x) \o <<CloseParen>>
  BY <1>1, CloseParenIsBytes, BytesAssociate
<1> QED
  BY Zenon, <1>2, <1>3 DEF IndexSpelled

\* At the parenthesis behind the index
LEMMA IndexSpelledEnd ==
  ASSUME NEW s, NEW t \in Seq(Character), NEW o \in Nat, NEW index \in Seq(Character),
         Enclosed(t, o, index), Len(t) = o + Len(index) + 1,
         NEW d, NEW i, NEW e, NEW b, NEW v,
         Moves(s, t, Len(t), d, i, e, b), Spells(s, t, i, e, v)
  PROVE  IndexSpelled(s, index, Len(index) + 1, d, b \o v)
<1>1. Len(t) \in Nat /\ ~(Len(t) \in 1..(Len(t) - 1)) /\ t[Len(t)] = CloseParen
  BY EnclosedFacts
<1>2. Copies(t, Len(t), d, i, e, b)
  BY <1>1 DEF Moves, Scans, Decodes, Reads, Escapes, Refers
<1>3. d = NoDigits /\ i = Len(t) + 1 /\ e = NoDigits /\ b = <<CloseParen>>
  BY <1>1, <1>2 DEF Copies
<1>4. v = <<>>
  BY Zenon, <1>3, EndIsEmpty
<1>5. b \o v = <<>> \o <<CloseParen>>
  BY <1>3, <1>4
<1>6. Spells(s, index, Len(index) + 1, d, <<>>) /\ <<>> \in Seq(Byte)
  BY Zenon, <1>3, EndSpells, EmptyBytes
<1> QED
  BY Zenon, <1>5, <1>6 DEF IndexSpelled

\* What the text around spells from the index on, the index spells.
LEMMA IndexSpells ==
  ASSUME NEW s, NEW t \in Seq(Character), NEW o \in Nat, NEW index \in Seq(Character),
         Enclosed(t, o, index), Len(t) = o + Len(index) + 1,
         NEW j \in 1..(Len(index) + 1), NEW d, Sound(index, j, d), NEW v, Spells(s, t, o + j, d, v)
  PROVE  IndexSpelled(s, index, j, d, v)
<1> DEFINE m == Len(index)
           Good(T, I, D, V) ==
             T = t => \A k \in 1..(m + 1) : I = o + k /\ Sound(index, k, D) => IndexSpelled(s, index, k, D, V)
           Q == {p \in Points : Good(p[1], p[2], p[3], p[4])}
<1>1. ASSUME NEW T \in Seq(Character), NEW I \in Nat, NEW D \in Scanned, NEW V \in Seq(Byte)
      PROVE  <<T, I, D, V>> \in Q <=> Good(T, I, D, V)
  <2> DEFINE p == <<T, I, D, V>>
  <2>1. p \in Points /\ p[1] = T /\ p[2] = I /\ p[3] = D /\ p[4] = V
    BY DEF Points
  <2> HIDE DEF p, Good
  <2>2. p \in Q <=> Good(p[1], p[2], p[3], p[4])
    BY Zenon, <2>1
  <2>3. p \in Q <=> Good(T, I, D, V)
    BY Zenon, <2>1, <2>2
  <2> QED
    BY Zenon, <2>3 DEF p
<1> HIDE DEF Q
<1>2. m \in Nat /\ \A k \in 1..(m + 1) : k \in Nat /\ (k # m + 1 => k \in 1..m)
  OBVIOUS
<1>3. EndsIn(Q)
  <2> SUFFICES ASSUME NEW T \in Seq(Character) PROVE <<T, Len(T) + 1, NoDigits, <<>>>> \in Q
    BY DEF EndsIn
  <2>1. Len(T) + 1 \in Nat
    OBVIOUS
  <2>2. ASSUME T = t, NEW k \in 1..(m + 1), Len(T) + 1 = o + k PROVE FALSE
    BY <2>2
  <2>3. Good(T, Len(T) + 1, NoDigits, <<>>)
    BY <2>2
  <2> HIDE DEF Good
  <2> QED
    BY Zenon, <2>1, <2>3, <1>1, NoDigitsScanned, EmptyBytes
<1>4. MovesKeep(Q, s)
  <2> SUFFICES ASSUME NEW T \in Seq(Character), NEW I \in Nat, NEW J \in Nat,
                      NEW D \in Scanned, NEW E \in Scanned, NEW B \in Seq(Byte), NEW V \in Seq(Byte),
                      Moves(s, T, I, D, J, E, B), Spells(s, T, J, E, V), <<T, J, E, V>> \in Q
               PROVE  <<T, I, D, B \o V>> \in Q
    BY Zenon DEF MovesKeep
  <2>1. Good(T, J, E, V)
    BY Zenon, <1>1
  <2>2. ASSUME T = t, NEW k \in 1..(m + 1), I = o + k, Sound(index, k, D)
        PROVE  IndexSpelled(s, index, k, D, B \o V)
    <3>1. CASE k = m + 1
      <4>1. I = Len(t)
        BY <2>2, <3>1, <1>2
      <4> QED
        BY Zenon, <2>2, <3>1, <4>1, IndexSpelledEnd
    <3>2. CASE k # m + 1
      <4>1. k \in 1..Len(index) /\ k \in Nat
        BY <1>2, <3>2
      <4>2. MovesWithin(s, index, o, k, D, J, E, B)
        BY Zenon, <2>2, <4>1, MoveWithin
      <4>3. PICK l \in 1..(m + 1) : J = o + l /\ Moves(s, index, k, D, l, E, B) /\ Sound(index, l, E)
        BY Zenon, <4>2 DEF MovesWithin
      <4>4. IndexSpelled(s, index, l, E, V)
        BY Zenon, <2>1, <2>2, <4>3
      <4>5. l \in Nat
        BY <1>2
      <4> QED
        BY Zenon, <4>1, <4>3, <4>4, <4>5, IndexSpelledMoves
    <3> QED
      BY <3>1, <3>2
  <2>3. Good(T, I, D, B \o V) /\ B \o V \in Seq(Byte)
    BY Zenon, <2>2, BytesJoin
  <2> HIDE DEF Good
  <2> QED
    BY Zenon, <1>1, <2>3
<1>5. CallsKeep(Q, s)
  <2> SUFFICES ASSUME NEW T \in Seq(Character), NEW base \in Seq(Character),
                      NEW inner \in Seq(Character), NEW I \in Nat, NEW J \in Nat,
                      NEW W \in Seq(Byte), NEW B \in Seq(Byte), NEW V \in Seq(Byte),
                      Calls(T, I, base, inner, J), Spells(s, inner, 1, NoDigits, W),
                      Holds(s, ElementName(base, W), B), <<T, J, NoDigits, V>> \in Q
               PROVE  <<T, I, NoDigits, B \o V>> \in Q
    BY ZenonT(60) DEF CallsKeep
  <2>1. Good(T, J, NoDigits, V)
    BY Zenon, <1>1, NoDigitsScanned
  <2>2. ASSUME T = t, NEW k \in 1..(m + 1), I = o + k, Sound(index, k, NoDigits)
        PROVE  IndexSpelled(s, index, k, NoDigits, B \o V)
    <3>1. k # m + 1
      <4> SUFFICES ASSUME k = m + 1 PROVE FALSE
        OBVIOUS
      <4>1. I = Len(t) /\ Len(t) \in Nat
        BY <2>2, <1>2
      <4> QED
        BY <2>2, <4>1 DEF Calls, Refers
    <3>2. k \in 1..Len(index) /\ k \in Nat
      BY <1>2, <3>1
    <3>3. CallsWithin(index, o, k, base, inner, J)
      BY Zenon, <2>2, <3>2, CallWithin
    <3>4. PICK l \in 1..(m + 1) : J = o + l /\ Calls(index, k, base, inner, l) /\ Sound(index, l, NoDigits)
      BY Zenon, <3>3 DEF CallsWithin
    <3>5. IndexSpelled(s, index, l, NoDigits, V)
      BY Zenon, <2>1, <2>2, <3>4
    <3>6. l \in Nat
      BY <1>2
    <3> QED
      BY Zenon, <3>2, <3>4, <3>5, <3>6, IndexSpelledCalls
  <2>3. Good(T, I, NoDigits, B \o V) /\ B \o V \in Seq(Byte)
    BY Zenon, <2>2, BytesJoin
  <2> HIDE DEF Good
  <2> QED
    BY Zenon, <1>1, <2>3, NoDigitsScanned
<1>6. <<t, o + j, d, v>> \in Q
  BY Zenon, <1>3, <1>4, <1>5, SpelledInduction
<1>7. o + j \in Nat /\ d \in Scanned /\ v \in Seq(Byte)
  BY SpelledSomehow
<1> DEFINE h == o + j
<1>8. Good(t, h, d, v)
  BY Zenon, <1>1, <1>6, <1>7
<1> QED
  BY <1>8

------------------------------------------------------------------------------
(* What stands in a text without a meaning is copied. *)

CopiedUpTo(s, t, k, v) ==
  \E x \in Seq(Byte) : Spells(s, t, k + 1, NoDigits, x) /\ v = SubSeq(t, 1, k) \o x

LEMMA PartGrows ==
  ASSUME NEW t \in Seq(Character), NEW k \in 1..Len(t), NEW x \in Seq(Byte)
  PROVE  SubSeq(t, 1, k - 1) \o (<<t[k]>> \o x) = SubSeq(t, 1, k) \o x
<1> DEFINE a == SubSeq(t, 1, k - 1)
           c == <<t[k]>>
           z == SubSeq(t, 1, k)
<1>1. t \in Seq(Byte) /\ k \in Nat /\ k >= 1 /\ k <= Len(t) /\ Len(t) \in Nat
  BY TextsAreBytes
<1>2. /\ a \in Seq(Byte) /\ c \in Seq(Byte) /\ z \in Seq(Byte)
      /\ Len(a) = k - 1 /\ Len(c) = 1 /\ Len(z) = k
      /\ \A i \in 1..(k - 1) : a[i] = t[i]
      /\ \A i \in 1..k : z[i] = t[i]
      /\ c[1] = t[k]
  BY <1>1
<1> HIDE DEF a, c, z
<1>3. a \o c = z
  <2> DEFINE y == a \o c
  <2>1. /\ y \in Seq(Byte) /\ Len(y) = Len(a) + Len(c)
        /\ \A i \in 1..(Len(a) + Len(c)) : y[i] = IF i <= Len(a) THEN a[i] ELSE c[i - Len(a)]
    BY <1>2, ConcatProperties
  <2> HIDE DEF y
  <2>2. Len(y) = k
    BY <1>1, <1>2, <2>1
  <2>3. ASSUME NEW i \in 1..k PROVE y[i] = z[i]
    <3>1. i \in 1..(Len(a) + Len(c)) /\ (i <= Len(a) => i \in 1..(k - 1))
          /\ (~(i <= Len(a)) => i = k /\ i - Len(a) = 1)
      BY <1>1, <1>2
    <3> QED
      BY <1>2, <2>1, <3>1
  <2> QED
    BY <1>2, <2>1, <2>2, <2>3, SeqEqual DEF y
<1>4. a \o (c \o x) = (a \o c) \o x
  BY <1>2, BytesAssociate
<1> QED
  BY <1>3, <1>4 DEF a, c, z

\* Up to p no character has a meaning: they are spelled as they are.
LEMMA PlainIsCopied ==
  ASSUME NEW s, NEW t \in Seq(Character), NEW p \in 0..Len(t),
         \A k \in 1..p : t[k] \notin {Backslash, Dollar},
         NEW v, Spells(s, t, 1, NoDigits, v)
  PROVE  CopiedUpTo(s, t, p, v)
<1> DEFINE S == {k \in 0..p : CopiedUpTo(s, t, k, v)}
<1>1. p \in Nat /\ Len(t) \in Nat /\ 0 \in Int /\ p \in Int /\ v \in Seq(Byte)
  BY SpelledSomehow
<1>2. 0 \in S
  <2>1. v = SubSeq(t, 1, 0) \o v
    BY <1>1
  <2>2. Spells(s, t, 0 + 1, NoDigits, v)
    OBVIOUS
  <2>3. CopiedUpTo(s, t, 0, v)
    BY Zenon, <1>1, <2>1, <2>2 DEF CopiedUpTo
  <2> QED
    BY <1>1, <2>3
<1>3. \A k \in (0 + 1)..p : k - 1 \in S => k \in S
  <2> TAKE k \in (0 + 1)..p
  <2> HAVE k - 1 \in S
  <2>1. k \in 1..p /\ k \in 1..Len(t) /\ (k - 1) + 1 = k /\ k \in 0..p
    BY <1>1
  <2>2. PICK x \in Seq(Byte) : Spells(s, t, (k - 1) + 1, NoDigits, x) /\ v = SubSeq(t, 1, k - 1) \o x
    BY DEF CopiedUpTo
  <2>3. t[k] # Backslash /\ t[k] # Dollar
    BY <2>1
  <2>4. Copies(t, k, NoDigits, k + 1, NoDigits, <<t[k]>>)
    BY <2>1, <2>3 DEF Copies, Escapes, Refers
  <2>5. Spells(s, t, k, NoDigits, x)
    BY <2>1, <2>2
  <2>6. MovedOn(s, t, k + 1, NoDigits, <<t[k]>>, x)
    BY Zenon, <2>4, <2>5, MoveIsTaken DEF Moves
  <2>7. PICK y \in Seq(Byte) : Spells(s, t, k + 1, NoDigits, y) /\ x = <<t[k]>> \o y
    BY Zenon, <2>6 DEF MovedOn
  <2>8. SubSeq(t, 1, k - 1) \o (<<t[k]>> \o y) = SubSeq(t, 1, k) \o y
    BY <2>1, PartGrows
  <2>9. v = SubSeq(t, 1, k) \o y
    BY Zenon, <2>2, <2>7, <2>8
  <2>10. CopiedUpTo(s, t, k, v)
    BY Zenon, <2>7, <2>9 DEF CopiedUpTo
  <2> QED
    BY <2>1, <2>10
<1> HIDE DEF S
<1>4. \A k \in 0..p : k \in S
  BY <1>1, <1>2, <1>3, BoundedInduction
<1>5. p \in S
  BY <1>1, <1>4
<1> QED
  BY <1>5 DEF S

\* A name that stands for itself
LEMMA PlainSpellsItself ==
  ASSUME NEW s, NEW t \in Seq(Character), \A k \in 1..Len(t) : t[k] \notin {Backslash, Dollar},
         NEW v, Spells(s, t, 1, NoDigits, v)
  PROVE  v = t
<1>1. Len(t) \in 0..Len(t) /\ SubSeq(t, 1, Len(t)) = t
  OBVIOUS
<1>2. CopiedUpTo(s, t, Len(t), v)
  BY <1>1, PlainIsCopied
<1>3. PICK x \in Seq(Byte) : Spells(s, t, Len(t) + 1, NoDigits, x) /\ v = SubSeq(t, 1, Len(t)) \o x
  BY Zenon, <1>2 DEF CopiedUpTo
<1>4. x = <<>>
  BY Zenon, <1>3, EndIsEmpty
<1> QED
  BY <1>1, <1>3, <1>4

------------------------------------------------------------------------------
(* No byte 0 is spelled without a digit 0 behind a backslash. *)

Zero == 48

\* Bytes without a 0 are a C string.
LEMMA WholeString ==
  ASSUME NEW v \in Seq(Character)
  PROVE  CString(v) = v
<1> DEFINE S == {i \in 1..Len(v) : \A j \in 1..i : v[j] # 0}
<1>1. \A i \in 1..Len(v) : v[i] # 0
  <2> TAKE i \in 1..Len(v)
  <2> DEFINE c == v[i]
  <2>1. c \in Character
    OBVIOUS
  <2> HIDE DEF c
  <2>2. c # 0
    BY <2>1 DEF Character
  <2> QED
    BY <2>2 DEF c
<1>2. S = 1..Len(v)
  BY <1>1
<1>3. Cardinality(S) = Len(v)
  <2>1. Len(v) \in Nat
    OBVIOUS
  <2> HIDE DEF S
  <2>2. Cardinality(1..Len(v)) = Len(v)
    BY <2>1, FS_Interval
  <2> QED
    BY <1>2, <2>2
<1>4. CString(v) = SubSeq(v, 1, Len(v))
  BY <1>3 DEF CString
<1> QED
  BY <1>4

LEMMA CharactersJoin ==
  ASSUME NEW a \in Seq(Character), NEW b \in Seq(Character)
  PROVE  a \o b \in Seq(Character)
BY ConcatProperties

\* No codepoint but 0 is encoded with a byte 0.
LEMMA EncodingIsCharacters ==
  ASSUME NEW cp \in Nat, cp > 0
  PROVE  EncodeUtf8(cp) \in Seq(Character)
<1> DEFINE c == IF cp > LastCodepoint \/ cp \in Surrogates THEN Replacement ELSE cp
           T(n) == 128 + (n % 64)
<1>1. c \in Nat /\ c > 0 /\ c <= 1114111
  BY DEF LastCodepoint, Surrogates, Replacement
<1>2. \A n \in Nat : T(n) \in Character
  BY DEF Character
<1> HIDE DEF c
<1>3. CASE c <= 127
  <2>1. EncodeUtf8(cp) = <<c>>
    BY <1>3 DEF EncodeUtf8, c
  <2>2. c \in Character
    BY <1>1, <1>3 DEF Character
  <2> QED
    BY <2>1, <2>2
<1>4. CASE ~(c <= 127) /\ c <= 2047
  <2>1. EncodeUtf8(cp) = <<192 + (c \div 64), T(c)>>
    BY <1>4 DEF EncodeUtf8, c
  <2>2. 192 + (c \div 64) \in Character /\ T(c) \in Character
    BY <1>1, <1>2, <1>4 DEF Character
  <2> HIDE DEF T
  <2> QED
    BY <2>1, <2>2
<1>5. CASE ~(c <= 2047) /\ c <= 65535
  <2>1. EncodeUtf8(cp) = <<224 + (c \div 4096), T(c \div 64), T(c)>>
    BY <1>1, <1>5 DEF EncodeUtf8, c
  <2>2. c \div 64 \in Nat
    BY <1>1
  <2>3. 224 + (c \div 4096) \in Character
    BY <1>1, <1>5 DEF Character
  <2>4. T(c \div 64) \in Character /\ T(c) \in Character
    BY <1>1, <1>2, <2>2
  <2> HIDE DEF T
  <2> QED
    BY <2>1, <2>3, <2>4
<1>6. CASE ~(c <= 65535)
  <2>1. EncodeUtf8(cp) = <<240 + (c \div 262144), T(c \div 4096), T(c \div 64), T(c)>>
    BY <1>1, <1>6 DEF EncodeUtf8, c
  <2>2. c \div 64 \in Nat /\ c \div 4096 \in Nat
    BY <1>1
  <2>3. 240 + (c \div 262144) \in Character
    BY <1>1, <1>6 DEF Character
  <2>4. T(c \div 4096) \in Character /\ T(c \div 64) \in Character /\ T(c) \in Character
    BY <1>1, <1>2, <2>2
  <2> HIDE DEF T
  <2> QED
    BY <2>1, <2>3, <2>4
<1> QED
  BY <1>3, <1>4, <1>5, <1>6

\* Variables that are C strings
StringsHold(s) == \A name \in DOMAIN s : s[name] \in Seq(Character)

\* No escape of the text has a digit 0.
NoZero(t) == \A j, k \in 1..Len(t) : t[j] = Backslash /\ t[k] = Zero => k < j

\* The digits of an escape, if there are some, are not all 0.
Counts(d) == d.count > 0 => d.value > 0

LEMMA CharacterAt ==
  ASSUME NEW t \in Seq(Character), NEW k \in 1..Len(t)
  PROVE  t[k] \in Character /\ t[k] \in Nat
<1> DEFINE c == t[k]
<1>1. c \in Character
  OBVIOUS
<1> HIDE DEF c
<1>2. c \in Nat
  BY <1>1 DEF Character
<1> QED
  BY <1>1, <1>2 DEF c

LEMMA SingleCharacter ==
  ASSUME NEW c \in Character
  PROVE  <<c>> \in Seq(Character)
OBVIOUS

LEMMA NamedIsCharacter ==
  ASSUME NEW c \in Character
  PROVE  Named(c) \in Character
<1>1. Named(c) \in {7, 8, 12, 10, 13, 9, 11, c}
  BY DEF Named
<1> QED
  BY <1>1 DEF Character

LEMMA DigitIsPositive ==
  ASSUME NEW c \in Nat, c # Zero
  PROVE  Digit(c) \in Nat /\ Digit(c) > 0
BY DEF Digit, Zero

LEMMA ScanCounts ==
  ASSUME NEW t \in Seq(Character), NoZero(t), NEW i, NEW d \in Scanned, NEW j, NEW e, NEW b,
         Scans(t, i, d, j, e, b)
  PROVE  Counts(e) /\ b \in Seq(Character)
<1> DEFINE rule == DigitRule(t[i + 1])
           a == DigitsAt(t[i + 1], i)
           p == a + d.count
           x == d.value
<1>1. /\ i \in 1..(Len(t) - 1) /\ TakesDigit(t, a, rule, d) /\ e = TakeDigit(t, a, rule, d) /\ b = <<>>
  BY DEF Scans, Takes, Escapes
<1>2. Len(t) \in Nat /\ i \in Nat /\ d.count \in Nat /\ x \in Nat
  <2>1. Len(t) \in Nat
    OBVIOUS
  <2> QED
    BY <1>1, <2>1 DEF Scanned
<1>3. rule.base \in {8, 16}
  BY DEF DigitRule, Octal, Hex, Unicode, LongUnicode
<1>4. a \in {i + 1, i + 2}
  BY DEF DigitsAt
<1>5. p <= Len(t) /\ i < p
  <2>1. a \in Nat /\ i < a
    BY <1>2, <1>4
  <2> HIDE DEF a
  <2>2. i < p
    BY <1>2, <2>1
  <2> QED
    BY <1>1, <2>2 DEF TakesDigit
<1>6. e.value = x * rule.base + Digit(t[p])
  BY <1>1 DEF TakeDigit
<1> HIDE DEF rule, a, x
<1>7. p \in 1..Len(t)
  <2> DEFINE n == d.count
  <2>1. n \in Nat /\ a + n <= Len(t)
    BY <1>2, <1>5
  <2> HIDE DEF n
  <2>2. a + n \in 1..Len(t)
    BY <1>2, <1>4, <2>1
  <2> QED
    BY <2>2 DEF n
<1> HIDE DEF p
<1> DEFINE y == Digit(t[p])
           base == rule.base
<1>8. y \in Nat /\ y > 0
  <2>1. t[i] = Backslash
    BY DEF Scans, Takes, Escapes
  <2>2. i \in 1..Len(t) /\ ~(p < i)
    <3>1. Len(t) \in Nat
      OBVIOUS
    <3> QED
      BY <1>1, <1>2, <1>5, <1>7, <3>1
  <2>3. t[p] # Zero
    BY <1>7, <2>1, <2>2 DEF NoZero
  <2> QED
    BY <1>7, <2>3, CharacterAt, DigitIsPositive
<1>9. base \in {8, 16} /\ e.value = x * base + y
  BY <1>3, <1>6
<1> HIDE DEF y, base
<1>10. x * base \in Nat
  BY <1>2, <1>9
<1>11. e.value > 0
  BY <1>8, <1>9, <1>10
<1> QED
  BY <1>1, <1>11 DEF Counts

LEMMA DecodedIsCharacters ==
  ASSUME NEW t \in Seq(Character), NEW i, NEW d \in Scanned, Counts(d), NEW j, NEW e, NEW b,
         Decodes(t, i, d, j, e, b)
  PROVE  b \in Seq(Character)
<1>1. i \in 1..(Len(t) - 1) /\ b = Output(t[i + 1], d)
  BY DEF Decodes, Escapes
<1>2. i + 1 \in 1..Len(t)
  <2>1. Len(t) \in Nat
    OBVIOUS
  <2> QED
    BY <1>1, <2>1
<1>3. t[i + 1] \in Character
  BY <1>2, CharacterAt
<1> DEFINE c == t[i + 1]
<1>4. d.count \in Nat /\ d.value \in Nat
  BY DEF Scanned
<1> HIDE DEF c
<1>5. CASE d.count = 0
  <2>1. b = <<Named(c)>>
    BY <1>1, <1>5 DEF Output, c
  <2>2. Named(c) \in Character
    BY <1>3, NamedIsCharacter DEF c
  <2> QED
    BY <2>1, <2>2, SingleCharacter
<1>6. CASE d.count # 0
  <2>1. b = EncodeUtf8(d.value) /\ d.value > 0
    BY <1>1, <1>4, <1>6 DEF Output, Counts
  <2> QED
    BY <1>4, <2>1, EncodingIsCharacters
<1> QED
  BY <1>5, <1>6

LEMMA HeldIsCharacters ==
  ASSUME NEW s, StringsHold(s), NEW name, NEW b, Holds(s, name, b)
  PROVE  b \in Seq(Character)
BY DEF StringsHold, Holds

LEMMA MovesCharacters ==
  ASSUME NEW s, StringsHold(s), NEW t \in Seq(Character), NoZero(t), NEW i, NEW d \in Scanned,
         Counts(d), NEW j, NEW e, NEW b, Moves(s, t, i, d, j, e, b)
  PROVE  Counts(e) /\ b \in Seq(Character)
<1>1. Counts(NoDigits)
  BY DEF Counts, NoDigits
<1>2. CASE Copies(t, i, d, j, e, b)
  <2>1. e = NoDigits /\ b = <<t[i]>> /\ i \in 1..Len(t)
    BY <1>2 DEF Copies
  <2>2. t[i] \in Character
    BY <2>1, CharacterAt
  <2>3. <<t[i]>> \in Seq(Character)
    BY Zenon, <2>2, SingleCharacter
  <2> QED
    BY Zenon, <1>1, <2>1, <2>3
<1>3. CASE Scans(t, i, d, j, e, b)
  BY Zenon, <1>3, ScanCounts
<1>4. CASE Decodes(t, i, d, j, e, b)
  <2>1. e = NoDigits
    BY <1>4 DEF Decodes
  <2> QED
    BY Zenon, <1>1, <1>4, <2>1, DecodedIsCharacters
<1>5. CASE Reads(s, t, i, d, j, e, b)
  <2>1. e = NoDigits /\ (b = <<Dollar>> \/ \E name : Holds(s, name, b))
    BY Zenon, <1>5 DEF Reads
  <2>2. <<Dollar>> \in Seq(Character)
    BY DEF Dollar, Character
  <2> QED
    BY Zenon, <1>1, <2>1, <2>2, HeldIsCharacters
<1> QED
  BY Zenon, <1>2, <1>3, <1>4, <1>5 DEF Moves

\* What such a text spells is a C string.
LEMMA SpelledIsCharacters ==
  ASSUME NEW s, StringsHold(s), NEW t \in Seq(Character), NoZero(t), NEW i, NEW v,
         Spells(s, t, i, NoDigits, v)
  PROVE  v \in Seq(Character)
<1> DEFINE Good(T, I, D, V) == T = t /\ Counts(D) => V \in Seq(Character)
           Q == {p \in Points : Good(p[1], p[2], p[3], p[4])}
<1>1. ASSUME NEW T \in Seq(Character), NEW I \in Nat, NEW D \in Scanned, NEW V \in Seq(Byte)
      PROVE  <<T, I, D, V>> \in Q <=> Good(T, I, D, V)
  <2> DEFINE p == <<T, I, D, V>>
  <2>1. p \in Points /\ p[1] = T /\ p[2] = I /\ p[3] = D /\ p[4] = V
    BY DEF Points
  <2> HIDE DEF p, Good
  <2>2. p \in Q <=> Good(p[1], p[2], p[3], p[4])
    BY Zenon, <2>1
  <2>3. p \in Q <=> Good(T, I, D, V)
    BY Zenon, <2>1, <2>2
  <2> QED
    BY Zenon, <2>3 DEF p
<1> HIDE DEF Q
<1>2. EndsIn(Q)
  <2> SUFFICES ASSUME NEW T \in Seq(Character) PROVE <<T, Len(T) + 1, NoDigits, <<>>>> \in Q
    BY DEF EndsIn
  <2>1. Len(T) + 1 \in Nat
    OBVIOUS
  <2>2. Good(T, Len(T) + 1, NoDigits, <<>>)
    OBVIOUS
  <2> HIDE DEF Good
  <2> QED
    BY Zenon, <2>1, <2>2, <1>1, NoDigitsScanned, EmptyBytes
<1>3. MovesKeep(Q, s)
  <2> SUFFICES ASSUME NEW T \in Seq(Character), NEW I \in Nat, NEW J \in Nat,
                      NEW D \in Scanned, NEW E \in Scanned, NEW B \in Seq(Byte), NEW V \in Seq(Byte),
                      Moves(s, T, I, D, J, E, B), Spells(s, T, J, E, V), <<T, J, E, V>> \in Q
               PROVE  <<T, I, D, B \o V>> \in Q
    BY Zenon DEF MovesKeep
  <2>1. Good(T, J, E, V)
    BY Zenon, <1>1
  <2>2. ASSUME T = t, Counts(D) PROVE B \o V \in Seq(Character)
    <3>1. Counts(E) /\ B \in Seq(Character)
      BY Zenon, <2>2, MovesCharacters
    <3>2. V \in Seq(Character)
      BY Zenon, <2>1, <2>2, <3>1
    <3> QED
      BY Zenon, <3>1, <3>2, CharactersJoin
  <2>3. Good(T, I, D, B \o V) /\ B \o V \in Seq(Byte)
    BY Zenon, <2>2, BytesJoin
  <2> HIDE DEF Good
  <2> QED
    BY Zenon, <1>1, <2>3
<1>4. CallsKeep(Q, s)
  <2> SUFFICES ASSUME NEW T \in Seq(Character), NEW base \in Seq(Character),
                      NEW index \in Seq(Character), NEW I \in Nat, NEW J \in Nat,
                      NEW W \in Seq(Byte), NEW B \in Seq(Byte), NEW V \in Seq(Byte),
                      Calls(T, I, base, index, J), Spells(s, index, 1, NoDigits, W),
                      Holds(s, ElementName(base, W), B), Spells(s, T, J, NoDigits, V),
                      <<T, J, NoDigits, V>> \in Q
               PROVE  <<T, I, NoDigits, B \o V>> \in Q
    BY ZenonT(60) DEF CallsKeep
  <2>1. Good(T, J, NoDigits, V)
    BY Zenon, <1>1, NoDigitsScanned
  <2>2. ASSUME T = t, Counts(NoDigits) PROVE B \o V \in Seq(Character)
    BY Zenon, <2>1, <2>2, HeldIsCharacters, CharactersJoin
  <2>3. Good(T, I, NoDigits, B \o V) /\ B \o V \in Seq(Byte)
    BY Zenon, <2>2, BytesJoin
  <2> HIDE DEF Good
  <2> QED
    BY Zenon, <1>1, <2>3, NoDigitsScanned
<1>5. <<t, i, NoDigits, v>> \in Q
  BY Zenon, <1>2, <1>3, <1>4, SpelledInduction
<1>6. i \in Nat /\ v \in Seq(Byte)
  BY SpelledSomehow
<1>7. Good(t, i, NoDigits, v)
  BY Zenon, <1>1, <1>5, <1>6, NoDigitsScanned
<1>8. Counts(NoDigits)
  BY DEF Counts, NoDigits
<1> QED
  BY <1>7, <1>8

------------------------------------------------------------------------------
(* What is spelled under some variables is spelled under more, and under     *)
(* others when no variable is read.                                          *)

Extends(r, s) == \A name, b : Holds(s, name, b) => Holds(r, name, b)

LEMMA MovesUnderMore ==
  ASSUME NEW r, NEW s, Extends(r, s), NEW t, NEW i, NEW d, NEW j, NEW e, NEW b,
         Moves(s, t, i, d, j, e, b)
  PROVE  Moves(r, t, i, d, j, e, b)
<1>1. Reads(s, t, i, d, j, e, b) => Reads(r, t, i, d, j, e, b)
  BY Zenon DEF Reads, Extends
<1> QED
  BY Zenon, <1>1 DEF Moves

\* Every rule that applies still applies when there are more variables.
LEMMA SpelledUnderMore ==
  ASSUME NEW r, NEW s, Extends(r, s), NEW t, NEW i, NEW d, NEW v, Spells(s, t, i, d, v)
  PROVE  Spells(r, t, i, d, v)
<1> SUFFICES ASSUME NEW R, Closed(R, r) PROVE <<t, i, d, v>> \in R
  BY DEF Spells
<1>1. MovesIn(R, s)
  <2> SUFFICES ASSUME NEW T \in Seq(Character), NEW I \in Nat, NEW J \in Nat,
                      NEW D \in Scanned, NEW E \in Scanned, NEW B \in Seq(Byte), NEW V \in Seq(Byte),
                      Moves(s, T, I, D, J, E, B), <<T, J, E, V>> \in R
               PROVE  <<T, I, D, B \o V>> \in R
    BY Zenon DEF MovesIn
  <2>1. Moves(r, T, I, D, J, E, B)
    BY Zenon, MovesUnderMore
  <2> QED
    BY Zenon, <2>1 DEF Closed, MovesIn
<1>2. CallsIn(R, s)
  <2> SUFFICES ASSUME NEW T \in Seq(Character), NEW base \in Seq(Character),
                      NEW index \in Seq(Character), NEW I \in Nat, NEW J \in Nat,
                      NEW W \in Seq(Byte), NEW B \in Seq(Byte), NEW V \in Seq(Byte),
                      Calls(T, I, base, index, J), <<index, 1, NoDigits, W>> \in R,
                      Holds(s, ElementName(base, W), B), <<T, J, NoDigits, V>> \in R
               PROVE  <<T, I, NoDigits, B \o V>> \in R
    BY Zenon DEF CallsIn
  <2>1. Holds(r, ElementName(base, W), B)
    BY Zenon DEF Extends
  <2>2. CallsIn(R, r)
    BY DEF Closed
  <2> QED
    BY Zenon, <2>1, <2>2 DEF CallsIn
<1> QED
  BY Zenon, <1>1, <1>2 DEF Spells, Closed

HasReference(t) == \E k \in 1..Len(t) : t[k] = Dollar

LEMMA NoneIsReferred ==
  ASSUME NEW t, Len(t) \in Nat, ~HasReference(t), NEW i
  PROVE  ~Refers(t, i)
BY DEF HasReference, Refers

\* Without a dollar no rule asks for a variable.
LEMMA SpelledWithoutReferences ==
  ASSUME NEW r, NEW s, NEW t \in Seq(Character), ~HasReference(t), NEW i, NEW d, NEW v,
         Spells(s, t, i, d, v)
  PROVE  Spells(r, t, i, d, v)
<1> DEFINE Good(T, I, D, V) == T = t => Spells(r, T, I, D, V)
           Q == {p \in Points : Good(p[1], p[2], p[3], p[4])}
<1>1. ASSUME NEW T \in Seq(Character), NEW I \in Nat, NEW D \in Scanned, NEW V \in Seq(Byte)
      PROVE  <<T, I, D, V>> \in Q <=> Good(T, I, D, V)
  <2> DEFINE p == <<T, I, D, V>>
  <2>1. p \in Points /\ p[1] = T /\ p[2] = I /\ p[3] = D /\ p[4] = V
    BY DEF Points
  <2> HIDE DEF p, Good
  <2>2. p \in Q <=> Good(p[1], p[2], p[3], p[4])
    BY Zenon, <2>1
  <2>3. p \in Q <=> Good(T, I, D, V)
    BY Zenon, <2>1, <2>2
  <2> QED
    BY Zenon, <2>3 DEF p
<1> HIDE DEF Q
<1>2. \A I : ~Refers(t, I)
  <2>1. Len(t) \in Nat
    OBVIOUS
  <2> QED
    BY <2>1, NoneIsReferred
<1>3. EndsIn(Q)
  <2> SUFFICES ASSUME NEW T \in Seq(Character) PROVE <<T, Len(T) + 1, NoDigits, <<>>>> \in Q
    BY DEF EndsIn
  <2>1. Len(T) + 1 \in Nat
    OBVIOUS
  <2>2. Good(T, Len(T) + 1, NoDigits, <<>>)
    BY Zenon, EndSpells
  <2> HIDE DEF Good
  <2> QED
    BY Zenon, <2>1, <2>2, <1>1, NoDigitsScanned, EmptyBytes
<1>4. MovesKeep(Q, s)
  <2> SUFFICES ASSUME NEW T \in Seq(Character), NEW I \in Nat, NEW J \in Nat,
                      NEW D \in Scanned, NEW E \in Scanned, NEW B \in Seq(Byte), NEW V \in Seq(Byte),
                      Moves(s, T, I, D, J, E, B), Spells(s, T, J, E, V), <<T, J, E, V>> \in Q
               PROVE  <<T, I, D, B \o V>> \in Q
    BY Zenon DEF MovesKeep
  <2>1. Good(T, J, E, V)
    BY Zenon, <1>1
  <2>2. ASSUME T = t PROVE Spells(r, T, I, D, B \o V)
    <3>1. Moves(r, T, I, D, J, E, B)
      BY Zenon, <1>2, <2>2 DEF Moves, Reads
    <3> QED
      BY Zenon, <2>1, <2>2, <3>1, MoveSpells
  <2>3. Good(T, I, D, B \o V) /\ B \o V \in Seq(Byte)
    BY Zenon, <2>2, BytesJoin
  <2> HIDE DEF Good
  <2> QED
    BY Zenon, <1>1, <2>3
<1>5. CallsKeep(Q, s)
  <2> SUFFICES ASSUME NEW T \in Seq(Character), NEW base \in Seq(Character),
                      NEW index \in Seq(Character), NEW I \in Nat, NEW J \in Nat,
                      NEW W \in Seq(Byte), NEW B \in Seq(Byte), NEW V \in Seq(Byte),
                      Calls(T, I, base, index, J), Spells(s, index, 1, NoDigits, W),
                      Holds(s, ElementName(base, W), B), Spells(s, T, J, NoDigits, V),
                      <<T, J, NoDigits, V>> \in Q
               PROVE  <<T, I, NoDigits, B \o V>> \in Q
    BY ZenonT(60) DEF CallsKeep
  <2>1. T # t
    BY Zenon, <1>2 DEF Calls
  <2>2. Good(T, I, NoDigits, B \o V) /\ B \o V \in Seq(Byte)
    BY Zenon, <2>1, BytesJoin
  <2> HIDE DEF Good
  <2> QED
    BY Zenon, <1>1, <2>2, NoDigitsScanned
<1>6. <<t, i, d, v>> \in Q
  BY Zenon, <1>3, <1>4, <1>5, SpelledInduction
<1>7. i \in Nat /\ d \in Scanned /\ v \in Seq(Byte)
  BY SpelledSomehow
<1>8. Good(t, i, d, v)
  BY Zenon, <1>1, <1>6, <1>7
<1> QED
  BY <1>8

LEMMA UpdatedHolds ==
  ASSUME NEW s, NEW name
  PROVE  Holds(Updated(s, name), name, Value)
BY DEF Holds, Updated

LEMMA UpdatedExtends ==
  ASSUME NEW s, NEW name, name \in DOMAIN s => s[name] = Value
  PROVE  Extends(Updated(s, name), s)
<1> SUFFICES ASSUME NEW n, NEW b, Holds(s, n, b) PROVE Holds(Updated(s, name), n, b)
  BY DEF Extends
<1> QED
  BY DEF Holds, Updated

\* The index spells the same after the variable is set.
LEMMA SpelledUnderUpdated ==
  ASSUME NEW s, NEW name, NEW t \in Seq(Character), NEW i, NEW d, NEW v, Spells(s, t, i, d, v),
         HasReference(t) => (name \in DOMAIN s => s[name] = Value)
  PROVE  Spells(Updated(s, name), t, i, d, v)
BY Zenon, SpelledWithoutReferences, SpelledUnderMore, UpdatedExtends

------------------------------------------------------------------------------
(* A name, and a reference to it *)

LEMMA PlainCharacters ==
  ASSUME NEW t, IsPlain(t), NEW k \in 1..Len(t)
  PROVE  t[k] \notin {Backslash, Dollar, OpenParen, CloseParen, OpenBrace, CloseBrace}
<1>1. t[k] \in NameChars \/ t[k] = Colon
  BY DEF IsPlain
<1>2. \A c \in {Backslash, Dollar, OpenParen, CloseParen, OpenBrace, CloseBrace} :
        c \notin NameChars /\ c # Colon
  BY DEF NameChars, Colon, Backslash, Dollar, OpenParen, CloseParen, OpenBrace, CloseBrace
<1> QED
  BY <1>1, <1>2

Base(t, p) == SubSeq(t, 1, p - 1)
Index(t, p) == SubSeq(t, p + 1, Len(t) - 1)

\* The name of an element whose index begins behind p
ElementAt(t, p) ==
  /\ p \in 1..Len(t) /\ t[p] = OpenParen
  /\ Base(t, p) \in Seq(Character) /\ Len(Base(t, p)) = p - 1
  /\ \A k \in 1..(p - 1) : Base(t, p)[k] = t[k]
  /\ Base(t, p) = <<>> \/ IsPlain(Base(t, p))
  /\ Index(t, p) \in Seq(Character) /\ Len(t) = p + Len(Index(t, p)) + 1
  /\ Enclosed(t, p, Index(t, p)) /\ NoZero(Index(t, p))
  /\ \A k \in 1..p : t[k] \notin {Backslash, Dollar}

\* The base, the index and the parentheses of an element's name
LEMMA ElementParts ==
  ASSUME NEW t \in Seq(Character), IsElement(t)
  PROVE  \E p : ElementAt(t, p)
<1>1. PICK p \in 1..Len(t) :
        /\ t[p] = OpenParen
        /\ p = 1 \/ IsPlain(SubSeq(t, 1, p - 1))
        /\ t[Len(t)] = CloseParen
        /\ IsBalanced(SubSeq(t, p + 1, Len(t) - 1))
        /\ \A j \in 1..Len(t) : t[j] \notin {OpenBrace, CloseBrace}
        /\ \A i, j \in 1..Len(t) : t[i] = Backslash /\ t[j] = 48 => j < i
  BY Zenon DEF IsElement
<1> DEFINE base == SubSeq(t, 1, p - 1)
           index == SubSeq(t, p + 1, Len(t) - 1)
           m == Len(index)
<1>2. OpenParen # CloseParen /\ OpenParen \notin {Backslash, Dollar}
  BY DEF OpenParen, CloseParen, Backslash, Dollar
<1>3. Len(t) \in Nat /\ p \in Nat /\ 1 <= p /\ p <= Len(t) - 1
  <2>1. Len(t) \in Nat
    OBVIOUS
  <2>2. p # Len(t)
    BY <1>1, <1>2
  <2> QED
    BY <2>1, <2>2
<1>4. /\ base \in Seq(Character) /\ Len(base) = p - 1 /\ \A k \in 1..(p - 1) : base[k] = t[k]
  BY <1>3
<1>5. /\ index \in Seq(Character) /\ m = Len(t) - 1 - p /\ m \in Nat
      /\ \A k \in 1..(Len(t) - 1 - p) : index[k] = t[p + k]
  BY <1>3
<1>6. IsBalanced(index) /\ t[Len(t)] = CloseParen /\ t[p] = OpenParen
      /\ \A j \in 1..Len(t) : t[j] \notin {OpenBrace, CloseBrace}
  BY <1>1
<1>7. p = 1 \/ IsPlain(base)
  BY <1>1
<1> HIDE DEF base, index
<1>8. base = <<>> \/ IsPlain(base)
  BY <1>4, <1>7
<1>9. Len(t) = p + m + 1
  BY <1>3, <1>5
<1> HIDE DEF m
<1>10. \A k \in 1..m : index[k] = t[p + k] /\ p + k \in 1..Len(t)
  BY <1>3, <1>5, <1>9
<1>11. Within(t, p, index)
  BY <1>3, <1>5, <1>6, <1>9, <1>10 DEF Within, m
<1>12. Enclosed(t, p, index)
  BY <1>6, <1>10, <1>11 DEF Enclosed, m
<1>13. NoZero(index)
  <2> SUFFICES ASSUME NEW j \in 1..m, NEW k \in 1..m, index[j] = Backslash, index[k] = Zero
               PROVE  k < j
    BY DEF NoZero, m
  <2>1. p + k < p + j
    BY <1>1, <1>10 DEF Zero
  <2> QED
    BY <1>3, <2>1
<1>14. ASSUME NEW k \in 1..p PROVE t[k] \notin {Backslash, Dollar}
  <2>1. CASE k = p
    BY <1>2, <1>6, <2>1
  <2>2. CASE k # p
    <3>1. k \in 1..(p - 1) /\ k \in 1..Len(base) /\ p # 1
      BY <1>3, <1>4, <2>2
    <3>2. base[k] \notin {Backslash, Dollar}
      BY <1>7, <3>1, PlainCharacters
    <3> QED
      BY <1>4, <3>1, <3>2
  <2> QED
    BY <2>1, <2>2
<1>15. ElementAt(t, p)
  <2>1. p \in 1..Len(t)
    OBVIOUS
  <2> QED
    BY <1>4, <1>5, <1>6, <1>8, <1>9, <1>12, <1>13, <1>14, <2>1 DEF ElementAt, Base, Index, base, index, m
<1> QED
  BY <1>15

\* Its name is what the index spells, between the parentheses.
NamedByIndex(s, t, p, name) ==
  \E w \in Seq(Byte) : Spells(s, Index(t, p), 1, NoDigits, w) /\ name = ElementName(Base(t, p), w)

LEMMA ElementIsNamed ==
  ASSUME NEW s, StringsHold(s), NEW t \in Seq(Character), NEW p, ElementAt(t, p),
         NEW v, Spells(s, t, 1, NoDigits, v)
  PROVE  NamedByIndex(s, t, p, CString(v))
<1> DEFINE base == Base(t, p)
           index == Index(t, p)
           open == <<OpenParen>>
           close == <<CloseParen>>
<1>1. /\ p \in 1..Len(t) /\ t[p] = OpenParen /\ base \in Seq(Character) /\ index \in Seq(Character)
      /\ Len(t) = p + Len(index) + 1 /\ Enclosed(t, p, index) /\ NoZero(index)
      /\ \A k \in 1..p : t[k] \notin {Backslash, Dollar}
  BY DEF ElementAt
<1>2. base = SubSeq(t, 1, p - 1)
  BY DEF Base
<1> HIDE DEF base, index
<1>3. p \in 0..Len(t) /\ p \in Nat
  BY <1>1
<1>4. PICK x \in Seq(Byte) : Spells(s, t, p + 1, NoDigits, x) /\ v = SubSeq(t, 1, p) \o x
  <2>1. CopiedUpTo(s, t, p, v)
    BY Zenon, <1>1, <1>3, PlainIsCopied
  <2> QED
    BY Zenon, <2>1 DEF CopiedUpTo
<1>5. IndexSpelled(s, index, 1, NoDigits, x)
  <2>1. ~SteppedOver(index, 1, 1)
    BY SteppedFirst
  <2>2. Sound(index, 1, NoDigits)
    BY Zenon, <2>1, SoundPlain
  <2>3. 1 \in 1..(Len(index) + 1)
    BY <1>1
  <2> QED
    BY Zenon, <1>1, <1>3, <1>4, <2>2, <2>3, IndexSpells
<1>6. PICK w \in Seq(Byte) : Spells(s, index, 1, NoDigits, w) /\ x = w \o close
  BY Zenon, <1>5 DEF IndexSpelled
<1>7. w \in Seq(Character)
  BY Zenon, <1>1, <1>6, SpelledIsCharacters
<1>8. open \in Seq(Character) /\ close \in Seq(Character)
  BY DEF OpenParen, CloseParen, Character
<1> HIDE DEF open, close
<1>9. SubSeq(t, 1, p) = base \o open
  <2>1. open = <<t[p]>>
    BY <1>1 DEF open
  <2>2. base \o (open \o <<>>) = SubSeq(t, 1, p) \o <<>>
    BY <1>1, <1>2, <2>1, EmptyBytes, PartGrows
  <2>3. SubSeq(t, 1, p) \in Seq(Character)
    BY <1>1, <1>3
  <2> QED
    BY <1>1, <1>8, <2>2, <2>3
<1>10. v = ((base \o open) \o w) \o close
  <2>1. v = (base \o open) \o (w \o close)
    BY Zenon, <1>4, <1>6, <1>9
  <2>2. base \o open \in Seq(Byte) /\ w \in Seq(Byte) /\ close \in Seq(Byte)
    BY <1>1, <1>8, CharactersJoin, TextsAreBytes
  <2> QED
    BY Zenon, <2>1, <2>2, BytesAssociate
<1>11. v \in Seq(Character)
  BY Zenon, <1>1, <1>7, <1>8, <1>10, CharactersJoin
<1>12. CString(v) = v /\ CString(w) = w
  BY Zenon, <1>7, <1>11, WholeString
<1>13. CString(v) = ElementName(base, w)
  BY Zenon, <1>10, <1>12 DEF ElementName, open, close
<1> QED
  BY Zenon, <1>6, <1>13 DEF NamedByIndex, base, index

\* A text behind a dollar
Referring(t) == <<Dollar>> \o t

LEMMA ReferringIs ==
  ASSUME NEW t \in Seq(Character)
  PROVE  /\ Referring(t) \in Seq(Character) /\ Len(Referring(t)) = Len(t) + 1
         /\ Referring(t)[1] = Dollar /\ \A k \in 1..Len(t) : Referring(t)[k + 1] = t[k]
<1>1. <<Dollar>> \in Seq(Character)
  BY DEF Dollar, Character
<1>2. Len(<<Dollar>>) = 1 /\ <<Dollar>>[1] = Dollar
  OBVIOUS
<1> DEFINE a == <<Dollar>>
           y == a \o t
<1> HIDE DEF a
<1>3. /\ y \in Seq(Character) /\ Len(y) = Len(a) + Len(t)
      /\ \A i \in 1..(Len(a) + Len(t)) : y[i] = IF i <= Len(a) THEN a[i] ELSE t[i - Len(a)]
  BY <1>1, ConcatProperties DEF a
<1>4. y = Referring(t)
  BY DEF Referring, a
<1>5. Len(a) = 1 /\ a[1] = Dollar /\ Len(t) \in Nat
  BY <1>2 DEF a
<1> HIDE DEF y
<1>6. y[1] = Dollar /\ Len(y) = Len(t) + 1
  BY <1>3, <1>5
<1>7. ASSUME NEW k \in 1..Len(t) PROVE y[k + 1] = t[k]
  <2>1. k + 1 \in 1..(Len(a) + Len(t)) /\ ~(k + 1 <= Len(a)) /\ (k + 1) - Len(a) = k
    BY <1>5
  <2> QED
    BY <1>3, <2>1
<1> QED
  BY <1>3, <1>4, <1>6, <1>7

\* A reference to a plain name reads that variable.
LEMMA PlainIsRead ==
  ASSUME NEW s, NEW t \in Seq(Character), IsPlain(t), NEW b \in Seq(Byte), Holds(s, t, b)
  PROVE  Spells(s, Referring(t), 1, NoDigits, b)
<1> DEFINE u == Referring(t)
           e == Len(u) + 1
<1>1. /\ u \in Seq(Character) /\ Len(u) = Len(t) + 1 /\ u[1] = Dollar
      /\ \A k \in 1..Len(t) : u[k + 1] = t[k]
  BY ReferringIs
<1> HIDE DEF u
<1>2. t # <<>> /\ Len(t) \in Nat /\ Len(t) >= 1 /\ 1 \in 1..Len(t)
  BY DEF IsPlain
<1>3. NameEnd(u, 2) = Len(t) + 2
  <2>1. Len(u) >= Len(t) + 1 /\ ~(Len(u) > Len(t) + 1)
    BY <1>1, <1>2
  <2> QED
    BY <1>1, <2>1, PlainNameEnds
<1>4. NameEnd(u, 1 + 1) = e /\ ~Has(u, e, {OpenParen}) /\ e \in Nat
  <2>1. e = Len(t) + 2 /\ ~(e <= Len(u)) /\ e \in Nat
    BY <1>1, <1>2
  <2> QED
    BY <1>3, <2>1 DEF Has
<1>5. SubSeq(u, 1 + 1, e - 1) = t
  <2>1. SubSeq(u, 2, Len(t) + 1) = t
    BY <1>1, <1>2
  <2>2. e - 1 = Len(t) + 1
    BY <1>1, <1>2
  <2> QED
    BY <2>1, <2>2
<1>6. u[1 + 1] # OpenBrace
  <2>1. u[1 + 1] = t[1]
    BY <1>1, <1>2
  <2> QED
    BY <1>2, <2>1, PlainCharacters
<1>7. Refers(u, 1)
  BY <1>1, <1>2 DEF Refers
<1> HIDE DEF e
<1>8. Names(u, 1, t, e)
  BY Zenon, <1>4, <1>5, <1>6 DEF Names
<1>9. Moves(s, u, 1, NoDigits, e, NoDigits, b)
  BY Zenon, <1>2, <1>7, <1>8 DEF Moves, Reads
<1>10. Spells(s, u, e, NoDigits, <<>>)
  BY Zenon, <1>1, EndSpells DEF e
<1>11. Spells(s, u, 1, NoDigits, b \o <<>>)
  BY Zenon, <1>1, <1>4, <1>9, <1>10, MoveSpells, NoDigitsScanned, EmptyBytes, 1 \in Nat
<1>12. b \o <<>> = b
  OBVIOUS
<1> QED
  BY Zenon, <1>11, <1>12 DEF u

\* A reference to an element reads the one that its index spells.
LEMMA ElementIsRead ==
  ASSUME NEW s, NEW t \in Seq(Character), NEW p, ElementAt(t, p), NEW w \in Seq(Byte),
         Spells(s, Index(t, p), 1, NoDigits, w), NEW b \in Seq(Byte),
         Holds(s, ElementName(Base(t, p), w), b)
  PROVE  Spells(s, Referring(t), 1, NoDigits, b)
<1> DEFINE base == Base(t, p)
           index == Index(t, p)
           u == Referring(t)
           m == Len(index)
           o == p + 1
           e == Len(u) + 1
<1>1. /\ p \in 1..Len(t) /\ t[p] = OpenParen
      /\ base \in Seq(Character) /\ Len(base) = p - 1 /\ \A k \in 1..(p - 1) : base[k] = t[k]
      /\ base = <<>> \/ IsPlain(base)
      /\ index \in Seq(Character) /\ Len(t) = p + m + 1 /\ Enclosed(t, p, index)
  BY DEF ElementAt
<1>2. /\ u \in Seq(Character) /\ Len(u) = Len(t) + 1 /\ u[1] = Dollar
      /\ \A k \in 1..Len(t) : u[k + 1] = t[k]
  BY ReferringIs
<1> HIDE DEF base, index, u
<1>3. p \in Nat /\ p >= 1 /\ Len(t) \in Nat /\ m \in Nat /\ p <= Len(t)
  BY <1>1
<1>4. t[Len(t)] = CloseParen /\ \A k \in 1..m : t[p + k] = index[k]
  <2>1. t[p + Len(index) + 1] = CloseParen /\ \A k \in 1..Len(index) : t[p + k] = index[k]
    BY <1>1, <1>3, EnclosedFacts
  <2> QED
    BY <1>1, <2>1
<1> HIDE DEF m
<1>5. Within(u, o, index)
  <2>1. Len(u) > o + m
    BY <1>1, <1>2, <1>3
  <2>2. o + m + 1 = Len(t) + 1 /\ Len(t) \in 1..Len(t)
    BY <1>1, <1>3
  <2>3. u[o + m + 1] = CloseParen
    BY <1>2, <1>4, <2>2
  <2>4. ASSUME NEW k \in 1..m PROVE u[o + k] = index[k]
    <3>1. o + k = (p + k) + 1 /\ p + k \in 1..Len(t)
      BY <1>1, <1>3
    <3> QED
      BY <1>2, <1>4, <3>1
  <2> QED
    BY <2>1, <2>3, <2>4 DEF Within, m
<1>6. \A k \in 1..(p - 1) : u[k + 1] = base[k]
  <2> TAKE k \in 1..(p - 1)
  <2>1. k \in 1..Len(t)
    BY <1>1, <1>3
  <2> QED
    BY <1>1, <1>2, <2>1
<1>7. NameEnd(u, 2) = o
  <2>1. Len(u) >= Len(base) + 1 /\ Len(base) + 2 = p + 1
    BY <1>1, <1>2, <1>3
  <2>2. u[Len(base) + 2] = OpenParen
    BY <1>1, <1>2, <2>1
  <2>3. \A k \in 1..Len(base) : u[k + 1] = base[k]
    BY <1>1, <1>6
  <2>4. NameEnd(u, 2) = Len(base) + 2
    BY <1>1, <1>2, <2>1, <2>2, <2>3, PlainNameEnds
  <2> QED
    BY <2>1, <2>4
<1>8. Has(u, o, {OpenParen})
  <2>1. u[o] = OpenParen /\ o <= Len(u)
    BY <1>1, <1>2, <1>3
  <2> QED
    BY <2>1 DEF Has
<1>9. IndexEnd(u, o + 1) = Len(u)
  <2>1. o \in Nat /\ o + m + 1 = Len(u)
    BY <1>1, <1>2, <1>3
  <2>2. IsBalanced(index)
    BY <1>1 DEF Enclosed
  <2> HIDE DEF o
  <2>3. IndexEnd(u, o + 1) = o + Len(index) + 1
    BY Zenon, <1>1, <1>2, <1>5, <2>1, <2>2, OuterEnd
  <2> QED
    BY <2>1, <2>3 DEF m
<1>10. SubSeq(u, 2, o - 1) = base
  <2> DEFINE x == SubSeq(u, 2, p)
  <2>1. x \in Seq(Character) /\ Len(x) = p - 1 /\ \A k \in 1..(p - 1) : x[k] = u[k + 1]
    BY <1>1, <1>2, <1>3
  <2> HIDE DEF x
  <2>2. x = base
    BY <1>1, <1>6, <2>1, SeqEqual
  <2>3. o - 1 = p
    BY <1>3
  <2> QED
    BY <2>2, <2>3 DEF x
<1>11. SubSeq(u, o + 1, Len(u) - 1) = index
  <2>1. o \in Nat /\ Len(u) - 1 = o + m
    BY <1>1, <1>2, <1>3
  <2>2. 1 \in 1..(Len(index) + 1) /\ Len(index) \in (1 - 1)..Len(index)
    BY <1>3 DEF m
  <2> HIDE DEF o
  <2>3. SubSeq(u, o + 1, o + Len(index)) = SubSeq(index, 1, Len(index))
    BY <1>1, <1>2, <1>5, <2>1, <2>2, PartWithin
  <2>4. SubSeq(index, 1, Len(index)) = index
    BY <1>1
  <2> QED
    BY <2>1, <2>3, <2>4 DEF m
<1>12. Refers(u, 1)
  BY <1>1, <1>2, <1>3 DEF Refers
<1>13. u[2] # OpenBrace
  <2>1. u[2] = t[1]
    BY <1>2, <1>3
  <2>2. CASE p = 1
    BY <1>1, <2>1, <2>2 DEF OpenParen, OpenBrace
  <2>3. CASE p # 1
    <3>1. 1 \in 1..Len(base) /\ IsPlain(base) /\ base[1] = t[1]
      BY <1>1, <1>3, <2>3
    <3> QED
      BY <2>1, <3>1, PlainCharacters
  <2> QED
    BY <2>2, <2>3
<1>14. Calls(u, 1, base, index, e)
  <2>1. 1 + 1 = 2 /\ Len(u) <= Len(u)
    BY <1>2, <1>3
  <2> HIDE DEF o
  <2> QED
    BY Zenon, <1>7, <1>8, <1>9, <1>10, <1>11, <1>12, <1>13, <2>1 DEF Calls, e
<1>15. Spells(s, u, e, NoDigits, <<>>)
  BY Zenon, <1>2, EndSpells DEF e
<1>16. e \in Nat /\ 1 \in Nat
  BY <1>2, <1>3
<1> HIDE DEF e
<1>17. Spells(s, index, 1, NoDigits, w) /\ Holds(s, ElementName(base, w), b)
  BY DEF index, base
<1>18. Spells(s, u, 1, NoDigits, b \o <<>>)
  BY ZenonT(60), <1>1, <1>2, <1>14, <1>15, <1>16, <1>17, CallSpells, EmptyBytes
<1>19. b \o <<>> = b
  OBVIOUS
<1> QED
  BY Zenon, <1>18, <1>19 DEF u

\* A reference to a name reads what is stored under what the name spells.
LEMMA NameIsRead ==
  ASSUME NEW s, StringsHold(s), NEW t \in Seq(Character), IsPlain(t) \/ IsElement(t),
         NEW v, Spells(s, t, 1, NoDigits, v),
         HasReference(t) => (CString(v) \in DOMAIN s => s[CString(v)] = Value)
  PROVE  Spells(Updated(s, CString(v)), Referring(t), 1, NoDigits, Value)
<1> DEFINE r == Updated(s, CString(v))
<1>1. Holds(r, CString(v), Value)
  BY Zenon, UpdatedHolds
<1>2. Value \in Seq(Byte) /\ t \in Seq(Byte)
  BY TextsAreBytes, ValueAssumption
<1>3. CASE IsPlain(t)
  <2>1. \A k \in 1..Len(t) : t[k] \notin {Backslash, Dollar}
    BY <1>3, PlainCharacters
  <2>2. v = t
    BY Zenon, <2>1, PlainSpellsItself
  <2>3. CString(t) = t
    BY Zenon, WholeString
  <2> QED
    BY Zenon, <1>1, <1>2, <1>3, <2>2, <2>3, PlainIsRead
<1>4. CASE IsElement(t)
  <2>1. PICK p : ElementAt(t, p)
    BY Zenon, <1>4, ElementParts
  <2>2. NamedByIndex(s, t, p, CString(v))
    BY Zenon, <2>1, ElementIsNamed
  <2>3. PICK w \in Seq(Byte) :
          Spells(s, Index(t, p), 1, NoDigits, w) /\ CString(v) = ElementName(Base(t, p), w)
    BY Zenon, <2>2 DEF NamedByIndex
  <2>4. HasReference(Index(t, p)) => HasReference(t)
    <3> HAVE HasReference(Index(t, p))
    <3>1. PICK k \in 1..Len(Index(t, p)) : Index(t, p)[k] = Dollar
      BY DEF HasReference
    <3>2. /\ p \in 1..Len(t) /\ Len(t) = p + Len(Index(t, p)) + 1 /\ Index(t, p) \in Seq(Character)
          /\ t[p + k] = Index(t, p)[k]
      BY <2>1 DEF ElementAt, Enclosed, Within
    <3>3. p + k \in 1..Len(t)
      <4>1. Len(Index(t, p)) \in Nat /\ Len(t) \in Nat
        BY <3>2
      <4> QED
        BY <3>2, <4>1
    <3> QED
      BY <3>1, <3>2, <3>3 DEF HasReference
  <2>5. Index(t, p) \in Seq(Character)
    BY <2>1 DEF ElementAt
  <2>6. Spells(r, Index(t, p), 1, NoDigits, w)
    BY Zenon, <2>3, <2>4, <2>5, SpelledUnderUpdated
  <2>7. Holds(r, ElementName(Base(t, p), w), Value)
    BY Zenon, <1>1, <2>3
  <2> HIDE DEF r
  <2>8. Spells(r, Referring(t), 1, NoDigits, Value)
    BY Zenon, <1>2, <2>1, <2>6, <2>7, ElementIsRead
  <2> QED
    BY <2>8 DEF r
<1> QED
  BY <1>3, <1>4

LEMMA StoredStrings == StringsHold(Stored)
BY StoredAssumption DEF StringsHold

\* The second word means the value that is stored under what the first one means.
LEMMA ReferenceMeans ==
  ASSUME NEW word \in Word, NEW reference \in Word, RefersTo(word, reference), NEW name,
         Means(Stored, word, name),
         word.kind = "string" /\ HasReference(word.text)
           => (name \in DOMAIN Stored => Stored[name] = Value)
  PROVE  Means(Updated(Stored, name), reference, Value)
<1>1. CASE word.kind = "braced" /\ reference.kind = "varBraced" /\ reference.text = word.text
  <2>1. name = word.text
    BY <1>1 DEF Means, TextKinds
  <2>2. Holds(Updated(Stored, name), reference.text, Value)
    BY <1>1, <2>1, UpdatedHolds
  <2> QED
    BY <1>1, <2>2 DEF Means
<1>2. CASE /\ word.kind = "string"
           /\ IsPlain(word.text) \/ IsElement(word.text)
           /\ \/ reference.kind = "var" /\ reference.text = word.text
              \/ reference.kind \in {"string", "quoted"} /\ reference.text = <<Dollar>> \o word.text
  <2> DEFINE t == word.text
  <2>1. t \in Seq(Character) /\ (IsPlain(t) \/ IsElement(t))
    BY <1>2 DEF Word
  <2>2. word.kind \in TextKinds /\ TextOf(word) = t
    BY <1>2 DEF TextKinds, TextOf
  <2>3. reference.kind \in TextKinds /\ TextOf(reference) = Referring(t)
    BY <1>2 DEF TextKinds, TextOf, Referring
  <2>4. PICK v \in Seq(Byte) : Spells(Stored, t, 1, NoDigits, v) /\ name = CString(v)
    BY <2>2, MeansByText
  <2> HIDE DEF t
  <2>5. HasReference(t) => (name \in DOMAIN Stored => Stored[name] = Value)
    BY <1>2 DEF t
  <2>6. Spells(Updated(Stored, name), Referring(t), 1, NoDigits, Value)
    BY Zenon, <2>1, <2>4, <2>5, StoredStrings, NameIsRead
  <2>7. Value \in Seq(Byte) /\ CString(Value) = Value
    BY TextsAreBytes, ValueAssumption, WholeString
  <2>8. \E x \in Seq(Byte) :
          Spells(Updated(Stored, name), TextOf(reference), 1, NoDigits, x) /\ Value = CString(x)
    BY Zenon, <2>3, <2>6, <2>7
  <2> QED
    BY Zenon, <2>3, <2>8 DEF Means
<1> QED
  BY <1>1, <1>2 DEF RefersTo

------------------------------------------------------------------------------
\* When the first word has a value, the second one is evaluated before the end.
ReadIsEvaluated ==
  phase = "done" /\ outcomes["set"].verdict = "ok" => outcomes["read"].verdict # "pending"

LEMMA InitReads == Init => ReadIsEvaluated
BY DEF Init, ReadIsEvaluated

\* Every step keeps that.
LEMMA NextReads ==
  ASSUME IInv, TextHolds, ReadIsEvaluated, [Next]_vars
  PROVE  ReadIsEvaluated'
<1>1. phase \in Phases \union {"done"} /\ outcomes \in [Phases -> Outcome]
  BY DEF IInv, OthersHold
<1>2. ASSUME NEW bytes, Finish(bytes), phase \in Phases PROVE ReadIsEvaluated'
  <2>1. CASE phase = "set"
    BY <1>2, <2>1 DEF Finish, ReadIsEvaluated
  <2>2. CASE phase = "read"
    BY <1>1, <1>2, <2>2, PhaseFacts DEF Finish, ReadIsEvaluated
  <2> QED
    BY <1>2, <2>1, <2>2, PhaseFacts
<1>3. ASSUME NEW verdict, Fail(verdict), phase \in Phases, verdict \notin {"ok", "pending"}
      PROVE  ReadIsEvaluated'
  <2> DEFINE o == [verdict |-> verdict, value |-> <<>>]
  <2>1. outcomes' = [outcomes EXCEPT ![phase] = o] /\ o.verdict = verdict
    BY <1>3 DEF Fail
  <2> HIDE DEF o
  <2>2. CASE phase = "set"
    BY <1>1, <1>3, <2>1, <2>2, PhaseFacts DEF ReadIsEvaluated
  <2>3. CASE phase = "read"
    BY <1>1, <1>3, <2>1, <2>3, PhaseFacts DEF ReadIsEvaluated
  <2> QED
    BY <1>3, <2>2, <2>3, PhaseFacts
<1>4. ASSUME SameWord PROVE ReadIsEvaluated'
  BY <1>4 DEF SameWord, ReadIsEvaluated
<1>5. CASE UNCHANGED vars
  BY <1>5 DEF vars, ReadIsEvaluated
<1>6. CASE Next /\ phase # "done"
  <2>1. phase \in Phases
    BY <1>1, <1>6
  <2>2. SameWord \/ (\E bytes : Finish(bytes))
          \/ (\E verdict : Fail(verdict) /\ verdict \notin {"ok", "pending"})
    BY <1>6 DEF Next, CopyBraced, ReadBraced, BeginText, CopyCharacter, CopyLast, BeginEscape, ScanDigit,
       EndEscape, BracedReference, NamedReference, ElementReference, Substitute, EndIndex, EndText,
       OutOfMemory, Done, SameWord
  <2> QED
    BY Zenon, <1>2, <1>3, <1>4, <2>1, <2>2
<1>7. CASE Next /\ phase = "done"
  <2>1. frames = <<>>
    BY <1>7, PhaseFacts DEF TextHolds
  <2>2. ~scanning
    BY <2>1 DEF IInv, EscapeBounded
  <2>3. Done
    BY <1>7, <2>1, <2>2 DEF Next, CopyBraced, ReadBraced, BeginText, CopyCharacter, CopyLast, BeginEscape,
       ScanDigit, EndEscape, BracedReference, NamedReference, ElementReference, EndIndex, EndText,
       OutOfMemory, Called, AtReference, AtEnd, At, Resolving
  <2> QED
    BY <1>5, <2>3 DEF Done
<1> QED
  BY <1>5, <1>6, <1>7

\* Together they give the property.
LEMMA ReadsAsSet ==
  ASSUME IInv, OutcomesHold, ReadIsEvaluated
  PROVE  ReadsWhatWasSet
<1> SUFFICES ASSUME phase = "done", outcomes["set"].verdict = "ok", outcomes["read"].verdict # "system",
                    RefersTo(test["set"], test["read"]), ~ChangesItsName
             PROVE  outcomes["read"] = [verdict |-> "ok", value |-> Value]
  BY DEF ReadsWhatWasSet
<1> DEFINE name == outcomes["set"].value
<1>1. test["set"] \in Word /\ test["read"] \in Word /\ outcomes["read"] \in Outcome
  BY PhaseFacts DEF IInv, OthersHold
<1>2. /\ \A value : Means(Stored, test["set"], value) <=> value = outcomes["set"].value
      /\ store = Updated(Stored, name)
  BY PhaseFacts DEF OutcomesHold, EvaluatedAsMeant, StoreOf
<1>3. Means(Stored, test["set"], name)
  BY <1>2
<1>4. test["set"].kind = "string" /\ HasReference(test["set"].text)
        => (name \in DOMAIN Stored => Stored[name] = Value)
  BY DEF ChangesItsName, HasReference
<1>5. Means(store, test["read"], Value)
  BY Zenon, <1>1, <1>2, <1>3, <1>4, ReferenceMeans
<1>6. StoreOf("read") = store
  BY PhaseFacts DEF StoreOf
<1>7. outcomes["read"].verdict = "ok"
  <2>1. outcomes["read"].verdict \notin {"semantic", "syntax"}
    BY <1>5, <1>6, PhaseFacts DEF OutcomesHold, EvaluatedAsMeant
  <2>2. outcomes["read"].verdict # "pending"
    BY DEF ReadIsEvaluated
  <2> QED
    BY <1>1, <2>1, <2>2 DEF Outcome, Verdicts
<1>8. Value = outcomes["read"].value
  BY <1>5, <1>6, <1>7, PhaseFacts DEF OutcomesHold, EvaluatedAsMeant
<1> QED
  BY <1>1, <1>7, <1>8 DEF Outcome

\* What "set a(index) value" stores, $a(index) reads, as it is, whatever the index is
\* made of: the two get the name by different code (evaluate_word of the whole word, and
\* resolve_string_text called for the index alone), but to the same bytes.
THEOREM ReferencesReadWhatWasSet == Spec => []ReadsWhatWasSet
<1>1. Init => IInv /\ OutcomesHold /\ TextHolds /\ ReadIsEvaluated
  BY InitIInv, InitAsMeant, InitReads
<1>2. /\ IInv /\ OutcomesHold /\ TextHolds /\ ReadIsEvaluated /\ [Next]_vars
      => (IInv /\ OutcomesHold /\ TextHolds /\ ReadIsEvaluated)'
  BY NextKeepsIInv, NextAsMeant, NextReads
<1>3. IInv /\ OutcomesHold /\ ReadIsEvaluated => ReadsWhatWasSet
  BY ReadsAsSet
<1> QED
  BY <1>1, <1>2, <1>3, PTL DEF Spec

==============================================================================
