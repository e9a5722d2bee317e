------------------------------ MODULE LexerProofs ------------------------------
(* What holds of the lexer for every text, whatever its length and characters.   *)
EXTENDS Lexer, SequenceLemmas, FiniteSetTheorems

-------------------------------------------------------------------------------
(* Recursion that goes forward through the text.                               *)

\* A function on the places of a text from one on, each of which takes its value
\* from a later one or has one of its own.
IsForward(f, from, E, next, stop) ==
    f = [p \in from..E |-> IF next[p] = 0 THEN stop[p] ELSE f[next[p]]]

(* There is such a function.                                                    *)
LEMMA ForwardRecursion ==
    ASSUME NEW E \in Nat \ {0}, NEW next, NEW stop,
           \A p \in 1..E : next[p] = 0 \/ next[p] \in (p + 1)..E
    PROVE  \E f : IsForward(f, 1, E, next, stop)
<1> DEFINE stuck == {d \in 0..(E - 1) : ~\E f : IsForward(f, E - d, E, next, stop)}
<1>1. CASE stuck = {}
  <2>1. E - 1 \in 0..(E - 1) /\ E - (E - 1) = 1
    OBVIOUS
  <2> QED
    BY <1>1, <2>1
<1>2. CASE stuck # {}
  <2>1. PICK first \in stuck : \A d \in stuck : first <= d
    <3>1. stuck \subseteq Nat
      OBVIOUS
    <3> HIDE DEF stuck
    <3> QED
      BY <1>2, <3>1, MinIsFirst
  <2>2. PICK p : p = E - first
    OBVIOUS
  <2>3. first \in 0..(E - 1) /\ p \in 1..E
    BY <2>1, <2>2
  <2>4. PICK old : first # 0 => IsForward(old, E - (first - 1), E, next, stop)
    <3>1. CASE first = 0
      BY <3>1
    <3>2. CASE first # 0
      <4>1. first - 1 \in 0..(E - 1) /\ first - 1 \notin stuck
        BY <2>1, <2>3, <3>2
      <4> QED
        BY <4>1
    <3> QED
      BY <3>1, <3>2
  <2>5. PICK f : f = [q \in p..E |->
            IF q = p THEN IF next[p] = 0 THEN stop[p] ELSE old[next[p]] ELSE old[q]]
    OBVIOUS
  <2>6. ASSUME NEW q \in p..E
        PROVE  f[q] = IF next[q] = 0 THEN stop[q] ELSE f[next[q]]
    <3>1. next[q] = 0 \/ next[q] \in (q + 1)..E
      BY <2>3
    <3>2. CASE q = p
      BY <2>3, <2>5, <3>1, <3>2
    <3>3. CASE q # p
      <4>1. first # 0 /\ q \in (E - (first - 1))..E
        BY <2>2, <2>3, <3>3
      <4>2. old[q] = IF next[q] = 0 THEN stop[q] ELSE old[next[q]]
        BY <2>4, <4>1 DEF IsForward
      <4>3. next[q] # 0 => next[q] \in p..E /\ next[q] # p
        BY <2>3, <3>1
      <4> QED
        BY <2>5, <3>3, <4>2, <4>3
    <3> QED
      BY <3>2, <3>3
  <2>7. f = [q \in p..E |-> IF next[q] = 0 THEN stop[q] ELSE f[next[q]]]
    BY <2>5, <2>6
  <2>8. IsForward(f, E - first, E, next, stop)
    BY <2>2, <2>7 DEF IsForward
  <2> QED
    BY <2>1, <2>8
<1> QED
  BY <1>1, <1>2

(* What it yields is no earlier than the place it is asked for, and in the text. *)
LEMMA ForwardRange ==
    ASSUME NEW E \in Nat \ {0}, NEW next, NEW stop, NEW f,
           \A p \in 1..E : next[p] = 0 \/ next[p] \in (p + 1)..E,
           \A p \in 1..E : next[p] = 0 => stop[p] \in p..E,
           IsForward(f, 1, E, next, stop)
    PROVE  \A p \in 1..E : f[p] \in p..E
<1> DEFINE wrong == {d \in 0..(E - 1) : f[E - d] \notin (E - d)..E}
<1>1. wrong = {}
  <2> SUFFICES ASSUME wrong # {} PROVE FALSE
    OBVIOUS
  <2>1. PICK first \in wrong : \A d \in wrong : first <= d
    <3>1. wrong \subseteq Nat
      OBVIOUS
    <3> HIDE DEF wrong
    <3> QED
      BY <3>1, MinIsFirst
  <2>2. PICK p : p = E - first
    OBVIOUS
  <2>3. first \in 0..(E - 1) /\ p \in 1..E /\ f[p] \notin p..E
    BY <2>1, <2>2
  <2>4. f[p] = IF next[p] = 0 THEN stop[p] ELSE f[next[p]]
    BY <2>3 DEF IsForward
  <2>5. next[p] # 0
    BY <2>3, <2>4
  <2>6. next[p] \in (p + 1)..E /\ f[p] = f[next[p]]
    BY <2>3, <2>4, <2>5
  <2>7. PICK q : q = next[p]
    OBVIOUS
  <2>8. PICK d : d = E - q
    OBVIOUS
  <2>9. d \in 0..(E - 1) /\ d < first /\ E - d = q
    BY <2>2, <2>3, <2>6, <2>7, <2>8
  <2>10. d \notin wrong
    <3>1. first \in Int /\ d \in Int /\ ~(first <= d)
      BY <2>3, <2>9
    <3> HIDE DEF wrong
    <3> QED
      BY <2>1, <3>1
  <2>11. f[q] \in q..E
    BY <2>9, <2>10
  <2> QED
    BY <2>3, <2>6, <2>7, <2>11
<1>2. ASSUME NEW p \in 1..E PROVE f[p] \in p..E
  <2>1. E - p \in 0..(E - 1) /\ E - (E - p) = p
    OBVIOUS
  <2> QED
    BY <1>1, <2>1
<1> QED
  BY <1>2

-------------------------------------------------------------------------------
(* Where what begins somewhere ends.                                            *)

(* Places in the text and what stands between two of them.                      *)
LEMMA TextTyped ==
    ASSUME source \in Seq(UNION Alphabets)
    PROVE  /\ Len(source) \in Nat /\ SourceEnd \in Nat \ {0}
           /\ DOMAIN source = 1..Len(source)
           /\ \A i \in 1..SourceEnd : \A j \in i..SourceEnd : Text(i, j) \in Seq(STRING)
<1>1. Len(source) \in Nat /\ SourceEnd \in Nat \ {0} /\ DOMAIN source = 1..Len(source)
  BY LenProperties DEF SourceEnd
<1>2. source \in Seq(STRING)
  <2>1. \A i \in 1..Len(source) : source[i] \in STRING
    BY <1>1, AlphabetsAreOfCharacters
  <2> QED
    BY <1>1, <2>1, LenProperties
<1>3. ASSUME NEW i \in 1..SourceEnd, NEW j \in i..SourceEnd
      PROVE  Text(i, j) \in Seq(STRING)
  <2>1. i \in 1..(Len(source) + 1) /\ j - 1 \in (i - 1)..Len(source)
    BY <1>1 DEF SourceEnd
  <2>2. SubSeq(source, i, j - 1) \in Seq(STRING)
    BY <1>1, <1>2, <2>1, SubSeqProperties
  <2> QED
    BY <2>2 DEF Text
<1> QED
  BY <1>1, <1>3

(* The characters of a class run to the first that is not of it.                *)
LEMMA RunOfClass ==
    ASSUME source \in Seq(UNION Alphabets), NEW p \in 1..SourceEnd, NEW class
    PROVE  /\ EndOfRun(p, class) \in p..SourceEnd
           /\ \A q \in p..(EndOfRun(p, class) - 1) : source[q] \in class
           /\ EndOfRun(p, class) < SourceEnd => source[EndOfRun(p, class)] \notin class
<1> DEFINE S == {q \in p..SourceEnd : q = SourceEnd \/ source[q] \notin class} \cup {SourceEnd}
<1>1. SourceEnd \in Nat
  BY TextTyped
<1>2. S \subseteq Nat /\ S # {} /\ EndOfRun(p, class) = Min(S)
  BY <1>1 DEF EndOfRun
<1>3. PICK end : end = EndOfRun(p, class)
  OBVIOUS
<1>4. end \in S /\ \A q \in S : end <= q
  <2> HIDE DEF S
  <2> QED
    BY <1>2, <1>3, MinIsFirst
<1>5. end \in p..SourceEnd /\ (end < SourceEnd => source[end] \notin class)
  BY <1>1, <1>4
<1>6. ASSUME NEW q \in p..(end - 1) PROVE source[q] \in class
  <2>1. q \in p..SourceEnd /\ ~(end <= q)
    BY <1>1, <1>5
  <2> QED
    BY <1>4, <2>1
<1> QED
  BY <1>3, <1>5, <1>6

(* Within a string, the text is gone through to its end.                        *)
LEMMA StringSteps ==
    ASSUME source \in Seq(UNION Alphabets), NEW start \in 1..Len(source)
    PROVE  \E after : /\ StringEnd(start) = after[start + 1]
                      /\ \A p \in 1..SourceEnd :
                             /\ after[p] \in p..SourceEnd
                             /\ after[p] =
                                    IF p = SourceEnd THEN p
                                    ELSE IF source[p] = Quote THEN p + 1
                                    ELSE IF source[p] = Backslash /\ p < Len(source)
                                    THEN after[p + 2]
                                    ELSE after[p + 1]
<1>1. PICK E : E = SourceEnd
  OBVIOUS
<1>2. E \in Nat \ {0} /\ Len(source) \in Nat /\ E = Len(source) + 1
  BY <1>1, TextTyped DEF SourceEnd
<1>3. PICK next : next = [p \in 1..E |->
         IF p = E \/ source[p] = Quote THEN 0
         ELSE IF source[p] = Backslash /\ p < Len(source) THEN p + 2 ELSE p + 1]
  OBVIOUS
<1>4. PICK stop : stop = [p \in 1..E |-> IF p = E THEN p ELSE p + 1]
  OBVIOUS
<1>5. \A p \in 1..E : next[p] = 0 \/ next[p] \in (p + 1)..E
  BY <1>2, <1>3
<1>6. \A p \in 1..E : next[p] = 0 => stop[p] \in p..E
  BY <1>2, <1>4
<1> DEFINE after == CHOOSE after : after = [p \in 1..SourceEnd |->
              IF p = SourceEnd THEN p
              ELSE IF source[p] = Quote THEN p + 1
              ELSE IF source[p] = Backslash /\ p < Len(source) THEN after[p + 2]
              ELSE after[p + 1]]
<1>7. StringEnd(start) = after[start + 1]
  BY DEF StringEnd
<1>8. \A f : f = [p \in 1..SourceEnd |->
              IF p = SourceEnd THEN p
              ELSE IF source[p] = Quote THEN p + 1
              ELSE IF source[p] = Backslash /\ p < Len(source) THEN f[p + 2]
              ELSE f[p + 1]]
         <=> IsForward(f, 1, E, next, stop)
  <2> SUFFICES ASSUME NEW f
               PROVE  f = [p \in 1..E |-> 
                            IF p = SourceEnd THEN p
                            ELSE IF source[p] = Quote THEN p + 1
                            ELSE IF source[p] = Backslash /\ p < Len(source) THEN f[p + 2]
                            ELSE f[p + 1]]
                        <=> IsForward(f, 1, E, next, stop)
    BY <1>1
  <2>1. \A p \in 1..E :
          (IF next[p] = 0 THEN stop[p] ELSE f[next[p]]) =
              (IF p = SourceEnd THEN p
               ELSE IF source[p] = Quote THEN p + 1
               ELSE IF source[p] = Backslash /\ p < Len(source) THEN f[p + 2]
               ELSE f[p + 1])
    BY <1>1, <1>2, <1>3, <1>4
  <2> HIDE DEF after
  <2> QED
    BY <2>1 DEF IsForward
<1>9. \E f : IsForward(f, 1, E, next, stop)
  BY <1>2, <1>5, ForwardRecursion
<1>10. IsForward(after, 1, E, next, stop)
  BY <1>8, <1>9
<1> HIDE DEF after
<1>11. \A p \in 1..E : after[p] \in p..E
  BY <1>2, <1>5, <1>6, <1>10, ForwardRange
<1>12. \A p \in 1..E : after[p] = IF next[p] = 0 THEN stop[p] ELSE after[next[p]]
  BY <1>10 DEF IsForward
<1>13. \A p \in 1..E :
         after[p] = IF p = SourceEnd THEN p
                    ELSE IF source[p] = Quote THEN p + 1
                    ELSE IF source[p] = Backslash /\ p < Len(source) THEN after[p + 2]
                    ELSE after[p + 1]
  BY <1>1, <1>2, <1>3, <1>4, <1>12
<1> QED
  BY <1>1, <1>7, <1>11, <1>13

(* A symbol goes on while the table of compounds has it.                        *)
LEMMA SymbolSteps ==
    ASSUME source \in Seq(UNION Alphabets), NEW start \in 1..Len(source)
    PROVE  \E after : /\ SymbolEnd(start) = after[start + 1]
                      /\ \A p \in 1..SourceEnd :
                             /\ after[p] \in p..SourceEnd
                             /\ after[p] =
                                    IF p < SourceEnd /\ Text(start, p + 1) \in CompoundSymbols
                                    THEN after[p + 1] ELSE p
<1>1. PICK E : E = SourceEnd
  OBVIOUS
<1>2. E \in Nat \ {0} /\ Len(source) \in Nat /\ E = Len(source) + 1
  BY <1>1, TextTyped DEF SourceEnd
<1>3. PICK next : next = [p \in 1..E |->
         IF p < E /\ Text(start, p + 1) \in CompoundSymbols THEN p + 1 ELSE 0]
  OBVIOUS
<1>4. PICK stop : stop = [p \in 1..E |-> p]
  OBVIOUS
<1>5. \A p \in 1..E : next[p] = 0 \/ next[p] \in (p + 1)..E
  BY <1>2, <1>3
<1>6. \A p \in 1..E : next[p] = 0 => stop[p] \in p..E
  BY <1>2, <1>4
<1> DEFINE after == CHOOSE after : after = [p \in 1..SourceEnd |->
              IF p < SourceEnd /\ Text(start, p + 1) \in CompoundSymbols
              THEN after[p + 1] ELSE p]
<1>7. SymbolEnd(start) = after[start + 1]
  BY DEF SymbolEnd
<1>8. \A f : f = [p \in 1..SourceEnd |->
              IF p < SourceEnd /\ Text(start, p + 1) \in CompoundSymbols
              THEN f[p + 1] ELSE p]
         <=> IsForward(f, 1, E, next, stop)
  <2> SUFFICES ASSUME NEW f
               PROVE  f = [p \in 1..E |-> 
                            IF p < SourceEnd /\ Text(start, p + 1) \in CompoundSymbols
                            THEN f[p + 1] ELSE p]
                        <=> IsForward(f, 1, E, next, stop)
    BY <1>1
  <2>1. \A p \in 1..E :
          (IF next[p] = 0 THEN stop[p] ELSE f[next[p]]) =
              (IF p < SourceEnd /\ Text(start, p + 1) \in CompoundSymbols
               THEN f[p + 1] ELSE p)
    BY <1>1, <1>2, <1>3, <1>4
  <2> HIDE DEF after
  <2> QED
    BY <2>1 DEF IsForward
<1>9. \E f : IsForward(f, 1, E, next, stop)
  BY <1>2, <1>5, ForwardRecursion
<1>10. IsForward(after, 1, E, next, stop)
  BY <1>8, <1>9
<1> HIDE DEF after
<1>11. \A p \in 1..E : after[p] \in p..E
  BY <1>2, <1>5, <1>6, <1>10, ForwardRange
<1>12. \A p \in 1..E : after[p] = IF next[p] = 0 THEN stop[p] ELSE after[next[p]]
  BY <1>10 DEF IsForward
<1>13. \A p \in 1..E :
         after[p] = IF p < SourceEnd /\ Text(start, p + 1) \in CompoundSymbols
                    THEN after[p + 1] ELSE p
  BY <1>1, <1>2, <1>3, <1>4, <1>12
<1> QED
  BY <1>1, <1>7, <1>11, <1>13

(* A string ends behind its opening quote and not behind the text.              *)
LEMMA StringEnds ==
    ASSUME source \in Seq(UNION Alphabets), NEW start \in 1..Len(source)
    PROVE  StringEnd(start) \in (start + 1)..SourceEnd
<1>1. start + 1 \in 1..SourceEnd
  BY TextTyped DEF SourceEnd
<1> QED
  BY <1>1, StringSteps

(* So does a symbol.                                                            *)
LEMMA SymbolEnds ==
    ASSUME source \in Seq(UNION Alphabets), NEW start \in 1..Len(source)
    PROVE  SymbolEnd(start) \in (start + 1)..SourceEnd
<1>1. start + 1 \in 1..SourceEnd
  BY TextTyped DEF SourceEnd
<1> QED
  BY <1>1, SymbolSteps

-------------------------------------------------------------------------------
(* Type correctness.                                                            *)

(* Lexing begins with typed lists.                                              *)
LEMMA InitTyped == Init => TypeOK
<1> SUFFICES ASSUME Init PROVE TypeOK
  OBVIOUS
<1>1. PICK alphabet \in Alphabets, n \in 0..MaxChars : source \in [1..n -> alphabet]
  BY DEF Init
<1>2. n \in Nat /\ n <= MaxChars
  BY AlphabetsAreOfCharacters
<1>3. source \in Seq(UNION Alphabets) /\ Len(source) = n
  <2>1. source \in [1..n -> UNION Alphabets]
    BY <1>1
  <2> QED
    BY <1>2, <2>1
<1>4. position \in 1..SourceEnd
  BY <1>3, TextTyped DEF Init
<1>5. pending \in Seq(TriviaRecords) /\ tokens \in Seq(TokenRecords) /\ tokens = <<>>
  BY DEF Init
<1> QED
  BY <1>2, <1>3, <1>4, <1>5 DEF Init, TypeOK

(* White space is skipped up to a place of the text, and captured as trivia.    *)
LEMMA SkipTyped ==
    ASSUME TypeOK
    PROVE  /\ Start \in position..SourceEnd /\ Start \in 1..SourceEnd
           /\ Captured \in Seq(TriviaRecords)
           /\ AtText => Start \in DOMAIN source /\ Start \in 1..Len(source)
<1>1. source \in Seq(UNION Alphabets) /\ position \in 1..SourceEnd /\ SourceEnd \in Nat
  BY TextTyped DEF TypeOK
<1>2. Start \in position..SourceEnd
  BY <1>1, RunOfClass DEF Start
<1>3. Trivia("Whitespace", position, Start) \in TriviaRecords
  BY <1>1, <1>2 DEF Trivia, TriviaRecords
<1>4. Captured \in Seq(TriviaRecords)
  BY <1>3, AppendProperties DEF Captured, TypeOK
<1>5. AtText => Start \in DOMAIN source /\ Start \in 1..Len(source)
  BY <1>1, <1>2, TextTyped DEF AtText, SourceEnd
<1> QED
  BY <1>1, <1>2, <1>4, <1>5

(* A comment is two characters at least and ends with the text at the latest.   *)
LEMMA CommentEnds ==
    ASSUME TypeOK, AtText, AtComment
    PROVE  CommentEnd(Start) \in (Start + 2)..SourceEnd /\ Start + 2 \in 1..SourceEnd
<1>1. Start + 2 \in 1..SourceEnd
  <2>1. Len(<<"/", "/">>) = 2
    OBVIOUS
  <2> QED
    BY <2>1, SMTT(30), SkipTyped, TextTyped DEF TypeOK, AtComment, StandsAt, SourceEnd
<1> QED
  BY <1>1, RunOfClass DEF TypeOK, CommentEnd

(* A round that takes a comment keeps the types.                                *)
LEMMA CommentTyped ==
    ASSUME TypeOK, Comment
    PROVE  TypeOK'
<1>1. CommentEnd(Start) \in (Start + 2)..SourceEnd
  BY CommentEnds DEF Comment
<1>2. Start \in 1..SourceEnd /\ SourceEnd \in Nat
  BY SkipTyped, TextTyped DEF TypeOK
<1>3. position' \in 1..SourceEnd
  BY <1>1, <1>2 DEF Comment
<1>4. pending' \in Seq(TriviaRecords)
  <2>1. Trivia("Comment", Start, CommentEnd(Start)) \in TriviaRecords
    BY <1>1, <1>2 DEF Trivia, TriviaRecords
  <2> QED
    BY <2>1, SkipTyped, AppendProperties DEF Comment
<1> QED
  BY <1>3, <1>4 DEF Comment, TypeOK, SourceEnd

Kinds == {"Identifier", "Number", "StringLiteral", "Keyword", "Symbol", "EndOfFile"}

(* A token made of places in the text.                                          *)
LEMMA TokenTyped ==
    ASSUME TypeOK, NEW kind \in Kinds, NEW start \in 1..SourceEnd, NEW end \in start..SourceEnd
    PROVE  Token(kind, start, end, Captured) \in TokenRecords
<1>1. Text(start, end) \in Seq(STRING) /\ start \in Nat /\ end \in Nat
  BY TextTyped DEF TypeOK
<1>2. Captured \in Seq(TriviaRecords)
  BY SkipTyped
<1> QED
  BY <1>1, <1>2 DEF Token, TokenRecords, Kinds

(* A round that reads a token keeps the types.                                  *)
LEMMA ReadTyped ==
    ASSUME TypeOK, NEW kind \in Kinds \ {"EndOfFile"}, NEW end, end \in (Start + 1)..SourceEnd,
           Read(kind, end)
    PROVE  TypeOK'
<1>1. Start \in 1..SourceEnd /\ SourceEnd \in Nat /\ end \in Start..SourceEnd /\ end \in 1..SourceEnd
  BY SkipTyped, TextTyped DEF TypeOK
<1>2. PICK token : token = Token(kind, Start, end, Captured)
  OBVIOUS
<1>3. token \in TokenRecords /\ token.kind # "EndOfFile"
  BY <1>1, <1>2, TokenTyped DEF Token
<1>4. /\ tokens' = Append(tokens, token) /\ pending' = <<>> /\ position' = end
      /\ UNCHANGED <<source, config, done>> /\ ~done
  BY <1>2 DEF Read, AtText
<1>5. tokens' \in Seq(TokenRecords) /\ tokens' # <<>> /\ tokens'[Len(tokens')] = token
  BY <1>3, <1>4, AppendProperties DEF TypeOK
<1>6. pending' \in Seq(TriviaRecords)
  BY <1>4
<1> QED
  BY <1>1, <1>3, <1>4, <1>5, <1>6 DEF TypeOK, SourceEnd

(* So does the last round.                                                      *)
LEMMA EndOfFileTyped ==
    ASSUME TypeOK, EndOfFile
    PROVE  TypeOK'
<1>1. SourceEnd \in 1..SourceEnd /\ SourceEnd \in SourceEnd..SourceEnd
  BY TextTyped DEF TypeOK
<1>2. PICK token : token = Token("EndOfFile", SourceEnd, SourceEnd, Captured)
  OBVIOUS
<1>3. token \in TokenRecords /\ token.kind = "EndOfFile"
  <2>1. "EndOfFile" \in Kinds
    BY DEF Kinds
  <2>2. Token("EndOfFile", SourceEnd, SourceEnd, Captured) \in TokenRecords
    BY <1>1, <2>1, TokenTyped
  <2> QED
    BY <1>2, <2>2 DEF Token
<1>4. /\ tokens' = Append(tokens, token) /\ pending' = <<>> /\ position' = SourceEnd
      /\ UNCHANGED <<source, config>> /\ done' = TRUE
  BY <1>2 DEF EndOfFile
<1>5. tokens' \in Seq(TokenRecords) /\ tokens' # <<>> /\ tokens'[Len(tokens')] = token
  BY <1>3, <1>4, AppendProperties DEF TypeOK
<1>6. pending' \in Seq(TriviaRecords)
  BY <1>4
<1> QED
  BY <1>1, <1>3, <1>4, <1>5, <1>6 DEF TypeOK, SourceEnd

(* What is read is a character at least, and ends in the text.                  *)
LEMMA ReadsEnd ==
    ASSUME TypeOK, AtText
    PROVE  /\ IdentifierEnd(Start) \in (Start + 1)..SourceEnd
           /\ source[Start] \in Digits => NumberEnd(Start) \in (Start + 1)..SourceEnd
           /\ StringEnd(Start) \in (Start + 1)..SourceEnd
           /\ SymbolEnd(Start) \in (Start + 1)..SourceEnd
<1>1. /\ source \in Seq(UNION Alphabets) /\ SourceEnd \in Nat /\ SourceEnd = Len(source) + 1
      /\ Start \in 1..Len(source) /\ Start \in 1..SourceEnd /\ Start + 1 \in 1..SourceEnd
  BY SkipTyped, TextTyped DEF TypeOK, SourceEnd, AtText
<1>2. IdentifierEnd(Start) \in (Start + 1)..SourceEnd
  BY <1>1, RunOfClass DEF IdentifierEnd
<1>3. ASSUME source[Start] \in Digits PROVE NumberEnd(Start) \in (Start + 1)..SourceEnd
  <2>1. PICK whole : whole = EndOfRun(Start, Digits)
    OBVIOUS
  <2>2. whole \in Start..SourceEnd /\ (whole < SourceEnd => source[whole] \notin Digits)
    BY <1>1, <2>1, RunOfClass
  <2>3. whole \in (Start + 1)..SourceEnd
    BY <1>1, <1>3, <2>2
  <2>4. NumberEnd(Start) = IF whole < SourceEnd /\ source[whole] = "."
                           THEN EndOfRun(whole + 1, Digits) ELSE whole
    BY <2>1 DEF NumberEnd
  <2>5. whole < SourceEnd => EndOfRun(whole + 1, Digits) \in (whole + 1)..SourceEnd
    BY <1>1, <2>3, RunOfClass
  <2> QED
    BY <1>1, <2>3, <2>4, <2>5
<1>4. StringEnd(Start) \in (Start + 1)..SourceEnd /\ SymbolEnd(Start) \in (Start + 1)..SourceEnd
  BY <1>1, StringEnds, SymbolEnds
<1> QED
  BY <1>2, <1>3, <1>4

\* A round of the loop that reads a token.
Reading == \E kind \in Kinds \ {"EndOfFile"}, end \in (Start + 1)..SourceEnd : Read(kind, end)

(* A round takes a comment, reads a token or ends the list.                     *)
LEMMA Rounds ==
    ASSUME TypeOK, Next
    PROVE  Comment \/ Reading \/ EndOfFile
<1>1. read_identifier => Reading
  <2> SUFFICES ASSUME read_identifier PROVE Reading
    OBVIOUS
  <2>1. /\ IdentifierEnd(Start) \in (Start + 1)..SourceEnd
        /\ \/ Read("Keyword", IdentifierEnd(Start))
           \/ Read("Identifier", IdentifierEnd(Start))
    BY ReadsEnd DEF read_identifier
  <2> QED
    BY <2>1 DEF Reading, Kinds
<1>2. read_number => Reading
  <2>1. read_number => /\ NumberEnd(Start) \in (Start + 1)..SourceEnd
                       /\ Read("Number", NumberEnd(Start))
    BY ReadsEnd DEF read_number
  <2> QED
    BY <2>1 DEF Reading, Kinds
<1>3. read_string => Reading
  <2>1. read_string => /\ StringEnd(Start) \in (Start + 1)..SourceEnd
                       /\ Read("StringLiteral", StringEnd(Start))
    BY ReadsEnd DEF read_string
  <2> QED
    BY <2>1 DEF Reading, Kinds
<1>4. read_symbol => Reading
  <2>1. read_symbol => /\ SymbolEnd(Start) \in (Start + 1)..SourceEnd
                       /\ Read("Symbol", SymbolEnd(Start))
    BY ReadsEnd DEF read_symbol
  <2> QED
    BY <2>1 DEF Reading, Kinds
<1> QED
  BY <1>1, <1>2, <1>3, <1>4 DEF Next

(* Every round keeps the types.                                                 *)
LEMMA NextTyped ==
    ASSUME TypeOK, [Next]_vars
    PROVE  TypeOK'
<1>1. CASE UNCHANGED vars
  BY <1>1 DEF vars, TypeOK, SourceEnd
<1>2. CASE Next
  BY <1>2, Rounds, CommentTyped, ReadTyped, EndOfFileTyped DEF Reading
<1> QED
  BY <1>1, <1>2

(* lex(): whatever the text, its tokens lie in it, and the one that ends the     *)
(* stream is there when lexing is done and not before.                          *)
THEOREM LexerTypeCorrect == Spec => []TypeOK
<1>1. Init => TypeOK
  BY InitTyped
<1>2. TypeOK /\ [Next]_vars => TypeOK'
  BY NextTyped
<1> QED
  BY <1>1, <1>2, PTL DEF Spec

-------------------------------------------------------------------------------
(* Tokens and trivia as pieces of the text.                                     *)

PieceKinds == {"Whitespace", "Comment", "Token"}
PieceRecords == [kind : PieceKinds, start : Nat, end : Nat]

\* The tokens' pieces, token by token.
Lists == [k \in DOMAIN tokens |->
             Append(tokens[k].leading_trivia, Trivia("Token", tokens[k].start, tokens[k].end))]

\* What the pieces are once the white space where the lexer is has been captured.
CapturedPieces == FlattenSeq(Lists) \o Captured

\* Pieces that lie one after the other, up to a place.
Laid(pieces, end) ==
    /\ \A i \in DOMAIN pieces : pieces[i].start <= pieces[i].end /\ pieces[i].end <= end
    /\ \A i \in 2..Len(pieces) : pieces[i - 1].end <= pieces[i].start

Covered(pieces, p) == \E i \in DOMAIN pieces : pieces[i].start <= p /\ p < pieces[i].end

\* A character that is not to be captured: white space, or a comment's.
Passed(p) ==
    \/ Spaced(p) /\ ~(config.capture_whitespace /\ config.capture_comments)
    \/ /\ ~config.capture_comments
       /\ \E q \in 1..p : /\ StandsAt(q, <<"/", "/">>)
                          /\ \A r \in q..p : source[r] # NewLine

\* Up to a place, every character is in a piece or was passed.
AccountedTo(pieces, end) ==
    Laid(pieces, end) /\ \A p \in 1..(end - 1) : Covered(pieces, p) \/ Passed(p)

Accounted == AccountedTo(Pieces, position)

(* White space and comments are pieces of the text, like tokens.                *)
LEMMA TriviaArePieces ==
    /\ Seq(TriviaRecords) \subseteq Seq(PieceRecords)
    /\ \A kind \in PieceKinds : \A start, end \in Nat :
          /\ Trivia(kind, start, end) \in PieceRecords
          /\ Trivia(kind, start, end).start = start
          /\ Trivia(kind, start, end).end = end
<1>1. TriviaRecords \subseteq PieceRecords
  <2> SUFFICES ASSUME NEW t \in TriviaRecords PROVE t \in PieceRecords
    OBVIOUS
  <2>1. /\ t = [kind |-> t.kind, start |-> t.start, end |-> t.end]
        /\ t.kind \in {"Whitespace", "Comment"} /\ t.start \in Nat /\ t.end \in Nat
    BY DEF TriviaRecords
  <2>2. t.kind \in PieceKinds
    BY <2>1 DEF PieceKinds
  <2> QED
    BY <2>1, <2>2 DEF PieceRecords
<1>2. ASSUME NEW s \in Seq(TriviaRecords) PROVE s \in Seq(PieceRecords)
  BY <1>1, LenProperties
<1>3. \A kind \in PieceKinds : \A start, end \in Nat :
          /\ Trivia(kind, start, end) \in PieceRecords
          /\ Trivia(kind, start, end).start = start
          /\ Trivia(kind, start, end).end = end
  BY DEF Trivia, PieceRecords
<1> QED
  BY <1>2, <1>3

(* The tokens' trivia and the tokens are lists of pieces, and so is the text.   *)
LEMMA PiecesTyped ==
    ASSUME TypeOK
    PROVE  /\ Lists \in Seq(Seq(PieceRecords))
           /\ FlattenSeq(Lists) \in Seq(PieceRecords)
           /\ pending \in Seq(PieceRecords) /\ Captured \in Seq(PieceRecords)
           /\ Pieces \in Seq(PieceRecords) /\ CapturedPieces \in Seq(PieceRecords)
           /\ Pieces = FlattenSeq(Lists) \o pending
<1>1. Len(tokens) \in Nat /\ DOMAIN tokens = 1..Len(tokens)
  BY LenProperties DEF TypeOK
<1>2. ASSUME NEW k \in DOMAIN tokens
      PROVE  Lists[k] \in Seq(PieceRecords)
  <2>1. tokens[k] \in TokenRecords
    BY <1>1 DEF TypeOK
  <2>2. /\ tokens[k].leading_trivia \in Seq(PieceRecords)
        /\ tokens[k].start \in Nat /\ tokens[k].end \in Nat
    BY <2>1, TriviaArePieces DEF TokenRecords
  <2>3. Trivia("Token", tokens[k].start, tokens[k].end) \in PieceRecords
    BY <2>2, TriviaArePieces DEF PieceKinds
  <2>4. Append(tokens[k].leading_trivia, Trivia("Token", tokens[k].start, tokens[k].end))
            \in Seq(PieceRecords)
    BY <2>2, <2>3, AppendProperties
  <2> QED
    BY <2>4 DEF Lists
<1>3. Lists \in Seq(Seq(PieceRecords))
  BY <1>1, <1>2 DEF Lists
<1>4. FlattenSeq(Lists) \in Seq(PieceRecords)
  BY <1>3, FlattenTyped
<1>5. pending \in Seq(PieceRecords) /\ Captured \in Seq(PieceRecords)
  BY SkipTyped, TriviaArePieces DEF TypeOK
<1>6. Pieces = FlattenSeq(Lists) \o pending
  BY DEF Pieces, Lists
<1> QED
  BY <1>3, <1>4, <1>5, <1>6, ConcatProperties DEF CapturedPieces

(* One more piece, after the others.                                            *)
LEMMA LaidAppend ==
    ASSUME NEW pieces \in Seq(PieceRecords), NEW from \in Nat, Laid(pieces, from),
           NEW piece \in PieceRecords, NEW to \in Nat,
           from <= piece.start, piece.start <= piece.end, piece.end <= to
    PROVE  /\ Laid(Append(pieces, piece), to)
           /\ \A p \in Nat : Covered(Append(pieces, piece), p) <=>
                 Covered(pieces, p) \/ (piece.start <= p /\ p < piece.end)
<1>1. PICK more : more = Append(pieces, piece)
  OBVIOUS
<1>2. PICK n : n = Len(pieces)
  OBVIOUS
<1>3. /\ n \in Nat /\ DOMAIN pieces = 1..n /\ DOMAIN more = 1..(n + 1) /\ Len(more) = n + 1
      /\ \A i \in 1..n : more[i] = pieces[i]
      /\ more[n + 1] = piece
  <2>1. n \in Nat /\ DOMAIN pieces = 1..n
    BY <1>2, LenProperties
  <2>2. more \in Seq(PieceRecords) /\ Len(more) = n + 1
    BY <1>1, <1>2, AppendProperties
  <2>3. DOMAIN more = 1..(n + 1)
    BY <2>2, LenProperties
  <2>4. more[n + 1] = piece /\ \A i \in 1..n : more[i] = pieces[i]
    BY <1>1, <1>2, <2>1, AppendProperties
  <2> QED
    BY <2>1, <2>2, <2>3, <2>4
<1>4. /\ piece.start \in Nat /\ piece.end \in Nat
      /\ \A i \in 1..n : pieces[i].start \in Nat /\ pieces[i].end \in Nat
  <2>1. \A i \in 1..n : pieces[i] \in PieceRecords
    BY <1>3
  <2> QED
    BY <2>1 DEF PieceRecords
<1>5. \A i \in DOMAIN more : more[i].start <= more[i].end /\ more[i].end <= to
  <2> SUFFICES ASSUME NEW i \in DOMAIN more
               PROVE  more[i].start <= more[i].end /\ more[i].end <= to
    OBVIOUS
  <2>1. CASE i = n + 1
    BY <1>3, <2>1
  <2>2. CASE i # n + 1
    <3>1. i \in 1..n
      BY <1>3, <2>2
    <3>2. pieces[i].start <= pieces[i].end /\ pieces[i].end <= from
      BY <1>3, <3>1 DEF Laid
    <3> QED
      BY <1>3, <1>4, <3>1, <3>2
  <2> QED
    BY <2>1, <2>2
<1>6. \A i \in 2..Len(more) : more[i - 1].end <= more[i].start
  <2> SUFFICES ASSUME NEW i \in 2..(n + 1)
               PROVE  more[i - 1].end <= more[i].start
    BY <1>3
  <2>1. i - 1 \in 1..n /\ more[i - 1] = pieces[i - 1]
    BY <1>3
  <2>2. CASE i = n + 1
    <3>1. pieces[i - 1].end <= from
      BY <1>3, <2>1 DEF Laid
    <3>2. pieces[i - 1].end \in Nat /\ more[i] = piece
      BY <1>3, <1>4, <2>1, <2>2
    <3> QED
      BY <1>4, <2>1, <3>1, <3>2
  <2>3. CASE i # n + 1
    <3>1. i \in 2..n
      BY <1>3, <2>3
    <3> QED
      BY <1>2, <1>3, <2>1, <3>1 DEF Laid
  <2> QED
    BY <2>2, <2>3
<1>7. Laid(more, to)
  BY <1>5, <1>6 DEF Laid
<1>8. ASSUME NEW p \in Nat
      PROVE  Covered(more, p) <=> Covered(pieces, p) \/ (piece.start <= p /\ p < piece.end)
  <2>1. \A i \in 1..(n + 1) : i \in 1..n \/ i = n + 1
    BY <1>3
  <2>2. n + 1 \in 1..(n + 1) /\ \A i \in 1..n : i \in 1..(n + 1)
    BY <1>3
  <2> QED
    BY <1>3, <2>1, <2>2 DEF Covered
<1> QED
  BY <1>1, <1>7, <1>8

(* A piece that begins where the pieces end accounts for what it spans.         *)
LEMMA AccountedAppend ==
    ASSUME NEW pieces \in Seq(PieceRecords), NEW from \in Nat \ {0}, AccountedTo(pieces, from),
           NEW piece \in PieceRecords, piece.start = from, from <= piece.end
    PROVE  AccountedTo(Append(pieces, piece), piece.end)
<1>1. piece.start \in Nat /\ piece.end \in Nat /\ piece.end <= piece.end
  BY DEF PieceRecords
<1>2. Laid(pieces, from)
  BY DEF AccountedTo
<1>3. /\ Laid(Append(pieces, piece), piece.end)
      /\ \A p \in Nat : Covered(Append(pieces, piece), p) <=>
            Covered(pieces, p) \/ (piece.start <= p /\ p < piece.end)
  BY <1>1, <1>2, LaidAppend
<1>4. \A p \in 1..(piece.end - 1) :
         p \in Nat /\ (p \in 1..(from - 1) \/ (piece.start <= p /\ p < piece.end))
  BY <1>1
<1>5. \A p \in 1..(from - 1) : Covered(pieces, p) \/ Passed(p)
  BY DEF AccountedTo
<1> QED
  BY <1>3, <1>4, <1>5 DEF AccountedTo

(* What is passed need not be in any piece.                                     *)
LEMMA AccountedPassing ==
    ASSUME NEW pieces \in Seq(PieceRecords), NEW from \in Nat \ {0}, AccountedTo(pieces, from),
           NEW to \in Nat, from <= to, \A p \in from..(to - 1) : Passed(p)
    PROVE  AccountedTo(pieces, to)
<1>1. \A i \in DOMAIN pieces : pieces[i].end \in Nat
  <2>1. \A i \in DOMAIN pieces : pieces[i] \in PieceRecords
    BY LenProperties
  <2> QED
    BY <2>1 DEF PieceRecords
<1>2. Laid(pieces, to)
  BY <1>1 DEF AccountedTo, Laid
<1>3. \A p \in 1..(to - 1) : p \in 1..(from - 1) \/ p \in from..(to - 1)
  OBVIOUS
<1> QED
  BY <1>2, <1>3 DEF AccountedTo

(* What the white space before a token adds.                                    *)
LEMMA CapturedAfterPending ==
    ASSUME TypeOK, NEW trivia \in Seq(PieceRecords), NEW piece \in PieceRecords
    PROVE  FlattenSeq(Lists) \o Append(trivia, piece) =
               Append(FlattenSeq(Lists) \o trivia, piece)
<1>1. PICK flat : flat = FlattenSeq(Lists)
  OBVIOUS
<1>2. flat \in Seq(PieceRecords) /\ <<piece>> \in Seq(PieceRecords)
  BY <1>1, PiecesTyped
<1>3. flat \o trivia \in Seq(PieceRecords)
  BY <1>2, ConcatProperties
<1>4. Append(trivia, piece) = trivia \o <<piece>>
  BY AppendIsConcat
<1>5. Append(flat \o trivia, piece) = (flat \o trivia) \o <<piece>>
  BY <1>3, AppendIsConcat
<1>6. (flat \o trivia) \o <<piece>> = flat \o (trivia \o <<piece>>)
  BY <1>2, ConcatAssociative
<1> QED
  BY <1>1, <1>4, <1>5, <1>6

(* White space is captured or passed.                                           *)
LEMMA SkipAccounted ==
    ASSUME TypeOK, Accounted
    PROVE  AccountedTo(CapturedPieces, Start)
<1>1. PICK pieces : pieces = Pieces
  OBVIOUS
<1>2. PICK from : from = position
  OBVIOUS
<1>3. PICK to : to = Start
  OBVIOUS
<1>4. /\ pieces \in Seq(PieceRecords) /\ AccountedTo(pieces, from)
      /\ from \in Nat \ {0} /\ to \in Nat /\ from <= to /\ from \in 1..SourceEnd
  <2>1. pieces \in Seq(PieceRecords) /\ AccountedTo(pieces, from)
    BY <1>1, <1>2, PiecesTyped DEF Accounted
  <2>2. Start \in position..SourceEnd /\ position \in 1..SourceEnd /\ SourceEnd \in Nat
    BY SkipTyped, TextTyped DEF TypeOK
  <2> QED
    BY <1>2, <1>3, <2>1, <2>2
<1>5. CASE to > from /\ config.capture_whitespace
  <2>1. PICK piece : piece = Trivia("Whitespace", from, to)
    OBVIOUS
  <2>2. piece \in PieceRecords /\ piece.start = from /\ piece.end = to
    BY <1>4, <2>1, TriviaArePieces DEF PieceKinds
  <2>3. Captured = Append(pending, piece)
    BY <1>2, <1>3, <1>5, <2>1 DEF Captured
  <2>4. CapturedPieces = Append(pieces, piece)
    BY <1>1, <2>2, <2>3, PiecesTyped, CapturedAfterPending DEF CapturedPieces
  <2>5. AccountedTo(Append(pieces, piece), piece.end)
    BY <1>4, <2>2, AccountedAppend
  <2> QED
    BY <1>3, <2>2, <2>4, <2>5
<1>6. CASE ~(to > from /\ config.capture_whitespace)
  <2>1. CapturedPieces = pieces
    BY <1>1, <1>2, <1>3, <1>6, PiecesTyped DEF CapturedPieces, Captured
  <2>2. \A p \in from..(to - 1) : source[p] \in Spaces
    BY <1>2, <1>3, <1>4, RunOfClass DEF Start, TypeOK
  <2>3. \A p \in from..(to - 1) : Passed(p)
    <3>1. \A p \in from..(to - 1) : to > from
      BY <1>4
    <3> QED
      BY <1>6, <2>2, <3>1 DEF Passed, Spaced
  <2>4. AccountedTo(pieces, to)
    BY <1>4, <2>3, AccountedPassing
  <2> QED
    BY <1>3, <2>1, <2>4
<1> QED
  BY <1>5, <1>6

(* What has been passed stays so.                                               *)
LEMMA AccountedLater ==
    ASSUME UNCHANGED <<source, config>>, NEW pieces, NEW end,
           Pieces' = pieces, position' = end, AccountedTo(pieces, end)
    PROVE  Accounted'
<1>1. \A p : Passed(p)' <=> Passed(p)
  BY DEF Passed, Spaced, StandsAt, Text
<1> QED
  BY <1>1 DEF Accounted, AccountedTo, Laid, Covered

(* A comment that is not captured is passed.                                    *)
LEMMA CommentPassed ==
    ASSUME TypeOK, AtText, AtComment, ~config.capture_comments
    PROVE  \A p \in Start..(CommentEnd(Start) - 1) : Passed(p)
<1>1. PICK from : from = Start
  OBVIOUS
<1>2. PICK end : end = CommentEnd(from)
  OBVIOUS
<1>3. /\ from \in 1..Len(source) /\ from + 2 \in 1..SourceEnd /\ end \in (from + 2)..SourceEnd
      /\ SourceEnd \in Nat /\ SourceEnd = Len(source) + 1 /\ Len(source) \in Nat
  BY <1>1, <1>2, CommentEnds, SkipTyped, TextTyped DEF TypeOK, SourceEnd
<1>4. source[from] = "/" /\ source[from + 1] = "/"
  <2>1. PICK slashes : slashes = <<"/", "/">>
    OBVIOUS
  <2>2. Len(slashes) = 2 /\ slashes[1] = "/" /\ slashes[2] = "/"
    BY <2>1
  <2>3. PICK last : last = from + 1
    OBVIOUS
  <2>4. /\ last \in 1..Len(source) /\ from + 2 - 1 = last /\ last - from + 1 = 2
        /\ from \in Int /\ last \in Int /\ from + 2 - 1 = from + 1
        /\ from + 1 - 1 = from /\ 1 \in 1..2 /\ 2 \in 1..2
    BY <1>3, <2>3
  <2>5. SubSeq(source, from, last) = slashes
    BY <1>1, <2>1, <2>2, <2>4 DEF AtComment, StandsAt, Text
  <2>6. \A i \in from..last : source[i] \in UNION Alphabets
    BY <1>3, <2>4 DEF TypeOK
  <2>7. \A i \in 1..(last - from + 1) : SubSeq(source, from, last)[i] = source[from + i - 1]
    BY <2>4, <2>6, SubSeqProperties
  <2>8. slashes[1] = source[from + 1 - 1] /\ slashes[2] = source[from + 2 - 1]
    BY <2>4, <2>5, <2>7
  <2> QED
    BY <2>2, <2>4, <2>8
<1>5. \A r \in (from + 2)..(end - 1) : source[r] # NewLine
  BY <1>2, <1>3, RunOfClass DEF CommentEnd, TypeOK
<1>6. "/" # NewLine
  BY DEF NewLine
<1>7. \A r \in from..(end - 1) : source[r] # NewLine
  <2>1. \A r \in from..(end - 1) : r = from \/ r = from + 1 \/ r \in (from + 2)..(end - 1)
    BY <1>3
  <2> QED
    BY <1>4, <1>5, <1>6, <2>1
<1>8. ASSUME NEW p \in from..(end - 1) PROVE Passed(p)
  <2>1. from \in 1..p /\ \A r \in from..p : r \in from..(end - 1)
    BY <1>3
  <2>2. StandsAt(from, <<"/", "/">>)
    BY <1>1 DEF AtComment
  <2> QED
    BY <1>7, <2>1, <2>2 DEF Passed
<1> QED
  BY <1>1, <1>2, <1>8

(* A round that takes a comment accounts for it.                                *)
LEMMA CommentAccounted ==
    ASSUME TypeOK, Accounted, Comment
    PROVE  Accounted'
<1>1. PICK pieces : pieces = CapturedPieces
  OBVIOUS
<1>2. PICK from : from = Start
  OBVIOUS
<1>3. PICK to : to = CommentEnd(Start)
  OBVIOUS
<1>4. /\ pieces \in Seq(PieceRecords) /\ AccountedTo(pieces, from)
      /\ from \in Nat \ {0} /\ to \in Nat /\ from <= to
  <2>1. pieces \in Seq(PieceRecords) /\ AccountedTo(pieces, from)
    BY <1>1, <1>2, PiecesTyped, SkipAccounted
  <2>2. Start \in 1..SourceEnd /\ CommentEnd(Start) \in (Start + 2)..SourceEnd /\ SourceEnd \in Nat
    BY SkipTyped, CommentEnds, TextTyped DEF TypeOK, Comment
  <2> QED
    BY <1>2, <1>3, <2>1, <2>2
<1>5. position' = to /\ UNCHANGED <<source, config>> /\ Pieces' = FlattenSeq(Lists) \o pending'
  <2>1. UNCHANGED tokens
    BY DEF Comment
  <2>2. Lists' = Lists
    BY <2>1 DEF Lists, Trivia
  <2>3. Pieces' = FlattenSeq(Lists') \o pending'
    BY DEF Pieces, Lists
  <2> QED
    BY <1>3, <2>2, <2>3 DEF Comment
<1>6. CASE config.capture_comments
  <2>1. PICK piece : piece = Trivia("Comment", from, to)
    OBVIOUS
  <2>2. piece \in PieceRecords /\ piece.start = from /\ piece.end = to
    BY <1>4, <2>1, TriviaArePieces DEF PieceKinds
  <2>3. pending' = Append(Captured, piece)
    BY <1>2, <1>3, <1>6, <2>1 DEF Comment
  <2>4. Pieces' = Append(pieces, piece)
    BY <1>1, <1>5, <2>2, <2>3, PiecesTyped, CapturedAfterPending DEF CapturedPieces
  <2>5. AccountedTo(Append(pieces, piece), to)
    BY <1>4, <2>2, AccountedAppend
  <2> QED
    BY <1>5, <2>4, <2>5, AccountedLater
<1>7. CASE ~config.capture_comments
  <2>1. Pieces' = pieces
    BY <1>1, <1>5, <1>7 DEF Comment, CapturedPieces
  <2>2. \A p \in from..(to - 1) : Passed(p)
    BY <1>2, <1>3, <1>7, CommentPassed DEF Comment
  <2>3. AccountedTo(pieces, to)
    BY <1>4, <2>2, AccountedPassing
  <2> QED
    BY <1>5, <2>1, <2>3, AccountedLater
<1> QED
  BY <1>6, <1>7

(* A token is a piece after the trivia before it.                               *)
LEMMA TokenAccounted ==
    ASSUME TypeOK, Accounted, NEW kind, NEW end, end \in Start..SourceEnd,
           tokens' = Append(tokens, Token(kind, Start, end, Captured)),
           pending' = <<>>, position' = end, UNCHANGED <<source, config>>
    PROVE  Accounted'
<1>1. PICK pieces : pieces = CapturedPieces
  OBVIOUS
<1>2. PICK from : from = Start
  OBVIOUS
<1>3. PICK piece : piece = Trivia("Token", from, end)
  OBVIOUS
<1>4. /\ pieces \in Seq(PieceRecords) /\ AccountedTo(pieces, from)
      /\ from \in Nat \ {0} /\ end \in Nat /\ from <= end
  <2>1. pieces \in Seq(PieceRecords) /\ AccountedTo(pieces, from)
    BY <1>1, <1>2, PiecesTyped, SkipAccounted
  <2>2. Start \in 1..SourceEnd /\ SourceEnd \in Nat
    BY SkipTyped, TextTyped DEF TypeOK
  <2> QED
    BY <1>2, <2>1, <2>2
<1>5. piece \in PieceRecords /\ piece.start = from /\ piece.end = end
  BY <1>3, <1>4, TriviaArePieces DEF PieceKinds
<1>6. PICK list : list = Append(Captured, piece)
  OBVIOUS
<1>7. Lists' = Append(Lists, list)
  <2>1. PICK token : token = Token(kind, from, end, Captured)
    OBVIOUS
  <2>2. token.leading_trivia = Captured /\ token.start = from /\ token.end = end
    BY <2>1 DEF Token
  <2>3. PICK n : n = Len(tokens)
    OBVIOUS
  <2>4. /\ n \in Nat /\ DOMAIN tokens = 1..n /\ DOMAIN tokens' = 1..(n + 1)
        /\ tokens'[n + 1] = token /\ \A k \in 1..n : tokens'[k] = tokens[k]
    <3>1. n \in Nat /\ DOMAIN tokens = 1..n /\ tokens \in Seq(TokenRecords)
      BY <2>3, LenProperties DEF TypeOK
    <3>2. tokens' = Append(tokens, token)
      BY <1>2, <2>1
    <3> QED
      BY <2>3, <3>1, <3>2
  <2>5. Lists \in Seq(Seq(PieceRecords)) /\ DOMAIN Lists = 1..n /\ Len(Lists) = n
    BY <2>4, PiecesTyped, LenProperties DEF Lists
  <2>6. PICK more : more = Append(Lists, list)
    OBVIOUS
  <2>7. /\ DOMAIN more = 1..(n + 1) /\ more[n + 1] = list
        /\ \A k \in 1..n : more[k] = Lists[k]
        /\ more = [k \in 1..(n + 1) |-> more[k]]
    <3>1. list \in Seq(PieceRecords)
      BY <1>5, <1>6, PiecesTyped, AppendProperties
    <3>2. more \in Seq(Seq(PieceRecords)) /\ Len(more) = n + 1
      BY <2>5, <2>6, <3>1, AppendProperties
    <3>3. DOMAIN more = 1..(n + 1) /\ more = [k \in 1..(n + 1) |-> more[k]]
      BY <3>2, LenProperties
    <3>4. more[n + 1] = list /\ \A k \in 1..n : more[k] = Lists[k]
      BY <2>4, <2>5, <2>6, <3>1, AppendProperties
    <3> QED
      BY <3>3, <3>4
  <2>8. Lists' = [k \in 1..(n + 1) |->
           Append(tokens'[k].leading_trivia, Trivia("Token", tokens'[k].start, tokens'[k].end))]
    BY <2>4 DEF Lists, Trivia
  <2>9. \A k \in 1..n : more[k] =
           Append(tokens[k].leading_trivia, Trivia("Token", tokens[k].start, tokens[k].end))
    BY <2>4, <2>7 DEF Lists
  <2>10. \A k \in 1..(n + 1) : more[k] =
           Append(tokens'[k].leading_trivia, Trivia("Token", tokens'[k].start, tokens'[k].end))
    <3>1. \A k \in 1..(n + 1) : k \in 1..n \/ k = n + 1
      BY <2>4
    <3> QED
      BY <1>3, <1>6, <2>2, <2>4, <2>7, <2>9, <3>1
  <2> QED
    BY <2>6, <2>7, <2>8, <2>10
<1>8. FlattenSeq(Lists') = Append(pieces, piece)
  <2>1. list \in Seq(PieceRecords) /\ Captured \in Seq(PieceRecords)
    BY <1>5, <1>6, PiecesTyped, AppendProperties
  <2>2. Lists \in Seq(Seq(PieceRecords))
    BY PiecesTyped
  <2>3. FlattenSeq(Append(Lists, list)) = FlattenSeq(Lists) \o list
    BY <2>1, <2>2, FlattenAppend
  <2>4. FlattenSeq(Lists) \o Append(Captured, piece) = Append(pieces, piece)
    BY <1>1, <1>5, <2>1, CapturedAfterPending DEF CapturedPieces
  <2> QED
    BY <1>6, <1>7, <2>3, <2>4
<1>9. Pieces' = Append(pieces, piece)
  <2>1. Pieces' = FlattenSeq(Lists') \o pending'
    BY DEF Pieces, Lists
  <2>2. Append(pieces, piece) \in Seq(PieceRecords)
    BY <1>4, <1>5, AppendProperties
  <2> QED
    BY <1>8, <2>1, <2>2, ConcatEmptySeq
<1>10. AccountedTo(Append(pieces, piece), end)
  BY <1>4, <1>5, AccountedAppend
<1> QED
  BY <1>9, <1>10, AccountedLater

(* Every round accounts for the text up to where it ends.                       *)
LEMMA NextAccounted ==
    ASSUME TypeOK, Accounted, [Next]_vars
    PROVE  Accounted'
<1>1. CASE UNCHANGED vars
  <2>1. Pieces' = Pieces /\ position' = position /\ UNCHANGED <<source, config>>
    BY <1>1 DEF vars, Pieces, Trivia
  <2> QED
    BY <2>1, AccountedLater DEF Accounted
<1>2. CASE Comment
  BY <1>2, CommentAccounted
<1>3. CASE Reading
  <2>1. PICK kind \in Kinds \ {"EndOfFile"}, end \in (Start + 1)..SourceEnd : Read(kind, end)
    BY <1>3 DEF Reading
  <2>2. end \in Start..SourceEnd
    BY SkipTyped, TextTyped DEF TypeOK
  <2> QED
    BY <2>1, <2>2, TokenAccounted DEF Read
<1>4. CASE EndOfFile
  <2>1. SourceEnd \in Start..SourceEnd /\ Start = SourceEnd
    BY <1>4, TextTyped DEF TypeOK, EndOfFile
  <2> QED
    BY <1>4, <2>1, TokenAccounted DEF EndOfFile
<1> QED
  BY <1>1, <1>2, <1>3, <1>4, Rounds

(* lex(): whatever the text and what it is asked to capture, the tokens and      *)
(* their trivia, in order, are the text lexed so far; white space and comments   *)
(* are missing only where they are not captured.                                *)
THEOREM LexerPreservesSource == Spec => []SourceIsPreserved
<1>1. Init => Accounted
  <2> SUFFICES ASSUME Init PROVE Accounted
    OBVIOUS
  <2>1. Pieces = <<>>
    BY EmptySeq DEF Init, Pieces, FlattenSeq
  <2>2. Laid(<<>>, 1)
    BY DEF Laid
  <2> QED
    BY <2>1, <2>2 DEF Init, Accounted, AccountedTo
<1>2. TypeOK /\ Accounted /\ [Next]_vars => Accounted'
  BY NextAccounted
<1>3. Accounted => SourceIsPreserved
  <2> SUFFICES ASSUME Accounted PROVE SourceIsPreserved
    OBVIOUS
  <2>1. PICK pieces : pieces = Pieces
    OBVIOUS
  <2>2. \A i \in 2..Len(pieces) : pieces[i - 1].end <= pieces[i].start
    BY <2>1 DEF Accounted, AccountedTo, Laid
  <2>3. \A p \in 1..(position - 1) : Covered(pieces, p) \/ Passed(p)
    BY <2>1 DEF Accounted, AccountedTo
  <2> QED
    BY <2>1, <2>2, <2>3 DEF SourceIsPreserved, Covered, Passed
<1> QED
  BY <1>1, <1>2, <1>3, LexerTypeCorrect, PTL DEF Spec

-------------------------------------------------------------------------------
(* The longest token.                                                           *)

\* A token of the grammar, or a whole number with the dot behind it.
IsTaken(s) == IsToken(s) \/ IsDotted(s)

\* How long what is taken for a token may be that begins somewhere.
TokenLengths(start) == {n \in 1..(SourceEnd - start) : IsTaken(Text(start, start + n))}

\* No token that begins there is longer than to this end, which ends one.
EndsLongest(start, end) ==
    end - start \in TokenLengths(start) /\ \A n \in TokenLengths(start) : n <= end - start

(* A stretch of text, character by character.                                   *)
LEMMA TextIs ==
    ASSUME source \in Seq(UNION Alphabets), NEW start \in 1..Len(source),
           NEW n \in 1..(SourceEnd - start)
    PROVE  /\ Len(Text(start, start + n)) = n
           /\ \A i \in 1..n : Text(start, start + n)[i] = source[start + i - 1]
           /\ Text(start, start + n) \in Seq(STRING)
<1>1. PICK size : size = Len(source)
  OBVIOUS
<1>2. size \in Nat /\ start \in 1..size /\ n \in 1..(size + 1 - start)
  BY <1>1, TextTyped DEF SourceEnd
<1>3. PICK last : last = start + n - 1
  OBVIOUS
<1>4. /\ last \in start..size /\ last \in (start - 1)..size
      /\ start \in 1..(size + 1) /\ last - start + 1 = n
  BY <1>2, <1>3
<1>5. Text(start, start + n) = SubSeq(source, start, last)
  BY <1>2, <1>3 DEF Text
<1>6. /\ Len(SubSeq(source, start, last)) = n
      /\ \A i \in 1..n : SubSeq(source, start, last)[i] = source[start + i - 1]
  BY <1>1, <1>4, SubSeqProperties
<1>7. Text(start, start + n) \in Seq(STRING)
  <2>1. start \in 1..SourceEnd /\ start + n \in start..SourceEnd
    BY <1>1, <1>2 DEF SourceEnd
  <2> QED
    BY <2>1, TextTyped
<1> QED
  BY <1>5, <1>6, <1>7

(* The table of compound symbols: none begins like a token of another kind, and *)
(* one of three characters grows out of one of two.                             *)
LEMMA CompoundsBegin ==
    ASSUME NEW s \in CompoundSymbols
    PROVE  /\ s[1] \notin Letters \cup Digits \cup Spaces /\ s[1] # Quote
           /\ Len(s) = 2 \/ (Len(s) = 3 /\ <<s[1], s[2]>> \in CompoundSymbols)
<1>1. s[1] \in {"=", "!", "<", ">", "&", "|", ":", "-", "+", "*", "/", "%", "^"}
  BY DEF CompoundSymbols
<1>2. s[1] \notin Letters \cup Digits \cup Spaces
  BY <1>1, ClassesAreDisjoint
<1>3. s[1] # Quote
  BY <1>1 DEF Quote
<1>4. Len(s) = 2 \/ s = <<">", ">", "=">>
  BY DEF CompoundSymbols
<1>5. s = <<">", ">", "=">> => Len(s) = 3 /\ <<s[1], s[2]>> \in CompoundSymbols
  BY DEF CompoundSymbols
<1> QED
  BY <1>2, <1>3, <1>4, <1>5

(* The longest is what Max finds.                                               *)
LEMMA LongestIsMax ==
    ASSUME NEW start, NEW end, start \in Int, SourceEnd \in Int, EndsLongest(start, end)
    PROVE  Max(TokenLengths(start)) = end - start
<1>1. PICK n : n = end - start
  OBVIOUS
<1>2. PICK S : S = TokenLengths(start)
  OBVIOUS
<1>3. S \subseteq Int
  BY <1>2 DEF TokenLengths
<1>4. n \in S /\ \A m \in S : m <= n
  BY <1>1, <1>2 DEF EndsLongest
<1>5. Max(S) \in S /\ \A m \in S : Max(S) >= m
  <2>1. n \in S /\ \A m \in S : n >= m
    BY <1>3, <1>4
  <2> QED
    BY <2>1 DEF Max
<1>6. PICK m : m = Max(S)
  OBVIOUS
<1>7. m \in Int /\ n \in Int /\ m <= n /\ m >= n
  BY <1>3, <1>4, <1>5, <1>6
<1> QED
  BY <1>1, <1>2, <1>6, <1>7

(* A word, a number and a string begin like nothing else.                       *)
LEMMA KindsApart ==
    ASSUME NEW s \in Seq(STRING)
    PROVE  /\ s[1] \in Letters => (IsTaken(s) <=> IsWord(s))
           /\ s[1] \in Digits => (IsTaken(s) <=> IsNumber(s) \/ IsDotted(s))
           /\ s[1] = Quote => (IsTaken(s) <=> IsString(s))
           /\ s[1] \notin Letters \cup Digits \cup {Quote} => (IsTaken(s) <=> IsSymbol(s))
<1>1. IsWord(s) => s[1] \in Letters
  BY DEF IsWord
<1>2. IsNumber(s) \/ IsDotted(s) => s[1] \in Digits
  BY LenProperties DEF IsNumber, IsDotted
<1>3. IsString(s) => s[1] = Quote
  BY DEF IsString
<1>4. IsSymbol(s) => s[1] \notin Letters \cup Digits \cup {Quote}
  BY CompoundsBegin DEF IsSymbol
<1>5. Letters \cap Digits = {} /\ Quote \notin Letters \cup Digits
  BY ClassesAreDisjoint
<1> QED
  BY <1>1, <1>2, <1>3, <1>4, <1>5 DEF IsTaken, IsToken

(* read_identifier: a word goes on while there are letters and digits.          *)
LEMMA LongestWord ==
    ASSUME source \in Seq(UNION Alphabets), NEW start \in 1..Len(source),
           source[start] \in Letters
    PROVE  EndsLongest(start, IdentifierEnd(start))
<1>1. PICK E : E = SourceEnd
  OBVIOUS
<1>2. E \in Nat /\ E = Len(source) + 1 /\ start \in 1..(E - 1)
  BY <1>1, TextTyped DEF SourceEnd
<1>3. PICK end : end = IdentifierEnd(start)
  OBVIOUS
<1>4. /\ end \in (start + 1)..E
      /\ \A q \in (start + 1)..(end - 1) : source[q] \in Letters \cup Digits
      /\ end < E => source[end] \notin Letters \cup Digits
  BY <1>1, <1>2, <1>3, RunOfClass DEF IdentifierEnd
<1>5. ASSUME NEW n \in 1..(E - start)
      PROVE  /\ IsTaken(Text(start, start + n)) <=> IsWord(Text(start, start + n))
             /\ Text(start, start + n)[1] \in Letters
             /\ DOMAIN Text(start, start + n) = 1..n
             /\ \A i \in 1..n : Text(start, start + n)[i] = source[start + i - 1]
  <2>1. PICK s : s = Text(start, start + n)
    OBVIOUS
  <2>2. Len(s) = n /\ (\A i \in 1..n : s[i] = source[start + i - 1]) /\ s \in Seq(STRING)
    BY <1>1, <2>1, TextIs
  <2>3. s[1] \in Letters /\ DOMAIN s = 1..n
    BY <1>2, <2>2
  <2> QED
    BY <2>1, <2>2, <2>3, KindsApart
<1>6. end - start \in TokenLengths(start)
  <2>1. PICK n : n = end - start
    OBVIOUS
  <2>2. n \in 1..(E - start)
    BY <1>2, <1>4, <2>1
  <2>3. \A i \in 1..n : source[start + i - 1] \in Letters \cup Digits
    BY <1>2, <1>4, <2>1, <2>2
  <2>4. IsWord(Text(start, start + n))
    BY <1>5, <2>2, <2>3 DEF IsWord
  <2> QED
    BY <1>1, <1>5, <2>1, <2>2, <2>4 DEF TokenLengths
<1>7. ASSUME NEW n \in TokenLengths(start), ~(n <= end - start) PROVE FALSE
  <2>1. n \in 1..(E - start) /\ IsTaken(Text(start, start + n))
    BY <1>1 DEF TokenLengths
  <2>2. PICK i : i = end - start + 1
    OBVIOUS
  <2>3. i \in 1..n /\ end < E /\ start + i - 1 = end
    BY <1>2, <1>4, <1>7, <2>1, <2>2
  <2>4. source[start + i - 1] \in Letters \cup Digits
    BY <1>5, <2>1, <2>3 DEF IsWord
  <2> QED
    BY <1>4, <2>3, <2>4
<1> QED
  BY <1>3, <1>6, <1>7 DEF EndsLongest

(* A set has one element at most when no two of its elements differ.            *)
LEMMA AtMostOne ==
    ASSUME NEW S, IsFiniteSet(S)
    PROVE  Cardinality(S) <= 1 <=> \A a, b \in S : a = b
<1>1. ASSUME Cardinality(S) <= 1, NEW a \in S, NEW b \in S, a # b PROVE FALSE
  <2>1. IsFiniteSet({a}) /\ Cardinality({a}) = 1
    BY FS_Singleton
  <2>2. IsFiniteSet({a} \cup {b}) /\ Cardinality({a} \cup {b}) = 2
    <3>1. PICK one : one = {a}
      OBVIOUS
    <3>2. IsFiniteSet(one) /\ Cardinality(one) = 1 /\ b \notin one
      BY <1>1, <2>1, <3>1
    <3>3. Cardinality(one \cup {b}) = Cardinality(one) + 1 /\ IsFiniteSet(one \cup {b})
      BY <3>2, FS_AddElement
    <3> QED
      BY <3>1, <3>2, <3>3
  <2>3. Cardinality({a} \cup {b}) <= Cardinality(S)
    <3>1. {a} \cup {b} \in SUBSET S
      BY <1>1
    <3> QED
      BY <3>1, FS_Subset
  <2>4. Cardinality(S) \in Nat
    BY FS_CardinalityType
  <2> QED
    BY <1>1, <2>2, <2>3, <2>4
<1>2. ASSUME \A a, b \in S : a = b PROVE Cardinality(S) <= 1
  <2>1. CASE S = {}
    BY <2>1, FS_EmptySet
  <2>2. CASE S # {}
    <3>1. PICK a \in S : S = {a}
      BY <1>2, <2>2
    <3> QED
      BY <3>1, FS_Singleton
  <2> QED
    BY <2>1, <2>2
<1> QED
  BY <1>1, <1>2

(* What read_number takes, place by place: a number or one that ends in its dot.*)
LEMMA NumberIs ==
    ASSUME NEW s \in Seq(STRING), NEW n \in Nat \ {0}, Len(s) = n
    PROVE  IsNumber(s) \/ IsDotted(s) <=>
             /\ s[1] \in Digits
             /\ \A i \in 1..n : s[i] \in Digits \/ s[i] = "."
             /\ \A i, j \in 1..n : s[i] = "." /\ s[j] = "." => i = j
<1>1. PICK dots : dots = {i \in DOMAIN s : s[i] = "."}
  OBVIOUS
<1>2. DOMAIN s = 1..n /\ dots \subseteq 1..n
  BY <1>1
<1>3. IsFiniteSet(1..n)
  BY FS_Interval
<1>4. IsFiniteSet(dots)
  <2>1. dots \in SUBSET (1..n)
    BY <1>2
  <2> QED
    BY <1>3, <2>1, FS_Subset
<1>5. Cardinality(dots) <= 1 <=> \A i, j \in dots : i = j
  BY <1>4, AtMostOne
<1>6. IsNumber(s) <=> /\ s[1] \in Digits /\ s[n] \in Digits
                      /\ \A i \in 1..n : s[i] \in Digits \/ s[i] = "."
                      /\ Cardinality(dots) <= 1
  BY <1>1, <1>2 DEF IsNumber
<1>7. (\A i, j \in dots : i = j) <=> \A i, j \in 1..n : s[i] = "." /\ s[j] = "." => i = j
  BY <1>1, <1>2
<1>8. "." \notin Digits
  BY ClassesAreDisjoint
<1>9. IsDotted(s) <=> /\ n > 1 /\ s[n] = "."
                      /\ \A i \in 1..(n - 1) : s[i] \in Digits
  BY DEF IsDotted, Last
<1>10. ASSUME s[1] \in Digits, \A i \in 1..n : s[i] \in Digits \/ s[i] = ".",
              \A i, j \in 1..n : s[i] = "." /\ s[j] = "." => i = j
       PROVE  s[n] \in Digits \/ IsDotted(s)
  <2>1. CASE s[n] = "."
    <3>1. n > 1
      BY <1>8, <1>10, <2>1
    <3>2. \A i \in 1..(n - 1) : i \in 1..n /\ i # n /\ n \in 1..n
      OBVIOUS
    <3>3. \A i \in 1..(n - 1) : s[i] \in Digits
      BY <1>10, <2>1, <3>2
    <3> QED
      BY <1>9, <2>1, <3>1, <3>3
  <2>2. n \in 1..n
    OBVIOUS
  <2> QED
    BY <1>10, <2>1, <2>2
<1>11. ASSUME IsDotted(s)
       PROVE  /\ s[1] \in Digits
              /\ \A i \in 1..n : s[i] \in Digits \/ s[i] = "."
              /\ \A i, j \in 1..n : s[i] = "." /\ s[j] = "." => i = j
  <2>1. \A i \in 1..n : i = n \/ i \in 1..(n - 1)
    OBVIOUS
  <2>2. 1 \in 1..(n - 1)
    BY <1>9, <1>11
  <2> QED
    BY <1>8, <1>9, <1>11, <2>1, <2>2
<1> QED
  BY <1>5, <1>6, <1>7, <1>10, <1>11

(* read_number: digits, and after a dot, if there is one, more of them.          *)
LEMMA LongestNumber ==
    ASSUME source \in Seq(UNION Alphabets), NEW start \in 1..Len(source),
           source[start] \in Digits
    PROVE  EndsLongest(start, NumberEnd(start))
<1>1. PICK E : E = SourceEnd
  OBVIOUS
<1>2. E \in Nat /\ E = Len(source) + 1 /\ start \in 1..(E - 1) /\ start \in 1..E
  BY <1>1, TextTyped DEF SourceEnd
<1>3. PICK whole : whole = EndOfRun(start, Digits)
  OBVIOUS
<1>4. /\ whole \in start..E
      /\ \A q \in start..(whole - 1) : source[q] \in Digits
      /\ whole < E => source[whole] \notin Digits
  BY <1>1, <1>2, <1>3, RunOfClass
<1>5. PICK end : end = NumberEnd(start)
  OBVIOUS
<1>6. end = IF whole < E /\ source[whole] = "." THEN EndOfRun(whole + 1, Digits) ELSE whole
  BY <1>1, <1>3, <1>5 DEF NumberEnd
<1>7. \/ end = whole /\ (whole < E => source[whole] # ".")
      \/ /\ whole < E /\ source[whole] = "." /\ end \in (whole + 1)..E
         /\ \A q \in (whole + 1)..(end - 1) : source[q] \in Digits
         /\ end < E => source[end] \notin Digits
  <2>1. CASE whole < E /\ source[whole] = "."
    <3>1. whole + 1 \in 1..SourceEnd
      BY <1>1, <1>2, <1>4, <2>1
    <3> QED
      BY <1>1, <1>6, <2>1, <3>1, RunOfClass
  <2> QED
    BY <1>6, <2>1
<1>8. "." \notin Digits
  BY ClassesAreDisjoint
<1>9. whole > start
  BY <1>2, <1>4
<1>10. end \in (start + 1)..E
  BY <1>2, <1>4, <1>7, <1>9
<1>11. ASSUME NEW n \in 1..(E - start)
       PROVE  IsTaken(Text(start, start + n)) <=>
                /\ \A q \in start..(start + n - 1) : source[q] \in Digits \/ source[q] = "."
                /\ \A p, q \in start..(start + n - 1) :
                       source[p] = "." /\ source[q] = "." => p = q
  <2>1. PICK s : s = Text(start, start + n)
    OBVIOUS
  <2>2. Len(s) = n /\ (\A i \in 1..n : s[i] = source[start + i - 1]) /\ s \in Seq(STRING)
    BY <1>1, <2>1, TextIs
  <2>3. s[1] \in Digits /\ n \in Nat \ {0}
    BY <1>2, <2>2
  <2>4. IsTaken(s) <=> /\ \A i \in 1..n : s[i] \in Digits \/ s[i] = "."
                       /\ \A i, j \in 1..n : s[i] = "." /\ s[j] = "." => i = j
    <3>1. IsTaken(s) <=> IsNumber(s) \/ IsDotted(s)
      BY <2>2, <2>3, KindsApart
    <3> QED
      BY <2>2, <2>3, <3>1, NumberIs
  <2>5. \A q \in start..(start + n - 1) : q - start + 1 \in 1..n /\ s[q - start + 1] = source[q]
    BY <1>2, <2>2
  <2>6. \A i \in 1..n : start + i - 1 \in start..(start + n - 1) /\ s[i] = source[start + i - 1]
    BY <1>2, <2>2
  <2>7. (\A i \in 1..n : s[i] \in Digits \/ s[i] = ".") <=>
          \A q \in start..(start + n - 1) : source[q] \in Digits \/ source[q] = "."
    BY <2>5, <2>6
  <2>8. ASSUME \A i, j \in 1..n : s[i] = "." /\ s[j] = "." => i = j,
               NEW p \in start..(start + n - 1), NEW q \in start..(start + n - 1),
               source[p] = ".", source[q] = "."
        PROVE  p = q
    <3>1. p - start + 1 = q - start + 1
      BY <2>5, <2>8
    <3> QED
      BY <1>2, <3>1
  <2>9. ASSUME \A p, q \in start..(start + n - 1) : source[p] = "." /\ source[q] = "." => p = q,
               NEW i \in 1..n, NEW j \in 1..n, s[i] = ".", s[j] = "."
        PROVE  i = j
    <3>1. start + i - 1 = start + j - 1
      BY <2>6, <2>9
    <3> QED
      BY <1>2, <3>1
  <2> QED
    BY <2>1, <2>4, <2>7, <2>8, <2>9
<1>12. end - start \in TokenLengths(start)
  <2>1. PICK n : n = end - start
    OBVIOUS
  <2>2. n \in 1..(E - start) /\ start + n - 1 = end - 1
    BY <1>2, <1>10, <2>1
  <2>3. \A q \in start..(end - 1) : source[q] \in Digits \/ (source[q] = "." /\ q = whole)
    BY <1>2, <1>4, <1>7
  <2>4. IsTaken(Text(start, start + n))
    BY <1>8, <1>11, <2>2, <2>3
  <2> QED
    BY <1>1, <2>1, <2>2, <2>4 DEF TokenLengths
<1>13. ASSUME NEW n \in TokenLengths(start), ~(n <= end - start) PROVE FALSE
  <2>1. n \in 1..(E - start) /\ IsTaken(Text(start, start + n))
    BY <1>1 DEF TokenLengths
  <2>2. end < E /\ end \in start..(start + n - 1)
    BY <1>2, <1>10, <1>13, <2>1
  <2>3. /\ source[end] \in Digits \/ source[end] = "."
        /\ \A p, q \in start..(start + n - 1) : source[p] = "." /\ source[q] = "." => p = q
    BY <1>11, <2>1, <2>2
  <2>4. whole < end /\ source[whole] = "." /\ source[end] = "."
    BY <1>2, <1>4, <1>7, <2>2, <2>3
  <2>5. whole \in start..(start + n - 1)
    BY <1>2, <1>4, <2>1, <2>2, <2>4
  <2> QED
    BY <2>2, <2>3, <2>4, <2>5
<1> QED
  BY <1>5, <1>12, <1>13 DEF EndsLongest

(* read_symbol: a character, or as far as the table of compounds has it.         *)
LEMMA LongestSymbol ==
    ASSUME source \in Seq(UNION Alphabets), NEW start \in 1..Len(source),
           source[start] \notin Letters \cup Digits \cup Spaces \cup {Quote}
    PROVE  EndsLongest(start, SymbolEnd(start))
<1>1. PICK E : E = SourceEnd
  OBVIOUS
<1>2. E \in Nat /\ E = Len(source) + 1 /\ start \in 1..(E - 1) /\ start \in 1..E
  BY <1>1, TextTyped DEF SourceEnd
<1>3. PICK end : end = SymbolEnd(start)
  OBVIOUS
<1>4. PICK grown : grown = {p \in (start + 1)..(E - 1) : Text(start, p + 1) \in CompoundSymbols}
  OBVIOUS
<1>5. ASSUME NEW n \in 1..(E - start)
      PROVE  /\ IsTaken(Text(start, start + n)) <=> n = 1 \/ start + n - 1 \in grown
             /\ start + n - 1 \in grown => n = 2 \/ (n = 3 /\ start + 1 \in grown)
  <2>1. PICK s : s = Text(start, start + n)
    OBVIOUS
  <2>2. Len(s) = n /\ (\A i \in 1..n : s[i] = source[start + i - 1]) /\ s \in Seq(STRING)
    BY <1>1, <2>1, TextIs
  <2>3. s[1] \notin Letters \cup Digits \cup Spaces \cup {Quote}
    BY <1>2, <2>2
  <2>4. IsTaken(s) <=> n = 1 \/ s \in CompoundSymbols
    BY <2>2, <2>3, KindsApart DEF IsSymbol
  <2>5. s \in CompoundSymbols => n = 2 \/ n = 3
    BY <2>2, CompoundsBegin
  <2>6. start + n - 1 \in grown <=> s \in CompoundSymbols
    <3>1. start + n - 1 + 1 = start + n
      BY <1>2
    <3>2. n # 1 => start + n - 1 \in (start + 1)..(E - 1)
      BY <1>2
    <3>3. start + n - 1 \in grown => n # 1
      BY <1>2, <1>4
    <3> QED
      BY <1>4, <2>1, <2>5, <3>1, <3>2, <3>3
  <2>7. ASSUME s \in CompoundSymbols, n = 3 PROVE start + 1 \in grown
    <3>1. <<s[1], s[2]>> \in CompoundSymbols
      <4>1. Len(s) = 2 \/ (Len(s) = 3 /\ <<s[1], s[2]>> \in CompoundSymbols)
        BY <2>7, CompoundsBegin
      <4>2. Len(s) # 2
        BY <2>2, <2>7
      <4> QED
        BY <4>1, <4>2
    <3>2. PICK two : two = Text(start, start + 2)
      OBVIOUS
    <3>3. 2 \in 1..(SourceEnd - start)
      BY <1>1, <1>2, <2>7
    <3>4. Len(two) = 2 /\ (\A i \in 1..2 : two[i] = source[start + i - 1]) /\ two \in Seq(STRING)
      BY <3>2, <3>3, TextIs
    <3>5. two[1] = s[1] /\ two[2] = s[2]
      BY <2>2, <2>7, <3>4
    <3>6. two = <<s[1], s[2]>>
      BY <3>4, <3>5
    <3>7. start + 1 \in (start + 1)..(E - 1) /\ start + 1 + 1 = start + 2
      BY <1>2, <2>7
    <3> QED
      BY <1>4, <3>1, <3>2, <3>6, <3>7
  <2> QED
    BY <2>1, <2>4, <2>5, <2>6, <2>7
<1>6. end = IF start + 1 \notin grown THEN start + 1
            ELSE IF start + 2 \notin grown THEN start + 2 ELSE start + 3
  <2>1. ASSUME NEW p \in grown PROVE p = start + 1 \/ p = start + 2
    <3>1. PICK n : n = p + 1 - start
      OBVIOUS
    <3>2. n \in 1..(E - start) /\ p = start + n - 1
      BY <1>2, <1>4, <3>1
    <3>3. start + n - 1 \in grown
      BY <2>1, <3>2
    <3>4. n = 2 \/ n = 3
      BY <1>5, <3>2, <3>3
    <3> QED
      BY <1>2, <3>2, <3>4
  <2>2. PICK after : /\ end = after[start + 1]
                     /\ \A p \in 1..SourceEnd :
                            after[p] = IF p < SourceEnd /\ Text(start, p + 1) \in CompoundSymbols
                                       THEN after[p + 1] ELSE p
    BY <1>3, SymbolSteps
  <2>3. ASSUME NEW p \in (start + 1)..E
        PROVE  after[p] = IF p \in grown THEN after[p + 1] ELSE p
    <3>1. p \in 1..SourceEnd /\ (p < E <=> p \in (start + 1)..(E - 1))
      BY <1>1, <1>2
    <3> QED
      BY <1>1, <1>4, <2>2, <3>1
  <2>4. /\ start + 1 \in (start + 1)..E
        /\ after[start + 1] = IF start + 1 \in grown THEN after[start + 2] ELSE start + 1
    BY <1>2, <2>3
  <2>5. start + 1 \in grown =>
          after[start + 2] = IF start + 2 \in grown THEN after[start + 3] ELSE start + 2
    <3>1. start + 1 \in grown => start + 2 \in (start + 1)..E /\ start + 2 + 1 = start + 3
      BY <1>2, <1>4
    <3> QED
      BY <2>3, <3>1
  <2>6. start + 2 \in grown => after[start + 3] = start + 3
    <3>1. start + 2 \in grown => start + 3 \in (start + 1)..E
      BY <1>2, <1>4
    <3>2. start + 3 \notin grown
      BY <1>2, <2>1
    <3> QED
      BY <2>3, <3>1, <3>2
  <2> QED
    BY <2>2, <2>4, <2>5, <2>6
<1>7. end - start \in 1..(E - start)
  BY <1>1, <1>2, <1>3, SymbolEnds
<1>8. end - start \in TokenLengths(start)
  <2>1. PICK n : n = end - start
    OBVIOUS
  <2>2. n \in 1..(E - start) /\ (n = 1 \/ start + n - 1 \in grown)
    BY <1>2, <1>6, <1>7, <2>1
  <2> QED
    BY <1>1, <1>5, <2>1, <2>2 DEF TokenLengths
<1>9. ASSUME NEW n \in TokenLengths(start), ~(n <= end - start) PROVE FALSE
  <2>1. n \in 1..(E - start) /\ (n = 1 \/ start + n - 1 \in grown)
    BY <1>1, <1>5 DEF TokenLengths
  <2>2. n # 1
    BY <1>2, <1>6, <1>9, <2>1
  <2>3. n = 2 \/ (n = 3 /\ start + 1 \in grown)
    BY <1>5, <2>1, <2>2
  <2> QED
    BY <1>2, <1>6, <1>9, <2>1, <2>2, <2>3
<1> QED
  BY <1>3, <1>8, <1>9 DEF EndsLongest

(* Whether a character is escaped hangs on the one before it and whether that   *)
(* one is.                                                                      *)
LEMMA EscapedSteps ==
    ASSUME NEW s, NEW i \in Nat, i >= 2
    PROVE  Escaped(s, i + 1) <=> s[i] = Backslash /\ ~Escaped(s, i)
<1>1. PICK old : old = {j \in 2..(i - 1) : \A k \in j..(i - 1) : s[k] = Backslash}
  OBVIOUS
<1>2. PICK new : new = {j \in 2..i : \A k \in j..i : s[k] = Backslash}
  OBVIOUS
<1>3. Escaped(s, i) <=> Cardinality(old) % 2 = 1
  BY <1>1 DEF Escaped
<1>4. Escaped(s, i + 1) <=> Cardinality(new) % 2 = 1
  <2>1. i + 1 - 1 = i
    OBVIOUS
  <2> QED
    BY <1>2, <2>1 DEF Escaped
<1>5. CASE s[i] # Backslash
  <2>1. new = {}
    <3> SUFFICES ASSUME NEW j \in new PROVE FALSE
      OBVIOUS
    <3>1. j \in 2..i /\ i \in j..i
      BY <1>2
    <3> QED
      BY <1>2, <1>5, <3>1
  <2>2. Cardinality(new) = 0
    BY <2>1, FS_EmptySet
  <2> QED
    BY <1>4, <1>5, <2>2
<1>6. CASE s[i] = Backslash
  <2>1. new = old \cup {i}
    <3>1. ASSUME NEW j \in new, j # i PROVE j \in old
      <4>1. j \in 2..(i - 1) /\ \A k \in j..(i - 1) : k \in j..i
        BY <1>2, <3>1
      <4> QED
        BY <1>1, <1>2, <4>1
    <3>2. ASSUME NEW j \in old PROVE j \in new
      <4>1. j \in 2..i /\ \A k \in j..i : k = i \/ k \in j..(i - 1)
        BY <1>1
      <4> QED
        BY <1>1, <1>2, <1>6, <4>1
    <3>3. i \in new
      <4>1. i \in 2..i /\ \A k \in i..i : k = i
        OBVIOUS
      <4> QED
        BY <1>2, <1>6, <4>1
    <3> QED
      BY <3>1, <3>2, <3>3
  <2>2. IsFiniteSet(old) /\ i \notin old
    <3>1. old \in SUBSET (2..(i - 1)) /\ i \notin old
      BY <1>1
    <3>2. 2 \in Int /\ i - 1 \in Int
      OBVIOUS
    <3>3. IsFiniteSet(2..(i - 1))
      BY <3>2, FS_Interval
    <3> QED
      BY <3>1, <3>3, FS_Subset
  <2>3. Cardinality(new) = Cardinality(old) + 1 /\ Cardinality(old) \in Nat
    BY <2>1, <2>2, FS_AddElement, FS_CardinalityType
  <2>4. \A c \in Nat : (c + 1) % 2 = 1 <=> ~(c % 2 = 1)
    OBVIOUS
  <2> QED
    BY <1>3, <1>4, <1>6, <2>3, <2>4
<1> QED
  BY <1>5, <1>6

(* Nothing is escaped right behind the opening quote.                           *)
LEMMA NotEscapedFirst == \A s : ~Escaped(s, 2)
<1> SUFFICES ASSUME NEW s PROVE ~Escaped(s, 2)
  OBVIOUS
<1>1. {j \in 2..(2 - 1) : \A k \in j..(2 - 1) : s[k] = Backslash} = {}
  OBVIOUS
<1>2. Cardinality({}) = 0 /\ 0 % 2 = 0
  BY FS_EmptySet
<1> QED
  BY <1>1, <1>2 DEF Escaped

(* And it hangs on what stands before a character alone.                        *)
LEMMA EscapedAgrees ==
    ASSUME NEW s, NEW t, NEW i \in Nat, \A k \in 1..(i - 1) : s[k] = t[k]
    PROVE  Escaped(s, i) <=> Escaped(t, i)
<1>1. ASSUME NEW j \in 2..(i - 1)
      PROVE  (\A k \in j..(i - 1) : s[k] = Backslash) <=> \A k \in j..(i - 1) : t[k] = Backslash
  <2>1. \A k \in j..(i - 1) : k \in 1..(i - 1)
    OBVIOUS
  <2> QED
    BY <2>1
<1>2. {j \in 2..(i - 1) : \A k \in j..(i - 1) : s[k] = Backslash} =
        {j \in 2..(i - 1) : \A k \in j..(i - 1) : t[k] = Backslash}
  BY <1>1
<1> QED
  BY <1>2 DEF Escaped

\* A quote, not escaped, in the string that begins somewhere.
ClosesAt(start, q) ==
    /\ q \in (start + 1)..Len(source) /\ source[q] = Quote
    /\ ~Escaped(Text(start, SourceEnd), q - start + 1)

\* Up to which place a string goes, from one of its places on.
RunsTo(start, from, end) ==
    \/ end = SourceEnd /\ \A q \in from..Len(source) : ~ClosesAt(start, q)
    \/ /\ end - 1 \in from..Len(source) /\ ClosesAt(start, end - 1)
       /\ \A q \in from..(end - 2) : ~ClosesAt(start, q)

(* read_string: it goes to the first quote that is not escaped, if there is one. *)
LEMMA StringRuns ==
    ASSUME source \in Seq(UNION Alphabets), NEW start \in 1..Len(source)
    PROVE  RunsTo(start, start + 1, StringEnd(start))
<1>1. PICK size : size = Len(source)
  OBVIOUS
<1>2. size \in Nat /\ SourceEnd = size + 1 /\ start \in 1..size
  BY <1>1, TextTyped DEF SourceEnd
<1>3. PICK after : /\ StringEnd(start) = after[start + 1]
                   /\ \A p \in 1..SourceEnd :
                          after[p] = IF p = SourceEnd THEN p
                                     ELSE IF source[p] = Quote THEN p + 1
                                     ELSE IF source[p] = Backslash /\ p < Len(source)
                                     THEN after[p + 2]
                                     ELSE after[p + 1]
  BY StringSteps
<1>4. PICK s : s = Text(start, SourceEnd)
  OBVIOUS
<1>5. \A i \in 1..(size + 1 - start) : s[i] = source[start + i - 1]
  <2>1. PICK n : n = size + 1 - start
    OBVIOUS
  <2>2. n \in 1..(SourceEnd - start) /\ start + n = SourceEnd
    BY <1>2, <2>1
  <2> QED
    BY <1>4, <2>1, <2>2, TextIs
<1>6. ASSUME NEW p \in (start + 1)..size
      PROVE  Escaped(s, p + 1 - start + 1) <=> source[p] = Backslash /\ ~Escaped(s, p - start + 1)
  <2>1. PICK i : i = p - start + 1
    OBVIOUS
  <2>2. i \in Nat /\ i >= 2 /\ p + 1 - start + 1 = i + 1 /\ i \in 1..(size + 1 - start)
        /\ start + i - 1 = p
    BY <1>2, <2>1
  <2>3. s[i] = source[p]
    BY <1>5, <2>2
  <2>4. Escaped(s, i + 1) <=> s[i] = Backslash /\ ~Escaped(s, i)
    BY <2>2, EscapedSteps
  <2> QED
    BY <2>1, <2>2, <2>3, <2>4
<1>7. \A q : ClosesAt(start, q) <=> /\ q \in (start + 1)..size /\ source[q] = Quote
                                    /\ ~Escaped(s, q - start + 1)
  BY <1>1, <1>4 DEF ClosesAt
<1>8. Quote # Backslash
  BY DEF Quote, Backslash
<1> DEFINE Good(p) == p = size + 1 \/ ~Escaped(s, p - start + 1)
           wrong == {d \in 0..(size - start) :
                       Good(size + 1 - d) /\ ~RunsTo(start, size + 1 - d, after[size + 1 - d])}
<1>9. wrong = {}
  <2> SUFFICES ASSUME wrong # {} PROVE FALSE
    OBVIOUS
  <2>1. PICK first \in wrong : \A d \in wrong : first <= d
    <3>1. wrong \subseteq Nat
      BY <1>2
    <3> HIDE DEF wrong
    <3> QED
      BY <3>1, MinIsFirst
  <2>2. PICK p : p = size + 1 - first
    OBVIOUS
  <2>3. p \in (start + 1)..(size + 1) /\ Good(p) /\ ~RunsTo(start, p, after[p])
    BY <1>2, <2>1, <2>2
  <2>4. ASSUME NEW q \in (p + 1)..(size + 1), Good(q) PROVE RunsTo(start, q, after[q])
    <3>1. PICK d : d = size + 1 - q
      OBVIOUS
    <3>2. d \in 0..(size - start) /\ size + 1 - d = q /\ ~(first <= d)
      BY <1>2, <2>1, <2>2, <2>3, <3>1
    <3>3. d \notin wrong
      BY <2>1, <3>2
    <3> QED
      BY <2>4, <3>2, <3>3
  <2>5. after[p] = IF p = size + 1 THEN p
                   ELSE IF source[p] = Quote THEN p + 1
                   ELSE IF source[p] = Backslash /\ p < size THEN after[p + 2]
                   ELSE after[p + 1]
    <3>1. p \in 1..SourceEnd
      BY <1>2, <2>3
    <3> QED
      BY <1>1, <1>2, <1>3, <3>1
  <2>6. ASSUME NEW q \in (p + 1)..(size + 1), after[p] = after[q], Good(q),
               \A r \in p..(q - 1) : ~ClosesAt(start, r)
        PROVE  FALSE
    <3>1. PICK end : end = after[p]
      OBVIOUS
    <3>2. RunsTo(start, q, end)
      BY <2>4, <2>6, <3>1
    <3>3. CASE end = SourceEnd /\ \A r \in q..size : ~ClosesAt(start, r)
      <4>1. \A r \in p..size : r \in q..size \/ r \in p..(q - 1)
        BY <1>2, <2>3
      <4>2. \A r \in p..size : ~ClosesAt(start, r)
        BY <2>6, <3>3, <4>1
      <4>3. RunsTo(start, p, end)
        BY <1>1, <3>3, <4>2 DEF RunsTo
      <4> QED
        BY <2>3, <3>1, <4>3
    <3>4. CASE /\ end - 1 \in q..size /\ ClosesAt(start, end - 1)
               /\ \A r \in q..(end - 2) : ~ClosesAt(start, r)
      <4>1. \A r \in p..(end - 2) : r \in q..(end - 2) \/ r \in p..(q - 1)
        BY <1>2, <2>3, <3>4
      <4>2. \A r \in p..(end - 2) : ~ClosesAt(start, r)
        BY <2>6, <3>4, <4>1
      <4>3. end - 1 \in p..size
        BY <1>2, <2>3, <3>4
      <4>4. RunsTo(start, p, end)
        BY <1>1, <3>4, <4>2, <4>3 DEF RunsTo
      <4> QED
        BY <2>3, <3>1, <4>4
    <3> QED
      BY <1>1, <3>2, <3>3, <3>4 DEF RunsTo
  <2>7. CASE p = size + 1
    <3>1. \A q \in p..size : FALSE
      BY <1>2, <2>7
    <3> QED
      BY <1>1, <1>2, <2>3, <2>5, <2>7, <3>1 DEF RunsTo
  <2>8. CASE p # size + 1 /\ source[p] = Quote
    <3>1. after[p] = p + 1 /\ p \in (start + 1)..size
      BY <1>2, <2>3, <2>5, <2>8
    <3>2. ~Escaped(s, p - start + 1)
      BY <2>3, <2>8
    <3>3. ClosesAt(start, p)
      BY <1>7, <2>8, <3>1, <3>2
    <3>4. RunsTo(start, p, p + 1)
      <4>1. PICK e : e = p + 1
        OBVIOUS
      <4>2. p \in Int /\ p \in p..Len(source)
        BY <1>1, <1>2, <3>1
      <4>3. e - 1 = p /\ e - 2 < p
        BY <4>1, <4>2
      <4>4. \A q \in p..(e - 2) : FALSE
        BY <4>1, <4>2
      <4>5. RunsTo(start, p, e)
        BY <3>3, <4>2, <4>3, <4>4 DEF RunsTo
      <4> QED
        BY <4>1, <4>5
    <3> QED
      BY <2>3, <3>1, <3>4
  <2>9. CASE p # size + 1 /\ source[p] = Backslash /\ p < size
    <3>1. after[p] = after[p + 2] /\ p \in (start + 1)..size /\ p + 1 \in (start + 1)..size
      BY <1>2, <1>8, <2>3, <2>5, <2>9
    <3>2. Escaped(s, p + 1 - start + 1)
      BY <1>6, <2>3, <2>9, <3>1
    <3>3. ~Escaped(s, p + 2 - start + 1)
      <4>1. p + 1 + 1 - start + 1 = p + 2 - start + 1
        BY <1>2, <3>1
      <4>2. Escaped(s, p + 1 + 1 - start + 1) <=>
              source[p + 1] = Backslash /\ ~Escaped(s, p + 1 - start + 1)
        BY <1>6, <3>1
      <4> QED
        BY <3>2, <4>1, <4>2
    <3>4. p + 2 \in (p + 1)..(size + 1) /\ \A r \in p..(p + 2 - 1) : r = p \/ r = p + 1
      BY <1>2, <3>1
    <3>5. ~ClosesAt(start, p) /\ ~ClosesAt(start, p + 1)
      <4>1. source[p] # Quote
        BY <1>8, <2>9
      <4>2. ~ClosesAt(start, p)
        BY <1>7, <4>1
      <4>3. p + 1 - start + 1 = (p + 1) - start + 1
        BY <1>2, <3>1
      <4>4. Escaped(s, (p + 1) - start + 1)
        BY <3>2, <4>3
      <4>5. ~ClosesAt(start, p + 1)
        BY <1>7, <4>4
      <4> QED
        BY <4>2, <4>5
    <3> QED
      BY <2>6, <3>1, <3>3, <3>4, <3>5
  <2>10. CASE p # size + 1 /\ source[p] # Quote /\ ~(source[p] = Backslash /\ p < size)
    <3>1. after[p] = after[p + 1] /\ p \in (start + 1)..size
      BY <1>2, <2>3, <2>5, <2>10
    <3>2. Good(p + 1)
      BY <1>2, <1>6, <2>10, <3>1
    <3>3. p + 1 \in (p + 1)..(size + 1) /\ \A r \in p..(p + 1 - 1) : r = p
      BY <1>2, <3>1
    <3>4. ~ClosesAt(start, p)
      BY <1>7, <2>10
    <3> QED
      BY <2>6, <3>1, <3>2, <3>3, <3>4
  <2> QED
    BY <2>7, <2>8, <2>9, <2>10
<1>10. start + 1 \in (start + 1)..(size + 1) /\ ~Escaped(s, start + 1 - start + 1)
  <2>1. start + 1 - start + 1 = 2 /\ start + 1 \in (start + 1)..(size + 1)
    BY <1>2
  <2> QED
    BY <2>1, NotEscapedFirst
<1>11. PICK d : d = size - start
  OBVIOUS
<1>12. d \in 0..(size - start) /\ size + 1 - d = start + 1
  BY <1>2, <1>11
<1>13. d \notin wrong
  BY <1>9
<1>14. RunsTo(start, start + 1, after[start + 1])
  BY <1>10, <1>12, <1>13
<1> QED
  BY <1>3, <1>14

(* A string is as long as there is one, and all the text there is if nothing     *)
(* closes it.                                                                   *)
LEMMA LongestString ==
    ASSUME source \in Seq(UNION Alphabets), NEW start \in 1..Len(source),
           source[start] = Quote
    PROVE  \/ EndsLongest(start, StringEnd(start))
           \/ TokenLengths(start) = {} /\ StringEnd(start) = SourceEnd
<1>1. PICK size : size = Len(source)
  OBVIOUS
<1>2. size \in Nat /\ SourceEnd = size + 1 /\ start \in 1..size
  BY <1>1, TextTyped DEF SourceEnd
<1>3. PICK end : end = StringEnd(start)
  OBVIOUS
<1>4. RunsTo(start, start + 1, end) /\ end \in (start + 1)..(size + 1)
  BY <1>2, <1>3, StringRuns, StringEnds
<1>5. ASSUME NEW n \in 1..(size + 1 - start)
      PROVE  IsTaken(Text(start, start + n)) <=>
               /\ ClosesAt(start, start + n - 1)
               /\ \A q \in (start + 1)..(start + n - 2) : ~ClosesAt(start, q)
  <2>1. PICK s : s = Text(start, start + n)
    OBVIOUS
  <2>2. Len(s) = n /\ (\A i \in 1..n : s[i] = source[start + i - 1]) /\ s \in Seq(STRING)
    <3>1. n \in 1..(SourceEnd - start)
      BY <1>2
    <3> QED
      BY <2>1, <3>1, TextIs
  <2>3. s[1] = Quote
    BY <1>2, <2>2
  <2>4. IsTaken(s) <=> n > 1 /\ \A i \in 2..n : (s[i] = Quote /\ ~Escaped(s, i)) <=> i = n
    BY <2>2, <2>3, KindsApart DEF IsString
  <2>5. PICK rest : rest = Text(start, SourceEnd)
    OBVIOUS
  <2>6. \A i \in 1..(size + 1 - start) : rest[i] = source[start + i - 1]
    <3>1. PICK m : m = size + 1 - start
      OBVIOUS
    <3>2. m \in 1..(SourceEnd - start) /\ start + m = SourceEnd
      BY <1>2, <3>1
    <3> QED
      BY <2>5, <3>1, <3>2, TextIs
  <2>7. ASSUME NEW i \in 2..n
        PROVE  s[i] = Quote /\ ~Escaped(s, i) <=> ClosesAt(start, start + i - 1)
    <3>1. i \in Nat /\ \A k \in 1..(i - 1) : k \in 1..n /\ k \in 1..(size + 1 - start)
      BY <1>2
    <3>2. Escaped(s, i) <=> Escaped(rest, i)
      <4>1. \A k \in 1..(i - 1) : s[k] = rest[k]
        BY <2>2, <2>6, <3>1
      <4> QED
        BY <3>1, <4>1, EscapedAgrees
    <3>3. PICK q : q = start + i - 1
      OBVIOUS
    <3>4. q \in (start + 1)..size /\ q - start + 1 = i
      BY <1>2, <3>3
    <3>5. s[i] = source[q]
      BY <2>2, <3>3
    <3> QED
      BY <1>1, <2>5, <3>2, <3>3, <3>4, <3>5 DEF ClosesAt
  <2>8. n > 1 <=> start + n - 1 \in (start + 1)..size
    BY <1>2
  <2>9. ASSUME ClosesAt(start, start + n - 1),
               \A q \in (start + 1)..(start + n - 2) : ~ClosesAt(start, q)
        PROVE  IsTaken(s)
    <3>1. n > 1
      BY <1>1, <2>8, <2>9 DEF ClosesAt
    <3>2. ASSUME NEW i \in 2..n
          PROVE  (s[i] = Quote /\ ~Escaped(s, i)) <=> i = n
      <4>1. CASE i = n
        BY <2>7, <2>9, <4>1
      <4>2. CASE i # n
        <5>1. start + i - 1 \in (start + 1)..(start + n - 2)
          BY <1>2, <4>2
        <5> QED
          BY <2>7, <2>9, <4>2, <5>1
      <4> QED
        BY <4>1, <4>2
    <3> QED
      BY <2>4, <3>1, <3>2
  <2>10. ASSUME IsTaken(s) PROVE ClosesAt(start, start + n - 1)
    <3>1. n \in 2..n
      BY <2>4, <2>10
    <3> QED
      BY <2>4, <2>7, <2>10, <3>1
  <2>11. ASSUME IsTaken(s), NEW q \in (start + 1)..(start + n - 2) PROVE ~ClosesAt(start, q)
    <3>1. PICK i : i = q - start + 1
      OBVIOUS
    <3>2. i \in 2..n /\ i # n /\ start + i - 1 = q
      BY <1>2, <3>1
    <3>3. ~(s[i] = Quote /\ ~Escaped(s, i))
      BY <2>4, <2>11, <3>2
    <3> QED
      BY <2>7, <3>2, <3>3
  <2> QED
    BY <2>1, <2>9, <2>10, <2>11
<1>6. \A n \in TokenLengths(start) : n \in 1..(size + 1 - start) /\ IsTaken(Text(start, start + n))
  BY <1>2 DEF TokenLengths
<1>7. CASE end = SourceEnd /\ \A q \in (start + 1)..size : ~ClosesAt(start, q)
  <2>1. ASSUME NEW n \in TokenLengths(start) PROVE FALSE
    <3>1. ClosesAt(start, start + n - 1)
      BY <1>5, <1>6
    <3> QED
      BY <1>1, <1>7, <3>1 DEF ClosesAt
  <2> QED
    BY <1>3, <1>7, <2>1
<1>8. CASE /\ end - 1 \in (start + 1)..size /\ ClosesAt(start, end - 1)
           /\ \A q \in (start + 1)..(end - 2) : ~ClosesAt(start, q)
  <2>1. end - start \in TokenLengths(start)
    <3>1. PICK n : n = end - start
      OBVIOUS
    <3>2. n \in 1..(size + 1 - start) /\ start + n - 1 = end - 1 /\ start + n - 2 = end - 2
      BY <1>2, <1>4, <1>8, <3>1
    <3>3. IsTaken(Text(start, start + n))
      BY <1>5, <1>8, <3>2
    <3> QED
      BY <1>2, <3>1, <3>2, <3>3 DEF TokenLengths
  <2>2. ASSUME NEW n \in TokenLengths(start), ~(n <= end - start) PROVE FALSE
    <3>1. end - 1 \in (start + 1)..(start + n - 2)
      BY <1>2, <1>4, <1>6, <1>8, <2>2
    <3> QED
      BY <1>5, <1>6, <1>8, <3>1
  <2> QED
    BY <1>3, <2>1, <2>2 DEF EndsLongest
<1> QED
  BY <1>1, <1>4, <1>7, <1>8 DEF RunsTo

(* Each kind of token is read to the end of the longest one.                    *)
LEMMA ReadsLongest ==
    ASSUME TypeOK, Next, ~Comment, ~EndOfFile
    PROVE  \E kind \in Kinds, end \in (Start + 1)..SourceEnd :
               /\ Read(kind, end)
               /\ \/ EndsLongest(Start, end)
                  \/ source[Start] = Quote /\ TokenLengths(Start) = {} /\ end = SourceEnd
<1>1. PICK start : start = Start
  OBVIOUS
<1>2. source \in Seq(UNION Alphabets)
  BY DEF TypeOK
<1>3. AtText => /\ start \in 1..Len(source) /\ source[start] \notin Spaces
                /\ start \in 1..SourceEnd
  <2>1. SourceEnd \in Nat /\ SourceEnd = Len(source) + 1 /\ position \in 1..SourceEnd
    BY <1>2, TextTyped DEF TypeOK, SourceEnd
  <2>2. start \in position..SourceEnd /\ (start < SourceEnd => source[start] \notin Spaces)
    BY <1>1, <1>2, <2>1, RunOfClass DEF Start
  <2> QED
    BY <1>1, <2>1, <2>2 DEF AtText
<1>4. CASE read_identifier
  <2>1. AtText /\ source[start] \in Letters
    BY <1>1, <1>4 DEF read_identifier
  <2>2. EndsLongest(start, IdentifierEnd(start))
    BY <1>2, <1>3, <2>1, LongestWord
  <2>3. /\ IdentifierEnd(Start) \in (Start + 1)..SourceEnd
        /\ Read("Keyword", IdentifierEnd(Start)) \/ Read("Identifier", IdentifierEnd(Start))
    BY <1>4, ReadsEnd DEF read_identifier
  <2> QED
    BY <1>1, <2>2, <2>3 DEF Kinds
<1>5. CASE read_number
  <2>1. AtText /\ source[start] \in Digits
    BY <1>1, <1>5 DEF read_number
  <2>2. EndsLongest(start, NumberEnd(start))
    BY <1>2, <1>3, <2>1, LongestNumber
  <2>3. NumberEnd(Start) \in (Start + 1)..SourceEnd /\ Read("Number", NumberEnd(Start))
    BY <1>5, ReadsEnd DEF read_number
  <2> QED
    BY <1>1, <2>2, <2>3 DEF Kinds
<1>6. CASE read_string
  <2>1. AtText /\ source[start] = Quote
    BY <1>1, <1>6 DEF read_string
  <2>2. \/ EndsLongest(start, StringEnd(start))
        \/ TokenLengths(start) = {} /\ StringEnd(start) = SourceEnd
    BY <1>2, <1>3, <2>1, LongestString
  <2>3. StringEnd(Start) \in (Start + 1)..SourceEnd /\ Read("StringLiteral", StringEnd(Start))
    BY <1>6, ReadsEnd DEF read_string
  <2> QED
    BY <1>1, <2>1, <2>2, <2>3 DEF Kinds
<1>7. CASE read_symbol
  <2>1. AtText /\ source[start] \notin Letters \cup Digits \cup {Quote}
    BY <1>1, <1>7 DEF read_symbol
  <2>2. EndsLongest(start, SymbolEnd(start))
    BY <1>2, <1>3, <2>1, LongestSymbol
  <2>3. SymbolEnd(Start) \in (Start + 1)..SourceEnd /\ Read("Symbol", SymbolEnd(Start))
    BY <1>7, ReadsEnd DEF read_symbol
  <2> QED
    BY <1>1, <2>2, <2>3 DEF Kinds
<1> QED
  BY <1>4, <1>5, <1>6, <1>7 DEF Next

\* What the property asks of the token that has been read.
MatchedLongest(token) ==
    /\ ~StandsAt(token.start, <<"/", "/">>)
    /\ Len(token.lexeme) =
           IF TokenLengths(token.start) = {} /\ source[token.start] = Quote
           THEN SourceEnd - token.start ELSE Max(TokenLengths(token.start))

(* Reading to there is what it asks.                                            *)
LEMMA ReadMatches ==
    ASSUME TypeOK, NEW kind \in Kinds, NEW end \in (Start + 1)..SourceEnd, Read(kind, end),
           \/ EndsLongest(Start, end)
           \/ source[Start] = Quote /\ TokenLengths(Start) = {} /\ end = SourceEnd
    PROVE  MatchedLongest(Token(kind, Start, end, Captured))
<1>1. PICK token : token = Token(kind, Start, end, Captured)
  OBVIOUS
<1>2. token.start = Start /\ token.lexeme = Text(Start, end)
  BY <1>1 DEF Token
<1>3. PICK start : start = Start
  OBVIOUS
<1>4. source \in Seq(UNION Alphabets) /\ SourceEnd \in Nat /\ start \in 1..Len(source)
  <2>1. source \in Seq(UNION Alphabets)
    BY DEF TypeOK
  <2>2. SourceEnd \in Nat /\ SourceEnd = Len(source) + 1
    BY <2>1, TextTyped DEF SourceEnd
  <2>3. Start \in 1..Len(source)
    BY <2>2, SkipTyped DEF Read, AtText, TypeOK
  <2> QED
    BY <1>3, <2>1, <2>2, <2>3
<1>5. Len(Text(start, end)) = end - start
  <2>1. PICK n : n = end - start
    OBVIOUS
  <2>2. n \in 1..(SourceEnd - start) /\ start + n = end
    BY <1>3, <1>4, <2>1
  <2>3. Len(Text(start, start + n)) = n
    BY <1>4, <2>2, TextIs
  <2> QED
    BY <2>1, <2>2, <2>3
<1>6. ~StandsAt(start, <<"/", "/">>)
  BY <1>3 DEF Read, AtComment
<1>7. CASE EndsLongest(Start, end)
  <2>1. Max(TokenLengths(start)) = end - start /\ TokenLengths(start) # {}
    BY <1>3, <1>4, <1>7, LongestIsMax DEF EndsLongest
  <2> QED
    BY <1>1, <1>2, <1>3, <1>5, <1>6, <2>1 DEF MatchedLongest
<1>8. CASE source[Start] = Quote /\ TokenLengths(Start) = {} /\ end = SourceEnd
  BY <1>1, <1>2, <1>3, <1>5, <1>6, <1>8 DEF MatchedLongest
<1> QED
  BY <1>7, <1>8

(* Every round keeps it.                                                        *)
LEMMA NextLongest ==
    ASSUME TypeOK, LongestMatch, [Next]_vars
    PROVE  LongestMatch'
<1>1. CASE UNCHANGED <<tokens, source, done>>
  BY <1>1 DEF LongestMatch, SourceEnd, Text, StandsAt
<1>2. CASE UNCHANGED vars \/ Comment
  BY <1>1, <1>2 DEF vars, Comment
<1>3. CASE EndOfFile
  BY <1>3 DEF EndOfFile, LongestMatch
<1>4. CASE Next /\ ~Comment /\ ~EndOfFile
  <2>1. PICK kind \in Kinds, end \in (Start + 1)..SourceEnd :
               /\ Read(kind, end)
               /\ \/ EndsLongest(Start, end)
                  \/ source[Start] = Quote /\ TokenLengths(Start) = {} /\ end = SourceEnd
    BY <1>4, ReadsLongest
  <2>2. PICK token : token = Token(kind, Start, end, Captured)
    OBVIOUS
  <2>3. MatchedLongest(token)
    BY <2>1, <2>2, ReadMatches
  <2>4. tokens' = Append(tokens, token) /\ source' = source
    BY <2>1, <2>2 DEF Read
  <2>5. token \in TokenRecords
    <3>1. Start \in 1..SourceEnd /\ end \in Start..SourceEnd
      BY SkipTyped, TextTyped DEF TypeOK
    <3> QED
      BY <2>2, <3>1, TokenTyped
  <2>6. Last(tokens') = token
    <3>1. tokens \in Seq(TokenRecords)
      BY DEF TypeOK
    <3> QED
      BY <2>4, <2>5, <3>1, AppendProperties DEF Last
  <2>7. MatchedLongest(token)'
    BY <2>3, <2>4 DEF MatchedLongest, TokenLengths, StandsAt, Text, SourceEnd
  <2>8. LongestMatch' <=> (tokens' # <<>> /\ ~done' => MatchedLongest(Last(tokens))')
    BY DEF LongestMatch, MatchedLongest, TokenLengths, IsTaken
  <2> QED
    BY <2>6, <2>7, <2>8
<1> QED
  BY <1>2, <1>3, <1>4

(* read_identifier, read_number, read_string, read_symbol: whatever the text,    *)
(* each token is the longest of the grammar's where it begins, however           *)
(* characters, dots, escapes and compound symbols follow one another, but for a  *)
(* string that nothing closes, which is the rest of the text, and for a dot      *)
(* right behind a whole number, which is read with it.                          *)
THEOREM LexerTakesLongest == Spec => []LongestMatch
<1>1. Init => LongestMatch
  BY DEF Init, LongestMatch
<1>2. TypeOK /\ LongestMatch /\ [Next]_vars => LongestMatch'
  BY NextLongest
<1> HIDE DEF Init, TypeOK, LongestMatch, Next, vars
<1> QED
  BY <1>1, <1>2, LexerTypeCorrect, PTL DEF Spec
===============================================================================
