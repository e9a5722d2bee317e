---------------------------- MODULE SequenceLemmas ----------------------------
(* What the proofs need of sequences beyond the library: the first of a set of   *)
(* numbers, FlattenSeq, and which elements a sequence has.                      *)
EXTENDS Integers, SequencesExt, SequenceTheorems, WellFoundedInduction, TLAPS

(* Natural numbers, if any, have a first one, and Min is it.                    *)
LEMMA MinIsFirst ==
    ASSUME NEW S, S \subseteq Nat, S # {}
    PROVE  Min(S) \in S /\ \A other \in S : Min(S) <= other
<1> DEFINE R == OpToRel(<, Nat)
<1>1. IsWellFoundedOn(R, Nat)
  BY NatLessThanWellFounded
<1>2. PICK x \in S : \A y \in S : <<y, x>> \notin R
  <2> HIDE DEF R
  <2> QED
    BY <1>1, WFMin
<1>3. \A y \in S : x <= y
  <2>1. \A y \in S : ~(y < x)
    BY <1>2 DEF OpToRel
  <2> QED
    BY <2>1
<1> QED
  BY <1>3 DEF Min

-------------------------------------------------------------------------------
(* Flattening.                                                                  *)

\* What FlattenSeq builds, one sequence after the other.
IsFlat(flat, seqs, n) ==
    flat = [i \in 1..n |-> IF i = 1 THEN seqs[i] ELSE flat[i - 1] \o seqs[i]]

(* It can be built, as far as one likes.                                        *)
LEMMA FlatExists ==
    ASSUME NEW seqs, NEW n \in Nat
    PROVE  \E flat : IsFlat(flat, seqs, n)
<1> DEFINE stuck == {k \in Nat : ~\E flat : IsFlat(flat, seqs, k)}
<1> SUFFICES ASSUME stuck # {} PROVE FALSE
  OBVIOUS
<1>1. PICK first \in stuck : \A k \in stuck : first <= k
  <2>1. stuck \subseteq Nat
    OBVIOUS
  <2> HIDE DEF stuck
  <2> QED
    BY <2>1, MinIsFirst
<1>2. first # 0
  <2>1. PICK flat : flat = [i \in 1..0 |-> seqs[i]]
    OBVIOUS
  <2>2. IsFlat(flat, seqs, 0)
    BY <2>1 DEF IsFlat
  <2> QED
    BY <2>2
<1>3. first \in Nat \ {0} /\ first - 1 \in Nat /\ first - 1 \notin stuck
  BY <1>1, <1>2
<1>4. PICK flat : IsFlat(flat, seqs, first - 1)
  BY <1>3
<1>5. PICK longer : longer = [i \in 1..first |->
         IF i = first THEN IF i = 1 THEN seqs[i] ELSE flat[i - 1] \o seqs[i] ELSE flat[i]]
  OBVIOUS
<1>6. ASSUME NEW i \in 1..first
      PROVE  longer[i] = IF i = 1 THEN seqs[i] ELSE longer[i - 1] \o seqs[i]
  <2>1. i # 1 => i - 1 \in 1..first /\ i - 1 # first
    BY <1>3
  <2>2. CASE i = first
    BY <1>5, <2>1, <2>2
  <2>3. CASE i # first
    <3>1. i \in 1..(first - 1)
      BY <1>3, <2>3
    <3>2. flat[i] = IF i = 1 THEN seqs[i] ELSE flat[i - 1] \o seqs[i]
      BY <1>4, <3>1 DEF IsFlat
    <3> QED
      BY <1>5, <2>1, <2>3, <3>2
  <2> QED
    BY <2>2, <2>3
<1>7. IsFlat(longer, seqs, first)
  BY <1>5, <1>6 DEF IsFlat
<1> QED
  BY <1>7

(* It depends on the sequences taken alone.                                     *)
LEMMA FlatsAgree ==
    ASSUME NEW seqs, NEW n \in Nat, NEW m \in 0..n, NEW flat, IsFlat(flat, seqs, n),
           NEW more, NEW other, IsFlat(other, more, m), \A i \in 1..m : seqs[i] = more[i]
    PROVE  \A i \in 1..m : flat[i] = other[i]
<1> DEFINE apart == {i \in 1..m : flat[i] # other[i]}
<1> SUFFICES ASSUME apart # {} PROVE FALSE
  OBVIOUS
<1>1. PICK first \in apart : \A k \in apart : first <= k
  <2>1. apart \subseteq Nat
    OBVIOUS
  <2> HIDE DEF apart
  <2> QED
    BY <2>1, MinIsFirst
<1>2. first \in 1..n /\ first \in 1..m
  OBVIOUS
<1>3. /\ flat[first] = IF first = 1 THEN seqs[first] ELSE flat[first - 1] \o seqs[first]
      /\ other[first] = IF first = 1 THEN more[first] ELSE other[first - 1] \o more[first]
  BY <1>2 DEF IsFlat
<1>4. first # 1
  BY <1>1, <1>2, <1>3
<1>5. first - 1 \in 1..m /\ first - 1 \notin apart
  BY <1>1, <1>2, <1>4
<1> QED
  BY <1>1, <1>2, <1>3, <1>5

(* FlattenSeq builds it.                                                        *)
LEMMA FlattenIsFlat ==
    ASSUME NEW seqs, Len(seqs) \in Nat \ {0}
    PROVE  \E flat : IsFlat(flat, seqs, Len(seqs)) /\ FlattenSeq(seqs) = flat[Len(seqs)]
<1> DEFINE flatten == CHOOSE flat : flat = [i \in 1..Len(seqs) |->
              IF i = 1 THEN seqs[i] ELSE flat[i - 1] \o seqs[i]]
<1>1. FlattenSeq(seqs) = flatten[Len(seqs)]
  BY DEF FlattenSeq
<1>2. IsFlat(flatten, seqs, Len(seqs))
  BY FlatExists DEF IsFlat
<1> QED
  BY <1>1, <1>2

(* One more sequence goes to the end.                                           *)
LEMMA FlattenAppend ==
    ASSUME NEW S, NEW seqs \in Seq(Seq(S)), NEW s \in Seq(S)
    PROVE  FlattenSeq(Append(seqs, s)) = FlattenSeq(seqs) \o s
<1>1. PICK n : n = Len(seqs)
  OBVIOUS
<1>2. PICK more : more = Append(seqs, s)
  OBVIOUS
<1>3. /\ n \in Nat /\ Len(more) = n + 1 /\ more[n + 1] = s
      /\ \A i \in 1..n : more[i] = seqs[i]
  BY <1>1, <1>2, LenProperties, AppendProperties
<1>4. PICK flat : IsFlat(flat, more, n + 1) /\ FlattenSeq(more) = flat[n + 1]
  <2>1. Len(more) \in Nat \ {0}
    BY <1>3
  <2> QED
    BY <1>3, <2>1, FlattenIsFlat
<1>5. flat[n + 1] = IF n = 0 THEN s ELSE flat[n] \o s
  <2>1. PICK m : m = n + 1
    OBVIOUS
  <2>2. m \in 1..m /\ m - 1 = n /\ (m = 1 <=> n = 0)
    BY <1>3, <2>1
  <2>3. flat[m] = IF m = 1 THEN more[m] ELSE flat[m - 1] \o more[m]
    BY <1>4, <2>1, <2>2 DEF IsFlat
  <2> QED
    BY <1>3, <2>1, <2>2, <2>3
<1>6. CASE n = 0
  <2>1. seqs = <<>> /\ FlattenSeq(seqs) = <<>>
    BY <1>1, <1>6, EmptySeq DEF FlattenSeq
  <2>2. <<>> \o s = s
    BY ConcatEmptySeq
  <2> QED
    BY <1>2, <1>4, <1>5, <1>6, <2>1, <2>2
<1>7. CASE n # 0
  <2>1. PICK old : IsFlat(old, seqs, n) /\ FlattenSeq(seqs) = old[n]
    BY <1>1, <1>3, <1>7, FlattenIsFlat
  <2>2. \A i \in 1..n : flat[i] = old[i]
    <3>1. n + 1 \in Nat /\ n \in 0..(n + 1)
      BY <1>3
    <3> QED
      BY <1>3, <1>4, <2>1, <3>1, FlatsAgree
  <2>3. flat[n] = old[n]
    BY <1>3, <1>7, <2>2
  <2> QED
    BY <1>2, <1>4, <1>5, <1>7, <2>1, <2>3
<1> QED
  BY <1>6, <1>7

(* Sequences of elements make a sequence of elements.                           *)
LEMMA FlattenTyped ==
    ASSUME NEW S, NEW seqs \in Seq(Seq(S))
    PROVE  FlattenSeq(seqs) \in Seq(S)
<1>1. PICK n : n = Len(seqs)
  OBVIOUS
<1>2. n \in Nat /\ \A i \in 1..n : seqs[i] \in Seq(S)
  BY <1>1, LenProperties
<1>3. CASE n = 0
  BY <1>1, <1>3, EmptySeq DEF FlattenSeq
<1>4. CASE n # 0
  <2>1. PICK flat : IsFlat(flat, seqs, n) /\ FlattenSeq(seqs) = flat[n]
    BY <1>1, <1>2, <1>4, FlattenIsFlat
  <2> DEFINE wrong == {i \in 1..n : flat[i] \notin Seq(S)}
  <2>2. wrong = {}
    <3> SUFFICES ASSUME wrong # {} PROVE FALSE
      OBVIOUS
    <3>1. PICK first \in wrong : \A k \in wrong : first <= k
      <4>1. wrong \subseteq Nat
        OBVIOUS
      <4> HIDE DEF wrong
      <4> QED
        BY <4>1, MinIsFirst
    <3>2. first \in 1..n /\ seqs[first] \in Seq(S)
      BY <1>2
    <3>3. flat[first] = IF first = 1 THEN seqs[first] ELSE flat[first - 1] \o seqs[first]
      BY <2>1, <3>2 DEF IsFlat
    <3>4. flat[first] \notin Seq(S) /\ first # 1
      <4>1. flat[first] \notin Seq(S)
        OBVIOUS
      <4> HIDE DEF wrong
      <4> QED
        BY <3>2, <3>3, <4>1
    <3>5. first - 1 \in 1..n /\ first - 1 \notin wrong
      <4>1. first - 1 \in 1..n /\ ~(first <= first - 1)
        BY <1>2, <3>2, <3>4
      <4> HIDE DEF wrong
      <4> QED
        BY <3>1, <4>1
    <3>6. flat[first - 1] \in Seq(S)
      BY <3>5
    <3>7. flat[first] \in Seq(S)
      BY <3>2, <3>3, <3>4, <3>6, ConcatProperties
    <3> QED
      BY <3>4, <3>7
  <2> QED
    BY <1>2, <1>4, <2>1, <2>2
<1> QED
  BY <1>3, <1>4

-------------------------------------------------------------------------------
(* The elements of a sequence.                                                  *)

(* Those of the sequences the models write out.                                 *)
LEMMA RangeOfTuples ==
    /\ Range(<<>>) = {} /\ Len(<<>>) = 0
    /\ \A a : Range(<<a>>) = {a} /\ Len(<<a>>) = 1
    /\ \A a, b : Range(<<a, b>>) = {a, b} /\ Len(<<a, b>>) = 2
<1>1. Range(<<>>) = {} /\ Len(<<>>) = 0
  BY DEF Range
<1>2. ASSUME NEW a PROVE Range(<<a>>) = {a} /\ Len(<<a>>) = 1
  <2>1. DOMAIN <<a>> = {1} /\ <<a>>[1] = a /\ Len(<<a>>) = 1
    OBVIOUS
  <2> QED
    BY <2>1 DEF Range
<1>3. ASSUME NEW a, NEW b PROVE Range(<<a, b>>) = {a, b} /\ Len(<<a, b>>) = 2
  <2>1. DOMAIN <<a, b>> = {1, 2} /\ <<a, b>>[1] = a /\ <<a, b>>[2] = b /\ Len(<<a, b>>) = 2
    OBVIOUS
  <2> QED
    BY <2>1 DEF Range
<1> QED
  BY <1>1, <1>2, <1>3

(* Sequences put together.                                                      *)
LEMMA RangeOfConcat ==
    ASSUME NEW S, NEW s \in Seq(S), NEW t \in Seq(S)
    PROVE  /\ Range(s \o t) = Range(s) \cup Range(t)
           /\ Len(s \o t) = Len(s) + Len(t) /\ Len(s) \in Nat /\ Len(t) \in Nat
<1>1. PICK n : n = Len(s)
  OBVIOUS
<1>2. PICK m : m = Len(t)
  OBVIOUS
<1>3. PICK u : u = s \o t
  OBVIOUS
<1>4. n \in Nat /\ m \in Nat /\ DOMAIN s = 1..n /\ DOMAIN t = 1..m
  BY <1>1, <1>2, LenProperties
<1>5. u \in Seq(S) /\ Len(u) = n + m
  BY <1>1, <1>2, <1>3, ConcatProperties
<1>6. DOMAIN u = 1..(n + m)
  BY <1>5, LenProperties
<1>7. \A i \in 1..(n + m) : u[i] = IF i <= n THEN s[i] ELSE t[i - n]
  BY <1>1, <1>2, <1>3, ConcatProperties
<1>8. \A i \in 1..n : i \in 1..(n + m) /\ u[i] = s[i]
  BY <1>4, <1>7
<1>9. \A i \in 1..m : i + n \in 1..(n + m) /\ u[i + n] = t[i]
  <2> SUFFICES ASSUME NEW i \in 1..m PROVE i + n \in 1..(n + m) /\ u[i + n] = t[i]
    OBVIOUS
  <2>1. PICK j : j = i + n
    OBVIOUS
  <2>2. j \in 1..(n + m) /\ ~(j <= n) /\ j - n = i
    BY <1>4, <2>1
  <2>3. u[j] = t[j - n]
    BY <1>7, <2>2
  <2> QED
    BY <2>1, <2>2, <2>3
<1>10. \A i \in 1..(n + m) : \/ i \in 1..n /\ u[i] = s[i]
                             \/ i - n \in 1..m /\ u[i] = t[i - n]
  BY <1>4, <1>7
<1>11. Range(u) \subseteq Range(s) \cup Range(t)
  BY <1>4, <1>6, <1>10 DEF Range
<1>12. Range(s) \subseteq Range(u)
  BY <1>4, <1>6, <1>8 DEF Range
<1>13. Range(t) \subseteq Range(u)
  BY <1>4, <1>6, <1>9 DEF Range
<1> QED
  BY <1>1, <1>2, <1>3, <1>4, <1>5, <1>11, <1>12, <1>13

(* Appending adds one element.                                                  *)
LEMMA RangeOfAppend ==
    ASSUME NEW S, NEW s \in Seq(S), NEW a \in S
    PROVE  Range(Append(s, a)) = Range(s) \cup {a} /\ Len(Append(s, a)) = Len(s) + 1
<1>1. PICK one : one = <<a>>
  OBVIOUS
<1>2. one \in Seq(S) /\ Append(s, a) = s \o one
  BY <1>1, AppendIsConcat
<1>3. Range(one) = {a} /\ Len(one) = 1
  BY <1>1, RangeOfTuples
<1>4. Range(s \o one) = Range(s) \cup Range(one) /\ Len(s \o one) = Len(s) + Len(one)
  BY <1>2, RangeOfConcat
<1> QED
  BY <1>2, <1>3, <1>4

(* What appending comes to.                                                     *)
LEMMA IsAppend ==
    ASSUME NEW S, NEW s \in Seq(S), NEW a \in S, NEW more \in Seq(S), NEW n, n = Len(s),
           Len(more) = n + 1, more[n + 1] = a, \A i \in 1..n : more[i] = s[i]
    PROVE  more = Append(s, a)
<1>1. PICK whole : whole = Append(s, a)
  OBVIOUS
<1>2. n \in Nat
  BY LenProperties
<1>3. /\ whole \in Seq(S) /\ Len(whole) = n + 1 /\ whole[n + 1] = a
      /\ \A i \in 1..n : whole[i] = s[i]
  BY <1>1, AppendProperties
<1>4. \A i \in 1..(n + 1) : more[i] = whole[i]
  <2>1. \A i \in 1..(n + 1) : i \in 1..n \/ i = n + 1
    BY <1>2
  <2> QED
    BY <1>3, <2>1
<1>5. more = whole
  BY <1>3, <1>4, SeqEqual
<1> QED
  BY <1>1, <1>5

\* A longer sequence in one place.
GrownAt(seqs, k, a) == [seqs EXCEPT ![k] = Append(seqs[k], a)]

(* A sequence in the middle that gets an element gives it to the whole.         *)
LEMMA FlattenGrown ==
    ASSUME NEW S, NEW seqs \in Seq(Seq(S)), NEW k \in 1..Len(seqs), NEW a \in S,
           NEW more, more = GrownAt(seqs, k, a)
    PROVE  /\ more \in Seq(Seq(S))
           /\ Len(FlattenSeq(more)) = Len(FlattenSeq(seqs)) + 1
           /\ Range(FlattenSeq(more)) = Range(FlattenSeq(seqs)) \cup {a}
<1>1. PICK n : n = Len(seqs)
  OBVIOUS
<1>2. n \in Nat \ {0} /\ k \in 1..n /\ DOMAIN seqs = 1..n /\ \A i \in 1..n : seqs[i] \in Seq(S)
  BY <1>1, LenProperties
<1>3. /\ more \in Seq(Seq(S)) /\ Len(more) = n
      /\ more[k] = Append(seqs[k], a) /\ \A i \in 1..n : i # k => more[i] = seqs[i]
  <2>1. Append(seqs[k], a) \in Seq(S)
    BY <1>2, AppendProperties
  <2>2. more = [i \in 1..n |-> IF i = k THEN Append(seqs[k], a) ELSE seqs[i]]
    BY <1>2 DEF GrownAt
  <2>3. \A i \in 1..n : (IF i = k THEN Append(seqs[k], a) ELSE seqs[i]) \in Seq(S)
    BY <1>2, <2>1
  <2>4. more \in [1..n -> Seq(S)]
    BY <2>2, <2>3
  <2>5. more \in Seq(Seq(S)) /\ Len(more) = n
    BY <1>2, <2>4
  <2> QED
    BY <1>2, <2>2, <2>5
<1>4. PICK old : IsFlat(old, seqs, n) /\ FlattenSeq(seqs) = old[n]
  BY <1>1, <1>2, FlattenIsFlat
<1>5. PICK flat : IsFlat(flat, more, n) /\ FlattenSeq(more) = flat[n]
  BY <1>2, <1>3, FlattenIsFlat
<1>6. ASSUME NEW i \in 1..n
      PROVE  /\ old[i] = IF i = 1 THEN seqs[i] ELSE old[i - 1] \o seqs[i]
             /\ flat[i] = IF i = 1 THEN more[i] ELSE flat[i - 1] \o more[i]
  BY <1>4, <1>5 DEF IsFlat
<1> DEFINE Right(i) ==
             /\ old[i] \in Seq(S) /\ flat[i] \in Seq(S)
             /\ i < k => flat[i] = old[i]
             /\ i >= k => /\ Len(flat[i]) = Len(old[i]) + 1
                         /\ Range(flat[i]) = Range(old[i]) \cup {a}
           wrong == {i \in 1..n : ~Right(i)}
<1>7. ASSUME NEW i \in 1..n, i # 1 => Right(i - 1)
      PROVE  Right(i)
  <2>1. more[i] \in Seq(S) /\ seqs[i] \in Seq(S)
    <3>1. i \in DOMAIN more
      BY <1>3, LenProperties
    <3> QED
      BY <1>2, <1>3, <3>1
  <2>2. CASE i = 1 /\ i # k
    BY <1>2, <1>3, <1>6, <2>1, <2>2
  <2>3. CASE i = 1 /\ i = k
    <3>1. old[i] = seqs[i] /\ flat[i] = Append(seqs[i], a)
      BY <1>3, <1>6, <2>3
    <3>2. Len(flat[i]) = Len(old[i]) + 1 /\ Range(flat[i]) = Range(old[i]) \cup {a}
      BY <2>1, <3>1, RangeOfAppend
    <3>3. flat[i] \in Seq(S)
      BY <2>1, <3>1, AppendProperties
    <3> QED
      BY <1>2, <2>1, <2>3, <3>1, <3>2, <3>3
  <2>4. CASE i # 1
    <3>1. PICK o : o = old[i - 1]
      OBVIOUS
    <3>2. PICK f : f = flat[i - 1]
      OBVIOUS
    <3>3. PICK before : before = i - 1
      OBVIOUS
    <3>4. /\ o \in Seq(S) /\ f \in Seq(S)
          /\ before < k => f = o
          /\ before >= k => Len(f) = Len(o) + 1 /\ Range(f) = Range(o) \cup {a}
      BY <1>7, <2>4, <3>1, <3>2, <3>3
    <3>5. PICK new : new = more[i]
      OBVIOUS
    <3>6. PICK tail : tail = seqs[i]
      OBVIOUS
    <3>7. PICK left : left = old[i]
      OBVIOUS
    <3>8. PICK right : right = flat[i]
      OBVIOUS
    <3>9. left = o \o tail /\ right = f \o new /\ new \in Seq(S) /\ tail \in Seq(S)
      BY <1>6, <2>1, <2>4, <3>1, <3>2, <3>5, <3>6, <3>7, <3>8
    <3>10. /\ left \in Seq(S) /\ right \in Seq(S)
           /\ Len(left) = Len(o) + Len(tail) /\ Range(left) = Range(o) \cup Range(tail)
           /\ Len(right) = Len(f) + Len(new) /\ Range(right) = Range(f) \cup Range(new)
           /\ Len(o) \in Nat /\ Len(f) \in Nat /\ Len(tail) \in Nat
      BY <3>4, <3>9, ConcatProperties, RangeOfConcat
    <3>11. CASE i < k
      <4>1. before < k /\ ~(i >= k) /\ new = tail
        BY <1>2, <1>3, <3>3, <3>5, <3>6, <3>11
      <4> QED
        BY <3>4, <3>7, <3>8, <3>9, <3>10, <4>1
    <3>12. CASE i = k
      <4>1. before < k /\ ~(i < k) /\ f = o
        BY <1>2, <3>3, <3>4, <3>12
      <4>2. Len(new) = Len(tail) + 1 /\ Range(new) = Range(tail) \cup {a}
        <5>1. new = Append(tail, a)
          BY <1>3, <3>5, <3>6, <3>12
        <5> QED
          BY <3>9, <5>1, RangeOfAppend
      <4>3. Len(right) = Len(left) + 1
        BY <3>10, <4>1, <4>2
      <4>4. Range(right) = Range(left) \cup {a}
        BY <3>10, <4>1, <4>2
      <4> QED
        BY <3>7, <3>8, <3>10, <4>1, <4>3, <4>4
    <3>13. CASE i > k
      <4>1. before >= k /\ ~(i < k) /\ new = tail
        BY <1>2, <1>3, <3>3, <3>5, <3>6, <3>13
      <4>2. Len(right) = Len(left) + 1
        <5>1. Len(f) = Len(o) + 1 /\ Len(new) = Len(tail)
          BY <3>4, <4>1
        <5> QED
          BY <3>10, <5>1
      <4>3. Range(right) = Range(left) \cup {a}
        BY <3>4, <3>10, <4>1
      <4> QED
        BY <3>7, <3>8, <3>10, <4>1, <4>2, <4>3
    <3> QED
      BY <1>2, <3>11, <3>12, <3>13
  <2> QED
    BY <2>2, <2>3, <2>4
<1>8. wrong = {}
  <2> SUFFICES ASSUME wrong # {} PROVE FALSE
    OBVIOUS
  <2>1. PICK first \in wrong : \A i \in wrong : first <= i
    <3>1. wrong \subseteq Nat
      OBVIOUS
    <3> HIDE DEF wrong
    <3> QED
      BY <3>1, MinIsFirst
  <2>2. first \in 1..n /\ ~Right(first)
    <3> HIDE DEF Right
    <3> QED
      BY <2>1
  <2>3. first # 1 => first - 1 \in 1..n /\ first - 1 \notin wrong
    <3>1. first # 1 => first - 1 \in 1..n /\ ~(first <= first - 1)
      BY <1>2, <2>2
    <3> HIDE DEF wrong
    <3> QED
      BY <2>1, <3>1
  <2>4. first # 1 => Right(first - 1)
    <3> HIDE DEF Right
    <3> QED
      BY <2>3
  <2> HIDE DEF Right, wrong
  <2> QED
    BY <1>7, <2>2, <2>4
<1>9. Right(n)
  <2>1. n \in 1..n
    BY <1>2
  <2> HIDE DEF Right
  <2> QED
    BY <1>8, <2>1
<1>10. n >= k
  BY <1>2
<1> QED
  BY <1>3, <1>4, <1>5, <1>9, <1>10
===============================================================================
