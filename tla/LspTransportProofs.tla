-------------------------- MODULE LspTransportProofs --------------------------
(* What holds of the framed server for all frames, any number of messages and   *)
(* wherever the stream is cut.                                                  *)
EXTENDS LspTransport, LspHandlersProofs

AnyMember == MemberType \cup {NoMember}
Texts == {f.payload : f \in Frames}

(* A member without a key has a text too: the empty one.                        *)
LEMMA MembersHaveValues ==
    /\ NoMember \in AnyMember /\ NoMember.value \in STRING
    /\ \A member \in AnyMember : member.value \in STRING
<1>1. "" \in STRING /\ NoMember.value = ""
  BY OwnTextsAreStrings DEF OwnTextsAreStrings, NoMember, Member
<1>2. \A member \in MemberType : member.value \in STRING
  BY DEF MemberType
<1> QED
  BY <1>1, <1>2 DEF AnyMember

(* What a frame is made of.                                                     *)
LEMMA FrameTyped ==
    ASSUME NEW f \in Frames
    PROVE  /\ f.headers \in Seq(HeaderUnits) /\ f.eol \in {"crlf", "lf"}
           /\ f.payload \in Seq(MemberType) /\ f.payload \in Texts
           /\ Len(f.payload) \in 1..(Huge - 1)
           /\ f.trailer \in Seq(Units)
<1>1. /\ f.headers \in Seq(HeaderUnits) /\ f.eol \in {"crlf", "lf"}
      /\ f.payload \in Seq(MemberType) /\ f.payload # <<>>
      /\ f.trailer \in Seq(Units)
  BY FramesAreTyped DEF FramesAreTyped
<1>2. Len(f.payload) < Huge
  BY PayloadsFit DEF PayloadsFit
<1>3. Len(f.payload) \in Nat \ {0}
  BY <1>1, EmptySeq
<1>4. \A n \in Nat \ {0} : n < Huge => n \in 1..(Huge - 1)
  BY DEF Huge
<1> QED
  BY <1>1, <1>2, <1>3, <1>4 DEF Texts

(* A unit of each kind a frame is made of is a unit.                            *)
LEMMA UnitTyped ==
    /\ \A kind \in Kinds : Unit(kind) \in Units /\ Unit(kind).kind = kind
    /\ \A member \in AnyMember :
          /\ BodyUnit(member) \in Units
          /\ BodyUnit(member).kind = "body" /\ BodyUnit(member).member = member
    /\ HeaderUnits \subseteq Units
    /\ \A n : Length(n).kind = "length" /\ Length(n).n = n
<1>1. NoMember \in AnyMember
  BY MembersHaveValues
<1>2. \A kind \in Kinds : Unit(kind) \in Units /\ Unit(kind).kind = kind
  BY <1>1 DEF Unit, Units, AnyMember
<1>3. \A member \in AnyMember :
          /\ BodyUnit(member) \in Units
          /\ BodyUnit(member).kind = "body" /\ BodyUnit(member).member = member
  BY DEF BodyUnit, Unit, Units, AnyMember, Kinds
<1>4. HeaderUnits \subseteq Units
  BY DEF HeaderUnits, Units, Kinds
<1>5. \A n : Length(n).kind = "length" /\ Length(n).n = n
  BY DEF Length, Unit
<1> QED
  BY <1>2, <1>3, <1>4, <1>5

HeadersEnd(f) == 2 * Len(f.headers) + 1
BodyEnd(f) == HeadersEnd(f) + Len(f.payload)
Size(f) == Len(UnitsOf(f))

(* Where the parts of a concatenation of four stand.                            *)
LEMMA FourParts ==
    ASSUME NEW S, NEW a \in Seq(S), NEW b \in Seq(S), NEW c \in Seq(S), NEW d \in Seq(S),
           NEW u, u = a \o b \o c \o d
    PROVE  /\ u \in Seq(S) /\ Len(u) = Len(a) + Len(b) + Len(c) + Len(d)
           /\ \A i \in 1..Len(a) : u[i] = a[i]
           /\ \A i \in 1..Len(b) : u[Len(a) + i] = b[i]
           /\ \A i \in 1..Len(c) : u[Len(a) + Len(b) + i] = c[i]
           /\ \A i \in 1..Len(d) : u[Len(a) + Len(b) + Len(c) + i] = d[i]
<1>0. Len(a) \in Nat /\ Len(b) \in Nat /\ Len(c) \in Nat /\ Len(d) \in Nat
  BY LenProperties
<1>1. PICK ab : ab = a \o b
  OBVIOUS
<1>2. PICK abc : abc = ab \o c
  OBVIOUS
<1>3. /\ ab \in Seq(S) /\ Len(ab) = Len(a) + Len(b)
      /\ \A i \in 1..(Len(a) + Len(b)) : ab[i] = IF i <= Len(a) THEN a[i] ELSE b[i - Len(a)]
  BY <1>1, ConcatProperties
<1>4. /\ abc \in Seq(S) /\ Len(abc) = Len(ab) + Len(c)
      /\ \A i \in 1..(Len(ab) + Len(c)) :
            abc[i] = IF i <= Len(ab) THEN ab[i] ELSE c[i - Len(ab)]
  <2>1. ab \in Seq(S)
    BY <1>3
  <2> QED
    BY <1>2, <2>1, ConcatProperties
<1>5. /\ u \in Seq(S) /\ Len(u) = Len(abc) + Len(d)
      /\ \A i \in 1..(Len(abc) + Len(d)) :
            u[i] = IF i <= Len(abc) THEN abc[i] ELSE d[i - Len(abc)]
  <2>1. abc \in Seq(S) /\ u = abc \o d
    BY <1>1, <1>2, <1>4
  <2> QED
    BY <2>1, ConcatProperties
<1>6. Len(u) = Len(a) + Len(b) + Len(c) + Len(d)
  BY <1>0, <1>3, <1>4, <1>5
<1>7. \A i \in 1..Len(a) : u[i] = a[i]
  BY <1>0, <1>3, <1>4, <1>5
<1>8. \A i \in 1..Len(b) : u[Len(a) + i] = b[i]
  BY <1>0, <1>3, <1>4, <1>5
<1>9. \A i \in 1..Len(c) : u[Len(a) + Len(b) + i] = c[i]
  BY <1>0, <1>3, <1>4, <1>5
<1>10. \A i \in 1..Len(d) : u[Len(a) + Len(b) + Len(c) + i] = d[i]
  <2>1. Len(abc) = Len(a) + Len(b) + Len(c)
    BY <1>0, <1>3, <1>4
  <2> QED
    BY <1>0, <1>5, <2>1
<1> QED
  BY <1>5, <1>6, <1>7, <1>8, <1>9, <1>10

(* What stands where in a frame: header lines, each with its line end, the      *)
(* blank line, the payload's members, the trailer.                              *)
LEMMA FrameLayout ==
    ASSUME NEW f \in Frames
    PROVE  /\ UnitsOf(f) \in Seq(Units)
           /\ Len(f.headers) \in Nat /\ Len(f.payload) \in Nat \ {0} /\ Len(f.trailer) \in Nat
           /\ HeadersEnd(f) \in Nat /\ BodyEnd(f) \in Nat
           /\ Size(f) = BodyEnd(f) + Len(f.trailer)
           /\ \A i \in 1..Len(f.headers) :
                 /\ UnitsOf(f)[2 * i - 1] = f.headers[i]
                 /\ UnitsOf(f)[2 * i] = Unit(f.eol)
           /\ UnitsOf(f)[HeadersEnd(f)] = Unit(f.eol)
           /\ \A i \in 1..Len(f.payload) :
                 UnitsOf(f)[HeadersEnd(f) + i] = BodyUnit(f.payload[i])
           /\ \A i \in 1..Len(f.trailer) : UnitsOf(f)[BodyEnd(f) + i] = f.trailer[i]
<1>1. PICK headers, eol, text, trailer :
         /\ headers = f.headers /\ eol = f.eol /\ text = f.payload /\ trailer = f.trailer
  OBVIOUS
<1>2. PICK H, B, T : H = Len(headers) /\ B = Len(text) /\ T = Len(trailer)
  OBVIOUS
<1>3. /\ headers \in Seq(HeaderUnits) /\ eol \in Kinds
      /\ text \in Seq(MemberType) /\ trailer \in Seq(Units)
      /\ H \in Nat /\ B \in Nat \ {0} /\ T \in Nat
  <2>1. /\ headers \in Seq(HeaderUnits) /\ text \in Seq(MemberType) /\ trailer \in Seq(Units)
        /\ B \in 1..(Huge - 1) /\ eol \in {"crlf", "lf"}
    BY <1>1, <1>2, FrameTyped
  <2>2. eol \in Kinds
    BY <2>1 DEF Kinds
  <2>3. H \in Nat /\ B \in Nat /\ T \in Nat
    BY <1>2, <2>1, LenProperties
  <2> QED
    BY <2>1, <2>2, <2>3
<1>4. Unit(eol) \in Units
  BY <1>3, UnitTyped
<1>5. PICK lines : lines = [i \in 1..(2 * H) |->
                               IF i % 2 = 1 THEN headers[(i + 1) \div 2] ELSE Unit(eol)]
  OBVIOUS
<1>6. PICK body : body = [i \in DOMAIN text |-> BodyUnit(text[i])]
  OBVIOUS
<1>7. UnitsOf(f) = lines \o <<Unit(eol)>> \o body \o trailer
  BY <1>1, <1>2, <1>5, <1>6 DEF UnitsOf
<1>8. lines \in Seq(Units) /\ Len(lines) = 2 * H
  <2>1. \A i \in 1..(2 * H) : i % 2 = 1 => (i + 1) \div 2 \in 1..H
    BY <1>3
  <2>2. \A i \in 1..H : headers[i] \in Units
    BY <1>2, <1>3, ElementOfSeq, UnitTyped
  <2>3. \A i \in 1..(2 * H) : lines[i] \in Units
    BY <1>4, <1>5, <2>1, <2>2
  <2>4. 2 * H \in Nat
    BY <1>3
  <2>5. lines \in [1..(2 * H) -> Units]
    BY <1>5, <2>3
  <2> QED
    BY <2>4, <2>5
<1>9. \A i \in 1..H : lines[2 * i - 1] = headers[i] /\ lines[2 * i] = Unit(eol)
  <2> SUFFICES ASSUME NEW i \in 1..H
               PROVE  lines[2 * i - 1] = headers[i] /\ lines[2 * i] = Unit(eol)
    OBVIOUS
  <2>1. /\ 2 * i - 1 \in 1..(2 * H) /\ 2 * i \in 1..(2 * H)
        /\ (2 * i - 1) % 2 = 1 /\ (2 * i) % 2 # 1 /\ ((2 * i - 1) + 1) \div 2 = i
    BY <1>3
  <2> QED
    BY <1>5, <2>1
<1>10. /\ <<Unit(eol)>> \in Seq(Units) /\ Len(<<Unit(eol)>>) = 1
       /\ <<Unit(eol)>>[1] = Unit(eol)
  BY <1>4
<1>11. /\ body \in Seq(Units) /\ Len(body) = B
       /\ \A i \in 1..B : body[i] = BodyUnit(text[i])
  <2>1. DOMAIN text = 1..B /\ \A i \in 1..B : text[i] \in MemberType
    BY <1>2, <1>3, LenProperties, ElementOfSeq
  <2>2. \A i \in 1..B : BodyUnit(text[i]) \in Units
    BY <2>1, UnitTyped DEF AnyMember
  <2>3. body \in [1..B -> Units] /\ \A i \in 1..B : body[i] = BodyUnit(text[i])
    BY <1>6, <2>1, <2>2
  <2> QED
    BY <1>3, <2>3
<1>12. /\ UnitsOf(f) \in Seq(Units) /\ Len(UnitsOf(f)) = 2 * H + 1 + B + T
       /\ \A i \in 1..(2 * H) : UnitsOf(f)[i] = lines[i]
       /\ \A i \in 1..1 : UnitsOf(f)[2 * H + i] = Unit(eol)
       /\ \A i \in 1..B : UnitsOf(f)[2 * H + 1 + i] = body[i]
       /\ \A i \in 1..T : UnitsOf(f)[2 * H + 1 + B + i] = trailer[i]
  <2>1. /\ UnitsOf(f) \in Seq(Units)
        /\ Len(UnitsOf(f)) = Len(lines) + Len(<<Unit(eol)>>) + Len(body) + Len(trailer)
        /\ \A i \in 1..Len(lines) : UnitsOf(f)[i] = lines[i]
        /\ \A i \in 1..Len(<<Unit(eol)>>) : UnitsOf(f)[Len(lines) + i] = <<Unit(eol)>>[i]
        /\ \A i \in 1..Len(body) :
              UnitsOf(f)[Len(lines) + Len(<<Unit(eol)>>) + i] = body[i]
        /\ \A i \in 1..Len(trailer) :
              UnitsOf(f)[Len(lines) + Len(<<Unit(eol)>>) + Len(body) + i] = trailer[i]
    <3>1. /\ lines \in Seq(Units) /\ <<Unit(eol)>> \in Seq(Units)
          /\ body \in Seq(Units) /\ trailer \in Seq(Units)
      BY <1>3, <1>8, <1>10, <1>11
    <3> QED
      BY <1>7, <3>1, FourParts, SMTT(30)
  <2>2. \A i \in 1..1 : <<Unit(eol)>>[i] = Unit(eol)
    OBVIOUS
  <2> QED
    BY <1>2, <1>8, <1>10, <1>11, <2>1, <2>2
<1>13. \A i \in 1..H : UnitsOf(f)[2 * i - 1] = headers[i] /\ UnitsOf(f)[2 * i] = Unit(eol)
  <2> SUFFICES ASSUME NEW i \in 1..H
               PROVE  UnitsOf(f)[2 * i - 1] = headers[i] /\ UnitsOf(f)[2 * i] = Unit(eol)
    OBVIOUS
  <2>1. 2 * i - 1 \in 1..(2 * H) /\ 2 * i \in 1..(2 * H)
    BY <1>3
  <2> QED
    BY <1>9, <1>12, <2>1
<1>14. HeadersEnd(f) = 2 * H + 1 /\ BodyEnd(f) = 2 * H + 1 + B
  BY <1>1, <1>2 DEF HeadersEnd, BodyEnd
<1>15. UnitsOf(f)[2 * H + 1] = Unit(eol)
  <2>1. 1 \in 1..1
    OBVIOUS
  <2> QED
    BY <1>12, <2>1
<1>16. /\ HeadersEnd(f) \in Nat /\ BodyEnd(f) \in Nat
       /\ Size(f) = BodyEnd(f) + T
  BY <1>3, <1>12, <1>14 DEF Size
<1>17. \A i \in 1..B : UnitsOf(f)[HeadersEnd(f) + i] = BodyUnit(text[i])
  BY <1>11, <1>12, <1>14
<1>18. \A i \in 1..T : UnitsOf(f)[BodyEnd(f) + i] = trailer[i]
  BY <1>12, <1>14
<1>19. Len(f.headers) = H /\ Len(f.payload) = B /\ Len(f.trailer) = T
  BY <1>1, <1>2
<1>20. UnitsOf(f)[HeadersEnd(f)] = Unit(f.eol)
  BY <1>1, <1>14, <1>15
<1>21. \A i \in 1..H : UnitsOf(f)[2 * i - 1] = f.headers[i] /\ UnitsOf(f)[2 * i] = Unit(f.eol)
  BY <1>1, <1>13
<1> QED
  BY <1>1, <1>3, <1>12, <1>16, <1>17, <1>18, <1>19, <1>20, <1>21

(* The parts of a frame follow one another, and none but the trailer is empty.   *)
LEMMA FrameSizes ==
    ASSUME NEW f \in Frames
    PROVE  /\ HeadersEnd(f) \in Nat \ {0} /\ BodyEnd(f) \in Nat /\ Size(f) \in Nat
           /\ HeadersEnd(f) < BodyEnd(f) /\ BodyEnd(f) <= Size(f)
           /\ Len(f.payload) \in Nat \ {0} /\ BodyEnd(f) = HeadersEnd(f) + Len(f.payload)
           /\ Len(f.trailer) \in Nat /\ Size(f) = BodyEnd(f) + Len(f.trailer)
<1>1. PICK D, H, B, T :
         /\ D = 2 * Len(f.headers) /\ H = HeadersEnd(f)
         /\ B = Len(f.payload) /\ T = Len(f.trailer)
  OBVIOUS
<1>2. D \in Nat /\ B \in Nat \ {0} /\ T \in Nat
  BY <1>1, FrameLayout
<1>3. H = D + 1 /\ BodyEnd(f) = H + B /\ Size(f) = BodyEnd(f) + T
  BY <1>1, FrameLayout DEF HeadersEnd, BodyEnd
<1>4. /\ H \in Nat \ {0} /\ H + B \in Nat /\ (H + B) + T \in Nat
      /\ H < H + B /\ H + B <= (H + B) + T
  BY <1>2, <1>3
<1>5. Size(f) = (H + B) + T
  BY <1>3
<1> QED
  BY <1>1, <1>2, <1>3, <1>4, <1>5

(* A part of a sequence from some place on, or up to one.                        *)
LEMMA Dropped ==
    ASSUME NEW S, NEW s \in Seq(S), NEW n \in 0..Len(s)
    PROVE  /\ SubSeq(s, n + 1, Len(s)) \in Seq(S)
           /\ Len(SubSeq(s, n + 1, Len(s))) = Len(s) - n
           /\ \A i \in 1..(Len(s) - n) : SubSeq(s, n + 1, Len(s))[i] = s[n + i]
<1>1. Len(s) \in Nat /\ n \in Int /\ \A i \in (n + 1)..Len(s) : s[i] \in S
  <2>1. Len(s) \in Nat
    BY LenProperties
  <2> QED
    BY <2>1, ElementOfSeq
<1>2. /\ SubSeq(s, n + 1, Len(s)) \in Seq(S)
      /\ Len(SubSeq(s, n + 1, Len(s))) =
            IF n + 1 <= Len(s) THEN Len(s) - (n + 1) + 1 ELSE 0
      /\ \A i \in 1..(Len(s) - (n + 1) + 1) : SubSeq(s, n + 1, Len(s))[i] = s[(n + 1) + i - 1]
  <2>1. n + 1 \in Int /\ Len(s) \in Int
    BY <1>1
  <2> QED
    BY <1>1, <2>1, SubSeqProperties
<1> QED
  BY <1>1, <1>2

(* getline takes the text before the first line end, and the line end.           *)
LEMMA FirstLine ==
    ASSUME wire \in Seq(Units), HasLine
    PROVE  /\ Eol \in 1..Len(wire) /\ IsEol(wire[Eol])
           /\ \A j \in 1..(Eol - 1) : ~IsEol(wire[j])
           /\ Line = <<>> <=> Eol = 1
           /\ Line # <<>> => Head(Line) = wire[1]
           /\ SubSeq(wire, Eol + 1, Len(wire)) \in Seq(Units)
           /\ Len(SubSeq(wire, Eol + 1, Len(wire))) = Len(wire) - Eol
           /\ \A i \in 1..(Len(wire) - Eol) :
                 SubSeq(wire, Eol + 1, Len(wire))[i] = wire[Eol + i]
<1> DEFINE ends == {i \in DOMAIN wire : IsEol(wire[i])}
<1>1. Len(wire) \in Nat /\ DOMAIN wire = 1..Len(wire)
  BY LenProperties
<1>2. ends \subseteq Nat /\ ends # {}
  BY <1>1 DEF HasLine
<1>3. PICK e \in ends : \A other \in ends : e <= other
  <2> HIDE DEF ends
  <2> QED
    BY <1>2, LeastNat
<1>4. /\ e \in DOMAIN wire /\ IsEol(wire[e])
      /\ \A j \in 1..(e - 1) : ~IsEol(wire[j])
  <2>1. e \in DOMAIN wire /\ IsEol(wire[e])
    BY <1>3
  <2>2. ASSUME NEW j \in 1..(e - 1)
        PROVE  ~IsEol(wire[j])
    <3>1. j \in DOMAIN wire /\ ~(e <= j)
      BY <1>1, <2>1
    <3> QED
      BY <1>3, <3>1
  <2> QED
    BY <2>1, <2>2
<1>5. /\ Eol \in 1..Len(wire) /\ IsEol(wire[Eol])
      /\ \A j \in 1..(Eol - 1) : ~IsEol(wire[j])
  <2>1. /\ Eol \in DOMAIN wire /\ IsEol(wire[Eol])
        /\ \A j \in 1..(Eol - 1) : ~IsEol(wire[j])
    <3> HIDE DEF ends
    <3> QED
      BY <1>4 DEF Eol
  <2> QED
    BY <1>1, <2>1
<1>6. PICK eol : eol = Eol
  OBVIOUS
<1>7. /\ Line \in Seq(Units) /\ Len(Line) = eol - 1
      /\ \A i \in 1..(eol - 1) : Line[i] = wire[i]
  <2>1. /\ eol - 1 \in Int /\ 1 \in Int /\ eol \in 1..Len(wire)
        /\ \A i \in 1..(eol - 1) : wire[i] \in Units
    BY <1>1, <1>5, <1>6, ElementOfSeq
  <2>2. /\ SubSeq(wire, 1, eol - 1) \in Seq(Units)
        /\ Len(SubSeq(wire, 1, eol - 1)) = IF 1 <= eol - 1 THEN (eol - 1) - 1 + 1 ELSE 0
        /\ \A i \in 1..((eol - 1) - 1 + 1) : SubSeq(wire, 1, eol - 1)[i] = wire[1 + i - 1]
    BY <2>1, SubSeqProperties
  <2> QED
    BY <1>1, <1>6, <2>1, <2>2 DEF Line
<1>8. Line = <<>> <=> eol = 1
  <2>1. Line = <<>> => Len(Line) = 0
    BY EmptySeq
  <2>2. Line # <<>> => Len(Line) # 0
    BY <1>7, EmptySeq
  <2>3. eol \in 1..Len(wire)
    BY <1>5, <1>6
  <2> QED
    BY <1>7, <2>1, <2>2, <2>3
<1>9. Line # <<>> => Head(Line) = wire[1]
  <2> SUFFICES ASSUME Line # <<>>
               PROVE  Head(Line) = wire[1]
    OBVIOUS
  <2>1. 1 \in 1..(eol - 1)
    BY <1>1, <1>5, <1>6, <1>8
  <2> QED
    BY <1>7, <2>1
<1>10. eol \in 0..Len(wire)
  BY <1>1, <1>5, <1>6
<1> QED
  BY <1>5, <1>6, <1>8, <1>9, <1>10, Dropped

-------------------------------------------------------------------------------
(* Types, and the bounds they depend on.                                        *)

HasBody(units) == \E i \in DOMAIN units : units[i].kind = "body"

(* A frame whose body is not all written will add to the log, so the bound on    *)
(* the log holds of it before.                                                  *)
TypedInv ==
    /\ TypeOK
    /\ pending \in Seq(Units) /\ payload \in Seq(AnyMember)
    /\ delivered \in Seq(Seq(AnyMember)) /\ log \in Seq(Texts)
    /\ pending # <<>> => current \in Texts
    /\ HasBody(pending) => Len(log) < MaxMessages
    /\ faulty <= Len(log) + (IF HasBody(pending) THEN 1 ELSE 0)

(* A session begins typed.                                                      *)
LEMMA TypedInit == Init => TypedInv
<1> SUFFICES ASSUME Init
             PROVE  TypedInv
  OBVIOUS
<1>1. /\ pending = <<>> /\ wire = <<>> /\ log = <<>> /\ payload = <<>> /\ delivered = <<>>
      /\ out = <<>> /\ faulty = 0 /\ content_length = 0 /\ phase = "headers" /\ closed = FALSE
      /\ shutdown_received = FALSE /\ exit_requested = FALSE /\ exit_code = 0
      /\ result = Running
  BY DEF Init, HandlersInit
<1>2. HandlersTypeOK
  <2>1. out \in Seq([msg : Nat, id : [value : STRING, is_string : BOOLEAN], body : Bodies])
    BY <1>1
  <2> QED
    BY <1>1, <2>1 DEF HandlersTypeOK
<1>3. MaxMessages \in Nat
  BY MaxMessagesIsNat DEF MaxMessagesIsNat
<1>4. ~HasBody(pending) /\ Len(log) = 0
  BY <1>1 DEF HasBody
<1>5. /\ pending \in Seq(Units) /\ wire \in Seq(Units) /\ payload \in Seq(AnyMember)
      /\ delivered \in Seq(Seq(AnyMember)) /\ log \in Seq(Texts)
  BY <1>1
<1>6. TypeOK
  <2>1. Len(log) <= MaxMessages /\ faulty \in 0..MaxMessages
    BY <1>1, <1>3, <1>4
  <2>2. content_length \in Nat /\ closed \in BOOLEAN
        /\ phase \in {"headers", "body", "trailer", "aborted"}
    BY <1>1
  <2> QED
    BY <1>2, <1>5, <2>1, <2>2 DEF TypeOK
<1> QED
  BY <1>1, <1>4, <1>5, <1>6 DEF TypedInv

(* The editor begins a frame.                                                   *)
LEMMA BeginFrameTyped ==
    ASSUME TypedInv, NEW f \in Frames, BeginFrame(f)
    PROVE  TypedInv'
<1>1. /\ pending = <<>> /\ pending' = UnitsOf(f) /\ current' = f.payload
      /\ log' = log /\ wire' = wire /\ closed' = closed /\ payload' = payload
      /\ delivered' = delivered /\ phase' = phase /\ content_length' = content_length
      /\ Len(log) < MaxMessages
      /\ faulty' = faulty + (IF WellFormed(f) THEN 0 ELSE 1)
  BY DEF BeginFrame, reader_vars
<1>2. HandlersTypeOK'
  BY DEF BeginFrame, handler_vars, HandlersTypeOK, TypedInv, TypeOK
<1>3. ~HasBody(pending)
  BY <1>1 DEF HasBody
<1>4. faulty \in Nat /\ faulty <= Len(log) /\ Len(log) \in Nat
  <2>1. faulty \in 0..MaxMessages /\ MaxMessages \in Nat
    BY MaxMessagesIsNat DEF MaxMessagesIsNat, TypedInv, TypeOK
  <2>2. Len(log) \in Nat
    BY LenProperties DEF TypedInv
  <2> QED
    BY <1>3, <2>1, <2>2 DEF TypedInv
<1>5. HasBody(pending')
  <2>1. /\ UnitsOf(f) \in Seq(Units) /\ 1 \in 1..Len(f.payload)
        /\ f.payload \in Seq(MemberType)
        /\ HeadersEnd(f) + 1 \in 1..Len(UnitsOf(f))
        /\ UnitsOf(f)[HeadersEnd(f) + 1] = BodyUnit(f.payload[1])
    <3>1. /\ UnitsOf(f) \in Seq(Units) /\ Len(f.payload) \in Nat \ {0}
          /\ Len(f.headers) \in Nat /\ Len(f.trailer) \in Nat
          /\ Size(f) = BodyEnd(f) + Len(f.trailer) /\ HeadersEnd(f) \in Nat
          /\ \A i \in 1..Len(f.payload) :
                 UnitsOf(f)[HeadersEnd(f) + i] = BodyUnit(f.payload[i])
      BY FrameLayout
    <3>2. 1 \in 1..Len(f.payload)
      BY <3>1
    <3>3. HeadersEnd(f) + 1 \in 1..Size(f)
      BY <3>1 DEF BodyEnd
    <3> QED
      BY <3>1, <3>2, <3>3, FrameTyped DEF Size
  <2>2. f.payload[1] \in AnyMember
    BY <2>1, ElementOfSeq DEF AnyMember
  <2> QED
    BY <1>1, <2>1, <2>2, UnitTyped DEF HasBody
<1>6. pending' \in Seq(Units) /\ current' \in Texts
  BY <1>1, FrameLayout, FrameTyped
<1>7. faulty' \in 0..MaxMessages /\ faulty' <= Len(log) + 1
  BY <1>1, <1>4, MaxMessagesIsNat DEF MaxMessagesIsNat
<1>8. TypeOK'
  BY <1>1, <1>2, <1>7 DEF TypedInv, TypeOK
<1> QED
  BY <1>1, <1>5, <1>6, <1>7, <1>8 DEF TypedInv

(* A unit is written: only the last unit of a body adds to the log.              *)
LEMMA WriteUnitTyped ==
    ASSUME TypedInv, WriteUnit
    PROVE  TypedInv'
<1>1. /\ pending # <<>> /\ pending \in Seq(Units) /\ wire \in Seq(Units)
      /\ log \in Seq(Texts) /\ current \in Texts
      /\ wire' = Append(wire, Head(pending)) /\ pending' = Tail(pending)
      /\ current' = current /\ closed' = closed /\ faulty' = faulty /\ payload' = payload
      /\ delivered' = delivered /\ phase' = phase /\ content_length' = content_length
  BY DEF WriteUnit, TypedInv, TypeOK, reader_vars
<1>2. HandlersTypeOK'
  BY DEF WriteUnit, handler_vars, HandlersTypeOK, TypedInv, TypeOK
<1>3. PICK head : head = Head(pending)
  OBVIOUS
<1>4. /\ Head(pending) \in Units /\ Head(pending) = pending[1]
      /\ Tail(pending) \in Seq(Units) /\ Len(Tail(pending)) = Len(pending) - 1
      /\ \A i \in 1..Len(Tail(pending)) : Tail(pending)[i] = pending[i + 1]
      /\ Len(pending) \in Nat \ {0}
  BY <1>1, HeadTailProperties, EmptySeq
<1>5. pending' \in Seq(Units) /\ wire' \in Seq(Units)
  BY <1>1, <1>4, AppendProperties
<1>6. HasBody(pending) <=> Head(pending).kind = "body" \/ HasBody(Tail(pending))
  <2>1. /\ DOMAIN pending = 1..Len(pending)
        /\ DOMAIN Tail(pending) = 1..(Len(pending) - 1)
        /\ \A i \in 1..(Len(pending) - 1) : Tail(pending)[i] = pending[i + 1]
    BY <1>1, <1>4, LenProperties
  <2>2. ASSUME HasBody(pending)
        PROVE  Head(pending).kind = "body" \/ HasBody(Tail(pending))
    <3>1. PICK i \in 1..Len(pending) : pending[i].kind = "body"
      BY <2>1, <2>2 DEF HasBody
    <3>2. CASE i = 1
      BY <1>4, <3>1, <3>2
    <3>3. CASE i # 1
      <4>1. i - 1 \in DOMAIN Tail(pending) /\ Tail(pending)[i - 1] = pending[(i - 1) + 1]
        BY <1>4, <2>1, <3>3
      <4>2. (i - 1) + 1 = i
        OBVIOUS
      <4> QED
        BY <3>1, <4>1, <4>2 DEF HasBody
    <3> QED
      BY <3>2, <3>3
  <2>3. ASSUME Head(pending).kind = "body"
        PROVE  HasBody(pending)
    <3>1. 1 \in DOMAIN pending
      BY <1>4, <2>1
    <3> QED
      BY <1>4, <2>3, <3>1 DEF HasBody
  <2>4. ASSUME HasBody(Tail(pending))
        PROVE  HasBody(pending)
    <3>1. PICK i \in 1..(Len(pending) - 1) : Tail(pending)[i].kind = "body"
      BY <2>1, <2>4 DEF HasBody
    <3>2. i + 1 \in DOMAIN pending /\ pending[i + 1].kind = "body"
      BY <1>4, <2>1, <3>1
    <3> QED
      BY <3>2 DEF HasBody
  <2> QED
    BY <2>2, <2>3, <2>4
<1>7. faulty \in Nat /\ MaxMessages \in Nat /\ Len(log) \in Nat
  BY <1>1, LenProperties, MaxMessagesIsNat DEF MaxMessagesIsNat, TypedInv, TypeOK
<1>8. CASE Head(pending).kind = "body" /\ ~HasBody(pending')
  <2>1. log' = Append(log, current)
    BY <1>8 DEF WriteUnit, HasBody
  <2>2. log' \in Seq(Texts) /\ Len(log') = Len(log) + 1
    BY <1>1, <2>1, AppendProperties
  <2>3. Len(log) < MaxMessages /\ faulty <= Len(log) + 1
    BY <1>6, <1>8 DEF TypedInv
  <2>4. TypeOK'
    BY <1>1, <1>2, <1>5, <1>7, <2>2, <2>3 DEF TypedInv, TypeOK
  <2> QED
    BY <1>1, <1>5, <1>7, <1>8, <2>2, <2>3, <2>4 DEF TypedInv
<1>9. CASE ~(Head(pending).kind = "body" /\ ~HasBody(pending'))
  <2>1. log' = log
    BY <1>9 DEF WriteUnit, HasBody
  <2>2. HasBody(pending') <=> HasBody(pending)
    BY <1>1, <1>6, <1>9
  <2>3. TypeOK'
    BY <1>1, <1>2, <1>5, <2>1 DEF TypedInv, TypeOK
  <2> QED
    BY <1>1, <1>5, <2>1, <2>2, <2>3 DEF TypedInv
<1> QED
  BY <1>8, <1>9

(* The server's own steps leave the editor's side alone.                          *)
LEMMA ReaderTyped ==
    ASSUME TypedInv, UNCHANGED client_vars, HandlersTypeOK',
           phase' \in {"headers", "body", "trailer", "aborted"}, content_length' \in Nat,
           wire' \in Seq(Units), payload' \in Seq(AnyMember),
           delivered' \in Seq(Seq(AnyMember))
    PROVE  TypedInv'
<1>1. /\ pending' = pending /\ current' = current /\ closed' = closed /\ log' = log
      /\ faulty' = faulty
  BY DEF client_vars
<1>2. TypeOK'
  BY <1>1 DEF TypedInv, TypeOK
<1> QED
  BY <1>1, <1>2 DEF TypedInv

(* A step of the editor or of the reader leaves the server's members typed.     *)
LEMMA SameHandlers ==
    ASSUME HandlersTypeOK, UNCHANGED handler_vars
    PROVE  HandlersTypeOK'
BY DEF HandlersTypeOK, handler_vars

(* The end of the session does, too.                                            *)
LEMMA EndSessionTyped ==
    ASSUME HandlersTypeOK, EndSession
    PROVE  HandlersTypeOK'
BY DEF HandlersTypeOK, EndSession

(* The reader takes a header line or the line that ends them.                   *)
LEMMA HeaderStepTyped ==
    ASSUME TypedInv,
           ReadContentLength \/ ReadOtherHeader \/ ReadBadContentLength \/ EndHeaders
    PROVE  TypedInv'
<1>1. /\ HandlersTypeOK /\ wire \in Seq(Units) /\ payload \in Seq(AnyMember)
      /\ phase \in {"headers", "body", "trailer", "aborted"} /\ content_length \in Nat
      /\ delivered \in Seq(Seq(AnyMember))
  BY DEF TypedInv, TypeOK
<1>2. InHeaders /\ DropLine /\ UNCHANGED <<client_vars, payload, delivered>>
  BY DEF ReadContentLength, ReadOtherHeader, ReadBadContentLength, EndHeaders, reader_vars
<1>3. wire' \in Seq(Units)
  BY <1>1, <1>2, FirstLine DEF InHeaders, DropLine
<1>4. HandlersTypeOK'
  <2>1. UNCHANGED handler_vars \/ EndSession
    BY DEF ReadContentLength, ReadOtherHeader, ReadBadContentLength, EndHeaders
  <2> QED
    BY <1>1, <2>1, SameHandlers, EndSessionTyped
<1>5. phase' \in {"headers", "body", "trailer", "aborted"}
  BY <1>1 DEF ReadContentLength, ReadOtherHeader, ReadBadContentLength, EndHeaders, reader_vars
<1>6. content_length' \in Nat
  <2>1. CASE ReadContentLength
    <3>1. Line # <<>> /\ Head(Line) = wire[1] /\ 1 \in 1..Len(wire)
      <4>1. Line # <<>>
        BY <2>1 DEF ReadContentLength, Begins
      <4>2. Eol \in 1..Len(wire) /\ Head(Line) = wire[1]
        BY <1>1, <1>2, <4>1, FirstLine DEF InHeaders
      <4>3. Len(wire) \in Nat
        BY <1>1, LenProperties
      <4>4. 1 \in 1..Len(wire)
        BY <4>2, <4>3
      <4> QED
        BY <4>1, <4>2, <4>4
    <3>2. wire[1].n \in Nat
      <4>1. wire[1] \in Units
        BY <1>1, <3>1, ElementOfSeq
      <4> QED
        BY <4>1 DEF Units
    <3> QED
      BY <2>1, <3>1, <3>2 DEF ReadContentLength
  <2>2. CASE ~ReadContentLength
    BY <1>1, <2>2 DEF ReadOtherHeader, ReadBadContentLength, EndHeaders, reader_vars
  <2> QED
    BY <2>1, <2>2
<1> QED
  BY <1>1, <1>2, <1>3, <1>4, <1>5, <1>6, ReaderTyped

(* The reader takes a body, or meets the end of the stream.                     *)
LEMMA BodyStepTyped ==
    ASSUME TypedInv,
           HeadersCutShort \/ ReadBody \/ BodyCutShort \/ Abort \/ Deliver
    PROVE  TypedInv'
<1>1. /\ HandlersTypeOK /\ wire \in Seq(Units) /\ payload \in Seq(AnyMember)
      /\ phase \in {"headers", "body", "trailer", "aborted"} /\ content_length \in Nat
      /\ delivered \in Seq(Seq(AnyMember)) /\ Len(wire) \in Nat
  BY LenProperties DEF TypedInv, TypeOK
<1>2. CASE HeadersCutShort \/ BodyCutShort
  <2>1. /\ wire' = <<>> /\ (EndSession \/ UNCHANGED handler_vars)
        /\ phase' \in {phase, "aborted"}
        /\ UNCHANGED <<client_vars, content_length, payload, delivered>>
    BY <1>2 DEF HeadersCutShort, BodyCutShort, reader_vars
  <2>2. wire' \in Seq(Units) /\ HandlersTypeOK'
    BY <1>1, <2>1, EndSessionTyped, SameHandlers
  <2> QED
    BY <1>1, <2>1, <2>2, ReaderTyped
<1>3. CASE Abort
  <2>1. HandlersTypeOK'
    BY <1>1, <1>3, SameHandlers DEF Abort
  <2> QED
    BY <1>1, <1>3, <2>1, ReaderTyped DEF Abort
<1>4. CASE ReadBody
  <2>1. content_length \in 0..Len(wire)
    BY <1>1, <1>4 DEF ReadBody
  <2>2. wire' \in Seq(Units)
    BY <1>1, <1>4, <2>1, Dropped DEF ReadBody
  <2>3. payload' \in Seq(AnyMember)
    <3>1. ASSUME NEW i \in 1..content_length
          PROVE  wire[i].member \in AnyMember
      <4>1. wire[i] \in Units
        BY <1>1, <2>1, ElementOfSeq
      <4> QED
        BY <4>1 DEF Units, AnyMember
    <3>2. payload' \in [1..content_length -> AnyMember]
      BY <1>4, <3>1 DEF ReadBody
    <3> QED
      BY <1>1, <3>2
  <2>4. HandlersTypeOK'
    BY <1>1, <1>4, SameHandlers DEF ReadBody
  <2> QED
    BY <1>1, <1>4, <2>2, <2>3, <2>4, ReaderTyped DEF ReadBody
<1>5. CASE Deliver
  <2>1. wire' \in Seq(Units)
    <3>1. wire' = IF wire # <<>> /\ Head(wire).kind = "crlf" THEN Tail(wire) ELSE wire
      BY <1>5 DEF Deliver
    <3> QED
      BY <1>1, <3>1, HeadTailProperties
  <2>2. delivered' \in Seq(Seq(AnyMember))
    BY <1>1, <1>5, AppendProperties DEF Deliver
  <2>3. HandlersTypeOK'
    <3>1. Len(delivered) + 1 \in Nat
      BY <1>1, LenProperties
    <3> QED
      BY <1>1, <1>5, <3>1, HandlersTyped, MembersHaveValues DEF Deliver
  <2>4. payload' \in Seq(AnyMember) /\ content_length' \in Nat
    BY <1>5 DEF Deliver
  <2> QED
    BY <1>5, <2>1, <2>2, <2>3, <2>4, ReaderTyped DEF Deliver
<1> QED
  BY <1>2, <1>3, <1>4, <1>5

(* Every step keeps the types.                                                  *)
LEMMA TypedStep == TypedInv /\ [Next]_vars => TypedInv'
<1> SUFFICES ASSUME TypedInv, [Next]_vars
             PROVE  TypedInv'
  OBVIOUS
<1>1. ASSUME NEW f \in Frames, BeginFrame(f)
      PROVE  TypedInv'
  BY <1>1, BeginFrameTyped
<1>2. CASE WriteUnit
  BY <1>2, WriteUnitTyped
<1>3. CASE Close
  <2>1. HandlersTypeOK'
    BY <1>3, SameHandlers DEF Close, TypedInv, TypeOK
  <2>2. TypeOK'
    BY <1>3, <2>1 DEF Close, reader_vars, TypedInv, TypeOK
  <2> QED
    BY <1>3, <2>2 DEF Close, reader_vars, TypedInv
<1>4. CASE Read
  BY <1>4, HeaderStepTyped, BodyStepTyped DEF Read
<1>5. CASE UNCHANGED vars
  <2>1. HandlersTypeOK'
    BY <1>5, SameHandlers DEF vars, TypedInv, TypeOK
  <2>2. TypeOK'
    BY <1>5, <2>1 DEF vars, reader_vars, TypedInv, TypeOK
  <2> QED
    BY <1>5, <2>2 DEF vars, reader_vars, TypedInv
<1> QED
  BY <1>1, <1>2, <1>3, <1>4, <1>5 DEF Next

(* The reader's locals, the stream and the server's members keep their types     *)
(* whatever the frames hold, and the bound on messages bounds what goes wrong.   *)
THEOREM TransportTypeCorrect == Spec => []TypeOK
<1>1. TypedInv => TypeOK
  BY DEF TypedInv
<1> QED
  BY <1>1, TypedInit, TypedStep, PTL DEF Spec

-------------------------------------------------------------------------------
(* What is on the stream while all frames begun are well-formed.  fs are those   *)
(* frames, frame k begins after start[k] units of the whole stream, and the      *)
(* reader has taken r units of it.                                              *)

Laid(fs, start) ==
    /\ fs \in Seq(Frames) /\ \A k \in 1..Len(fs) : WellFormed(fs[k])
    /\ start \in Seq(Nat) /\ Len(start) = Len(fs) + 1
    /\ \A k \in 1..Len(fs) : start[k + 1] = start[k] + Size(fs[k])
    /\ \A j \in 1..Len(fs), k \in 1..(Len(fs) + 1) : j < k => start[j] + Size(fs[j]) <= start[k]

\* Unit i of what the reader has not taken, written or not.
Ahead(i) == IF i <= Len(wire) THEN wire[i] ELSE pending[i - Len(wire)]

OnStream(fs, start, r) ==
    /\ r \in Nat /\ r + Len(wire) + Len(pending) = start[Len(fs) + 1]
    /\ \A k \in 1..Len(fs) : \A j \in 1..Size(fs[k]) :
          start[k] + j > r => Ahead(start[k] + j - r) = UnitsOf(fs[k])[j]

\* The log has the payload of each frame whose body is written.
Written(fs, start, r) ==
    /\ \A i \in 1..Len(log) : log[i] = fs[i].payload
    /\ pending # <<>> =>
          /\ Len(fs) > 0 /\ current = fs[Len(fs)].payload
          /\ start[Len(fs)] <= r + Len(wire)
    /\ Len(log) = IF pending # <<>> /\ r + Len(wire) < start[Len(fs)] + BodyEnd(fs[Len(fs)])
                  THEN Len(fs) - 1 ELSE Len(fs)

\* content_length is the last one among the first h headers of f, if any.
LengthRead(f, h) ==
    \A i \in 1..h :
        /\ f.headers[i].kind = "length"
        /\ \A j \in 1..h : i < j => f.headers[j].kind # "length"
        => content_length = f.headers[i].n

\* The reader has taken the first h header lines of the frame after those delivered.
AtHeader(fs, start, r, h) ==
    LET m == Len(delivered) IN
    /\ r = start[m + 1] + 2 * h
    /\ m = Len(fs) => h = 0
    /\ m < Len(fs) => h <= Len(fs[m + 1].headers) /\ LengthRead(fs[m + 1], h)

AtBody(fs, start, r) ==
    LET m == Len(delivered) IN
    /\ m < Len(fs) /\ r = start[m + 1] + HeadersEnd(fs[m + 1])
    /\ content_length = Len(fs[m + 1].payload)

AtTrailer(fs, start, r) ==
    LET m == Len(delivered) IN
    /\ m < Len(fs) /\ r = start[m + 1] + BodyEnd(fs[m + 1])
    /\ payload = fs[m + 1].payload

\* The editor died before the line end that its last frame was to end with.
Stranded == closed /\ wire = <<>> /\ Len(delivered) = Len(log)

\* Where the reader is in the stream; the last case is the process dying at the
\* end of a stream that was cut behind a length no string has.
Reading(fs, start, r) ==
    /\ Len(delivered) <= Len(log)
    /\ \A i \in 1..Len(delivered) : delivered[i] = fs[i].payload
    /\ result = Running =>
          \/ phase = "headers" /\ ((\E h \in Nat : AtHeader(fs, start, r, h)) \/ Stranded)
          \/ phase = "body" /\ AtBody(fs, start, r)
          \/ phase = "trailer" /\ AtTrailer(fs, start, r)
          \/ phase = "aborted"

Cut(fs, start, r) ==
    /\ Laid(fs, start) /\ OnStream(fs, start, r)
    /\ Written(fs, start, r) /\ Reading(fs, start, r)

StreamInv == faulty = 0 => \E fs, start, r : Cut(fs, start, r)

(* The numbers of a layout are naturals; frame k ends no later than the stream.  *)
LEMMA LaidTyped ==
    ASSUME NEW fs, NEW start, Laid(fs, start)
    PROVE  /\ Len(fs) \in Nat
           /\ \A k \in 1..(Len(fs) + 1) : start[k] \in Nat
           /\ \A k \in 1..Len(fs) :
                 /\ fs[k] \in Frames /\ WellFormed(fs[k]) /\ Size(fs[k]) \in Nat
                 /\ start[k] \in Nat /\ start[k + 1] \in Nat
                 /\ start[k + 1] = start[k] + Size(fs[k])
                 /\ start[k] + Size(fs[k]) <= start[Len(fs) + 1]
<1>1. Len(fs) \in Nat /\ Len(start) = Len(fs) + 1
  BY LenProperties DEF Laid
<1>2. \A k \in 1..(Len(fs) + 1) : start[k] \in Nat
  BY <1>1, ElementOfSeq DEF Laid
<1>3. ASSUME NEW k \in 1..Len(fs)
      PROVE  /\ fs[k] \in Frames /\ WellFormed(fs[k]) /\ Size(fs[k]) \in Nat
             /\ start[k] \in Nat /\ start[k + 1] \in Nat
             /\ start[k + 1] = start[k] + Size(fs[k])
             /\ start[k] + Size(fs[k]) <= start[Len(fs) + 1]
  <2>1. fs[k] \in Frames /\ WellFormed(fs[k])
    BY ElementOfSeq DEF Laid
  <2>2. Size(fs[k]) \in Nat
    BY <2>1, FrameLayout, LenProperties DEF Size
  <2>3. k \in 1..(Len(fs) + 1) /\ k + 1 \in 1..(Len(fs) + 1)
        /\ Len(fs) + 1 \in 1..(Len(fs) + 1) /\ k < Len(fs) + 1
    BY <1>1
  <2>4. start[k + 1] = start[k] + Size(fs[k]) /\ start[k] + Size(fs[k]) <= start[Len(fs) + 1]
    BY <2>3 DEF Laid
  <2> QED
    BY <1>2, <2>1, <2>2, <2>3, <2>4
<1> QED
  BY <1>1, <1>2, <1>3

(* In a well-formed frame there is a header, the last length counts the payload  *)
(* and all that may follow the payload is one line end.                         *)
LEMMA WellFormedFrame ==
    ASSUME NEW f \in Frames, WellFormed(f)
    PROVE  /\ Len(f.headers) \in Nat \ {0}
           /\ \A i \in 1..Len(f.headers) :
                 /\ f.headers[i].kind \in {"length", "header"}
                 /\ ~IsEol(f.headers[i])
           /\ \E i \in 1..Len(f.headers) :
                 /\ f.headers[i] = Length(Len(f.payload))
                 /\ \A j \in 1..Len(f.headers) : i < j => f.headers[j].kind # "length"
           /\ Len(f.trailer) \in {0, 1}
           /\ Len(f.trailer) = 1 => f.trailer[1] = Unit("crlf")
           /\ IsEol(Unit(f.eol)) /\ Unit(f.eol).kind # "body"
<1>1. /\ f.headers \in Seq(HeaderUnits) /\ Len(f.headers) \in Nat
      /\ DOMAIN f.headers = 1..Len(f.headers) /\ f.eol \in {"crlf", "lf"}
  BY FrameTyped, LenProperties
<1>2. PICK i \in 1..Len(f.headers) :
         /\ f.headers[i] = Length(Len(f.payload))
         /\ \A j \in 1..Len(f.headers) : i < j => f.headers[j].kind # "length"
  BY <1>1 DEF WellFormed
<1>3. Len(f.headers) \in Nat \ {0}
  BY <1>1, <1>2
<1>4. ASSUME NEW k \in 1..Len(f.headers)
      PROVE  f.headers[k].kind \in {"length", "header"} /\ ~IsEol(f.headers[k])
  <2>1. f.headers[k] \in HeaderUnits
    BY <1>1, ElementOfSeq
  <2>2. f.headers[k].kind \in {"length", "badlength", "header"}
    BY <2>1 DEF HeaderUnits
  <2>3. f.headers[k].kind # "badlength"
    BY <1>1 DEF WellFormed
  <2> QED
    BY <2>2, <2>3 DEF IsEol
<1>5. /\ Len(f.trailer) \in {0, 1}
      /\ Len(f.trailer) = 1 => f.trailer[1] = Unit("crlf")
  <2>1. f.trailer = <<>> \/ f.trailer = <<Unit("crlf")>>
    BY DEF WellFormed
  <2>2. CASE f.trailer = <<>>
    BY <2>2, EmptySeq
  <2>3. CASE f.trailer = <<Unit("crlf")>>
    BY <2>3
  <2> QED
    BY <2>1, <2>2, <2>3
<1>6. IsEol(Unit(f.eol)) /\ Unit(f.eol).kind # "body"
  BY <1>1 DEF IsEol, Unit
<1> QED
  BY <1>2, <1>3, <1>4, <1>5, <1>6

(* A place of the stream, counted from where the reader was and d units later.   *)
LEMMA Offset ==
    ASSUME NEW a \in Nat, NEW j \in Nat, NEW r \in Nat, NEW d \in Nat, NEW i,
           a + j > r + d, i = a + j - (r + d)
    PROVE  i \in Nat \ {0} /\ a + j - r = d + i /\ a + j > r
OBVIOUS

(* Whatever the reader takes of the stream, what is left stays where it is.      *)
LEMMA Taken ==
    ASSUME NEW fs, NEW start, NEW r, NEW d \in 0..Len(wire),
           Laid(fs, start), OnStream(fs, start, r), Written(fs, start, r), TypedInv,
           UNCHANGED client_vars, wire' \in Seq(Units), Len(wire') = Len(wire) - d,
           \A i \in 1..(Len(wire) - d) : wire'[i] = wire[d + i]
    PROVE  OnStream(fs, start, r + d)' /\ Written(fs, start, r + d)'
<1>1. /\ pending' = pending /\ log' = log /\ current' = current
      /\ Len(wire) \in Nat /\ Len(pending) \in Nat /\ r \in Nat
  BY LenProperties DEF client_vars, TypedInv, TypeOK, OnStream
<1>2. ASSUME NEW k \in 1..Len(fs), NEW j \in 1..Size(fs[k]), start[k] + j > r + d
      PROVE  Ahead(start[k] + j - (r + d))' = UnitsOf(fs[k])[j]
  <2>1. /\ start[k] \in Nat /\ Size(fs[k]) \in Nat /\ j \in Nat
    BY LaidTyped
  <2>2. PICK i : i = start[k] + j - (r + d)
    OBVIOUS
  <2>3. i \in Nat \ {0} /\ start[k] + j - r = d + i /\ start[k] + j > r
    <3>1. d \in Nat
      BY <1>1
    <3>2. PICK a : a = start[k]
      OBVIOUS
    <3>3. a \in Nat /\ a + j > r + d /\ i = a + j - (r + d)
      BY <1>2, <2>1, <2>2, <3>2
    <3>4. i \in Nat \ {0} /\ a + j - r = d + i /\ a + j > r
      BY <1>1, <2>1, <3>1, <3>3, Offset
    <3> QED
      BY <3>2, <3>4
  <2>4. Ahead(d + i) = UnitsOf(fs[k])[j]
    <3>1. Ahead(start[k] + j - r) = UnitsOf(fs[k])[j]
      BY <2>3 DEF OnStream
    <3> QED
      BY <2>3, <3>1
  <2>5. Ahead(i)' = Ahead(d + i)
    <3>1. CASE i <= Len(wire')
      <4>1. Ahead(i)' = wire'[i] /\ d + i <= Len(wire) /\ i \in 1..(Len(wire) - d)
        BY <1>1, <2>3, <3>1 DEF Ahead
      <4> QED
        BY <4>1 DEF Ahead
    <3>2. CASE ~(i <= Len(wire'))
      <4>1. ~(d + i <= Len(wire)) /\ i - Len(wire') = (d + i) - Len(wire)
        BY <1>1, <2>3, <3>2
      <4> QED
        BY <1>1, <3>2, <4>1 DEF Ahead
    <3> QED
      BY <3>1, <3>2
  <2> QED
    BY <2>2, <2>4, <2>5
<1>3. /\ r + d \in Nat /\ (r + d) + Len(wire') = r + Len(wire)
      /\ (r + d) + Len(wire') + Len(pending') = r + Len(wire) + Len(pending)
  BY <1>1
<1>4. OnStream(fs, start, r + d)'
  BY <1>2, <1>3 DEF OnStream
<1>5. Written(fs, start, r + d)'
  BY <1>1, <1>3 DEF Written
<1> QED
  BY <1>4, <1>5

(* What a line of the stream is when the reader is at header h of a frame.       *)
LEMMA LineAtHeader ==
    ASSUME NEW fs, NEW start, NEW r, NEW h \in Nat,
           Laid(fs, start), OnStream(fs, start, r), Written(fs, start, r), TypedInv,
           Len(delivered) \in 0..Len(fs), AtHeader(fs, start, r, h), HasLine
    PROVE  LET m == Len(delivered) IN
           /\ m < Len(fs)
           /\ h < Len(fs[m + 1].headers) =>
                 /\ Eol = 2 /\ Line # <<>> /\ Head(Line) = fs[m + 1].headers[h + 1]
           /\ h = Len(fs[m + 1].headers) => Eol = 1 /\ Line = <<>>
<1>1. PICK m, n : m = Len(delivered) /\ n = Len(fs)
  OBVIOUS
<1>2. /\ wire \in Seq(Units) /\ Len(wire) \in Nat /\ Len(pending) \in Nat /\ r \in Nat
      /\ n \in Nat /\ m \in 0..n
  BY <1>1, LenProperties, LaidTyped DEF TypedInv, TypeOK, OnStream
<1>3. /\ Eol \in 1..Len(wire) /\ IsEol(wire[Eol])
      /\ \A j \in 1..(Eol - 1) : ~IsEol(wire[j])
      /\ Line = <<>> <=> Eol = 1
      /\ Line # <<>> => Head(Line) = wire[1]
  BY <1>2, FirstLine
<1>4. PICK eol : eol = Eol
  OBVIOUS
<1>5. m < n
  <2> SUFFICES ASSUME m = n
               PROVE  FALSE
    BY <1>2
  <2>1. r = start[n + 1] + 2 * 0 /\ r + Len(wire) + Len(pending) = start[n + 1]
    BY <1>1 DEF AtHeader, OnStream
  <2>2. Len(wire) = 0
    BY <1>2, <2>1
  <2> QED
    BY <1>3, <1>4, <2>2
<1>6. PICK f : f = fs[m + 1]
  OBVIOUS
<1>7. /\ f \in Frames /\ WellFormed(f) /\ start[m + 1] \in Nat /\ Size(f) \in Nat
      /\ m + 1 \in 1..n
  <2>1. m + 1 \in 1..n
    BY <1>2, <1>5
  <2> QED
    BY <1>1, <1>6, <2>1, LaidTyped
<1>8. PICK H : H = Len(f.headers)
  OBVIOUS
<1>9. /\ H \in Nat /\ h <= H /\ r = start[m + 1] + 2 * h
      /\ 2 * H + 1 <= Size(f)
      /\ \A i \in 1..H : UnitsOf(f)[2 * i - 1] = f.headers[i] /\ UnitsOf(f)[2 * i] = Unit(f.eol)
      /\ UnitsOf(f)[2 * H + 1] = Unit(f.eol)
      /\ IsEol(Unit(f.eol)) /\ \A i \in 1..H : ~IsEol(f.headers[i])
  <2>1. h <= H /\ r = start[m + 1] + 2 * h
    BY <1>1, <1>5, <1>6, <1>8 DEF AtHeader
  <2>2. /\ H \in Nat /\ HeadersEnd(f) = 2 * H + 1
        /\ Len(f.payload) \in Nat /\ Len(f.trailer) \in Nat
        /\ Size(f) = 2 * H + 1 + Len(f.payload) + Len(f.trailer)
    BY <1>7, <1>8, FrameLayout DEF HeadersEnd, BodyEnd
  <2>3. 2 * H + 1 <= Size(f)
    <3>1. PICK B, T, s, D : B = Len(f.payload) /\ T = Len(f.trailer) /\ s = Size(f) /\ D = 2 * H
      OBVIOUS
    <3>2. D \in Nat /\ B \in Nat /\ T \in Nat
      BY <2>2, <3>1
    <3>3. s = D + 1 + B + T
      BY <2>2, <3>1
    <3>4. D + 1 <= s
      BY <3>2, <3>3
    <3> QED
      BY <3>1, <3>4
  <2> QED
    BY <1>7, <1>8, <2>1, <2>2, <2>3, FrameLayout, WellFormedFrame
<1>10. \A i \in 1..Len(wire) : 2 * h + i <= Size(f) => wire[i] = UnitsOf(f)[2 * h + i]
  <2> SUFFICES ASSUME NEW i \in 1..Len(wire), 2 * h + i <= Size(f)
               PROVE  wire[i] = UnitsOf(f)[2 * h + i]
    OBVIOUS
  <2>1. /\ 2 * h + i \in 1..Size(f) /\ start[m + 1] + (2 * h + i) > r
        /\ start[m + 1] + (2 * h + i) - r = i
    <3>1. PICK D, a, s : D = 2 * h /\ a = start[m + 1] /\ s = Size(f)
      OBVIOUS
    <3>2. D \in Nat /\ a \in Nat /\ s \in Nat /\ i \in Nat \ {0}
      BY <1>2, <1>7, <3>1
    <3>3. r = a + D /\ D + i <= s
      BY <1>9, <3>1
    <3>4. D + i \in 1..s /\ a + (D + i) > r /\ a + (D + i) - r = i
      BY <3>2, <3>3
    <3> QED
      BY <3>1, <3>4
  <2>2. Ahead(i) = UnitsOf(f)[2 * h + i]
    BY <1>1, <1>6, <1>7, <2>1 DEF OnStream
  <2> QED
    BY <2>2 DEF Ahead
<1>11. CASE h < H
  <2>1. /\ h + 1 \in 1..H /\ 2 * (h + 1) - 1 = 2 * h + 1 /\ 2 * (h + 1) = 2 * h + 2
        /\ 2 * h + 1 <= Size(f) /\ 2 * h + 2 <= Size(f)
    <3>1. h \in Nat /\ H \in Nat /\ Size(f) \in Nat /\ 2 * H + 1 <= Size(f) /\ h < H
      BY <1>7, <1>9, <1>11
    <3> QED
      BY <3>1
  <2>2. UnitsOf(f)[2 * h + 1] = f.headers[h + 1] /\ UnitsOf(f)[2 * h + 2] = Unit(f.eol)
    <3>1. PICK k : k = h + 1
      OBVIOUS
    <3>2. UnitsOf(f)[2 * k - 1] = f.headers[k] /\ UnitsOf(f)[2 * k] = Unit(f.eol)
      BY <1>9, <2>1, <3>1
    <3> QED
      BY <2>1, <3>1, <3>2
  <2>3. 1 \in 1..Len(wire)
    BY <1>2, <1>3, <1>4
  <2>4. wire[1] = f.headers[h + 1] /\ ~IsEol(wire[1])
    BY <1>9, <1>10, <2>1, <2>2, <2>3
  <2>5. eol # 1
    BY <1>3, <1>4, <2>4
  <2>6. 2 \in 1..Len(wire)
    BY <1>2, <1>3, <1>4, <2>5
  <2>7. IsEol(wire[2])
    BY <1>9, <1>10, <2>1, <2>2, <2>6
  <2>8. ~(2 \in 1..(eol - 1))
    BY <1>3, <1>4, <2>7
  <2>9. eol = 2
    BY <1>2, <1>3, <1>4, <2>5, <2>8
  <2> QED
    BY <1>1, <1>3, <1>4, <1>5, <1>6, <1>8, <1>11, <2>4, <2>5, <2>9
<1>12. CASE h = H
  <2>1. 1 \in 1..Len(wire) /\ 2 * h + 1 <= Size(f)
    BY <1>2, <1>3, <1>4, <1>9, <1>12
  <2>2. IsEol(wire[1])
    BY <1>9, <1>10, <1>12, <2>1
  <2>3. ~(1 \in 1..(eol - 1))
    BY <1>3, <1>4, <2>2
  <2>4. eol = 1
    BY <1>2, <1>3, <1>4, <2>3
  <2> QED
    BY <1>1, <1>3, <1>4, <1>5, <1>6, <1>8, <1>12, <2>4
<1> QED
  BY <1>1, <1>5, <1>6, <1>8, <1>9, <1>11, <1>12

(* While the body of a frame is not all written that frame is the last, and the  *)
(* log has the payloads of those before it.                                     *)
LEMMA UnwrittenIsLast ==
    ASSUME NEW fs, NEW start, NEW r,
           Laid(fs, start), OnStream(fs, start, r), Written(fs, start, r), TypedInv,
           NEW m \in Nat, m < Len(fs), r + Len(wire) < start[m + 1] + BodyEnd(fs[m + 1])
    PROVE  m + 1 = Len(fs) /\ Len(log) = m
<1>1. PICK n, f : n = Len(fs) /\ f = fs[m + 1]
  OBVIOUS
<1>2. /\ n \in Nat /\ m + 1 \in 1..n /\ f \in Frames /\ start[m + 1] \in Nat
      /\ Size(f) \in Nat /\ start[m + 1] + Size(f) <= start[n + 1] /\ start[n + 1] \in Nat
      /\ Len(wire) \in Nat /\ Len(pending) \in Nat /\ r \in Nat
      /\ r + Len(wire) + Len(pending) = start[n + 1]
  <2>1. n \in Nat /\ m + 1 \in 1..n /\ n + 1 \in 1..(n + 1)
    BY <1>1, LaidTyped
  <2>2. Len(wire) \in Nat /\ Len(pending) \in Nat
    BY LenProperties DEF TypedInv, TypeOK
  <2> QED
    BY <1>1, <2>1, <2>2, LaidTyped DEF OnStream
<1>3. BodyEnd(f) \in Nat /\ BodyEnd(f) <= Size(f)
  <2>1. PICK b, t : b = BodyEnd(f) /\ t = Len(f.trailer)
    OBVIOUS
  <2>2. b \in Nat /\ t \in Nat /\ Size(f) = b + t
    BY <1>2, <2>1, FrameLayout
  <2>3. b <= b + t
    BY <2>2
  <2> QED
    BY <2>1, <2>2, <2>3
<1>4. r + Len(wire) < start[m + 1] + BodyEnd(f)
  BY <1>1
<1>5. Len(pending) # 0
  <2>1. PICK w, q, a, s, b, z : /\ w = Len(wire) /\ q = Len(pending) /\ a = start[m + 1]
                                /\ s = Size(f) /\ b = BodyEnd(f) /\ z = start[n + 1]
    OBVIOUS
  <2>2. /\ w \in Nat /\ q \in Nat /\ r \in Nat /\ a \in Nat /\ s \in Nat
        /\ a + s <= z /\ z \in Nat /\ r + w + q = z
    BY <1>2, <2>1
  <2>3. b \in Nat /\ b <= s /\ r + w < a + b
    BY <1>3, <1>4, <2>1
  <2>4. q # 0
    BY <2>2, <2>3
  <2> QED
    BY <2>1, <2>4
<1>6. pending # <<>>
  BY <1>5, EmptySeq
<1>7. n > 0 /\ start[n] <= r + Len(wire) /\ start[n] \in Nat
  <2>1. n > 0 /\ start[n] <= r + Len(wire)
    BY <1>1, <1>6 DEF Written
  <2>2. n \in 1..n
    BY <1>2, <2>1
  <2> QED
    BY <1>1, <2>1, <2>2, LaidTyped
<1>8. m + 1 = n
  <2> SUFFICES ASSUME m + 1 < n
               PROVE  FALSE
    BY <1>2
  <2>1. n \in 1..(n + 1)
    BY <1>2, <1>7
  <2>2. start[m + 1] + Size(f) <= start[n]
    BY <1>1, <1>2, <2>1 DEF Laid
  <2>3. PICK w, a, s, b, z : /\ w = Len(wire) /\ a = start[m + 1] /\ s = Size(f)
                             /\ b = BodyEnd(f) /\ z = start[n]
    OBVIOUS
  <2>4. w \in Nat /\ r \in Nat /\ a \in Nat /\ s \in Nat
    BY <1>2, <2>3
  <2>5. b \in Nat /\ b <= s /\ r + w < a + b
    BY <1>3, <1>4, <2>3
  <2>6. z \in Nat /\ z <= r + w /\ a + s <= z
    BY <1>7, <2>2, <2>3
  <2> QED
    BY <2>4, <2>5, <2>6
<1>9. Len(log) = n - 1
  BY <1>1, <1>4, <1>6, <1>8 DEF Written
<1> QED
  BY <1>1, <1>2, <1>8, <1>9

(* When the stream ends early, all the messages it held have been delivered.     *)
LEMMA CutShortAtEnd ==
    ASSUME NEW fs, NEW start, NEW r, Cut(fs, start, r), TypedInv,
           HeadersCutShort \/ BodyCutShort
    PROVE  Len(delivered) = Len(log)
<1>1. PICK m, n : m = Len(delivered) /\ n = Len(fs)
  OBVIOUS
<1>2. /\ Laid(fs, start) /\ OnStream(fs, start, r) /\ Written(fs, start, r)
      /\ Reading(fs, start, r) /\ result = Running /\ n \in Nat /\ m \in Nat
      /\ m <= Len(log) /\ Len(log) \in Nat /\ Len(log) \in {n - 1, n}
  <2>1. n \in Nat /\ m \in Nat /\ Len(log) \in Nat
    BY <1>1, LenProperties, LaidTyped DEF Cut, TypedInv, TypeOK
  <2> QED
    BY <1>1, <2>1 DEF Cut, HeadersCutShort, BodyCutShort, Reading, Written
<1>3. CASE m = n
  BY <1>1, <1>2, <1>3
<1>4. CASE m # n
  <2>1. m < n /\ m \in 0..n
    BY <1>2, <1>4
  <2>2. CASE HeadersCutShort
    <3>1. phase = "headers" /\ ~HasLine
      BY <2>2 DEF HeadersCutShort
    <3>2. CASE Stranded
      BY <3>2 DEF Stranded
    <3>3. CASE \E h \in Nat : AtHeader(fs, start, r, h)
      <4>1. PICK h \in Nat : AtHeader(fs, start, r, h)
        BY <3>3
      <4>2. PICK f : f = fs[m + 1]
        OBVIOUS
      <4>3. f \in Frames /\ WellFormed(f) /\ start[m + 1] \in Nat /\ m + 1 \in 1..n
        <5>1. m + 1 \in 1..n
          BY <1>2, <2>1
        <5> QED
          BY <1>1, <1>2, <4>2, <5>1, LaidTyped
      <4>4. PICK H, B : H = Len(f.headers) /\ B = Len(f.payload)
        OBVIOUS
      <4>5. /\ H \in Nat /\ B \in Nat \ {0} /\ BodyEnd(f) = 2 * H + 1 + B
            /\ Size(f) \in Nat /\ 2 * H + 1 \in 1..Size(f)
            /\ UnitsOf(f)[2 * H + 1] = Unit(f.eol) /\ IsEol(Unit(f.eol))
        <5>1. /\ H \in Nat /\ B \in Nat \ {0} /\ BodyEnd(f) = 2 * H + 1 + B
              /\ HeadersEnd(f) = 2 * H + 1
              /\ Len(f.trailer) \in Nat /\ Size(f) = BodyEnd(f) + Len(f.trailer)
          BY <4>3, <4>4, FrameLayout DEF HeadersEnd, BodyEnd
        <5>2. UnitsOf(f)[HeadersEnd(f)] = Unit(f.eol)
          BY <4>3, FrameLayout
        <5>3. IsEol(Unit(f.eol))
          BY <4>3, WellFormedFrame
        <5>4. PICK D, T, s : D = 2 * H /\ T = Len(f.trailer) /\ s = Size(f)
          OBVIOUS
        <5>5. D \in Nat /\ T \in Nat /\ s = D + 1 + B + T
          BY <5>1, <5>4
        <5>6. s \in Nat /\ D + 1 \in 1..s
          BY <5>1, <5>5
        <5> QED
          BY <5>1, <5>2, <5>3, <5>4, <5>6
      <4>6. r = start[m + 1] + 2 * h /\ h <= H
        BY <1>1, <2>1, <4>1, <4>2, <4>4 DEF AtHeader
      <4>7. r \in Nat /\ Len(wire) \in Nat /\ wire \in Seq(Units)
        BY <1>2, LenProperties DEF TypedInv, TypeOK, OnStream
      <4>8. r + Len(wire) < start[m + 1] + BodyEnd(f)
        <5> SUFFICES ASSUME r + Len(wire) >= start[m + 1] + BodyEnd(f)
                     PROVE  FALSE
          BY <4>3, <4>5, <4>7
        <5>1. PICK i : i = start[m + 1] + (2 * H + 1) - r
          OBVIOUS
        <5>2. i \in 1..Len(wire) /\ start[m + 1] + (2 * H + 1) > r
          <6>1. PICK D, a, w, b : /\ D = 2 * H /\ a = start[m + 1] /\ w = Len(wire)
                                  /\ b = BodyEnd(f)
            OBVIOUS
          <6>2. D \in Nat /\ 2 * h \in Nat /\ 2 * h <= D
            BY <4>5, <4>6, <6>1
          <6>3. a \in Nat /\ w \in Nat /\ r \in Nat /\ B \in Nat
            BY <4>3, <4>5, <4>7, <6>1
          <6>4. b = D + 1 + B /\ r + w >= a + b /\ i = a + (D + 1) - r
            BY <4>5, <5>1, <6>1
          <6>5. r <= a + D
            <7>1. r = a + 2 * h
              BY <4>6, <6>1
            <7> QED
              BY <6>2, <6>3, <7>1
          <6>6. i \in 1..w /\ a + (D + 1) > r
            BY <6>2, <6>3, <6>4, <6>5
          <6> QED
            BY <6>1, <6>6
        <5>3. Ahead(i) = Unit(f.eol)
          BY <1>1, <1>2, <4>2, <4>3, <4>5, <5>1, <5>2 DEF OnStream
        <5>4. IsEol(wire[i])
          BY <4>5, <5>2, <5>3 DEF Ahead
        <5>5. i \in DOMAIN wire
          BY <4>7, <5>2, LenProperties
        <5> QED
          BY <3>1, <5>4, <5>5 DEF HasLine
      <4> QED
        BY <1>1, <1>2, <2>1, <4>2, <4>8, UnwrittenIsLast
    <3> QED
      BY <1>2, <3>1, <3>2, <3>3 DEF Reading
  <2>3. CASE BodyCutShort
    <3>1. phase = "body" /\ Len(wire) < content_length
      BY <2>3 DEF BodyCutShort
    <3>2. AtBody(fs, start, r)
      BY <1>2, <3>1 DEF Reading
    <3>3. PICK f : f = fs[m + 1]
      OBVIOUS
    <3>4. /\ r = start[m + 1] + HeadersEnd(f) /\ content_length = Len(f.payload)
      BY <1>1, <3>2, <3>3 DEF AtBody
    <3>5. f \in Frames /\ start[m + 1] \in Nat /\ Len(wire) \in Nat
      <4>1. m + 1 \in 1..n
        BY <1>2, <2>1
      <4>2. Len(wire) \in Nat
        BY LenProperties DEF TypedInv, TypeOK
      <4> QED
        BY <1>1, <1>2, <3>3, <4>1, <4>2, LaidTyped
    <3>6. PICK B : B = Len(f.payload)
      OBVIOUS
    <3>7. B \in Nat /\ HeadersEnd(f) \in Nat /\ BodyEnd(f) = HeadersEnd(f) + B
      BY <3>5, <3>6, FrameLayout DEF BodyEnd
    <3>8. r + Len(wire) < start[m + 1] + BodyEnd(f)
      <4>1. PICK w, a, e : w = Len(wire) /\ a = start[m + 1] /\ e = HeadersEnd(f)
        OBVIOUS
      <4>2. w \in Nat /\ a \in Nat /\ e \in Nat /\ B \in Nat
        BY <3>5, <3>7, <4>1
      <4>3. w < B /\ r = a + e
        BY <3>1, <3>4, <3>6, <4>1
      <4>4. r + w < a + (e + B)
        BY <4>2, <4>3
      <4> QED
        BY <3>7, <4>1, <4>4
    <3> QED
      BY <1>1, <1>2, <2>1, <3>3, <3>8, UnwrittenIsLast
  <2> QED
    BY <2>2, <2>3
<1> QED
  BY <1>3, <1>4

(* A further frame is laid after the others.                                     *)
LEMMA LaidLonger ==
    ASSUME NEW fs, NEW start, Laid(fs, start), NEW f \in Frames, WellFormed(f)
    PROVE  \E gs, begin :
              /\ Laid(gs, begin) /\ Len(gs) = Len(fs) + 1
              /\ \A k \in 1..Len(fs) : gs[k] = fs[k]
              /\ \A k \in 1..(Len(fs) + 1) : begin[k] = start[k]
              /\ gs[Len(fs) + 1] = f /\ begin[Len(fs) + 2] = start[Len(fs) + 1] + Size(f)
<1>1. PICK n, e, gs, begin :
         /\ n = Len(fs) /\ e = start[n + 1] + Size(f)
         /\ gs = Append(fs, f) /\ begin = Append(start, e)
  OBVIOUS
<1>2. /\ n \in Nat /\ Size(f) \in Nat /\ e \in Nat /\ start[n + 1] \in Nat
      /\ fs \in Seq(Frames) /\ start \in Seq(Nat) /\ Len(start) = n + 1
  <2>1. n \in Nat /\ fs \in Seq(Frames) /\ start \in Seq(Nat) /\ Len(start) = n + 1
    BY <1>1, LenProperties DEF Laid
  <2>2. Size(f) \in Nat
    BY FrameLayout, LenProperties DEF Size
  <2>3. n + 1 \in 1..Len(start)
    BY <2>1
  <2>4. start[n + 1] \in Nat
    BY <2>1, <2>3, ElementOfSeq
  <2> QED
    BY <1>1, <2>1, <2>2, <2>4
<1>3. /\ gs \in Seq(Frames) /\ Len(gs) = n + 1
      /\ \A k \in 1..n : gs[k] = fs[k]
      /\ gs[n + 1] = f
  BY <1>1, <1>2, AppendProperties
<1>4. /\ begin \in Seq(Nat) /\ Len(begin) = n + 2
      /\ \A k \in 1..(n + 1) : begin[k] = start[k]
      /\ begin[n + 2] = e
  <2>1. begin = Append(start, e)
    BY <1>1
  <2> QED
    BY <1>2, <2>1, AppendProperties
<1>5. \A k \in 1..(n + 1) : WellFormed(gs[k])
  <2>1. \A k \in 1..n : WellFormed(gs[k])
    BY <1>1, <1>3 DEF Laid
  <2> QED
    BY <1>2, <1>3, <2>1
<1>6. ASSUME NEW k \in 1..(n + 1)
      PROVE  begin[k + 1] = begin[k] + Size(gs[k])
  <2>1. CASE k = n + 1
    BY <1>1, <1>2, <1>3, <1>4, <2>1
  <2>2. CASE k # n + 1
    <3>1. k \in 1..n /\ k \in 1..(n + 1) /\ k + 1 \in 1..(n + 1)
      BY <1>2, <2>2
    <3>2. start[k + 1] = start[k] + Size(fs[k])
      BY <1>1, <3>1 DEF Laid
    <3> QED
      BY <1>3, <1>4, <3>1, <3>2
  <2> QED
    BY <2>1, <2>2
<1>7. ASSUME NEW j \in 1..(n + 1), NEW k \in 1..(n + 2), j < k
      PROVE  begin[j] + Size(gs[j]) <= begin[k]
  <2>1. CASE k = n + 2
    <3>1. CASE j = n + 1
      BY <1>1, <1>2, <1>3, <1>4, <2>1, <3>1
    <3>2. CASE j # n + 1
      <4>1. j \in 1..n /\ j \in 1..(n + 1) /\ n + 1 \in 1..(n + 1) /\ j < n + 1
        BY <1>2, <3>2
      <4>2. /\ start[j] + Size(fs[j]) <= start[n + 1]
            /\ start[j] \in Nat /\ Size(fs[j]) \in Nat
        BY <1>1, <4>1, LaidTyped
      <4>3. begin[j] = start[j] /\ gs[j] = fs[j] /\ begin[k] = start[n + 1] + Size(f)
        BY <1>1, <1>3, <1>4, <2>1, <4>1
      <4>4. start[j] + Size(fs[j]) <= start[n + 1] + Size(f)
        BY <1>2, <4>2
      <4> QED
        BY <4>3, <4>4
    <3> QED
      BY <3>1, <3>2
  <2>2. CASE k # n + 2
    <3>1. j \in 1..n /\ k \in 1..(n + 1) /\ j \in 1..(n + 1)
      BY <1>2, <1>7, <2>2
    <3>2. start[j] + Size(fs[j]) <= start[k]
      BY <1>1, <1>7, <3>1 DEF Laid
    <3> QED
      BY <1>3, <1>4, <3>1, <3>2
  <2> QED
    BY <2>1, <2>2
<1>8. Len(gs) = n + 1 /\ Len(begin) = Len(gs) + 1 /\ Len(gs) + 1 = n + 2
  BY <1>2, <1>3, <1>4, SMTT(30)
<1>9. Laid(gs, begin)
  <2>1. gs \in Seq(Frames) /\ \A k \in 1..Len(gs) : WellFormed(gs[k])
    BY <1>3, <1>5, <1>8
  <2>2. begin \in Seq(Nat) /\ Len(begin) = Len(gs) + 1
    BY <1>4, <1>8
  <2>3. \A k \in 1..Len(gs) : begin[k + 1] = begin[k] + Size(gs[k])
    BY <1>6, <1>8
  <2>4. \A j \in 1..Len(gs), k \in 1..(Len(gs) + 1) : j < k => begin[j] + Size(gs[j]) <= begin[k]
    BY <1>7, <1>8
  <2> QED
    BY <2>1, <2>2, <2>3, <2>4 DEF Laid
<1> QED
  BY <1>1, <1>3, <1>4, <1>9

(* The editor begins a well-formed frame: it comes last on the stream.           *)
LEMMA BeginFrameCut ==
    ASSUME NEW fs, NEW start, NEW r, Cut(fs, start, r), TypedInv,
           NEW f \in Frames, WellFormed(f), BeginFrame(f)
    PROVE  \E gs, begin : Cut(gs, begin, r)'
<1>1. PICK n, m, w : n = Len(fs) /\ m = Len(delivered) /\ w = Len(wire)
  OBVIOUS
<1>3. /\ pending = <<>> /\ pending' = UnitsOf(f) /\ current' = f.payload /\ ~closed
      /\ wire' = wire /\ log' = log /\ phase' = phase /\ content_length' = content_length
      /\ payload' = payload /\ delivered' = delivered /\ result' = result
  BY DEF BeginFrame, reader_vars, handler_vars
<1>4. /\ Laid(fs, start) /\ OnStream(fs, start, r) /\ Written(fs, start, r)
      /\ Reading(fs, start, r)
  BY DEF Cut
<1>5. PICK gs, begin :
         /\ Laid(gs, begin) /\ Len(gs) = n + 1
         /\ \A k \in 1..n : gs[k] = fs[k]
         /\ \A k \in 1..(n + 1) : begin[k] = start[k]
         /\ gs[n + 1] = f /\ begin[n + 2] = start[n + 1] + Size(f)
  BY <1>1, <1>4, LaidLonger
<1>6. /\ n \in Nat /\ m \in Nat /\ w \in Nat /\ r \in Nat /\ Size(f) \in Nat
      /\ Len(log) = n /\ m <= n /\ start[n + 1] = r + w
  <2>1. n \in Nat /\ m \in Nat /\ w \in Nat /\ r \in Nat
    BY <1>1, <1>4, LaidTyped, LenProperties DEF TypedInv, TypeOK, OnStream
  <2>2. Size(f) \in Nat
    BY FrameLayout, LenProperties DEF Size
  <2>3. Len(log) = n
    BY <1>1, <1>3, <1>4 DEF Written
  <2>4. r + w + Len(pending) = start[n + 1] /\ Len(pending) = 0
    BY <1>1, <1>3, <1>4, EmptySeq DEF OnStream
  <2>5. r + w = start[n + 1]
    BY <2>1, <2>4
  <2>6. m <= n
    BY <1>1, <1>4, <2>3 DEF Reading
  <2> QED
    BY <2>1, <2>2, <2>3, <2>5, <2>6
<1>7. OnStream(gs, begin, r)'
  <2>1. r + Len(wire') + Len(pending') = begin[Len(gs) + 1]
    <3>1. Len(gs) + 1 = n + 2 /\ Len(pending') = Size(f) /\ Len(wire') = w
      BY <1>1, <1>3, <1>5, <1>6 DEF Size
    <3> QED
      BY <1>5, <1>6, <3>1
  <2>2. ASSUME NEW k \in 1..(n + 1), NEW j \in 1..Size(gs[k]), begin[k] + j > r
        PROVE  Ahead(begin[k] + j - r)' = UnitsOf(gs[k])[j]
    <3>1. CASE k = n + 1
      <4>1. /\ gs[k] = f /\ begin[k] = r + w /\ j \in Nat \ {0}
        BY <1>5, <1>6, <3>1
      <4>2. PICK i : i = begin[k] + j - r
        OBVIOUS
      <4>3. i = w + j /\ ~(i <= w) /\ i - w = j
        BY <1>6, <4>1, <4>2
      <4>4. Ahead(i)' = pending'[j]
        BY <1>1, <1>3, <4>3 DEF Ahead
      <4> QED
        BY <1>3, <4>1, <4>2, <4>4
    <3>2. CASE k # n + 1
      <4>1. k \in 1..n /\ k \in 1..(n + 1)
        BY <1>6, <3>2
      <4>2. /\ gs[k] = fs[k] /\ begin[k] = start[k] /\ start[k] \in Nat
            /\ Size(fs[k]) \in Nat /\ start[k] + Size(fs[k]) <= start[n + 1]
        BY <1>1, <1>4, <1>5, <4>1, LaidTyped
      <4>3. PICK i : i = begin[k] + j - r
        OBVIOUS
      <4>4. i <= w
        BY <1>6, <4>2, <4>3
      <4>5. Ahead(i) = UnitsOf(fs[k])[j]
        BY <1>1, <1>4, <2>2, <4>1, <4>2, <4>3 DEF OnStream
      <4> QED
        BY <1>1, <1>3, <4>2, <4>3, <4>4, <4>5 DEF Ahead
    <3> QED
      BY <3>1, <3>2
  <2> QED
    BY <1>5, <1>6, <2>1, <2>2 DEF OnStream
<1>8. Written(gs, begin, r)'
  <2>1. \A i \in 1..Len(log') : log'[i] = gs[i].payload
    BY <1>3, <1>4, <1>5, <1>6 DEF Written
  <2>2. BodyEnd(f) \in Nat \ {0}
    BY FrameSizes
  <2>3. Len(gs) > 0 /\ current' = gs[Len(gs)].payload
    BY <1>3, <1>5, <1>6
  <2>4. begin[Len(gs)] = r + Len(wire')
    <3>1. n + 1 \in 1..(n + 1)
      BY <1>6
    <3> QED
      BY <1>1, <1>3, <1>5, <1>6, <3>1
  <2>5. r + Len(wire') \in Nat
    BY <1>1, <1>3, <1>6
  <2>6. pending' # <<>>
    <3>1. Len(UnitsOf(f)) # 0
      <4>1. PICK b, t : b = BodyEnd(f) /\ t = Len(f.trailer)
        OBVIOUS
      <4>2. b \in Nat \ {0} /\ t \in Nat /\ Len(UnitsOf(f)) = b + t
        BY <2>2, <4>1, FrameLayout DEF Size
      <4> QED
        BY <4>2
    <3> QED
      BY <1>3, <3>1, EmptySeq
  <2>7. r + Len(wire') < begin[Len(gs)] + BodyEnd(gs[Len(gs)])
    <3>1. PICK at, b : at = r + Len(wire') /\ b = BodyEnd(f)
      OBVIOUS
    <3>2. at \in Nat /\ b \in Nat \ {0}
      BY <2>2, <2>5, <3>1
    <3>3. at < at + b
      BY <3>2
    <3>4. gs[Len(gs)] = f
      BY <1>5
    <3> QED
      BY <2>4, <3>1, <3>3, <3>4
  <2>8. Len(log') = Len(gs) - 1 /\ begin[Len(gs)] <= r + Len(wire')
    <3>1. Len(log') = Len(gs) - 1
      BY <1>3, <1>5, <1>6
    <3> QED
      BY <2>4, <2>5, <3>1
  <2> QED
    BY <2>1, <2>3, <2>6, <2>7, <2>8 DEF Written
<1>9. Reading(gs, begin, r)'
  <2>1. \A i \in 1..m : delivered[i] = gs[i].payload
    <3>1. \A i \in 1..m : i \in 1..n
      BY <1>6
    <3>2. \A i \in 1..m : gs[i] = fs[i]
      BY <1>5, <3>1
    <3>3. \A i \in 1..m : delivered[i] = fs[i].payload
      BY <1>1, <1>4 DEF Reading
    <3> QED
      BY <3>2, <3>3
  <2>2. ASSUME NEW h \in Nat, AtHeader(fs, start, r, h)
        PROVE  AtHeader(gs, begin, r, h)'
    <3>1. m + 1 \in 1..(n + 1) /\ begin[m + 1] = start[m + 1]
      BY <1>5, <1>6
    <3>2. r = begin[m + 1] + 2 * h
      BY <1>1, <2>2, <3>1 DEF AtHeader
    <3>3. CASE m = n
      <4>1. h = 0 /\ gs[m + 1] = f /\ Len(f.headers) \in Nat
        BY <1>1, <1>5, <2>2, <3>3, FrameLayout DEF AtHeader
      <4>2. LengthRead(gs[m + 1], h)'
        BY <4>1 DEF LengthRead
      <4>3. m < Len(gs) /\ m # Len(gs) /\ h <= Len(gs[m + 1].headers)
        BY <1>5, <1>6, <3>3, <4>1
      <4> QED
        BY <1>1, <1>3, <3>2, <4>2, <4>3 DEF AtHeader
    <3>4. CASE m # n
      <4>1. m < n /\ m + 1 \in 1..n /\ m < Len(gs) /\ m # Len(gs)
        BY <1>5, <1>6, <3>4
      <4>2. gs[m + 1] = fs[m + 1]
        BY <1>5, <4>1
      <4>3. h <= Len(gs[m + 1].headers) /\ LengthRead(gs[m + 1], h)
        BY <1>1, <2>2, <4>1, <4>2 DEF AtHeader
      <4>4. LengthRead(gs[m + 1], h)'
        BY <1>3, <4>3 DEF LengthRead
      <4> QED
        BY <1>1, <1>3, <3>2, <4>1, <4>3, <4>4 DEF AtHeader
    <3> QED
      BY <3>3, <3>4
  <2>3. ASSUME m < n
        PROVE  m < Len(gs) /\ gs[m + 1] = fs[m + 1] /\ begin[m + 1] = start[m + 1]
    <3>1. m + 1 \in 1..n /\ m + 1 \in 1..(n + 1) /\ m < n + 1
      BY <1>6, <2>3
    <3> QED
      BY <1>5, <3>1
  <2>4. AtBody(fs, start, r) => AtBody(gs, begin, r)'
    BY <1>1, <1>3, <2>3 DEF AtBody
  <2>5. AtTrailer(fs, start, r) => AtTrailer(gs, begin, r)'
    BY <1>1, <1>3, <2>3 DEF AtTrailer
  <2>6. ~Stranded
    BY <1>3 DEF Stranded
  <2>7. Len(delivered') <= Len(log')
    BY <1>3, <1>4 DEF Reading
  <2>8. ASSUME result' = Running
        PROVE  \/ phase' = "headers" /\ (\E h \in Nat : AtHeader(gs, begin, r, h)')
               \/ phase' = "body" /\ AtBody(gs, begin, r)'
               \/ phase' = "trailer" /\ AtTrailer(gs, begin, r)'
               \/ phase' = "aborted"
    BY <1>3, <1>4, <2>2, <2>4, <2>5, <2>6, <2>8 DEF Reading
  <2> QED
    BY <1>1, <1>3, <2>1, <2>7, <2>8 DEF Reading
<1> QED
  BY <1>5, <1>7, <1>8, <1>9 DEF Cut

(* The kinds of the units of a well-formed frame: the payload's and no others    *)
(* are of the body.                                                             *)
LEMMA BodyPlaces ==
    ASSUME NEW f \in Frames, WellFormed(f), NEW j \in 1..Size(f)
    PROVE  UnitsOf(f)[j].kind = "body" <=> HeadersEnd(f) < j /\ j <= BodyEnd(f)
<1>1. PICK H, B, T, e :
         H = Len(f.headers) /\ B = Len(f.payload) /\ T = Len(f.trailer) /\ e = HeadersEnd(f)
  OBVIOUS
<1>2. /\ H \in Nat /\ B \in Nat /\ T \in Nat /\ j \in Nat /\ e \in Nat
      /\ e = 2 * H + 1 /\ BodyEnd(f) = e + B /\ Size(f) = e + B + T
  <2>1. H \in Nat /\ B \in Nat /\ T \in Nat /\ e \in Nat
    BY <1>1, FrameLayout
  <2>2. Size(f) \in Nat
    BY FrameSizes
  <2>3. e = 2 * H + 1
    BY <1>1 DEF HeadersEnd
  <2>4. BodyEnd(f) = e + B /\ Size(f) = e + B + T
    BY <1>1, FrameSizes
  <2>5. j \in Nat
    BY <2>2
  <2> QED
    BY <2>1, <2>3, <2>4, <2>5
<1>3. /\ \A i \in 1..H : UnitsOf(f)[2 * i - 1] = f.headers[i] /\ UnitsOf(f)[2 * i] = Unit(f.eol)
      /\ UnitsOf(f)[e] = Unit(f.eol)
      /\ \A i \in 1..B : UnitsOf(f)[e + i] = BodyUnit(f.payload[i])
      /\ \A i \in 1..T : UnitsOf(f)[e + B + i] = f.trailer[i]
  <2>1. BodyEnd(f) = e + B
    BY <1>2
  <2>2. \A i \in 1..H : UnitsOf(f)[2 * i - 1] = f.headers[i] /\ UnitsOf(f)[2 * i] = Unit(f.eol)
    BY <1>1, FrameLayout
  <2>3. UnitsOf(f)[e] = Unit(f.eol)
    BY <1>1, FrameLayout
  <2>4. \A i \in 1..B : UnitsOf(f)[e + i] = BodyUnit(f.payload[i])
    BY <1>1, FrameLayout
  <2>5. \A i \in 1..T : UnitsOf(f)[BodyEnd(f) + i] = f.trailer[i]
    BY <1>1, FrameLayout
  <2> QED
    BY <2>1, <2>2, <2>3, <2>4, <2>5
<1>4. CASE j < e
  <2>1. PICK i : i = (j + 1) \div 2
    OBVIOUS
  <2>2. i \in 1..H /\ (j = 2 * i - 1 \/ j = 2 * i)
    BY <1>2, <1>4, <2>1
  <2>3. f.headers[i].kind # "body" /\ Unit(f.eol).kind # "body"
    <3>1. f.headers[i].kind \in {"length", "header"} /\ Unit(f.eol).kind # "body"
      BY <1>1, <2>2, WellFormedFrame
    <3> QED
      BY <3>1
  <2>4. UnitsOf(f)[j].kind # "body"
    BY <1>3, <2>2, <2>3
  <2>5. ~(e < j)
    BY <1>2, <1>4
  <2> QED
    BY <1>1, <2>4, <2>5
<1>5. CASE j = e
  <2>1. UnitsOf(f)[j].kind # "body"
    BY <1>3, <1>5, WellFormedFrame
  <2>2. ~(e < j)
    BY <1>2, <1>5
  <2> QED
    BY <1>1, <2>1, <2>2
<1>6. CASE e < j /\ j <= e + B
  <2>1. PICK i : i = j - e
    OBVIOUS
  <2>2. i \in 1..B /\ j = e + i
    BY <1>2, <1>6, <2>1
  <2>3. UnitsOf(f)[j] = BodyUnit(f.payload[i])
    BY <1>3, <2>2
  <2>4. f.payload[i] \in AnyMember
    <3>1. f.payload \in Seq(MemberType) /\ i \in 1..Len(f.payload)
      BY <1>1, <2>2, FrameTyped
    <3>2. f.payload[i] \in MemberType
      BY <3>1, ElementOfSeq
    <3> QED
      BY <3>2 DEF AnyMember
  <2>5. UnitsOf(f)[j].kind = "body"
    BY <2>3, <2>4, UnitTyped
  <2> QED
    BY <1>1, <1>2, <1>6, <2>5
<1>7. CASE e + B < j
  <2>1. PICK i : i = j - (e + B)
    OBVIOUS
  <2>2. i \in 1..T /\ j = e + B + i
    BY <1>2, <1>7, <2>1
  <2>3. T \in {0, 1} /\ (T = 1 => f.trailer[1] = Unit("crlf"))
    BY <1>1, WellFormedFrame
  <2>4. i = 1 /\ f.trailer[1] = Unit("crlf")
    BY <2>2, <2>3
  <2>5. UnitsOf(f)[j] = Unit("crlf")
    BY <1>3, <2>2, <2>4
  <2>6. UnitsOf(f)[j].kind # "body"
    BY <2>5 DEF Unit
  <2>7. ~(j <= e + B)
    BY <1>2, <1>7
  <2> QED
    BY <1>2, <2>6, <2>7
<1> QED
  BY <1>2, <1>4, <1>5, <1>6, <1>7

(* The editor writes a unit: it leaves its place on the stream, and the log gets *)
(* the frame's payload when it is the body's last.                              *)
LEMMA WriteUnitCut ==
    ASSUME NEW fs, NEW start, NEW r, Cut(fs, start, r), TypedInv, WriteUnit
    PROVE  Cut(fs, start, r)'
<1>1. PICK n, w, p, f, a :
         /\ n = Len(fs) /\ w = Len(wire) /\ p = Len(pending)
         /\ f = fs[n] /\ a = start[n]
  OBVIOUS
<1>2. /\ pending # <<>> /\ ~closed /\ wire' = Append(wire, Head(pending))
      /\ pending' = Tail(pending) /\ current' = current /\ phase' = phase
      /\ content_length' = content_length /\ payload' = payload
      /\ delivered' = delivered /\ result' = result
  BY DEF WriteUnit, reader_vars, handler_vars
<1>3. /\ Laid(fs, start) /\ OnStream(fs, start, r) /\ Written(fs, start, r)
      /\ Reading(fs, start, r)
  BY DEF Cut
<1>4. /\ n \in Nat /\ w \in Nat /\ p \in Nat \ {0} /\ r \in Nat /\ n \in 1..n
      /\ wire \in Seq(Units) /\ pending \in Seq(Units)
      /\ r + w + p = start[n + 1]
  <2>1. n \in Nat /\ w \in Nat /\ r \in Nat /\ wire \in Seq(Units) /\ pending \in Seq(Units)
    BY <1>1, <1>3, LaidTyped, LenProperties DEF TypedInv, TypeOK, OnStream
  <2>2. p \in Nat \ {0}
    BY <1>1, <1>2, <2>1, EmptySeq
  <2>3. n > 0
    BY <1>1, <1>2, <1>3 DEF Written
  <2> QED
    BY <1>1, <1>3, <2>1, <2>2, <2>3 DEF OnStream
<1>5. /\ f \in Frames /\ WellFormed(f) /\ a \in Nat /\ Size(f) \in Nat
      /\ r + w + p = a + Size(f) /\ a <= r + w /\ current = f.payload
  <2>1. f \in Frames /\ WellFormed(f) /\ a \in Nat /\ Size(f) \in Nat
        /\ start[n + 1] = a + Size(f)
    BY <1>1, <1>3, <1>4, LaidTyped
  <2>2. a <= r + w /\ current = f.payload
    BY <1>1, <1>2, <1>3 DEF Written
  <2> QED
    BY <1>4, <2>1, <2>2
<1>6. /\ Len(wire') = w + 1 /\ Len(pending') = p - 1
      /\ \A i \in 1..w : wire'[i] = wire[i]
      /\ wire'[w + 1] = pending[1] /\ Head(pending) = pending[1]
      /\ \A i \in 1..(p - 1) : pending'[i] = pending[i + 1]
      /\ pending' \in Seq(Units)
  <2>1. Head(pending) = pending[1] /\ Head(pending) \in Units
    BY <1>2, <1>4, HeadTailProperties
  <2>2. /\ Len(wire') = w + 1 /\ wire'[w + 1] = pending[1]
        /\ \A i \in 1..w : wire'[i] = wire[i]
    BY <1>1, <1>2, <1>4, <2>1, AppendProperties
  <2>3. /\ pending' \in Seq(Units) /\ Len(pending') = p - 1
        /\ \A i \in 1..(p - 1) : pending'[i] = pending[i + 1]
    BY <1>1, <1>2, <1>4, HeadTailProperties
  <2> QED
    BY <2>1, <2>2, <2>3
<1>7. ASSUME NEW i \in 1..(w + p)
      PROVE  Ahead(i)' = Ahead(i)
  <2>1. CASE i <= w
    <3>1. i \in 1..w /\ i <= Len(wire')
      BY <1>4, <1>6, <2>1
    <3> QED
      BY <1>1, <1>6, <2>1, <3>1 DEF Ahead
  <2>2. CASE i = w + 1
    <3>1. i <= Len(wire') /\ ~(i <= w) /\ i - w = 1
      <4>1. w \in Nat /\ Len(wire') = w + 1
        BY <1>4, <1>6
      <4> QED
        BY <2>2, <4>1
    <3> QED
      BY <1>1, <1>6, <2>2, <3>1 DEF Ahead
  <2>3. CASE w + 1 < i
    <3>1. PICK k : k = i - (w + 1)
      OBVIOUS
    <3>2. k \in 1..(p - 1) /\ ~(i <= w + 1) /\ ~(i <= w) /\ i - w = k + 1
      BY <1>4, <2>3, <3>1
    <3>3. Ahead(i)' = pending'[k]
      BY <1>6, <3>1, <3>2 DEF Ahead
    <3>4. Ahead(i) = pending[k + 1]
      BY <1>1, <3>2 DEF Ahead
    <3> QED
      BY <1>6, <3>2, <3>3, <3>4
  <2> QED
    BY <1>4, <2>1, <2>2, <2>3
<1>8. OnStream(fs, start, r)'
  <2>1. ASSUME NEW k \in 1..n, NEW j \in 1..Size(fs[k]), start[k] + j > r
        PROVE  Ahead(start[k] + j - r)' = UnitsOf(fs[k])[j]
    <3>1. /\ start[k] \in Nat /\ Size(fs[k]) \in Nat /\ j \in Nat
          /\ start[k] + Size(fs[k]) <= start[n + 1]
      <4>1. /\ start[k] \in Nat /\ Size(fs[k]) \in Nat
            /\ start[k] + Size(fs[k]) <= start[n + 1]
        BY <1>1, <1>3, LaidTyped
      <4> QED
        BY <4>1
    <3>2. PICK i : i = start[k] + j - r
      OBVIOUS
    <3>3. i \in 1..(w + p)
      <4>1. PICK o, s, z : o = start[k] /\ s = Size(fs[k]) /\ z = start[n + 1]
        OBVIOUS
      <4>2. /\ o \in Nat /\ s \in Nat /\ j \in 1..s /\ o + s <= z
            /\ o + j > r /\ i = o + j - r
        BY <2>1, <3>1, <3>2, <4>1
      <4>3. w \in Nat /\ p \in Nat /\ r \in Nat /\ r + w + p = z
        BY <1>4, <4>1
      <4> QED
        BY <4>2, <4>3
    <3>4. Ahead(i) = UnitsOf(fs[k])[j]
      BY <1>1, <1>3, <2>1, <3>2 DEF OnStream
    <3> QED
      BY <1>7, <3>2, <3>3, <3>4
  <2>2. r + Len(wire') + Len(pending') = start[n + 1]
    BY <1>4, <1>6
  <2> QED
    BY <1>1, <1>4, <2>1, <2>2 DEF OnStream
<1>9. PICK j : j = r + w + 1 - a
  OBVIOUS
<1>10. /\ j \in 1..Size(f) /\ Size(f) = j + p - 1 /\ r + w = a + j - 1
       /\ \A i \in 1..p : pending[i] = UnitsOf(f)[j + i - 1]
  <2>1. j \in 1..Size(f) /\ Size(f) = j + p - 1 /\ r + w = a + j - 1
    BY <1>4, <1>5, <1>9
  <2>2. ASSUME NEW i \in 1..p
        PROVE  pending[i] = UnitsOf(f)[j + i - 1]
    <3>1. PICK k : k = j + i - 1
      OBVIOUS
    <3>2. /\ k \in 1..Size(f) /\ a + k > r /\ a + k - r = w + i
          /\ ~(w + i <= w) /\ (w + i) - w = i
      BY <1>4, <1>5, <2>1, <3>1
    <3>3. Ahead(w + i) = UnitsOf(f)[k]
      BY <1>1, <1>3, <1>4, <3>2 DEF OnStream
    <3>4. Ahead(w + i) = pending[i]
      BY <1>1, <3>2 DEF Ahead
    <3> QED
      BY <3>1, <3>3, <3>4
  <2> QED
    BY <2>1, <2>2
<1>11. PICK h, b : h = HeadersEnd(f) /\ b = BodyEnd(f)
  OBVIOUS
<1>12. /\ h \in Nat /\ b \in Nat /\ h < b /\ b <= Size(f)
       /\ \A k \in 1..Size(f) : UnitsOf(f)[k].kind = "body" <=> h < k /\ k <= b
  BY <1>5, <1>11, FrameSizes, BodyPlaces
<1>13. /\ Head(pending).kind = "body" <=> h < j /\ j <= b
       /\ (\E i \in DOMAIN pending' : pending'[i].kind = "body") <=> j < b
  <2>1. Head(pending) = UnitsOf(f)[j]
    <3>1. 1 \in 1..p /\ j + 1 - 1 = j
      BY <1>4, <1>10
    <3> QED
      BY <1>6, <1>10, <3>1
  <2>2. DOMAIN pending' = 1..(p - 1)
    BY <1>6, LenProperties
  <2>3. ASSUME NEW i \in 1..(p - 1)
        PROVE  pending'[i].kind = "body" <=> h < j + i /\ j + i <= b
    <3>1. i + 1 \in 1..p /\ j + (i + 1) - 1 = j + i /\ j + i \in 1..Size(f)
      <4>1. PICK s : s = Size(f)
        OBVIOUS
      <4>2. p \in Nat /\ j \in 1..s /\ s = j + p - 1 /\ s \in Nat
        BY <1>4, <1>5, <1>10, <4>1
      <4>3. i + 1 \in 1..p /\ j + (i + 1) - 1 = j + i /\ j + i \in 1..s
        BY <4>2
      <4> QED
        BY <4>1, <4>3
    <3> QED
      BY <1>6, <1>10, <1>12, <3>1
  <2>4. ASSUME j < b
        PROVE  \E i \in 1..(p - 1) : h < j + i /\ j + i <= b
    <3>1. b - j \in 1..(p - 1) /\ h < j + (b - j) /\ j + (b - j) <= b
      BY <1>4, <1>10, <1>12, <2>4
    <3> QED
      BY <3>1
  <2>5. ASSUME NEW i \in 1..(p - 1), j + i <= b
        PROVE  j < b
    BY <1>4, <1>10, <1>12, <2>5
  <2> QED
    BY <1>10, <1>12, <2>1, <2>2, <2>3, <2>4, <2>5
<1>14. /\ log' = IF h < j /\ j = b THEN Append(log, current) ELSE log
       /\ Len(log) = IF j <= b THEN n - 1 ELSE n
       /\ \A i \in 1..Len(log) : log[i] = fs[i].payload
  <2>1. log' = IF /\ Head(pending).kind = "body"
                  /\ \A i \in DOMAIN pending' : pending'[i].kind # "body"
               THEN Append(log, current) ELSE log
    BY DEF WriteUnit
  <2>2. (h < j /\ j <= b) /\ ~(j < b) <=> h < j /\ j = b
    BY <1>10, <1>12
  <2>3. r + w < a + b <=> j <= b
    BY <1>4, <1>5, <1>10, <1>12, SMTT(30)
  <2>4. Len(log) = IF r + w < a + b THEN n - 1 ELSE n
    BY <1>1, <1>2, <1>3, <1>11 DEF Written
  <2>5. \A i \in 1..Len(log) : log[i] = fs[i].payload
    BY <1>3 DEF Written
  <2>6. log' = IF h < j /\ j = b THEN Append(log, current) ELSE log
    BY <1>13, <2>1, <2>2
  <2> QED
    BY <2>3, <2>4, <2>5, <2>6
<1>15. /\ Len(log') = IF j < b THEN n - 1 ELSE n
       /\ \A i \in 1..Len(log') : log'[i] = fs[i].payload
       /\ Len(log) <= Len(log')
  <2>1. CASE j = b
    <3>1. log' = Append(log, current) /\ Len(log) = n - 1 /\ log \in Seq(Texts)
          /\ current \in Texts
      BY <1>2, <1>10, <1>12, <1>14, <2>1 DEF TypedInv
    <3>2. /\ Len(log') = n /\ log'[n] = current
          /\ \A i \in 1..(n - 1) : log'[i] = log[i]
      <4>1. /\ Len(log') = Len(log) + 1 /\ log'[Len(log) + 1] = current
            /\ \A i \in 1..Len(log) : log'[i] = log[i]
        BY <3>1, AppendProperties
      <4>2. (n - 1) + 1 = n
        BY <1>4
      <4> QED
        BY <3>1, <4>1, <4>2
    <3>3. \A i \in 1..n : i \in 1..(n - 1) \/ i = n
      BY <1>4
    <3>4. ~(j < b) /\ n - 1 <= n
      BY <1>4, <1>10, <2>1
    <3> QED
      BY <1>1, <1>5, <1>14, <3>1, <3>2, <3>3, <3>4
  <2>2. CASE j # b
    <3>1. log' = log
      BY <1>14, <2>2
    <3>2. j <= b <=> j < b
      BY <1>10, <1>12, <2>2
    <3>3. Len(log) \in Nat
      BY LenProperties DEF TypedInv
    <3> QED
      BY <1>14, <3>1, <3>2, <3>3
  <2> QED
    BY <2>1, <2>2
<1>16. Written(fs, start, r)'
  <2>1. r + Len(wire') = a + j
    <3>1. j \in Nat /\ r + w = a + j - 1 /\ Len(wire') = w + 1
      BY <1>5, <1>6, <1>10
    <3> QED
      BY <1>4, <1>5, <3>1
  <2>2. r + Len(wire') < a + b <=> j < b
    BY <1>5, <1>10, <1>12, <2>1
  <2>3. n > 0 /\ a <= r + Len(wire')
    BY <1>4, <1>5, <1>10, <2>1
  <2>4. j < b => pending' # <<>>
    BY <1>13, EmptySeq
  <2>5. Len(log') = IF pending' # <<>> /\ r + Len(wire') < a + b THEN n - 1 ELSE n
    BY <1>15, <2>2, <2>4
  <2> QED
    BY <1>1, <1>2, <1>5, <1>11, <1>15, <2>3, <2>5 DEF Written
<1>17. Reading(fs, start, r)'
  <2>1. ~Stranded
    BY <1>2 DEF Stranded
  <2>2. \A h2 \in Nat : AtHeader(fs, start, r, h2) => AtHeader(fs, start, r, h2)'
    BY <1>2 DEF AtHeader, LengthRead
  <2>3. /\ AtBody(fs, start, r) => AtBody(fs, start, r)'
        /\ AtTrailer(fs, start, r) => AtTrailer(fs, start, r)'
    BY <1>2 DEF AtBody, AtTrailer
  <2>4. Len(delivered') <= Len(log')
    <3>1. Len(delivered) <= Len(log) /\ Len(delivered) \in Nat /\ Len(log) \in Nat
      BY <1>3, LenProperties DEF Reading, TypedInv
    <3>2. Len(log') \in Nat
      BY <1>4, <1>15
    <3> QED
      BY <1>2, <1>15, <3>1, <3>2
  <2> QED
    BY <1>2, <1>3, <2>1, <2>2, <2>3, <2>4 DEF Reading
<1> QED
  BY <1>3, <1>8, <1>16, <1>17 DEF Cut

(* The facts every step of the reader starts from.                               *)
LEMMA CutFacts ==
    ASSUME NEW fs, NEW start, NEW r, Cut(fs, start, r), TypedInv
    PROVE  /\ Laid(fs, start) /\ OnStream(fs, start, r) /\ Written(fs, start, r)
           /\ Reading(fs, start, r)
           /\ Len(fs) \in Nat /\ Len(delivered) \in Nat /\ Len(log) \in Nat
           /\ Len(wire) \in Nat /\ Len(pending) \in Nat /\ r \in Nat /\ wire \in Seq(Units)
           /\ Len(delivered) <= Len(log) /\ Len(log) <= Len(fs)
           /\ Len(delivered) \in 0..Len(fs)
<1>1. /\ Laid(fs, start) /\ OnStream(fs, start, r) /\ Written(fs, start, r)
      /\ Reading(fs, start, r)
  BY DEF Cut
<1>2. /\ Len(fs) \in Nat /\ Len(delivered) \in Nat /\ Len(log) \in Nat
      /\ Len(wire) \in Nat /\ Len(pending) \in Nat /\ r \in Nat /\ wire \in Seq(Units)
  <2>1. Len(fs) \in Nat
    BY <1>1, LaidTyped
  <2>2. r \in Nat
    BY <1>1 DEF OnStream
  <2> QED
    BY <2>1, <2>2, LenProperties DEF TypedInv, TypeOK
<1>3. Len(delivered) <= Len(log)
  BY <1>1 DEF Reading
<1>4. Len(log) <= Len(fs)
  <2>1. Len(log) = Len(fs) - 1 \/ Len(log) = Len(fs)
    BY <1>1 DEF Written
  <2> QED
    BY <1>2, <2>1
<1>5. Len(delivered) \in 0..Len(fs)
  BY <1>2, <1>3, <1>4
<1> QED
  BY <1>1, <1>2, <1>3, <1>4, <1>5

(* getline takes a line of the stream.                                           *)
LEMMA LineTaken ==
    ASSUME NEW fs, NEW start, NEW r, Cut(fs, start, r), TypedInv,
           HasLine, DropLine, UNCHANGED client_vars, NEW eol, eol = Eol
    PROVE  OnStream(fs, start, r + eol)' /\ Written(fs, start, r + eol)'
<1>1. /\ Laid(fs, start) /\ OnStream(fs, start, r) /\ Written(fs, start, r)
      /\ wire \in Seq(Units) /\ Len(wire) \in Nat
  BY CutFacts
<1>2. /\ eol \in 0..Len(wire) /\ wire' \in Seq(Units) /\ Len(wire') = Len(wire) - eol
      /\ \A i \in 1..(Len(wire) - eol) : wire'[i] = wire[eol + i]
  <2>1. wire' = SubSeq(wire, Eol + 1, Len(wire))
    BY DEF DropLine
  <2>2. Eol \in 1..Len(wire)
    BY <1>1, FirstLine
  <2>3. eol \in 0..Len(wire)
    BY <1>1, <2>2
  <2> QED
    BY <1>1, <2>1, <2>3, FirstLine
<1> QED
  BY <1>1, <1>2, Taken

(* The reader takes a header line.                                               *)
LEMMA HeaderLineCut ==
    ASSUME NEW fs, NEW start, NEW r, Cut(fs, start, r), TypedInv,
           ReadContentLength \/ ReadOtherHeader
    PROVE  Cut(fs, start, r + 2)'
<1>1. PICK m, n : m = Len(delivered) /\ n = Len(fs)
  OBVIOUS
<1>2. /\ Laid(fs, start) /\ OnStream(fs, start, r) /\ Written(fs, start, r)
      /\ Reading(fs, start, r)
      /\ n \in Nat /\ m \in Nat /\ r \in Nat /\ m <= Len(log) /\ m \in 0..n
  BY <1>1, CutFacts
<1>3. /\ result = Running /\ phase = "headers" /\ HasLine /\ Line # <<>> /\ DropLine
      /\ UNCHANGED <<client_vars, payload, delivered, phase, result>>
  BY DEF ReadContentLength, ReadOtherHeader, InHeaders, Begins, reader_vars, handler_vars
<1>4. PICK h \in Nat : AtHeader(fs, start, r, h)
  <2>1. wire # <<>>
    BY <1>3 DEF HasLine
  <2>2. ~Stranded
    BY <2>1 DEF Stranded
  <2> QED
    BY <1>2, <1>3, <2>2 DEF Reading
<1>5. PICK f, H : f = fs[m + 1] /\ H = Len(f.headers)
  OBVIOUS
<1>6. /\ m < n
      /\ h < H => Eol = 2 /\ Head(Line) = f.headers[h + 1]
      /\ h = H => Line = <<>>
  BY <1>1, <1>2, <1>3, <1>4, <1>5, LineAtHeader
<1>7. f \in Frames /\ WellFormed(f) /\ H \in Nat /\ start[m + 1] \in Nat
  <2>1. m + 1 \in 1..n
    BY <1>2, <1>6
  <2>2. f \in Frames /\ WellFormed(f) /\ start[m + 1] \in Nat
    BY <1>1, <1>2, <1>5, <2>1, LaidTyped
  <2> QED
    BY <1>5, <2>2, FrameLayout
<1>8. /\ h <= H /\ h < H /\ r = start[m + 1] + 2 * h /\ LengthRead(f, h)
      /\ Eol = 2 /\ Head(Line) = f.headers[h + 1]
  <2>1. h <= H /\ r = start[m + 1] + 2 * h /\ LengthRead(f, h)
    BY <1>1, <1>4, <1>5, <1>6 DEF AtHeader
  <2>2. h # H
    BY <1>3, <1>6
  <2>3. h < H
    BY <1>7, <2>1, <2>2
  <2> QED
    BY <1>6, <2>1, <2>3
<1>9. OnStream(fs, start, r + 2)' /\ Written(fs, start, r + 2)'
  <2>1. PICK eol : eol = Eol /\ eol = 2
    BY <1>8
  <2>2. OnStream(fs, start, r + eol)' /\ Written(fs, start, r + eol)'
    BY <1>3, <2>1, LineTaken
  <2> QED
    BY <2>1, <2>2
<1>10. LengthRead(f, h + 1)'
  <2> SUFFICES ASSUME NEW i \in 1..(h + 1), f.headers[i].kind = "length",
                      \A j \in 1..(h + 1) : i < j => f.headers[j].kind # "length"
               PROVE  content_length' = f.headers[i].n
    BY DEF LengthRead
  <2>1. h + 1 \in 1..(h + 1)
    OBVIOUS
  <2>2. CASE ReadContentLength
    <3>1. /\ f.headers[h + 1].kind = "length"
          /\ content_length' = f.headers[h + 1].n
      BY <1>8, <2>2 DEF ReadContentLength, Begins
    <3>2. ~(i < h + 1)
      BY <2>1, <3>1
    <3>3. i = h + 1
      BY <3>2
    <3> QED
      BY <3>1, <3>3
  <2>3. CASE ReadOtherHeader
    <3>1. f.headers[h + 1].kind # "length" /\ content_length' = content_length
      BY <1>8, <2>3 DEF ReadOtherHeader, Begins, reader_vars
    <3>2. i # h + 1
      BY <3>1
    <3>3. i \in 1..h
      BY <3>2
    <3>4. \A j \in 1..h : j \in 1..(h + 1)
      OBVIOUS
    <3>5. content_length = f.headers[i].n
      BY <1>8, <3>3, <3>4 DEF LengthRead
    <3> QED
      BY <3>1, <3>5
  <2> QED
    BY <2>2, <2>3
<1>11. AtHeader(fs, start, r + 2, h + 1)'
  <2>1. r + 2 = start[m + 1] + 2 * (h + 1)
    BY <1>2, <1>7, <1>8
  <2>2. h + 1 <= H /\ m # n
    BY <1>2, <1>6, <1>7, <1>8
  <2> QED
    BY <1>1, <1>3, <1>5, <1>6, <1>10, <2>1, <2>2 DEF AtHeader
<1>12. Reading(fs, start, r + 2)'
  <2>1. h + 1 \in Nat
    OBVIOUS
  <2>2. Len(delivered') <= Len(log')
    BY <1>1, <1>2, <1>3 DEF client_vars
  <2>3. \E k \in Nat : AtHeader(fs, start, r + 2, k)'
    BY <1>11, <2>1
  <2> QED
    BY <1>1, <1>2, <1>3, <2>2, <2>3 DEF Reading
<1> QED
  BY <1>2, <1>9, <1>12 DEF Cut

(* Where the reader is when it takes a line: at a header line of a frame of the  *)
(* editor's, which has a good length or none, or at its blank line, when the     *)
(* length it has is the payload's.                                              *)
LEMMA LineTakenAt ==
    ASSUME NEW fs, NEW start, NEW r, Cut(fs, start, r), TypedInv, InHeaders
    PROVE  /\ ~Begins("badlength")
           /\ Line = <<>> =>
                /\ Len(delivered) < Len(fs)
                /\ Eol = 1 /\ content_length = Len(fs[Len(delivered) + 1].payload)
                /\ r + 1 = start[Len(delivered) + 1]
                             + HeadersEnd(fs[Len(delivered) + 1])
<1>1. PICK m, n : m = Len(delivered) /\ n = Len(fs)
  OBVIOUS
<1>2. /\ Laid(fs, start) /\ OnStream(fs, start, r) /\ Written(fs, start, r)
      /\ Reading(fs, start, r)
      /\ n \in Nat /\ m \in Nat /\ r \in Nat /\ m <= Len(log) /\ m \in 0..n
  BY <1>1, CutFacts
<1>3. result = Running /\ phase = "headers" /\ HasLine
  BY DEF InHeaders
<1>4. PICK h \in Nat : AtHeader(fs, start, r, h)
  <2>1. wire # <<>>
    BY <1>3 DEF HasLine
  <2>2. ~Stranded
    BY <2>1 DEF Stranded
  <2> QED
    BY <1>2, <1>3, <2>2 DEF Reading
<1>5. PICK f, H : f = fs[m + 1] /\ H = Len(f.headers)
  OBVIOUS
<1>6. /\ m < n
      /\ h < H => Line # <<>> /\ Head(Line) = f.headers[h + 1]
      /\ h = H => Eol = 1 /\ Line = <<>>
  BY <1>1, <1>2, <1>3, <1>4, <1>5, LineAtHeader
<1>7. f \in Frames /\ WellFormed(f) /\ H \in Nat \ {0} /\ start[m + 1] \in Nat
  <2>1. m + 1 \in 1..n
    BY <1>2, <1>6
  <2>2. f \in Frames /\ WellFormed(f) /\ start[m + 1] \in Nat
    BY <1>1, <1>2, <1>5, <2>1, LaidTyped
  <2> QED
    BY <1>5, <2>2, WellFormedFrame
<1>8. /\ h <= H /\ r = start[m + 1] + 2 * h /\ LengthRead(f, h)
  BY <1>1, <1>4, <1>5, <1>6 DEF AtHeader
<1>9. CASE h < H
  <2>1. h + 1 \in 1..H
    BY <1>7, <1>9
  <2>2. f.headers[h + 1].kind # "badlength"
    <3>1. f.headers[h + 1].kind \in {"length", "header"}
      BY <1>5, <1>7, <2>1, WellFormedFrame
    <3> QED
      BY <3>1
  <2> QED
    BY <1>6, <1>9, <2>2 DEF Begins
<1>10. CASE h = H
  <2>1. PICK i \in 1..H :
           /\ f.headers[i] = Length(Len(f.payload))
           /\ \A j \in 1..H : i < j => f.headers[j].kind # "length"
    BY <1>5, <1>7, WellFormedFrame, SMTT(30)
  <2>2. f.headers[i].kind = "length" /\ f.headers[i].n = Len(f.payload)
    BY <2>1, UnitTyped
  <2>3. content_length = Len(f.payload)
    BY <1>8, <1>10, <2>1, <2>2 DEF LengthRead
  <2>4. r + 1 = start[m + 1] + HeadersEnd(f)
    <3>1. HeadersEnd(f) = 2 * H + 1 /\ r = start[m + 1] + 2 * H
      BY <1>5, <1>8, <1>10 DEF HeadersEnd
    <3>2. PICK D, a : D = 2 * H /\ a = start[m + 1]
      OBVIOUS
    <3>3. D \in Nat /\ a \in Nat
      BY <1>7, <3>2
    <3>4. (a + D) + 1 = a + (D + 1)
      BY <3>3
    <3> QED
      BY <3>1, <3>2, <3>4
  <2> QED
    BY <1>1, <1>5, <1>6, <1>10, <2>3, <2>4 DEF Begins
<1> QED
  BY <1>7, <1>8, <1>9, <1>10

(* The reader takes the blank line of a frame: there is a length, the payload's. *)
LEMMA EndHeadersCut ==
    ASSUME NEW fs, NEW start, NEW r, Cut(fs, start, r), TypedInv, EndHeaders
    PROVE  Cut(fs, start, r + 1)' /\ result' = Running /\ UNCHANGED handler_vars
<1>1. PICK m, n, f : m = Len(delivered) /\ n = Len(fs) /\ f = fs[m + 1]
  OBVIOUS
<1>2. /\ Laid(fs, start) /\ Reading(fs, start, r) /\ n \in Nat /\ m \in Nat /\ m <= Len(log)
  BY <1>1, CutFacts
<1>3. InHeaders /\ Line = <<>> /\ DropLine /\ UNCHANGED <<client_vars, content_length, delivered>>
  BY DEF EndHeaders
<1>4. /\ m < n /\ Eol = 1 /\ content_length = Len(f.payload)
      /\ r + 1 = start[m + 1] + HeadersEnd(f)
  BY <1>1, <1>3, LineTakenAt
<1>5. content_length # 0
  <2>1. m + 1 \in 1..n
    BY <1>2, <1>4
  <2>2. f \in Frames
    BY <1>1, <1>2, <2>1, LaidTyped
  <2>3. Len(f.payload) \in Nat \ {0}
    BY <2>2, FrameSizes
  <2> QED
    BY <1>4, <2>3
<1>6. phase' = "body" /\ UNCHANGED handler_vars
  BY <1>5 DEF EndHeaders
<1>7. OnStream(fs, start, r + 1)' /\ Written(fs, start, r + 1)'
  <2>1. PICK eol : eol = Eol /\ eol = 1
    BY <1>4
  <2>2. OnStream(fs, start, r + eol)' /\ Written(fs, start, r + eol)'
    BY <1>3, <2>1, LineTaken DEF InHeaders
  <2> QED
    BY <2>1, <2>2
<1>8. AtBody(fs, start, r + 1)'
  BY <1>1, <1>3, <1>4 DEF AtBody
<1>9. result' = Running
  BY <1>3, <1>6 DEF InHeaders, handler_vars
<1>10. Reading(fs, start, r + 1)'
  <2>1. Len(delivered') <= Len(log')
    BY <1>1, <1>2, <1>3 DEF client_vars
  <2> QED
    BY <1>2, <1>3, <1>6, <1>8, <2>1 DEF Reading
<1> QED
  BY <1>2, <1>6, <1>7, <1>9, <1>10 DEF Cut

(* The stream ends early: the reader drops what is left of it and run() ends.    *)
LEMMA CutShortCut ==
    ASSUME NEW fs, NEW start, NEW r, Cut(fs, start, r), TypedInv,
           HeadersCutShort \/ BodyCutShort
    PROVE  \E q : Cut(fs, start, q)'
<1>1. PICK w : w = Len(wire)
  OBVIOUS
<1>2. /\ Laid(fs, start) /\ OnStream(fs, start, r) /\ Written(fs, start, r)
      /\ Reading(fs, start, r) /\ w \in Nat /\ Len(delivered) <= Len(log)
  BY <1>1, CutFacts
<1>3. /\ wire' = <<>> /\ (EndSession \/ phase' = "aborted")
      /\ UNCHANGED <<client_vars, delivered>>
  BY DEF HeadersCutShort, BodyCutShort, reader_vars
<1>4. OnStream(fs, start, r + w)' /\ Written(fs, start, r + w)'
  <2>1. /\ w \in 0..Len(wire) /\ wire' \in Seq(Units) /\ Len(wire') = Len(wire) - w
        /\ \A i \in 1..(Len(wire) - w) : wire'[i] = wire[w + i]
    <3>1. wire' \in Seq(Units) /\ Len(wire') = 0
      BY <1>3, EmptySeq
    <3> QED
      BY <1>1, <1>2, <3>1
  <2> QED
    BY <1>2, <1>3, <2>1, Taken
<1>5. result' # Running \/ phase' = "aborted"
  <2>1. exit_code \in {0, 1}
    BY DEF TypedInv, TypeOK, HandlersTypeOK
  <2> QED
    BY <1>3, <2>1 DEF EndSession, Running
<1>6. Reading(fs, start, r + w)'
  <2>1. Len(delivered') <= Len(log')
    BY <1>2, <1>3 DEF client_vars
  <2> QED
    BY <1>2, <1>3, <1>5, <2>1 DEF Reading
<1> QED
  BY <1>2, <1>4, <1>6 DEF Cut

(* What the reader takes as the body is the payload of the frame it is at; a     *)
(* length no string has is not reached.                                         *)
LEMMA ReadBodyCut ==
    ASSUME NEW fs, NEW start, NEW r, Cut(fs, start, r), TypedInv, ReadBody \/ Abort
    PROVE  /\ ReadBody
           /\ \E q : Cut(fs, start, q)'
<1>1. PICK m, n, f : m = Len(delivered) /\ n = Len(fs) /\ f = fs[m + 1]
  OBVIOUS
<1>2. /\ Laid(fs, start) /\ OnStream(fs, start, r) /\ Written(fs, start, r)
      /\ Reading(fs, start, r) /\ wire \in Seq(Units) /\ Len(wire) \in Nat
      /\ n \in Nat /\ m \in Nat /\ r \in Nat /\ m <= Len(log)
  BY <1>1, CutFacts
<1>3. AtBody(fs, start, r)
  <2>1. result = Running /\ phase = "body"
    BY DEF ReadBody, Abort
  <2> QED
    BY <1>2, <2>1 DEF Reading
<1>4. PICK a, e, b : a = start[m + 1] /\ e = HeadersEnd(f) /\ b = Len(f.payload)
  OBVIOUS
<1>5. /\ m < n /\ r = a + e /\ content_length = b
  BY <1>1, <1>3, <1>4 DEF AtBody
<1>6. /\ f \in Frames /\ WellFormed(f) /\ a \in Nat /\ e \in Nat
      /\ m + 1 \in 1..n
  <2>1. m + 1 \in 1..n
    BY <1>2, <1>5
  <2>2. f \in Frames /\ WellFormed(f) /\ a \in Nat
    BY <1>1, <1>2, <1>4, <2>1, LaidTyped
  <2> QED
    BY <1>4, <2>1, <2>2, FrameLayout
<1>7. /\ b \in 1..(Huge - 1) /\ BodyEnd(f) = e + b /\ f.payload \in Seq(MemberType)
      /\ Size(f) \in Nat /\ e + b <= Size(f)
  <2>1. b \in 1..(Huge - 1) /\ BodyEnd(f) = e + b /\ f.payload \in Seq(MemberType)
    BY <1>4, <1>6, FrameTyped DEF BodyEnd
  <2>2. Size(f) \in Nat /\ BodyEnd(f) <= Size(f)
    BY <1>6, FrameSizes
  <2> QED
    BY <2>1, <2>2
<1>8. ReadBody
  <2>1. content_length # Huge
    BY <1>5, <1>7 DEF Huge
  <2> QED
    BY <2>1 DEF Abort
<1>9. b \in Nat /\ b \in 0..Len(wire)
  <2>1. b \in Nat
    BY <1>7 DEF Huge
  <2>2. Len(wire) >= b
    BY <1>5, <1>8 DEF ReadBody
  <2> QED
    BY <1>2, <2>1, <2>2
<1>10. \A i \in 1..b : wire[i].member = f.payload[i]
  <2> SUFFICES ASSUME NEW i \in 1..b
               PROVE  wire[i].member = f.payload[i]
    OBVIOUS
  <2>1. /\ e + i \in 1..Size(f) /\ a + (e + i) > r /\ a + (e + i) - r = i
        /\ i <= Len(wire)
    BY <1>2, <1>5, <1>6, <1>7, <1>9
  <2>2. Ahead(i) = UnitsOf(f)[e + i]
    BY <1>1, <1>2, <1>4, <1>6, <2>1 DEF OnStream
  <2>3. UnitsOf(f)[e + i] = BodyUnit(f.payload[i])
    BY <1>4, <1>6, FrameLayout
  <2>4. f.payload[i] \in MemberType
    BY <1>4, <1>7, ElementOfSeq
  <2>5. f.payload[i] \in AnyMember
    BY <2>4 DEF AnyMember
  <2>6. BodyUnit(f.payload[i]).member = f.payload[i]
    BY <2>5, UnitTyped
  <2> QED
    BY <2>1, <2>2, <2>3, <2>6 DEF Ahead
<1>11. payload' = f.payload
  <2>1. payload' = [i \in 1..b |-> wire[i].member]
    BY <1>5, <1>8 DEF ReadBody
  <2>2. \A i \in 1..b : payload'[i] = f.payload[i]
    BY <1>10, <2>1
  <2>3. \A i \in 1..b : f.payload[i] \in MemberType
    BY <1>4, <1>7, ElementOfSeq
  <2>4. payload' \in [1..b -> MemberType]
    BY <1>10, <2>1, <2>3
  <2>5. payload' \in Seq(MemberType) /\ Len(payload') = b
    BY <1>9, <2>4
  <2> QED
    BY <1>4, <1>7, <2>2, <2>5, SeqEqual
<1>12. OnStream(fs, start, r + b)' /\ Written(fs, start, r + b)'
  <2>1. wire' = SubSeq(wire, b + 1, Len(wire)) /\ UNCHANGED client_vars
    BY <1>5, <1>8 DEF ReadBody
  <2>2. /\ wire' \in Seq(Units) /\ Len(wire') = Len(wire) - b
        /\ \A i \in 1..(Len(wire) - b) : wire'[i] = wire[b + i]
    BY <1>2, <1>9, <2>1, Dropped
  <2> QED
    BY <1>2, <1>9, <2>1, <2>2, Taken
<1>13. /\ phase' = "trailer"
       /\ UNCHANGED <<delivered, log>>
  BY <1>8 DEF ReadBody, client_vars
<1>14. AtTrailer(fs, start, r + b)'
  <2>1. r + b = a + BodyEnd(f)
    BY <1>5, <1>6, <1>7, <1>9
  <2> QED
    BY <1>1, <1>4, <1>5, <1>11, <1>13, <2>1 DEF AtTrailer
<1>15. Reading(fs, start, r + b)'
  <2>1. Len(delivered') <= Len(log')
    BY <1>1, <1>2, <1>13
  <2> QED
    BY <1>2, <1>13, <1>14, <2>1 DEF Reading
<1> QED
  BY <1>2, <1>8, <1>12, <1>15 DEF Cut

(* The payload the reader hands over is the log's next; at most one line end of  *)
(* the stream goes with it, and what follows is the next frame.                 *)
LEMMA DeliverCut ==
    ASSUME NEW fs, NEW start, NEW r, Cut(fs, start, r), TypedInv, Deliver
    PROVE  /\ Len(delivered) < Len(log) /\ payload = log[Len(delivered) + 1]
           /\ \E q : Cut(fs, start, q)'
<1>1. PICK m, n, w, f : m = Len(delivered) /\ n = Len(fs) /\ w = Len(wire) /\ f = fs[m + 1]
  OBVIOUS
<1>2. /\ Laid(fs, start) /\ OnStream(fs, start, r) /\ Written(fs, start, r)
      /\ Reading(fs, start, r) /\ wire \in Seq(Units) /\ w \in Nat
      /\ n \in Nat /\ m \in Nat /\ r \in Nat /\ m <= Len(log) /\ Len(log) \in Nat
      /\ Len(pending) \in Nat /\ Len(log) <= n
  BY <1>1, CutFacts
<1>3. AtTrailer(fs, start, r)
  <2>1. result = Running /\ phase = "trailer"
    BY DEF Deliver
  <2> QED
    BY <1>2, <2>1 DEF Reading
<1>4. PICK a, b, t, z : a = start[m + 1] /\ b = BodyEnd(f) /\ t = Len(f.trailer) /\ z = start[m + 2]
  OBVIOUS
<1>5. m < n /\ r = a + b /\ payload = f.payload
  BY <1>1, <1>3, <1>4 DEF AtTrailer
<1>6. /\ f \in Frames /\ WellFormed(f) /\ a \in Nat /\ b \in Nat /\ t \in {0, 1}
      /\ m + 1 \in 1..n /\ z = a + (b + t) /\ z \in Nat /\ Size(f) = b + t
      /\ t = 1 => f.trailer[1] = Unit("crlf")
      /\ z <= start[n + 1] /\ start[n + 1] \in Nat /\ r + w + Len(pending) = start[n + 1]
  <2>1. m + 1 \in 1..n /\ (m + 1) + 1 = m + 2 /\ n + 1 \in 1..(n + 1)
    BY <1>2, <1>5
  <2>2. f \in Frames /\ WellFormed(f) /\ a \in Nat /\ z = a + Size(f) /\ z \in Nat
        /\ a + Size(f) <= start[n + 1] /\ start[n + 1] \in Nat
    BY <1>1, <1>2, <1>4, <2>1, LaidTyped
  <2>3. b \in Nat /\ t \in {0, 1} /\ Size(f) = b + t /\ (t = 1 => f.trailer[1] = Unit("crlf"))
    BY <1>4, <2>2, FrameLayout, WellFormedFrame
  <2>4. r + w + Len(pending) = start[n + 1]
    BY <1>1, <1>2 DEF OnStream
  <2> QED
    BY <2>1, <2>2, <2>3, <2>4
<1>7. m < Len(log) /\ (m + 1 = n => Len(log) = n)
  <2>1. CASE m + 1 = n
    <3>1. fs[n] = f /\ start[n] = a
      BY <1>1, <1>4, <2>1
    <3>2. ~(r + w < a + b)
      BY <1>2, <1>5, <1>6
    <3>3. Len(log) = n
      BY <1>1, <1>4, <1>2, <3>1, <3>2 DEF Written
    <3> QED
      BY <1>5, <3>3
  <2>2. CASE m + 1 # n
    <3>1. Len(log) = n - 1 \/ Len(log) = n
      BY <1>1, <1>2 DEF Written
    <3> QED
      BY <1>2, <1>5, <2>2, <3>1
  <2> QED
    BY <2>1, <2>2
<1>8. payload = log[m + 1]
  <2>1. m + 1 \in 1..Len(log)
    BY <1>2, <1>7
  <2> QED
    BY <1>1, <1>2, <1>5, <2>1 DEF Written
<1>9. /\ delivered' = Append(delivered, payload) /\ phase' = "headers"
      /\ wire' = IF wire # <<>> /\ Head(wire).kind = "crlf" THEN Tail(wire) ELSE wire
      /\ (wire # <<>> \/ closed) /\ UNCHANGED client_vars
  BY DEF Deliver
<1>10. UNCHANGED <<pending, current, closed, log>>
  BY DEF Deliver, client_vars
<1>11. /\ Len(delivered') = m + 1
       /\ \A i \in 1..Len(delivered') : delivered'[i] = fs[i].payload
  <2>1. delivered \in Seq(Seq(AnyMember)) /\ payload \in Seq(AnyMember)
    BY DEF TypedInv
  <2>2. /\ Len(delivered') = m + 1 /\ delivered'[m + 1] = payload
        /\ \A i \in 1..m : delivered'[i] = delivered[i]
    BY <1>1, <1>9, <2>1, AppendProperties
  <2>3. \A i \in 1..m : delivered[i] = fs[i].payload
    BY <1>1, <1>2 DEF Reading
  <2>4. \A i \in 1..(m + 1) : i \in 1..m \/ i = m + 1
    BY <1>2
  <2> QED
    BY <1>1, <1>5, <2>2, <2>3, <2>4
<1>12. Len(delivered') <= Len(log')
  BY <1>2, <1>7, <1>10, <1>11
<1>13. wire # <<>> <=> 1 \in 1..w
  BY <1>1, <1>2, EmptySeq
<1>14. ASSUME OnStream(fs, start, z)', Written(fs, start, z)'
       PROVE  Cut(fs, start, z)'
  <2>1. AtHeader(fs, start, z, 0)'
    <3>1. z = start[(m + 1) + 1] + 2 * 0
      <4>1. (m + 1) + 1 = m + 2
        BY <1>2
      <4>2. start[(m + 1) + 1] = z
        BY <1>4, <4>1
      <4>3. z = z + 2 * 0
        BY <1>6
      <4> QED
        BY <4>2, <4>3
    <3>2. m + 1 < n => 0 <= Len(fs[(m + 1) + 1].headers) /\ LengthRead(fs[(m + 1) + 1], 0)'
      <4> SUFFICES ASSUME m + 1 < n
                   PROVE  /\ 0 <= Len(fs[(m + 1) + 1].headers)
                          /\ LengthRead(fs[(m + 1) + 1], 0)'
        OBVIOUS
      <4>1. (m + 1) + 1 \in 1..n
        BY <1>2
      <4>2. fs[(m + 1) + 1] \in Frames
        BY <1>1, <1>2, <4>1, LaidTyped
      <4>3. Len(fs[(m + 1) + 1].headers) \in Nat
        BY <4>2, FrameLayout
      <4> QED
        BY <4>3 DEF LengthRead
    <3> QED
      BY <1>1, <1>11, <3>1, <3>2 DEF AtHeader
  <2>2. \E h \in Nat : AtHeader(fs, start, z, h)'
    BY <2>1
  <2>3. Reading(fs, start, z)'
    BY <1>9, <1>11, <1>12, <2>2 DEF Reading
  <2> QED
    BY <1>2, <1>14, <2>3 DEF Cut
<1>15. CASE t = 0
  <2>1. r = z
    BY <1>5, <1>6, <1>15
  <2>2. wire # <<>> => Head(wire).kind # "crlf"
    <3> SUFFICES ASSUME wire # <<>>
                 PROVE  Head(wire).kind # "crlf"
      OBVIOUS
    <3>1. m + 1 < n
      <4> SUFFICES ASSUME m + 1 = n
                   PROVE  FALSE
        BY <1>2, <1>5
      <4>1. z = start[n + 1]
        <5>1. m + 2 = n + 1
          BY <1>2
        <5> QED
          BY <1>4, <5>1
      <4>2. w = 0
        BY <1>2, <1>6, <2>1, <4>1
      <4> QED
        BY <1>13, <4>2
    <3>2. PICK g : g = fs[m + 2]
      OBVIOUS
    <3>3. m + 2 \in 1..n /\ g \in Frames /\ WellFormed(g)
      <4>1. m + 2 \in 1..n
        BY <1>2, <3>1
      <4> QED
        BY <1>1, <1>2, <3>2, <4>1, LaidTyped
    <3>4. 1 \in 1..Len(g.headers) /\ 1 \in 1..Size(g)
      <4>1. Len(g.headers) \in Nat \ {0}
        BY <3>3, WellFormedFrame
      <4>2. HeadersEnd(g) \in Nat \ {0} /\ HeadersEnd(g) < BodyEnd(g) /\ BodyEnd(g) <= Size(g)
            /\ BodyEnd(g) \in Nat /\ Size(g) \in Nat
        BY <3>3, FrameSizes
      <4> QED
        BY <4>1, <4>2
    <3>5. UnitsOf(g)[1] = g.headers[1] /\ ~IsEol(g.headers[1])
      <4>1. UnitsOf(g)[2 * 1 - 1] = g.headers[1]
        BY <3>3, <3>4, FrameLayout
      <4> QED
        BY <3>3, <3>4, <4>1, WellFormedFrame
    <3>6. Ahead(1) = UnitsOf(g)[1]
      <4>1. z + 1 > r /\ z + 1 - r = 1
        BY <1>2, <2>1
      <4> QED
        BY <1>1, <1>2, <1>4, <3>2, <3>3, <3>4, <4>1 DEF OnStream
    <3>7. Head(wire) = wire[1] /\ Ahead(1) = wire[1]
      BY <1>1, <1>2, <1>13 DEF Ahead
    <3> QED
      BY <3>5, <3>6, <3>7 DEF IsEol
  <2>3. wire' = wire
    BY <1>9, <2>2
  <2>4. OnStream(fs, start, r)' /\ Written(fs, start, r)'
    BY <1>2, <1>10, <2>3 DEF OnStream, Written, Ahead
  <2>5. Cut(fs, start, z)'
    BY <1>14, <2>1, <2>4
  <2> QED
    BY <1>1, <1>7, <1>8, <2>5
<1>16. CASE t = 1 /\ wire # <<>>
  <2>1. r + 1 = z
    BY <1>5, <1>6, <1>16
  <2>2. Head(wire).kind = "crlf"
    <3>1. Head(wire) = wire[1] /\ Ahead(1) = wire[1]
      BY <1>1, <1>2, <1>13, <1>16 DEF Ahead
    <3>2. b + 1 \in 1..Size(f) /\ a + (b + 1) > r /\ a + (b + 1) - r = 1
      BY <1>5, <1>6, <1>16
    <3>3. Ahead(1) = UnitsOf(f)[b + 1]
      BY <1>1, <1>2, <1>4, <1>6, <3>2 DEF OnStream
    <3>4. UnitsOf(f)[b + 1] = f.trailer[1]
      <4>1. 1 \in 1..Len(f.trailer) /\ b = BodyEnd(f)
        BY <1>4, <1>16
      <4>2. \A i \in 1..Len(f.trailer) : UnitsOf(f)[BodyEnd(f) + i] = f.trailer[i]
        BY <1>6, FrameLayout
      <4>3. UnitsOf(f)[BodyEnd(f) + 1] = f.trailer[1]
        BY <4>1, <4>2
      <4> QED
        BY <4>1, <4>3
    <3> QED
      BY <1>6, <1>16, <3>1, <3>3, <3>4 DEF Unit
  <2>3. wire' = Tail(wire)
    BY <1>9, <1>16, <2>2
  <2>4. OnStream(fs, start, r + 1)' /\ Written(fs, start, r + 1)'
    <3>1. /\ 1 \in 0..w /\ wire' \in Seq(Units) /\ Len(wire') = w - 1
          /\ \A i \in 1..(w - 1) : wire'[i] = wire[i + 1]
      BY <1>1, <1>2, <1>13, <1>16, <2>3, HeadTailProperties
    <3>2. \A i \in 1..(w - 1) : wire'[i] = wire[1 + i]
      <4>1. \A i \in 1..(w - 1) : i + 1 = 1 + i
        OBVIOUS
      <4> QED
        BY <3>1, <4>1
    <3>3. UNCHANGED client_vars
      BY DEF Deliver
    <3> QED
      BY <1>1, <1>2, <3>1, <3>2, <3>3, Taken
  <2>5. Cut(fs, start, z)'
    BY <1>14, <2>1, <2>4
  <2> QED
    BY <1>1, <1>7, <1>8, <2>5
<1>17. CASE t = 1 /\ wire = <<>>
  <2>1. wire' = wire /\ closed /\ w = 0
    BY <1>1, <1>9, <1>17, EmptySeq
  <2>2. OnStream(fs, start, r)' /\ Written(fs, start, r)'
    BY <1>2, <1>10, <2>1 DEF OnStream, Written, Ahead
  <2>3. m + 1 = n
    <3> SUFFICES ASSUME m + 1 < n
                 PROVE  FALSE
      BY <1>2, <1>5
    <3>1. pending # <<>>
      <4>1. Len(pending) # 0
        BY <1>2, <1>5, <1>6, <1>17, <2>1
      <4> QED
        BY <4>1, EmptySeq
    <3>2. start[n] <= r + w /\ start[n] \in Nat
      <4>1. n \in 1..n
        BY <1>2, <3>1
      <4> QED
        BY <1>1, <1>2, <3>1, <4>1, LaidTyped DEF Written
    <3>3. m + 1 \in 1..n /\ n \in 1..(n + 1) /\ m + 1 < n
      BY <1>2, <1>5
    <3>4. a + Size(f) <= start[n]
      BY <1>1, <1>2, <1>4, <3>3 DEF Laid
    <3> QED
      BY <1>2, <1>5, <1>6, <1>17, <2>1, <3>2, <3>4
  <2>4. Len(log') = m + 1
    BY <1>7, <1>10, <2>3
  <2>5. Stranded'
    BY <1>10, <1>11, <1>17, <2>1, <2>4 DEF Stranded
  <2>6. Reading(fs, start, r)'
    BY <1>9, <1>11, <1>12, <2>5 DEF Reading
  <2>7. Cut(fs, start, r)'
    BY <1>2, <2>2, <2>6 DEF Cut
  <2> QED
    BY <1>1, <1>7, <1>8, <2>7
<1> QED
  BY <1>6, <1>13, <1>15, <1>16, <1>17

(* The invariant holds at first, on an empty stream.                             *)
LEMMA StreamInit == Init => StreamInv
<1> SUFFICES ASSUME Init
             PROVE  \E fs, start, r : Cut(fs, start, r)
  BY DEF StreamInv
<1>1. /\ pending = <<>> /\ wire = <<>> /\ log = <<>> /\ delivered = <<>>
      /\ phase = "headers" /\ result = Running
  BY DEF Init, HandlersInit
<1>2. PICK fs, start : fs = <<>> /\ start = <<0>>
  OBVIOUS
<1>3. /\ fs \in Seq(Frames) /\ Len(fs) = 0 /\ start \in Seq(Nat) /\ Len(start) = 1
      /\ start[1] = 0
  BY <1>2
<1>4. Laid(fs, start)
  BY <1>3 DEF Laid
<1>5. Len(wire) = 0 /\ Len(pending) = 0 /\ Len(log) = 0 /\ Len(delivered) = 0
  BY <1>1
<1>6. OnStream(fs, start, 0)
  BY <1>3, <1>5 DEF OnStream
<1>7. Written(fs, start, 0)
  BY <1>1, <1>3, <1>5 DEF Written
<1>8. Reading(fs, start, 0)
  <2>1. AtHeader(fs, start, 0, 0)
    BY <1>3, <1>5 DEF AtHeader
  <2> QED
    BY <1>1, <1>5, <2>1 DEF Reading
<1> QED
  BY <1>4, <1>6, <1>7, <1>8 DEF Cut

(* No step clears the count of ill-formed frames.                                *)
LEMMA FaultyGrows ==
    ASSUME TypedInv, [Next]_vars
    PROVE  /\ faulty' = 0 => faulty = 0
           /\ \A f \in Frames : faulty' = 0 /\ BeginFrame(f) => WellFormed(f)
<1>1. faulty \in Nat
  BY MaxMessagesIsNat DEF MaxMessagesIsNat, TypedInv, TypeOK
<1>2. ASSUME NEW f \in Frames, BeginFrame(f), faulty' = 0
      PROVE  faulty = 0 /\ WellFormed(f)
  <2>1. faulty' = faulty + (IF WellFormed(f) THEN 0 ELSE 1)
    BY <1>2 DEF BeginFrame
  <2>2. CASE WellFormed(f)
    BY <1>1, <1>2, <2>1, <2>2
  <2>3. CASE ~WellFormed(f)
    BY <1>1, <1>2, <2>1, <2>3
  <2> QED
    BY <2>2, <2>3
<1>3. CASE WriteUnit \/ Close \/ Read \/ UNCHANGED vars
  <2>1. faulty' = faulty
    BY <1>3 DEF WriteUnit, Close, Read, client_vars, vars, ReadContentLength, ReadOtherHeader,
                ReadBadContentLength, EndHeaders, HeadersCutShort, ReadBody, BodyCutShort,
                Abort, Deliver
  <2> QED
    BY <1>2, <2>1
<1> QED
  BY <1>2, <1>3 DEF Next

(* Every step keeps the invariant of the stream.                                *)
LEMMA StreamStep == TypedInv /\ StreamInv /\ [Next]_vars => StreamInv'
<1> SUFFICES ASSUME TypedInv, StreamInv, [Next]_vars, faulty' = 0
             PROVE  (\E fs, start, r : Cut(fs, start, r))'
  BY DEF StreamInv
<1>1. PICK fs, start, r : Cut(fs, start, r)
  BY FaultyGrows DEF StreamInv
<1>2. ASSUME NEW f \in Frames, BeginFrame(f)
      PROVE  (\E gs, begin, q : Cut(gs, begin, q))'
  <2>1. WellFormed(f)
    BY <1>2, FaultyGrows
  <2> QED
    BY <1>1, <1>2, <2>1, BeginFrameCut
<1>3. CASE WriteUnit
  BY <1>1, <1>3, WriteUnitCut
<1>4. CASE Close
  <2>1. closed' /\ UNCHANGED <<pending, current, wire, log, phase, content_length, payload,
                               delivered, result>>
    BY <1>4 DEF Close, reader_vars, handler_vars
  <2>2. Laid(fs, start) /\ OnStream(fs, start, r)' /\ Written(fs, start, r)'
    BY <1>1, <2>1 DEF Cut, OnStream, Written, Ahead
  <2>3. Reading(fs, start, r)'
    <3>1. /\ \A h \in Nat : AtHeader(fs, start, r, h) => AtHeader(fs, start, r, h)'
          /\ AtBody(fs, start, r) => AtBody(fs, start, r)'
          /\ AtTrailer(fs, start, r) => AtTrailer(fs, start, r)'
          /\ Stranded => Stranded'
      BY <2>1 DEF AtHeader, LengthRead, AtBody, AtTrailer, Stranded
    <3> QED
      BY <1>1, <2>1, <3>1 DEF Cut, Reading
  <2> QED
    BY <2>2, <2>3 DEF Cut
<1>5. CASE ReadContentLength \/ ReadOtherHeader
  BY <1>1, <1>5, HeaderLineCut
<1>6. CASE ReadBadContentLength
  <2>1. InHeaders /\ Begins("badlength")
    BY <1>6 DEF ReadBadContentLength
  <2> QED
    BY <1>1, <2>1, LineTakenAt
<1>7. CASE EndHeaders
  BY <1>1, <1>7, EndHeadersCut
<1>8. CASE HeadersCutShort \/ BodyCutShort
  BY <1>1, <1>8, CutShortCut
<1>9. CASE ReadBody \/ Abort
  BY <1>1, <1>9, ReadBodyCut
<1>10. CASE Deliver
  BY <1>1, <1>10, DeliverCut
<1>11. CASE UNCHANGED vars
  <2>1. UNCHANGED <<pending, current, wire, closed, log, phase, content_length, payload,
                    delivered, result>>
    BY <1>11 DEF vars, reader_vars, handler_vars
  <2>2. Cut(fs, start, r)'
    BY <1>1, <2>1 DEF Cut, OnStream, Written, Ahead, Reading, AtHeader, LengthRead, AtBody,
                      AtTrailer, Stranded
  <2> QED
    BY <2>2
<1> QED
  BY <1>2, <1>3, <1>4, <1>5, <1>6, <1>7, <1>8, <1>9, <1>10, <1>11 DEF Next, Read

(* Before the first ill-formed frame what read_message returns are the payloads  *)
(* the editor wrote, in order and none twice, however many there are.           *)
THEOREM DeliveredInOrder == Spec => []DeliveredIsPrefix
<1>1. ASSUME TypedInv, StreamInv
      PROVE  DeliveredIsPrefix
  <2> SUFFICES ASSUME faulty = 0
               PROVE  /\ Len(delivered) <= Len(log)
                      /\ \A i \in 1..Len(delivered) : delivered[i] = log[i]
    BY DEF DeliveredIsPrefix
  <2>1. PICK fs, start, r : Cut(fs, start, r)
    BY <1>1 DEF StreamInv
  <2>2. /\ Len(delivered) \in Nat /\ Len(log) \in Nat /\ Len(delivered) <= Len(log)
        /\ Written(fs, start, r) /\ Reading(fs, start, r)
    BY <1>1, <2>1, CutFacts
  <2>3. ASSUME NEW i \in 1..Len(delivered)
        PROVE  delivered[i] = log[i]
    <3>1. i \in 1..Len(log)
      BY <2>2
    <3> QED
      BY <2>2, <3>1 DEF Written, Reading
  <2> QED
    BY <2>2, <2>3
<1>2. Init => TypedInv /\ StreamInv
  BY TypedInit, StreamInit
<1>3. TypedInv /\ StreamInv /\ [Next]_vars => (TypedInv /\ StreamInv)'
  BY TypedStep, StreamStep
<1> QED
  BY <1>1, <1>2, <1>3, PTL DEF Spec

-------------------------------------------------------------------------------
(* The framed server implements the server that takes whole payloads.            *)

(* The server of the abstract specification reads a payload as this one does ... *)
LEMMA SameReading ==
    \A p : Server!parse_message(p) = parse_message(p) /\ Server!NullId = NullId
<1>1. Server!NullId = NullId
  BY DEF Server!NullId, Server!Id, NullId, Id
<1>2. \A value, is_string : Server!Id(value, is_string) = Id(value, is_string)
  BY DEF Server!Id, Id
<1>3. \A p, key : /\ Server!Colons(p, key) = Colons(p, key)
                  /\ Server!ColonAt(p, key) = ColonAt(p, key)
  BY DEF Server!Colons, Colons, Server!ColonAt, ColonAt
<1>4. Server!NotFound = NotFound
  BY DEF Server!NotFound, NotFound
<1>5. \A p, key : Server!extract_property(p, key) = extract_property(p, key)
  BY <1>3, <1>4 DEF Server!extract_property, extract_property
<1>6. Server!Invalid = Invalid
  BY <1>1 DEF Server!Invalid, Invalid
<1>7. \A p : Server!parse_message(p) = parse_message(p)
  BY <1>1, <1>2, <1>5, <1>6 DEF Server!parse_message, parse_message
<1> QED
  BY <1>1, <1>7

(* ... and has the same handlers.                                               *)
LEMMA SameSteps ==
    ASSUME NEW msg, NEW p
    PROVE  /\ HandlePayload(msg, p) => Server!HandlePayload(msg, p)
           /\ EndSession => Server!EndSession
<1>1. \A id, body : send(msg, id, body) => Server!send(msg, id, body)
  BY DEF Server!send, Server!Reply, send, Reply
<1>2. ParseError(msg, p) => Server!ParseError(msg, p)
  BY <1>1, SameReading DEF Server!ParseError, ParseError
<1>3. \A method : Requests(p, method) => Server!Requests(p, method)
  BY SameReading DEF Server!Requests, Requests
<1>4. Initialize(msg, p) => Server!Initialize(msg, p)
  BY <1>1, <1>3, SameReading DEF Server!Initialize, Initialize
<1>5. Shutdown(msg, p) => Server!Shutdown(msg, p)
  BY <1>1, <1>3, SameReading DEF Server!Shutdown, Shutdown
<1>6. MethodNotImplemented(msg, p) => Server!MethodNotImplemented(msg, p)
  BY <1>1, SameReading DEF Server!MethodNotImplemented, MethodNotImplemented
<1>7. Exit(p) => Server!Exit(p)
  BY SameReading DEF Server!Exit, Exit, Server!Notifies, Notifies
<1>8. IgnoreNotification(p) => Server!IgnoreNotification(p)
  BY SameReading DEF Server!IgnoreNotification, IgnoreNotification, Server!Notifies, Notifies,
                     Server!handler_vars, handler_vars
<1>9. EndSession => Server!EndSession
  BY DEF Server!EndSession, EndSession
<1> QED
  BY <1>2, <1>4, <1>5, <1>6, <1>7, <1>8, <1>9 DEF Server!HandlePayload, HandlePayload

(* A session that begins is one of the abstract server's.                       *)
LEMMA ServerInit == Init => Server!Init
<1> SUFFICES ASSUME Init
             PROVE  Server!Init
  OBVIOUS
<1>1. Len(delivered) = 0
  BY DEF Init
<1> QED
  BY <1>1 DEF Init, HandlersInit, Server!Init, Server!HandlersInit, Running, Server!Running

(* What the editor does, the client of the abstract server does, or nothing.     *)
LEMMA ClientSteps ==
    ASSUME TypedInv, WriteUnit \/ Close \/ \E f \in Frames : BeginFrame(f)
    PROVE  Server!Next \/ UNCHANGED Server!server_vars
<1>1. ASSUME NEW f \in Frames, BeginFrame(f)
      PROVE  UNCHANGED Server!server_vars
  BY <1>1 DEF BeginFrame, reader_vars, handler_vars, Server!server_vars, Server!handler_vars
<1>2. CASE Close
  <2>1. Server!ClientClose
    BY <1>2 DEF Close, reader_vars, handler_vars, Server!ClientClose, Server!handler_vars
  <2> QED
    BY <2>1 DEF Server!Next
<1>3. CASE WriteUnit
  <2>1. ~closed /\ UNCHANGED <<handler_vars, closed, delivered>> /\ pending # <<>>
    BY <1>3 DEF WriteUnit, reader_vars
  <2>2. CASE log' = log
    BY <2>1, <2>2 DEF handler_vars, Server!server_vars, Server!handler_vars
  <2>3. CASE log' # log
    <3>1. log' = Append(log, current) /\ Head(pending).kind = "body"
      BY <1>3, <2>3 DEF WriteUnit
    <3>2. HasBody(pending)
      <4>1. pending \in Seq(Units)
        BY DEF TypedInv
      <4>2. 1 \in DOMAIN pending /\ Head(pending) = pending[1]
        BY <2>1, <4>1, EmptySeq, LenProperties
      <4> QED
        BY <3>1, <4>2 DEF HasBody
    <3>3. Len(log) < MaxMessages /\ current \in Texts
      BY <2>1, <3>2 DEF TypedInv
    <3>4. Server!ClientSend(current)
      BY <2>1, <3>1, <3>3 DEF Server!ClientSend, handler_vars, Server!handler_vars
    <3> QED
      BY <3>3, <3>4 DEF Server!Next, Texts
  <2> QED
    BY <2>2, <2>3
<1> QED
  BY <1>1, <1>2, <1>3

(* While all frames are well-formed the reader's steps are the server's: the     *)
(* delivery of a payload is its turn, the end of the stream its end of input,   *)
(* and the others are none of its business.                                     *)
LEMMA ReaderSteps ==
    ASSUME TypedInv, NEW fs, NEW start, NEW r, Cut(fs, start, r), Read
    PROVE  Server!Next \/ UNCHANGED Server!server_vars
<1>1. CASE ReadContentLength \/ ReadOtherHeader \/ ReadBody \/ Abort
  BY <1>1 DEF ReadContentLength, ReadOtherHeader, ReadBody, Abort, client_vars, reader_vars,
              handler_vars, Server!server_vars, Server!handler_vars
<1>2. CASE ReadBadContentLength
  <2>1. InHeaders /\ Begins("badlength")
    BY <1>2 DEF ReadBadContentLength
  <2> QED
    BY <2>1, LineTakenAt
<1>3. CASE EndHeaders
  <2>1. UNCHANGED <<client_vars, delivered>>
    BY <1>3 DEF EndHeaders
  <2> QED
    BY <1>3, <2>1, EndHeadersCut
    DEF client_vars, handler_vars, Server!server_vars, Server!handler_vars
<1>4. CASE HeadersCutShort \/ BodyCutShort
  <2>1. /\ result = Running /\ closed /\ (EndSession \/ UNCHANGED handler_vars)
        /\ UNCHANGED <<client_vars, delivered>>
    BY <1>4 DEF HeadersCutShort, BodyCutShort, reader_vars
  <2>2. CASE EndSession
    <3>1. Len(delivered) = Len(log)
      BY <1>4, CutShortAtEnd
    <3>2. Server!EndOfInput
      BY <2>1, <2>2, <3>1, SameSteps DEF Server!EndOfInput, client_vars, Running, Server!Running
    <3> QED
      BY <3>2 DEF Server!Next
  <2>3. CASE UNCHANGED handler_vars
    BY <2>1, <2>3 DEF client_vars, handler_vars, Server!server_vars, Server!handler_vars
  <2> QED
    BY <2>1, <2>2, <2>3
<1>5. CASE Deliver
  <2>1. /\ result = Running /\ HandlePayload(Len(delivered) + 1, payload)
        /\ delivered' = Append(delivered, payload) /\ UNCHANGED client_vars
    BY <1>5 DEF Deliver
  <2>2. Len(delivered) < Len(log) /\ payload = log[Len(delivered) + 1]
    BY <1>5, DeliverCut
  <2>3. Len(delivered') = Len(delivered) + 1
    <3>1. delivered \in Seq(Seq(AnyMember)) /\ payload \in Seq(AnyMember)
      BY DEF TypedInv
    <3> QED
      BY <2>1, <3>1, AppendProperties
  <2>4. Server!HandlePayload(Len(delivered) + 1, log[Len(delivered) + 1])
    BY <2>1, <2>2, SameSteps
  <2>5. Server!Serve
    BY <2>1, <2>2, <2>3, <2>4 DEF Server!Serve, client_vars, Running, Server!Running
  <2> QED
    BY <2>5 DEF Server!Next
<1> QED
  BY <1>1, <1>2, <1>3, <1>4, <1>5 DEF Read

(* So each step before the first ill-formed frame is a step of the server.       *)
LEMMA ServerSteps ==
    ASSUME TypedInv, StreamInv, [Next]_vars, faulty' = 0
    PROVE  Server!Next \/ UNCHANGED Server!server_vars
<1>1. PICK fs, start, r : Cut(fs, start, r)
  BY FaultyGrows DEF StreamInv
<1>2. CASE WriteUnit \/ Close \/ \E f \in Frames : BeginFrame(f)
  BY <1>2, ClientSteps
<1>3. CASE Read
  BY <1>1, <1>3, ReaderSteps
<1>4. CASE UNCHANGED vars
  BY <1>4 DEF vars, reader_vars, handler_vars, Server!server_vars, Server!handler_vars
<1> QED
  BY <1>2, <1>3, <1>4 DEF Next

(* Whatever the frames' headers and payloads, however the stream is cut into     *)
(* reads and wherever it ends, the framing is invisible as long as the frames    *)
(* are well-formed.                                                             *)
THEOREM FramingIsInvisible == Spec => ImplementsServer
<1>1. Init => TypedInv /\ StreamInv
  BY TypedInit, StreamInit
<1>2. TypedInv /\ StreamInv /\ [Next]_vars => (TypedInv /\ StreamInv)'
  BY TypedStep, StreamStep
<1>3. TypedInv /\ StreamInv /\ [Next]_vars
         => (faulty' = 0 => Server!Next \/ UNCHANGED Server!server_vars)
  BY ServerSteps
<1> QED
  BY <1>1, <1>2, <1>3, ServerInit, PTL DEF Spec, ImplementsServer

-------------------------------------------------------------------------------
(* The whole language server, framing and session together: what is proved of   *)
(* the abstract server holds of the one behind the transport.                   *)

\* The theorems about LspServer, for the payloads of the frames.
Session == INSTANCE LspServerProofs WITH Payloads <- Texts, next <- Len(delivered)

(* What those theorems assume of their constants.                               *)
LEMMA SessionAssumptions ==
    /\ Texts \subseteq Seq(Session!MemberType) /\ MaxMessages \in Nat
    /\ \A p \in Texts : Session!TextsStand(p)
    /\ {"", "null"} \subseteq STRING
<1>1. Session!MemberType = MemberType
  BY DEF Session!MemberType, MemberType, Session!Keys, Keys, Session!Forms, Forms,
         Session!Other, Other
<1>2. Texts \subseteq Seq(MemberType)
  BY FrameTyped DEF Texts
<1>3. \A p \in Texts : Session!TextsStand(p)
  <2>1. \A p : TextsStand(p) => Session!TextsStand(p)
    BY DEF Session!TextsStand, TextsStand, Session!Text, Text, Session!Member, Member,
           Session!Keys, Keys
  <2> QED
    BY <2>1, TextsAreListed DEF TextsAreListed, Texts
<1> QED
  BY <1>1, <1>2, <1>3, MaxMessagesIsNat, OwnTextsAreStrings
  DEF MaxMessagesIsNat, OwnTextsAreStrings

(* The abstract server of those theorems is the one LspTransport implements.    *)
LEMMA SessionReading ==
    /\ Session!NullId = Server!NullId
    /\ \A p : Session!parse_message(p) = Server!parse_message(p)
<1>1. Session!NullId = Server!NullId
  BY DEF Session!NullId, Session!Id, Server!NullId, Server!Id
<1>2. \A value, is_string : Session!Id(value, is_string) = Server!Id(value, is_string)
  BY DEF Session!Id, Server!Id
<1>3. \A p, key : /\ Session!Colons(p, key) = Server!Colons(p, key)
                  /\ Session!ColonAt(p, key) = Server!ColonAt(p, key)
  BY DEF Session!Colons, Server!Colons, Session!ColonAt, Server!ColonAt
<1>4. Session!NotFound = Server!NotFound
  BY DEF Session!NotFound, Server!NotFound
<1>5. \A p, key : Session!extract_property(p, key) = Server!extract_property(p, key)
  BY <1>3, <1>4 DEF Session!extract_property, Server!extract_property
<1>6. Session!Invalid = Server!Invalid
  BY <1>1 DEF Session!Invalid, Server!Invalid
<1> QED
  BY <1>1, <1>2, <1>5, <1>6 DEF Session!parse_message, Server!parse_message

(* The abstract server is the one LspServerProofs speaks of.                    *)
LEMMA SessionSteps ==
    /\ Server!Init => Session!Init
    /\ Server!Next => Session!Next
    /\ UNCHANGED Server!server_vars => UNCHANGED Session!server_vars
<1>1. Session!Running = Server!Running
  BY DEF Session!Running, Server!Running
<1>2. \A msg, id, body : Server!send(msg, id, body) => Session!send(msg, id, body)
  BY DEF Server!send, Server!Reply, Session!send, Session!Reply
<1>3. \A p, method : Server!Requests(p, method) => Session!Requests(p, method)
  BY SessionReading DEF Server!Requests, Session!Requests
<1>4. \A p : Server!Notifies(p) => Session!Notifies(p)
  BY SessionReading DEF Server!Notifies, Session!Notifies
<1>5. ASSUME NEW msg, NEW p, Server!HandlePayload(msg, p)
      PROVE  Session!HandlePayload(msg, p)
  <2>1. Server!ParseError(msg, p) => Session!ParseError(msg, p)
    BY <1>2, SessionReading DEF Server!ParseError, Session!ParseError
  <2>2. Server!Initialize(msg, p) => Session!Initialize(msg, p)
    BY <1>2, <1>3, SessionReading DEF Server!Initialize, Session!Initialize
  <2>3. Server!Shutdown(msg, p) => Session!Shutdown(msg, p)
    BY <1>2, <1>3, SessionReading DEF Server!Shutdown, Session!Shutdown
  <2>4. Server!MethodNotImplemented(msg, p) => Session!MethodNotImplemented(msg, p)
    BY <1>2, SessionReading DEF Server!MethodNotImplemented, Session!MethodNotImplemented
  <2>5. Server!Exit(p) => Session!Exit(p)
    BY <1>4, SessionReading DEF Server!Exit, Session!Exit
  <2>6. Server!IgnoreNotification(p) => Session!IgnoreNotification(p)
    BY <1>4, SessionReading DEF Server!IgnoreNotification, Session!IgnoreNotification,
                                Server!handler_vars, Session!handler_vars
  <2> QED
    BY <1>5, <2>1, <2>2, <2>3, <2>4, <2>5, <2>6
    DEF Server!HandlePayload, Session!HandlePayload
<1>6. Server!EndSession => Session!EndSession
  BY DEF Server!EndSession, Session!EndSession
<1>7. ASSUME NEW p, Server!ClientSend(p)
      PROVE  Session!ClientSend(p)
  BY <1>7 DEF Server!ClientSend, Session!ClientSend, Server!handler_vars, Session!handler_vars
<1>8. Server!ClientClose => Session!ClientClose
  BY DEF Server!ClientClose, Session!ClientClose, Server!handler_vars, Session!handler_vars
<1>9. Server!Serve => Session!Serve
  BY <1>1, <1>5 DEF Server!Serve, Session!Serve
<1>10. Server!EndOfInput => Session!EndOfInput
  BY <1>1, <1>6 DEF Server!EndOfInput, Session!EndOfInput
<1>11. Server!Next => Session!Next
  BY <1>7, <1>8, <1>9, <1>10 DEF Server!Next, Session!Next, Texts
<1>12. Server!Init => Session!Init
  BY <1>1 DEF Server!Init, Session!Init, Server!HandlersInit, Session!HandlersInit
<1>13. UNCHANGED Server!server_vars => UNCHANGED Session!server_vars
  BY DEF Server!server_vars, Session!server_vars, Server!handler_vars, Session!handler_vars
<1> QED
  BY <1>11, <1>12, <1>13

-------------------------------------------------------------------------------

\* In every payload the keys the server looks for stand where JSON-RPC has them.
PlainFrames == \A f \in Frames : IsPlain(f.payload)

(* The session's invariant, about the payloads read_message returned, holds      *)
(* until the first ill-formed frame.                                            *)
LEMMA FramedSession ==
    ASSUME PlainFrames
    PROVE  Spec => [](faulty = 0 => Session!SessionInv)
<1> DEFINE Inv == TypedInv /\ StreamInv /\ (faulty = 0 => Session!SessionInv)
<1>1. Session!PlainPayloads
  BY DEF PlainFrames, Session!PlainPayloads, Texts, IsPlain, Session!IsPlain,
         Keys, Session!Keys
<1>2. Init => Inv
  <2>1. Init => Session!SessionInv
    BY ServerInit, SessionSteps, Session!SessionInit, SessionAssumptions
  <2> QED
    BY <2>1, TypedInit, StreamInit
<1>3. Inv /\ [Next]_vars => Inv'
  <2> SUFFICES ASSUME Inv, [Next]_vars
               PROVE  Inv'
    OBVIOUS
  <2>1. ASSUME faulty' = 0
        PROVE  Session!SessionInv'
    <3>1. Session!SessionInv
      BY <2>1, FaultyGrows
    <3>2. Server!Next \/ UNCHANGED Server!server_vars
      BY <2>1, ServerSteps
    <3>3. [Session!Next]_Session!server_vars
      BY <3>2, SessionSteps
    <3> QED
      BY <1>1, <3>1, <3>3, Session!SessionStep, SessionAssumptions
  <2> QED
    BY <2>1, TypedStep, StreamStep
<1>4. Inv => (faulty = 0 => Session!SessionInv)
  OBVIOUS
<1> QED
  BY <1>2, <1>3, <1>4, PTL DEF Spec

(* However the stream was cut, each message taken has been answered as JSON-RPC  *)
(* asks, in order, once and under its own id, if the frames so far were          *)
(* well-formed.                                                                 *)
THEOREM FramedRepliesCorrect ==
    ASSUME PlainFrames
    PROVE  Spec => [](faulty = 0 => Session!RepliesMatch)
<1>1. Session!SessionInv => Session!RepliesMatch
  BY DEF Session!SessionInv
<1> QED
  BY <1>1, FramedSession, PTL

(* Likewise for the status run() returns.                                       *)
THEOREM FramedExitCodeCorrect ==
    ASSUME PlainFrames
    PROVE  Spec => [](faulty = 0 => Session!ExitCodeContract)
<1>1. Session!SessionInv => Session!ExitCodeContract
  BY DEF Session!SessionInv
<1> QED
  BY <1>1, FramedSession, PTL
===============================================================================
