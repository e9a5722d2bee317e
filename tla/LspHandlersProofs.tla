-------------------------- MODULE LspHandlersProofs ---------------------------
(* What holds of the server's reading of a payload and of its handlers, wherever *)
(* the payload comes from.                                                      *)
EXTENDS LspHandlers, SequenceTheorems, WellFoundedInduction, TLAPS

(* On a plain payload extract_property finds exactly the outermost member with  *)
(* the key, and finds nothing when there is none.                               *)
LEMMA ExtractPlain ==
    ASSUME NEW p \in Seq(MemberType), TextsStand(p), IsPlain(p), NEW key \in Keys
    PROVE  /\ ~Has(p, key) => extract_property(p, key) = NotFound
           /\ Has(p, key) =>
                /\ TopAt(p, key) \in DOMAIN p
                /\ p[TopAt(p, key)].key = key
                /\ p[TopAt(p, key)].form \in {"string", "raw"}
                /\ extract_property(p, key) =
                     [found |-> TRUE,
                      is_string |-> p[TopAt(p, key)].form = "string",
                      value |-> p[TopAt(p, key)].value]
<1>1. DOMAIN p = 1..Len(p) /\ Len(p) \in Nat
  OBVIOUS
<1>2. CASE ~Has(p, key)
  <2>1. \A i \in DOMAIN p : p[i].key # key
    BY <1>1, <1>2 DEF IsPlain, Has
  <2> QED
    BY <1>1, <1>2, <2>1 DEF extract_property, Colons
<1>3. CASE Has(p, key)
  <2> DEFINE t == TopAt(p, key)
  <2>1. t \in DOMAIN p /\ p[t].key = key /\ p[t].depth = 0
    BY <1>3 DEF Has, TopAt
  <2>2. p[t].form \in {"string", "raw"}
    <3>1. p[t] \in MemberType
      BY <1>1, <2>1
    <3>2. p[t].form # "text"
      <4>1. p[t].form = "text" => \E k \in Keys : p[t] = Text(k)
        BY <2>1 DEF TextsStand
      <4>2. \A k \in Keys : Text(k).depth = 1
        BY DEF Text, Member
      <4> QED
        BY <2>1, <4>1, <4>2
    <3>3. p[t].form # "badstring"
      <4>1. t \in {i \in DOMAIN p : p[i].key \in Keys}
        BY <2>1
      <4> QED
        BY <2>1, <4>1 DEF IsPlain
    <3> QED
      BY <3>1, <3>2, <3>3 DEF MemberType, Forms
  <2>3. \A j \in DOMAIN p : p[j].key = key => t <= j
    <3> SUFFICES ASSUME NEW j \in DOMAIN p, p[j].key = key
                 PROVE  t <= j
      OBVIOUS
    <3>1. PICK k \in 1..j : p[k].key = p[j].key /\ p[k].depth = 0
      <4>1. j \in {i \in DOMAIN p : p[i].key \in Keys}
        OBVIOUS
      <4> QED
        BY <4>1 DEF IsPlain
    <3>2. k \in DOMAIN p
      BY <1>1
    <3>3. k = t
      BY <2>1, <3>1, <3>2 DEF IsPlain
    <3> QED
      BY <1>1, <3>3
  <2>4. Colons(p, key) # {} /\ ColonAt(p, key) = t
    <3>1. t \in Colons(p, key)
      BY <1>1, <2>1, <2>2 DEF Colons
    <3>2. \A j \in Colons(p, key) : j \in Nat /\ t <= j
      <4> SUFFICES ASSUME NEW j \in Colons(p, key)
                   PROVE  j \in Nat /\ t <= j
        OBVIOUS
      <4>1. PICK k \in 1..j : p[k].key = key
        BY DEF Colons
      <4>2. j \in Nat /\ k \in DOMAIN p
        BY <1>1 DEF Colons
      <4> QED
        BY <1>1, <2>1, <2>3, <4>1, <4>2
    <3>3. \A i \in Colons(p, key) : (\A j \in Colons(p, key) : i <= j) => i = t
      BY <1>1, <2>1, <3>1, <3>2
    <3> HIDE DEF t
    <3> QED
      BY <3>1, <3>2, <3>3 DEF ColonAt
  <2>5. extract_property(p, key) =
          [found |-> TRUE, is_string |-> p[t].form = "string", value |-> p[t].value]
    BY <2>1, <2>2, <2>4 DEF extract_property
  <2> HIDE DEF t
  <2> QED
    BY <1>3, <2>1, <2>2, <2>5 DEF t
<1> QED
  BY <1>2, <1>3

(* On a plain payload the server's lightweight parser agrees with JSON-RPC.     *)
LEMMA ParsePlain ==
    ASSUME NEW p \in Seq(MemberType), TextsStand(p), IsPlain(p)
    PROVE  LET m == parse_message(p)
           IN  /\ m.valid <=> IsWellFormed(p)
               /\ IsWellFormed(p) => m.method = MethodOf(p)
               /\ IsWellFormed(p) => (m.has_id <=> Has(p, "id"))
               /\ IsRequest(p) => m.id = IdOf(p)
<1> DEFINE J == extract_property(p, "jsonrpc")
           M == extract_property(p, "method")
           I == extract_property(p, "id")
<1>1. (J.is_string /\ J.value = "2.0" /\ M.is_string) <=> IsWellFormed(p)
  <2>1. /\ ~Has(p, "jsonrpc") => J = NotFound
        /\ Has(p, "jsonrpc") =>
              /\ p[TopAt(p, "jsonrpc")].form \in {"string", "raw"}
              /\ J.is_string = (p[TopAt(p, "jsonrpc")].form = "string")
              /\ J.value = p[TopAt(p, "jsonrpc")].value
    BY ExtractPlain DEF Keys
  <2>2. /\ ~Has(p, "method") => M = NotFound
        /\ Has(p, "method") =>
              /\ p[TopAt(p, "method")].form \in {"string", "raw"}
              /\ M.is_string = (p[TopAt(p, "method")].form = "string")
    BY ExtractPlain DEF Keys
  <2>3. ~NotFound.is_string
    BY DEF NotFound
  <2> HIDE DEF J, M
  <2> QED
    BY <2>1, <2>2, <2>3 DEF IsWellFormed
<1>2. Has(p, "method") => M.value = MethodOf(p)
  BY ExtractPlain DEF Keys, MethodOf
<1>3. /\ I.found <=> Has(p, "id")
      /\ Has(p, "id") => Id(I.value, I.is_string) = IdOf(p)
  <2>1. ~Has(p, "id") => I = NotFound
    BY ExtractPlain DEF Keys
  <2>2. Has(p, "id") =>
          /\ p[TopAt(p, "id")].form \in {"string", "raw"}
          /\ I.found = TRUE
          /\ I.is_string = (p[TopAt(p, "id")].form = "string")
          /\ I.value = p[TopAt(p, "id")].value
    BY ExtractPlain DEF Keys
  <2>3. ~NotFound.found
    BY DEF NotFound
  <2> HIDE DEF I
  <2> QED
    BY <2>1, <2>2, <2>3 DEF IdOf, Id
<1>4. parse_message(p) =
        IF J.is_string /\ J.value = "2.0" /\ M.is_string
        THEN [valid |-> TRUE, method |-> M.value, has_id |-> I.found,
              id |-> IF I.found THEN Id(I.value, I.is_string) ELSE NullId]
        ELSE Invalid
  BY DEF parse_message
<1>5. ~Invalid.valid
  BY DEF Invalid
<1> HIDE DEF J, M, I
<1> QED
  BY <1>1, <1>2, <1>3, <1>4, <1>5 DEF IsWellFormed, IsRequest

-------------------------------------------------------------------------------
(* Every set of naturals has a least element, if any.                           *)
LEMMA LeastNat ==
    ASSUME NEW T, T \subseteq Nat, T # {}
    PROVE  \E x \in T : \A y \in T : x <= y
<1> DEFINE R == OpToRel(<, Nat)
<1>1. IsWellFoundedOn(R, Nat)
  BY NatLessThanWellFounded
<1>2. PICK x \in T : \A y \in T : <<y, x>> \notin R
  <2> HIDE DEF R
  <2> QED
    BY <1>1, WFMin
<1>3. \A y \in T : ~(y < x)
  BY <1>2 DEF OpToRel
<1> QED
  BY <1>3

IdType == [value : STRING, is_string : BOOLEAN]

(* The id of a reply to nothing in particular is well typed.                     *)
LEMMA NullIdTyped == NullId \in IdType
BY OwnTextsAreStrings DEF OwnTextsAreStrings, NullId, Id, IdType

(* Whatever the payload, plain or not, what the parser yields is well typed: it  *)
(* needs no more of the payload's members than a text for a value.              *)
LEMMA ParseTyped ==
    ASSUME NEW S, \A member \in S : member.value \in STRING, NEW p \in Seq(S)
    PROVE  /\ parse_message(p).valid \in BOOLEAN
           /\ parse_message(p).has_id \in BOOLEAN
           /\ parse_message(p).id \in IdType
<1> DEFINE I == extract_property(p, "id")
<1>1. NullId \in IdType
  BY NullIdTyped
<1>2. I.found \in BOOLEAN /\ I.is_string \in BOOLEAN /\ I.value \in STRING
  <2> DEFINE colons == Colons(p, "id")
  <2>1. CASE colons = {}
    BY <2>1, OwnTextsAreStrings DEF OwnTextsAreStrings, extract_property, NotFound
  <2>2. CASE colons # {}
    <3>1. colons \subseteq Nat /\ colons \subseteq DOMAIN p
      BY DEF Colons
    <3>2. PICK x \in colons : \A y \in colons : x <= y
      <4> HIDE DEF colons
      <4> QED
        BY <2>2, <3>1, LeastNat
    <3>3. ColonAt(p, "id") \in DOMAIN p
      <4>1. ColonAt(p, "id") \in colons
        BY <3>2 DEF ColonAt
      <4> QED
        BY <3>1, <4>1
    <3>4. p[ColonAt(p, "id")] \in S
      BY <3>3
    <3>5. I = IF p[ColonAt(p, "id")].form = "badstring"
              THEN NotFound
              ELSE [found |-> TRUE,
                    is_string |-> p[ColonAt(p, "id")].form = "string",
                    value |-> p[ColonAt(p, "id")].value]
      BY <2>2 DEF extract_property
    <3>6. CASE p[ColonAt(p, "id")].form = "badstring"
      <4>1. I = NotFound
        BY <3>5, <3>6
      <4> HIDE DEF I
      <4> QED
        BY <4>1, OwnTextsAreStrings DEF OwnTextsAreStrings, NotFound
    <3>7. CASE p[ColonAt(p, "id")].form # "badstring"
      <4>1. p[ColonAt(p, "id")].value \in STRING
        BY <3>4
      <4> HIDE DEF I
      <4> QED
        BY <3>5, <3>7, <4>1
    <3> QED
      BY <3>6, <3>7
  <2> QED
    BY <2>1, <2>2
<1>3. Id(I.value, I.is_string) \in IdType
  BY <1>2 DEF Id, IdType
<1> HIDE DEF I
<1> QED
  BY <1>1, <1>2, <1>3 DEF parse_message, Invalid, I

ReplyType == [msg : Nat, id : IdType, body : Bodies]

(* A reply that is sent is appended to a well-typed output.                      *)
LEMMA SendTyped ==
    ASSUME HandlersTypeOK, NEW msg \in Nat, NEW id \in IdType, NEW body \in Bodies,
           send(msg, id, body)
    PROVE  /\ out' \in Seq(ReplyType)
           /\ Len(out') = Len(out) + 1
           /\ \A k \in 1..Len(out) : out'[k] = out[k]
           /\ out'[Len(out) + 1] = Reply(msg, id, body)
<1>1. Reply(msg, id, body) \in ReplyType
  BY DEF Reply, ReplyType
<1>2. out \in Seq(ReplyType)
  BY DEF HandlersTypeOK, ReplyType, IdType
<1> QED
  BY <1>1, <1>2, AppendProperties DEF send

(* The effect of one message on the types, handler by handler.                   *)
LEMMA HandlersTyped ==
    ASSUME HandlersTypeOK, NEW msg \in Nat,
           NEW S, \A member \in S : member.value \in STRING,
           NEW p \in Seq(S), HandlePayload(msg, p)
    PROVE  HandlersTypeOK'
<1>1. CASE ParseError(msg, p)
  BY <1>1, SendTyped, NullIdTyped DEF ParseError, HandlersTypeOK, Bodies, IdType, ReplyType
<1>2. CASE Initialize(msg, p)
  BY <1>2, SendTyped, ParseTyped DEF Initialize, HandlersTypeOK, Bodies, IdType, ReplyType
<1>3. CASE Shutdown(msg, p)
  BY <1>3, SendTyped, ParseTyped DEF Shutdown, HandlersTypeOK, Bodies, IdType, ReplyType
<1>4. CASE MethodNotImplemented(msg, p)
  BY <1>4, SendTyped, ParseTyped
     DEF MethodNotImplemented, HandlersTypeOK, Bodies, IdType, ReplyType
<1>5. CASE Exit(p)
  BY <1>5 DEF Exit, HandlersTypeOK
<1>6. CASE IgnoreNotification(p)
  BY <1>6 DEF IgnoreNotification, handler_vars, HandlersTypeOK
<1> QED
  BY <1>1, <1>2, <1>3, <1>4, <1>5, <1>6 DEF HandlePayload
===============================================================================
