---------------------------- MODULE AnalyzerProofs ----------------------------
(* What holds of the analyzer for every program: any names, any literals, any   *)
(* number of nodes, any depth.                                                  *)
EXTENDS Lowering, SequenceTheorems, WellFoundedInduction, TLAPS

-------------------------------------------------------------------------------
(* Types and their unification.                                                *)

(* The types the analyzer makes up.                                             *)
LEMMA TypeTyped ==
    /\ \A kind \in PlainKinds : Type(kind) \in Types
    /\ \A node \in Nodes : FunctionType(node) \in Types
    /\ Unknown \in Types /\ ~IsKnown(Unknown)
    /\ Type("Void") \in Types
BY DEF Types, Unknown, PlainKinds, IsKnown, Type

(* Unification gives types, and a mismatch is a diagnostic.                     *)
LEMMA UnifyTyped ==
    ASSUME NEW l \in Types, NEW r \in Types
    PROVE  /\ unify_types(l, r) \in Types
           /\ pick_known(l, r) \in Types
           /\ Known(l) \subseteq Types
           /\ Mismatch(l, r) \subseteq DiagCodes
BY TypeTyped DEF unify_types, pick_known, Known, Mismatch, DiagCodes

(* Two known types conflict unless they are the same.                          *)
LEMMA KnownTypesConflict ==
    ASSUME NEW l \in Types, NEW r \in Types, IsKnown(l), IsKnown(r), ~Conflict(l, r)
    PROVE  l = r
<1>1. CASE l \in {Type(kind) : kind \in PlainKinds}
  BY <1>1 DEF Conflict, Types, Type, FunctionType, PlainKinds
<1>2. CASE l \in {FunctionType(node) : node \in Nodes}
  BY <1>2 DEF Conflict, Types, Type, FunctionType, PlainKinds
<1> QED
  BY <1>1, <1>2 DEF Types

(* Unification keeps a type that was consistent with every type written before  *)
(* consistent with the new one too, unless it reports a mismatch.               *)
LEMMA UnifyKeepsAgreement ==
    ASSUME NEW l \in Types, NEW r \in Types, NEW S,
           \A t \in S : IsKnown(t), S \subseteq {l}, Mismatch(l, r) = {}
    PROVE  /\ S \cup Known(r) \subseteq {unify_types(l, r)}
           /\ \A t \in S \cup Known(r) : IsKnown(t)
<1>1. ~Conflict(l, r)
  BY DEF Mismatch
<1>2. CASE ~IsKnown(l)
  BY <1>2 DEF unify_types, Known
<1>3. CASE IsKnown(l) /\ ~IsKnown(r)
  BY <1>1, <1>3 DEF unify_types, Known
<1>4. CASE IsKnown(l) /\ IsKnown(r)
  BY <1>1, <1>4, KnownTypesConflict DEF unify_types, Known
<1> QED
  BY <1>2, <1>3, <1>4

-------------------------------------------------------------------------------
(* The symbol table and the registry.                                           *)

(* A non-empty set of levels of a scope stack has an innermost one.             *)
LEMMA InnermostLevel ==
    ASSUME NEW n \in Nat, NEW L, L \subseteq 1..n, L # {}
    PROVE  \E level \in L : \A other \in L : other <= level
<1> DEFINE R == OpToRel(<, Nat)
           T == {n - level : level \in L}
<1>1. IsWellFoundedOn(R, Nat)
  BY NatLessThanWellFounded
<1>2. T \subseteq Nat /\ T # {}
  <2>1. \A level \in L : level \in Nat /\ level <= n
    OBVIOUS
  <2>2. \A level \in L : n - level \in Nat
    BY <2>1
  <2>3. T # {}
    <3>1. PICK level \in L : TRUE
      OBVIOUS
    <3>2. n - level \in T
      OBVIOUS
    <3> QED
      BY <3>2
  <2> QED
    BY <2>2, <2>3
<1>3. PICK x \in T : \A y \in T : <<y, x>> \notin R
  <2> HIDE DEF R, T
  <2> QED
    BY <1>1, <1>2, WFMin
<1>4. \A y \in T : ~(y < x)
  BY <1>2, <1>3 DEF OpToRel
<1>5. PICK level \in L : x = n - level
  OBVIOUS
<1>6. \A other \in L : other <= level
  <2> SUFFICES ASSUME NEW other \in L
               PROVE  other <= level
    OBVIOUS
  <2>1. ~(n - other < n - level)
    BY <1>4, <1>5
  <2>2. other \in Int /\ level \in Int
    OBVIOUS
  <2> HIDE DEF T
  <2> QED
    BY <2>1, <2>2
<1> QED
  BY <1>6

(* lookup finds a node that some scope declares under the name, or none.        *)
LEMMA LookupFinds ==
    ASSUME NEW stack \in Seq(Scope), NEW name \in Names
    PROVE  /\ lookup(stack, name) \in Nodes \cup {NoNode}
           /\ lookup(stack, name) # NoNode =>
                \E level \in DOMAIN stack : stack[level][name] = lookup(stack, name)
<1> DEFINE L == Levels(stack, name)
           innermost == CHOOSE level \in L : \A other \in L : other <= level
<1>1. CASE L = {}
  BY <1>1 DEF lookup
<1>2. CASE L # {}
  <2>1. L \subseteq 1..Len(stack) /\ Len(stack) \in Nat
    BY DEF Levels
  <2>2. \E level \in L : \A other \in L : other <= level
    <3> HIDE DEF L
    <3> QED
      BY <1>2, <2>1, InnermostLevel
  <2>3. innermost \in L
    BY <2>2
  <2>4. innermost \in DOMAIN stack /\ stack[innermost] \in Scope
    BY <2>3 DEF Levels
  <2>5. lookup(stack, name) = stack[innermost][name]
    BY <1>2 DEF lookup
  <2> HIDE DEF innermost
  <2> QED
    BY <2>4, <2>5 DEF Scope
<1> QED
  BY <1>1, <1>2

(* A sequence without its last n elements.                                      *)
LEMMA ShortenedTyped ==
    ASSUME NEW S, NEW s \in Seq(S), NEW n \in 0..Len(s)
    PROVE  /\ SubSeq(s, 1, Len(s) - n) \in Seq(S)
           /\ Len(SubSeq(s, 1, Len(s) - n)) = Len(s) - n
           /\ \A i \in 1..(Len(s) - n) : SubSeq(s, 1, Len(s) - n)[i] = s[i]
<1>1. Len(s) \in Nat /\ 1 \in Int /\ Len(s) - n \in Int /\ \A i \in 1..(Len(s) - n) : s[i] \in S
  BY LenProperties, ElementOfSeq
<1>2. /\ SubSeq(s, 1, Len(s) - n) \in Seq(S)
      /\ Len(SubSeq(s, 1, Len(s) - n)) =
            IF 1 <= Len(s) - n THEN (Len(s) - n) - 1 + 1 ELSE 0
      /\ \A i \in 1..((Len(s) - n) - 1 + 1) : SubSeq(s, 1, Len(s) - n)[i] = s[1 + i - 1]
  BY <1>1, SubSeqProperties
<1> QED
  BY <1>1, <1>2

(* A sequence without its last element.                                         *)
LEMMA WithoutLast ==
    ASSUME NEW S, NEW s \in Seq(S), Len(s) >= 1
    PROVE  /\ SubSeq(s, 1, Len(s) - 1) \in Seq(S)
           /\ Len(SubSeq(s, 1, Len(s) - 1)) = Len(s) - 1
           /\ \A i \in 1..(Len(s) - 1) : SubSeq(s, 1, Len(s) - 1)[i] = s[i]
<1>1. Len(s) \in Nat
  BY LenProperties
<1>2. PICK n : n = 1
  OBVIOUS
<1>3. n \in 0..Len(s)
  BY <1>1, <1>2
<1>4. /\ SubSeq(s, 1, Len(s) - n) \in Seq(S)
      /\ Len(SubSeq(s, 1, Len(s) - n)) = Len(s) - n
      /\ \A i \in 1..(Len(s) - n) : SubSeq(s, 1, Len(s) - n)[i] = s[i]
  BY <1>3, ShortenedTyped
<1> QED
  BY <1>2, <1>4

(* Opening and closing scopes, declaring in the innermost one.                  *)
LEMMA ScopesTyped ==
    ASSUME NEW stack \in Seq(Scope), Len(stack) >= 1
    PROVE  /\ EmptyScope \in Scope
           /\ \A scope \in Scope :
                 /\ push_scope(stack, scope) \in Seq(Scope)
                 /\ Len(push_scope(stack, scope)) = Len(stack) + 1
                 /\ \A i \in 1..Len(stack) : push_scope(stack, scope)[i] = stack[i]
                 /\ push_scope(stack, scope)[Len(stack) + 1] = scope
           /\ \A name \in Names, node \in Nodes :
                 /\ insert(stack, name, node) \in Seq(Scope)
                 /\ Len(insert(stack, name, node)) = Len(stack)
                 /\ \A i \in 1..Len(stack), other \in Names :
                       \/ insert(stack, name, node)[i][other] = stack[i][other]
                       \/ insert(stack, name, node)[i][other] = node
           /\ Len(stack) > 1 =>
                 /\ pop_scope(stack) \in Seq(Scope)
                 /\ Len(pop_scope(stack)) = Len(stack) - 1
                 /\ \A i \in 1..(Len(stack) - 1) : pop_scope(stack)[i] = stack[i]
<1>1. EmptyScope \in Scope
  BY DEF EmptyScope, Scope
<1>2. Len(stack) \in Nat /\ Len(stack) \in 1..Len(stack)
  BY LenProperties
<1>3. ASSUME NEW scope \in Scope
      PROVE  /\ push_scope(stack, scope) \in Seq(Scope)
             /\ Len(push_scope(stack, scope)) = Len(stack) + 1
             /\ \A i \in 1..Len(stack) : push_scope(stack, scope)[i] = stack[i]
             /\ push_scope(stack, scope)[Len(stack) + 1] = scope
  BY AppendProperties DEF push_scope
<1>4. ASSUME NEW name \in Names, NEW node \in Nodes
      PROVE  /\ insert(stack, name, node) \in Seq(Scope)
             /\ Len(insert(stack, name, node)) = Len(stack)
             /\ \A i \in 1..Len(stack), other \in Names :
                   \/ insert(stack, name, node)[i][other] = stack[i][other]
                   \/ insert(stack, name, node)[i][other] = node
  <2> DEFINE scope == [stack[Len(stack)] EXCEPT ![name] = node]
  <2>1. stack[Len(stack)] \in Scope
    BY <1>2, ElementOfSeq
  <2>2. scope \in Scope /\ \A other \in Names :
           scope[other] = stack[Len(stack)][other] \/ scope[other] = node
    BY <2>1 DEF Scope
  <2>3. CASE Declares(stack[Len(stack)], name)
    BY <2>3 DEF insert
  <2>4. CASE ~Declares(stack[Len(stack)], name)
    <3>1. insert(stack, name, node) = [stack EXCEPT ![Len(stack)] = scope]
      BY <2>4 DEF insert
    <3> HIDE DEF scope
    <3> QED
      BY <1>2, <2>2, <3>1, ExceptSeq
  <2> QED
    BY <2>3, <2>4
<1>5. ASSUME Len(stack) > 1
      PROVE  /\ pop_scope(stack) \in Seq(Scope)
             /\ Len(pop_scope(stack)) = Len(stack) - 1
             /\ \A i \in 1..(Len(stack) - 1) : pop_scope(stack)[i] = stack[i]
  <2>1. Len(stack) >= 1
    BY <1>2
  <2> QED
    BY <1>5, <2>1, WithoutLast DEF pop_scope
<1> QED
  BY <1>1, <1>3, <1>4, <1>5

(* The entry of a name in a typed registry.                                     *)
LEMMA EntryTyped ==
    ASSUME NEW table \in [Names -> Signatures], NEW f \in Names
    PROVE  /\ table[f].node_id \in Nodes \cup {NoNode}
           /\ table[f].return_type \in Types
           /\ table[f].parameters \in Seq(Parameters)
           /\ Len(table[f].parameters) \in Nat
           /\ DOMAIN table[f].parameters = 1..Len(table[f].parameters)
           /\ \A i \in DOMAIN table[f].parameters :
                 /\ table[f].parameters[i] \in Parameters
                 /\ table[f].parameters[i].name \in Names
                 /\ table[f].parameters[i].node_id \in Nodes
                 /\ table[f].parameters[i].type \in Types
<1>1. table[f] \in Signatures
  OBVIOUS
<1>2. table[f].parameters \in Seq(Parameters)
  BY <1>1 DEF Signatures
<1>3. /\ Len(table[f].parameters) \in Nat
      /\ DOMAIN table[f].parameters = 1..Len(table[f].parameters)
      /\ \A i \in DOMAIN table[f].parameters : table[f].parameters[i] \in Parameters
  BY <1>2, LenProperties, ElementOfSeq
<1> QED
  BY <1>1, <1>2, <1>3 DEF Signatures, Parameters

-------------------------------------------------------------------------------
(* The inductive invariant of the walk's structure.                             *)

\* A function is active for every frame of a function, in the same order.
Walks(active, open) ==
    \E at \in [DOMAIN active -> DOMAIN open] :
        /\ \A i, j \in DOMAIN active : i < j => at[i] < at[j]
        /\ \A level \in DOMAIN open :
              open[level] # Block => \E i \in DOMAIN active : at[i] = level
        /\ \A i \in DOMAIN active : open[at[i]] = active[i].signature

\* The scopes and the active functions are those of the frames entered, and each
\* active function has an entry to write its return type to.
Nested ==
    /\ Len(scopes) = Len(frames) + 1
    /\ Walks(function_stack, frames)
    /\ \A i \in DOMAIN function_stack : IsRegistered(registry, function_stack[i].signature)

\* Whatever is declared was met in the walk: the next node is new everywhere.
Met ==
    /\ \A level \in DOMAIN scopes, name \in Names : scopes[level][name] < next_node
    /\ \A f \in Names : \A i \in DOMAIN registry[f].parameters :
          registry[f].parameters[i].node_id < next_node
    /\ binding < next_node
    /\ \A node \in Nodes : node >= next_node => seen[node] = {}

\* A node belongs to one parameter of one function, or to a variable: what is
\* written to one signature is not another's.
Owned ==
    /\ \A f, g \in Names :
          \A i \in DOMAIN registry[f].parameters, j \in DOMAIN registry[g].parameters :
             registry[f].parameters[i].node_id = registry[g].parameters[j].node_id
                => f = g /\ i = j
    /\ \A f \in Names : \A i \in DOMAIN registry[f].parameters :
          registry[f].parameters[i].node_id # binding

\* The history records known types only, and none of a function without entry.
Recorded ==
    /\ \A node \in Nodes : \A t \in seen[node] : IsKnown(t)
    /\ \A name \in Names : \A t \in yielded[name] : IsKnown(t)
    /\ \A name \in Names : ~IsRegistered(registry, name) => yielded[name] = {}

StructInv ==
    TypeOK /\ Nested /\ Met /\ Owned /\ Recorded /\ ParametersAreScoped /\ SignaturesInStep

-------------------------------------------------------------------------------
(* Steps that only compute operands.                                            *)

(* What computing a type does to the operands.                                  *)
LEMMA ComputeTyped ==
    ASSUME operands \in Seq(Operands), NEW n \in 0..Len(operands),
           NEW type \in Types, NEW name \in Names \cup {NoName}, Compute(n, type, name)
    PROVE  /\ operands' \in Seq(Operands)
           /\ \A i \in DOMAIN operands' :
                 \/ operands'[i].type = type
                 \/ \E j \in DOMAIN operands : operands'[i] = operands[j]
<1> DEFINE rest == Below(n)
<1>1. /\ rest \in Seq(Operands) /\ Len(rest) = Len(operands) - n
      /\ \A i \in 1..(Len(operands) - n) : rest[i] = operands[i]
  BY ShortenedTyped DEF Below
<1>2. Operand(type, name) \in Operands
  BY DEF Operand, Operands
<1>3. Len(operands) \in Nat /\ DOMAIN operands = 1..Len(operands)
  BY LenProperties
<1>4. operands' = Append(rest, Operand(type, name))
  BY DEF Compute
<1>5. /\ operands' \in Seq(Operands)
      /\ Len(operands') = Len(rest) + 1
      /\ \A i \in 1..Len(rest) : operands'[i] = rest[i]
      /\ operands'[Len(rest) + 1] = Operand(type, name)
  <2> HIDE DEF rest
  <2> QED
    BY <1>1, <1>2, <1>4, AppendProperties
<1>6. DOMAIN operands' = 1..Len(operands')
  BY <1>5, LenProperties
<1>7. ASSUME NEW i \in DOMAIN operands'
      PROVE  operands'[i].type = type \/ \E j \in DOMAIN operands : operands'[i] = operands[j]
  <2> HIDE DEF rest
  <2>1. CASE i = Len(rest) + 1
    BY <1>5, <2>1 DEF Operand
  <2>2. CASE i # Len(rest) + 1
    <3>1. i \in 1..Len(rest) /\ i \in DOMAIN operands
      BY <1>1, <1>3, <1>5, <1>6, <2>2
    <3> QED
      BY <1>1, <1>5, <3>1
  <2> QED
    BY <2>1, <2>2
<1> QED
  BY <1>5, <1>7

(* What is reported are diagnostics.                                            *)
LEMMA ReportTyped ==
    ASSUME reported \in SUBSET DiagCodes, NEW codes, report(codes)
    PROVE  reported' \in SUBSET DiagCodes
BY WatchedCodesAreCodes DEF report

(* A step that neither declares, nor writes a type, nor enters or leaves a frame. *)
LEMMA QuietStep ==
    ASSUME StructInv,
           UNCHANGED <<scopes, registry, types, function_stack, frames, binding, next_node,
                       history>>,
           operands' \in Seq(Operands), reported' \in SUBSET DiagCodes
    PROVE  StructInv'
<1>1. TypeOK'
  BY DEF StructInv, TypeOK, history
<1>2. Nested'
  BY DEF StructInv, Nested, IsRegistered
<1>3. Met' /\ Recorded'
  BY DEF StructInv, Met, Recorded, IsRegistered, history
<1>4. Owned'
  BY DEF StructInv, Owned
<1>5. ParametersAreScoped' /\ SignaturesInStep'
  BY DEF StructInv, ParametersAreScoped, SignaturesInStep, IsActive
<1> QED
  BY <1>1, <1>2, <1>3, <1>4, <1>5 DEF StructInv

(* The operands an action reads are typed.                                      *)
LEMMA OperandsTyped ==
    ASSUME operands \in Seq(Operands)
    PROVE  /\ Len(operands) \in Nat /\ DOMAIN operands = 1..Len(operands)
           /\ \A i \in 1..Len(operands) :
                 /\ operands[i].type \in Types
                 /\ operands[i].name \in Names \cup {NoName}
<1>1. Len(operands) \in Nat /\ DOMAIN operands = 1..Len(operands)
  BY LenProperties
<1>2. ASSUME NEW i \in 1..Len(operands)
      PROVE  operands[i].type \in Types /\ operands[i].name \in Names \cup {NoName}
  <2>1. operands[i] \in Operands
    BY ElementOfSeq
  <2> QED
    BY <2>1 DEF Operands
<1> QED
  BY <1>1, <1>2

(* analyze_literal keeps the structure.                                         *)
LEMMA LiteralStruct ==
    ASSUME StructInv, NEW kind \in LiteralKinds, analyze_literal(kind)
    PROVE  StructInv'
<1>1. operands \in Seq(Operands) /\ reported \in SUBSET DiagCodes
  BY DEF StructInv, TypeOK
<1>2. Type(kind) \in Types
  BY TypeTyped, LiteralKindsArePlain
<1>3. operands' \in Seq(Operands)
  <2>1. Compute(0, Type(kind), NoName) /\ 0 \in 0..Len(operands)
    BY <1>1, OperandsTyped DEF analyze_literal
  <2> QED
    BY <1>1, <1>2, <2>1, ComputeTyped
<1> QED
  BY <1>1, <1>3, QuietStep DEF analyze_literal, history

(* A name that lookup finds is declared by a node met before, and it is a        *)
(* parameter only of a function whose body is being walked.                     *)
LEMMA FoundDeclaration ==
    ASSUME StructInv, NEW name \in Names, lookup(scopes, name) # NoNode
    PROVE  /\ lookup(scopes, name) \in Nodes
           /\ lookup(scopes, name) < next_node
           /\ \A f \in Names : \A i \in DOMAIN registry[f].parameters :
                 registry[f].parameters[i].node_id = lookup(scopes, name) => IsActive(f)
<1>1. scopes \in Seq(Scope)
  BY DEF StructInv, TypeOK
<1>2. PICK level \in DOMAIN scopes : scopes[level][name] = lookup(scopes, name)
  BY <1>1, LookupFinds
<1>3. lookup(scopes, name) \in Nodes
  BY <1>1, LookupFinds
<1>4. lookup(scopes, name) < next_node
  BY <1>2 DEF StructInv, Met
<1>5. ASSUME NEW f \in Names, NEW i \in DOMAIN registry[f].parameters,
             registry[f].parameters[i].node_id = lookup(scopes, name)
      PROVE  IsActive(f)
  BY <1>2, <1>5 DEF StructInv, ParametersAreScoped, IsActive
<1> QED
  BY <1>3, <1>4, <1>5

(* analyze_identifier keeps the structure.                                      *)
LEMMA IdentifierStruct ==
    ASSUME StructInv, NEW name \in Names, analyze_identifier(name)
    PROVE  StructInv'
<1> DEFINE node == lookup(scopes, name)
           type == IF node = NoNode THEN Unknown ELSE types[node]
<1>1. /\ operands \in Seq(Operands) /\ reported \in SUBSET DiagCodes
      /\ types \in [Nodes -> Types]
  BY DEF StructInv, TypeOK
<1>2. type \in Types
  BY <1>1, TypeTyped, FoundDeclaration
<1>3. Compute(0, type, name) /\ 0 \in 0..Len(operands)
  BY <1>1, OperandsTyped DEF analyze_identifier
<1>4. operands' \in Seq(Operands)
  <2> HIDE DEF type
  <2> QED
    BY <1>1, <1>2, <1>3, ComputeTyped
<1>5. reported' \in SUBSET DiagCodes
  BY <1>1, ReportTyped DEF analyze_identifier
<1> QED
  BY <1>4, <1>5, QuietStep DEF analyze_identifier, history

(* analyze_binary keeps the structure.                                          *)
LEMMA BinaryStruct ==
    ASSUME StructInv, analyze_binary
    PROVE  StructInv'
<1>1. operands \in Seq(Operands) /\ reported \in SUBSET DiagCodes
  BY DEF StructInv, TypeOK
<1>2. /\ Len(operands) \in Nat /\ Len(operands) >= 2
      /\ operands[Len(operands) - 1].type \in Types /\ Top.type \in Types
  <2>1. Len(operands) \in Nat /\ Len(operands) >= 2
    BY <1>1, OperandsTyped DEF analyze_binary
  <2>2. Len(operands) - 1 \in 1..Len(operands) /\ Len(operands) \in 1..Len(operands)
    BY <2>1
  <2> QED
    BY <1>1, <2>1, <2>2, OperandsTyped DEF Top
<1>3. operands' \in Seq(Operands)
  <2> DEFINE type == unify_types(operands[Len(operands) - 1].type, Top.type)
  <2>1. Compute(2, type, NoName) /\ 2 \in 0..Len(operands)
    BY <1>2 DEF analyze_binary
  <2>2. type \in Types
    BY <1>2, UnifyTyped
  <2> HIDE DEF type
  <2> QED
    BY <1>1, <2>1, <2>2, ComputeTyped
<1>4. reported' \in SUBSET DiagCodes
  BY <1>1, ReportTyped DEF analyze_binary
<1> QED
  BY <1>3, <1>4, QuietStep DEF analyze_binary, history

(* analyze_unary_or_group keeps the structure.                                  *)
LEMMA UnaryOrGroupStruct ==
    ASSUME StructInv, analyze_unary_or_group
    PROVE  StructInv'
<1>1. operands \in Seq(Operands) /\ reported \in SUBSET DiagCodes
  BY DEF StructInv, TypeOK
<1>2. Len(operands) \in Nat /\ 1 \in 0..Len(operands) /\ Top.type \in Types
  <2>1. Len(operands) \in 1..Len(operands) /\ Len(operands) \in Nat
    BY <1>1, EmptySeq, OperandsTyped DEF analyze_unary_or_group
  <2> QED
    BY <1>1, <2>1, OperandsTyped DEF Top
<1>3. operands' \in Seq(Operands)
  <2>1. Compute(1, Top.type, NoName)
    BY DEF analyze_unary_or_group
  <2> QED
    BY <1>1, <1>2, <2>1, ComputeTyped
<1> QED
  BY <1>1, <1>3, QuietStep DEF analyze_unary_or_group, history

(* analyze_expression_statement keeps the structure.                            *)
LEMMA ExpressionStatementStruct ==
    ASSUME StructInv, analyze_expression_statement
    PROVE  StructInv'
<1>1. operands' \in Seq(Operands) /\ reported' \in SUBSET DiagCodes
  BY EmptySeq DEF analyze_expression_statement, StructInv, TypeOK
<1> QED
  BY <1>1, QuietStep DEF analyze_expression_statement, history

-------------------------------------------------------------------------------
(* Steps that write types but declare nothing.                                  *)

\* Every entry still has its function's node and its parameters' nodes.
SameOwners ==
    \A f \in Names :
        /\ registry'[f].node_id = registry[f].node_id
        /\ DOMAIN registry'[f].parameters = DOMAIN registry[f].parameters
        /\ \A i \in DOMAIN registry[f].parameters :
              registry'[f].parameters[i].node_id = registry[f].parameters[i].node_id

\* The same functions are active.
SameActive ==
    /\ function_stack' \in Seq(ActiveFunctions)
    /\ DOMAIN function_stack' = DOMAIN function_stack
    /\ \A i \in DOMAIN function_stack :
          function_stack'[i].signature = function_stack[i].signature

\* The histories stay typed, and grow only where something is declared.
HistoryKept ==
    /\ seen' \in [Nodes -> SUBSET Types]
    /\ yielded' \in [Names -> SUBSET Types]
    /\ \A node \in Nodes : node >= next_node => seen'[node] = {}
    /\ \A node \in Nodes : \A t \in seen'[node] : IsKnown(t)
    /\ \A name \in Names : \A t \in yielded'[name] : IsKnown(t)
    /\ \A name \in Names : ~IsRegistered(registry, name) => yielded'[name] = {}

(* A known history stays known when a known type is added to it.                *)
LEMMA KnownAdded ==
    ASSUME NEW S \in SUBSET Types, \A t \in S : IsKnown(t), NEW type \in Types
    PROVE  /\ S \cup Known(type) \in SUBSET Types
           /\ \A t \in S \cup Known(type) : IsKnown(t)
           /\ Known(type) \in SUBSET Types
           /\ \A t \in Known(type) : IsKnown(t)
BY DEF Known

(* The same functions are active for the same frames.                           *)
LEMMA WalksKept ==
    ASSUME Walks(function_stack, frames), SameActive
    PROVE  Walks(function_stack', frames)
BY DEF Walks, SameActive

(* A step that writes types, for owners and functions there were, keeps the     *)
(* structure.                                                                   *)
LEMMA WriteStep ==
    ASSUME StructInv, UNCHANGED <<scopes, frames, next_node>>, SameOwners, SameActive,
           HistoryKept, registry' \in [Names -> Signatures], types' \in [Nodes -> Types],
           binding' = binding \/ binding' = NoNode,
           operands' \in Seq(Operands), reported' \in SUBSET DiagCodes,
           SignaturesInStep'
    PROVE  StructInv'
<1>1. TypeOK'
  BY DEF StructInv, TypeOK, HistoryKept, SameActive
<1>2. Nested'
  <2>1. Walks(function_stack', frames')
    BY WalksKept DEF StructInv, Nested
  <2>2. function_stack \in Seq(ActiveFunctions) /\ registry \in [Names -> Signatures]
    BY DEF StructInv, TypeOK
  <2>3. ASSUME NEW i \in DOMAIN function_stack'
        PROVE  IsRegistered(registry', function_stack'[i].signature)
    <3>1. i \in DOMAIN function_stack /\ i \in 1..Len(function_stack)
      BY <2>2, LenProperties DEF SameActive
    <3>2. function_stack[i] \in ActiveFunctions
      BY <2>2, <3>1, ElementOfSeq
    <3>3. function_stack[i].signature \in Names
      BY <3>2 DEF ActiveFunctions
    <3>4. IsRegistered(registry, function_stack[i].signature)
      BY <3>1 DEF StructInv, Nested
    <3> QED
      BY <3>1, <3>3, <3>4 DEF SameActive, SameOwners, IsRegistered
  <2> QED
    BY <2>1, <2>3 DEF StructInv, Nested
<1>3. Met'
  <2>1. binding' < next_node'
    BY DEF StructInv, Met, TypeOK, NoNode
  <2> QED
    BY <2>1 DEF StructInv, Met, SameOwners, HistoryKept
<1>4. Owned'
  <2>1. \A f \in Names : \A i \in DOMAIN registry[f].parameters :
           registry[f].parameters[i].node_id # NoNode
    <3>1. registry \in [Names -> Signatures]
      BY DEF StructInv, TypeOK
    <3>2. \A f \in Names : \A i \in DOMAIN registry[f].parameters :
             registry[f].parameters[i].node_id \in Nodes
      BY <3>1, EntryTyped
    <3>3. NoNode \notin Nodes
      BY DEF Nodes, NoNode
    <3> QED
      BY <3>2, <3>3
  <2>2. Owned
    BY DEF StructInv
  <2> QED
    BY <2>1, <2>2 DEF Owned, SameOwners
<1>5. Recorded'
  BY DEF SameOwners, HistoryKept, Recorded, IsRegistered
<1>6. ParametersAreScoped'
  BY DEF StructInv, ParametersAreScoped, SameOwners
<1> QED
  BY <1>1, <1>2, <1>3, <1>4, <1>5, <1>6 DEF StructInv

(* analyze_assignment keeps the structure.                                      *)
LEMMA AssignmentStruct ==
    ASSUME StructInv, analyze_assignment
    PROVE  StructInv'
<1> DEFINE left  == operands[Len(operands) - 1]
           right == Top.type
           decl  == IF left.name = NoName THEN NoNode ELSE lookup(scopes, left.name)
           unified == unify_types(types[decl], right)
<1>1. /\ operands \in Seq(Operands) /\ reported \in SUBSET DiagCodes
      /\ types \in [Nodes -> Types] /\ registry \in [Names -> Signatures]
      /\ seen \in [Nodes -> SUBSET Types]
  BY DEF StructInv, TypeOK
<1>2. /\ Len(operands) \in Nat /\ Len(operands) >= 2
      /\ left.type \in Types /\ right \in Types /\ left.name \in Names \cup {NoName}
  <2>1. Len(operands) \in Nat /\ Len(operands) >= 2
    BY <1>1, OperandsTyped DEF analyze_assignment
  <2>2. Len(operands) - 1 \in 1..Len(operands) /\ Len(operands) \in 1..Len(operands)
    BY <2>1
  <2> QED
    BY <1>1, <2>1, <2>2, OperandsTyped DEF Top
<1>3. 2 \in 0..Len(operands)
  BY <1>2
<1>4. reported' \in SUBSET DiagCodes
  BY <1>1, ReportTyped DEF analyze_assignment
<1>5. CASE decl = NoNode
  <2>1. /\ Compute(2, pick_known(right, left.type), NoName)
        /\ UNCHANGED <<scopes, registry, types, function_stack, frames, binding, next_node,
                       history>>
    BY <1>5 DEF analyze_assignment, history
  <2>2. pick_known(right, left.type) \in Types
    BY <1>2, UnifyTyped
  <2>3. operands' \in Seq(Operands)
    BY <1>1, <1>3, <2>1, <2>2, ComputeTyped
  <2> QED
    BY <1>4, <2>1, <2>3, QuietStep
<1>6. CASE decl # NoNode
  <2>1. /\ types' = [types EXCEPT ![decl] = unified]
        /\ seen' = [seen EXCEPT ![decl] = @ \cup Known(right)]
        /\ Compute(2, pick_known(right, unified), NoName)
        /\ UNCHANGED <<scopes, registry, function_stack, frames, binding, next_node, yielded>>
    BY <1>6 DEF analyze_assignment
  <2>2. /\ decl \in Nodes /\ decl < next_node
        /\ \A f \in Names : \A i \in DOMAIN registry[f].parameters :
              registry[f].parameters[i].node_id = decl => IsActive(f)
    BY <1>2, <1>6, FoundDeclaration
  <2> HIDE DEF left, right, decl
  <2>3. unified \in Types /\ pick_known(right, unified) \in Types
    BY <1>1, <1>2, <2>2, UnifyTyped
  <2> HIDE DEF unified
  <2>4. operands' \in Seq(Operands) /\ types' \in [Nodes -> Types]
    BY <1>1, <1>3, <2>1, <2>3, ComputeTyped
  <2>5. HistoryKept
    <3>1. /\ seen[decl] \cup Known(right) \in SUBSET Types
          /\ \A t \in seen[decl] \cup Known(right) : IsKnown(t)
      BY <1>1, <1>2, <2>2, KnownAdded DEF StructInv, Recorded
    <3>2. \A node \in Nodes : seen'[node] =
             IF node = decl THEN seen[decl] \cup Known(right) ELSE seen[node]
      BY <1>1, <2>1
    <3>3. next_node \in Int /\ decl \in Int
      BY <2>2, MaxNodesIsNat DEF Nodes, StructInv, TypeOK
    <3>4. seen' \in [Nodes -> SUBSET Types]
      BY <1>1, <2>1, <2>2, <3>1
    <3>5. ASSUME NEW node \in Nodes, node >= next_node
          PROVE  seen'[node] = {}
      <4>1. node \in Int
        BY MaxNodesIsNat DEF Nodes
      <4>2. node # decl
        BY <2>2, <3>3, <3>5, <4>1
      <4> QED
        BY <3>2, <3>5, <4>2 DEF StructInv, Met
    <3>6. \A node \in Nodes : \A t \in seen'[node] : IsKnown(t)
      BY <3>1, <3>2 DEF StructInv, Recorded
    <3> QED
      BY <2>1, <3>4, <3>5, <3>6 DEF HistoryKept, StructInv, Recorded, TypeOK
  <2>6. SignaturesInStep'
    <3>1. ASSUME NEW f \in Names, ~IsActive(f), NEW i \in DOMAIN registry[f].parameters
          PROVE  registry[f].parameters[i].type = types'[registry[f].parameters[i].node_id]
      <4>1. registry[f].parameters[i].node_id # decl
        BY <2>2, <3>1
      <4>2. registry[f].parameters[i].node_id \in Nodes
        BY <1>1, EntryTyped
      <4>3. types'[registry[f].parameters[i].node_id] = types[registry[f].parameters[i].node_id]
        BY <1>1, <2>1, <4>1, <4>2
      <4> QED
        BY <3>1, <4>3 DEF StructInv, SignaturesInStep
    <3> QED
      BY <2>1, <3>1 DEF SignaturesInStep, IsActive
  <2>7. SameOwners /\ SameActive
    BY <2>1 DEF SameOwners, SameActive, StructInv, TypeOK
  <2> QED
    BY <1>1, <1>4, <2>1, <2>4, <2>5, <2>6, <2>7, WriteStep
<1> QED
  BY <1>5, <1>6

(* An entry whose parameters and return type are written keeps its owners.      *)
LEMMA EntryWritten ==
    ASSUME registry \in [Names -> Signatures], NEW name \in Names,
           NEW parameters \in [DOMAIN registry[name].parameters -> Parameters],
           NEW result \in Types,
           \A i \in DOMAIN registry[name].parameters :
              parameters[i].node_id = registry[name].parameters[i].node_id,
           registry' = [registry EXCEPT
              ![name] = [node_id |-> registry[name].node_id, parameters |-> parameters,
                         return_type |-> result]]
    PROVE  /\ registry' \in [Names -> Signatures]
           /\ SameOwners
           /\ registry'[name].parameters = parameters
           /\ registry'[name].return_type = result
           /\ \A f \in Names : f # name => registry'[f] = registry[f]
<1> DEFINE entry == [node_id |-> registry[name].node_id, parameters |-> parameters,
                     return_type |-> result]
<1>1. /\ registry[name].node_id \in Nodes \cup {NoNode}
      /\ Len(registry[name].parameters) \in Nat
      /\ DOMAIN registry[name].parameters = 1..Len(registry[name].parameters)
  BY EntryTyped
<1>2. parameters \in Seq(Parameters) /\ DOMAIN parameters = DOMAIN registry[name].parameters
  BY <1>1, SeqDef, SMTT(30)
<1>3. entry \in Signatures
  <2>1. entry.node_id \in Nodes \cup {NoNode} /\ entry.parameters \in Seq(Parameters)
        /\ entry.return_type \in Types
    BY <1>1, <1>2
  <2> QED
    BY <1>1, <1>2, <2>1 DEF Signatures
<1>4. registry'[name] = entry /\ \A f \in Names : f # name => registry'[f] = registry[f]
  BY DEF entry
<1>5. registry' \in [Names -> Signatures]
  <2> HIDE DEF entry
  <2>1. registry' = [registry EXCEPT ![name] = entry]
    BY DEF entry
  <2> QED
    BY <1>3, <2>1
<1>6. SameOwners
  <2> SUFFICES ASSUME NEW f \in Names
               PROVE  /\ registry'[f].node_id = registry[f].node_id
                      /\ DOMAIN registry'[f].parameters = DOMAIN registry[f].parameters
                      /\ \A i \in DOMAIN registry[f].parameters :
                            registry'[f].parameters[i].node_id = registry[f].parameters[i].node_id
    BY DEF SameOwners
  <2>1. CASE f = name
    <3>1. /\ registry'[name].node_id = registry[name].node_id
          /\ registry'[name].parameters = parameters
      BY <1>4
    <3>2. DOMAIN parameters = DOMAIN registry[name].parameters
      BY <1>2
    <3> HIDE DEF entry
    <3> QED
      BY <2>1, <3>1, <3>2
  <2>2. CASE f # name
    BY <1>4, <2>2, SMTT(30)
  <2> QED
    BY <2>1, <2>2
<1> QED
  BY <1>4, <1>5, <1>6

(* What a call of a registered function does, each parameter taken by itself.   *)
LEMMA CheckedCallWrites ==
    ASSUME StructInv, NEW name \in Names, NEW n \in Nat, n < Len(operands),
           NEW arguments \in [1..n -> Types], CheckedCall(name, arguments)
    PROVE  LET parameters == registry[name].parameters
               passed == 1..n \cap DOMAIN parameters
           IN  /\ operands' \in Seq(Operands)
               /\ reported' \in SUBSET DiagCodes
               /\ types' \in [Nodes -> Types]
               /\ seen' \in [Nodes -> SUBSET Types]
               /\ registry' \in [Names -> Signatures]
               /\ SameOwners
               /\ \A f \in Names : f # name => registry'[f] = registry[f]
               /\ registry'[name].return_type = registry[name].return_type
               /\ \A i \in passed :
                     /\ types'[parameters[i].node_id] = Unified(parameters, arguments, i)
                     /\ registry'[name].parameters[i].type = Unified(parameters, arguments, i)
                     /\ seen'[parameters[i].node_id] =
                           seen[parameters[i].node_id] \cup Known(arguments[i])
               /\ \A i \in DOMAIN parameters \ passed :
                     registry'[name].parameters[i] = parameters[i]
               /\ \A node \in Nodes : (\A i \in passed : parameters[i].node_id # node) =>
                     types'[node] = types[node] /\ seen'[node] = seen[node]
<1> DEFINE parameters == registry[name].parameters
           passed == 1..n \cap DOMAIN parameters
           result == registry[name].return_type
           Receives(node) == \E i \in passed : parameters[i].node_id = node
           For(node) == CHOOSE i \in passed : parameters[i].node_id = node
           written == [i \in DOMAIN parameters |->
              IF i \in passed
              THEN Parameter(parameters[i].name, parameters[i].node_id,
                             Unified(parameters, arguments, i))
              ELSE parameters[i]]
<1>1. /\ operands \in Seq(Operands) /\ reported \in SUBSET DiagCodes
      /\ types \in [Nodes -> Types] /\ registry \in [Names -> Signatures]
      /\ seen \in [Nodes -> SUBSET Types]
  BY DEF StructInv, TypeOK
<1>2. /\ result \in Types
      /\ \A i \in DOMAIN parameters :
            /\ parameters[i] \in Parameters
            /\ parameters[i].name \in Names
            /\ parameters[i].node_id \in Nodes
            /\ parameters[i].type \in Types
  BY <1>1, EntryTyped
<1>3. Len(arguments) = n
  OBVIOUS
<1>4. /\ types' = [node \in Nodes |->
            IF Receives(node) THEN Unified(parameters, arguments, For(node)) ELSE types[node]]
      /\ seen' = [node \in Nodes |->
            IF Receives(node) THEN seen[node] \cup Known(arguments[For(node)]) ELSE seen[node]]
      /\ registry' = [registry EXCEPT ![name].parameters = written]
      /\ Compute(n + 1, result, NoName)
  BY <1>3 DEF CheckedCall
<1>5. operands' \in Seq(Operands)
  <2>1. n + 1 \in 0..Len(operands)
    BY <1>1, OperandsTyped
  <2> HIDE DEF result
  <2> QED
    BY <1>1, <1>2, <1>4, <2>1, ComputeTyped
<1>6. reported' \in SUBSET DiagCodes
  BY <1>1, ReportTyped DEF CheckedCall
<1>7. \A i \in passed : Unified(parameters, arguments, i) \in Types /\ arguments[i] \in Types
  <2> SUFFICES ASSUME NEW i \in passed
               PROVE  Unified(parameters, arguments, i) \in Types /\ arguments[i] \in Types
    OBVIOUS
  <2>1. types[parameters[i].node_id] \in Types /\ arguments[i] \in Types
    BY <1>1, <1>2
  <2> QED
    BY <2>1, UnifyTyped DEF Unified
<1>8. \A i \in passed : Receives(parameters[i].node_id) /\ For(parameters[i].node_id) = i
  <2> SUFFICES ASSUME NEW i \in passed
               PROVE  Receives(parameters[i].node_id) /\ For(parameters[i].node_id) = i
    OBVIOUS
  <2>1. \A j \in passed : parameters[j].node_id = parameters[i].node_id => j = i
    BY DEF StructInv, Owned
  <2> QED
    BY <2>1
<1>9. \A node \in Nodes : Receives(node) => For(node) \in passed
  OBVIOUS
<1> HIDE DEF For
<1>10. types' \in [Nodes -> Types]
  BY <1>1, <1>4, <1>7, <1>9
<1>11. seen' \in [Nodes -> SUBSET Types]
  <2>1. ASSUME NEW node \in Nodes, Receives(node)
        PROVE  seen[node] \cup Known(arguments[For(node)]) \in SUBSET Types
    BY <1>1, <1>7, <1>9, <2>1 DEF Known
  <2> QED
    BY <1>1, <1>4, <2>1
<1>12. written \in [DOMAIN parameters -> Parameters]
  BY <1>2, <1>7 DEF Parameter, Parameters
<1>13. \A i \in DOMAIN parameters : written[i].node_id = parameters[i].node_id
  BY DEF Parameter
<1>14. /\ registry' \in [Names -> Signatures]
       /\ SameOwners
       /\ registry'[name].parameters = written
       /\ registry'[name].return_type = result
       /\ \A f \in Names : f # name => registry'[f] = registry[f]
  <2>1. registry' = [registry EXCEPT
           ![name] = [node_id |-> registry[name].node_id, parameters |-> written,
                      return_type |-> result]]
    <3>1. registry[name] \in Signatures
      BY <1>1
    <3>2. [registry[name] EXCEPT !.parameters = written] =
             [node_id |-> registry[name].node_id, parameters |-> written, return_type |-> result]
      BY <3>1, SMTT(30) DEF Signatures
    <3>3. registry' = [registry EXCEPT ![name] = [registry[name] EXCEPT !.parameters = written]]
      <4> HIDE DEF written
      <4> QED
        BY <1>4
    <3> HIDE DEF written, result
    <3> QED
      BY <3>2, <3>3
  <2> HIDE DEF written
  <2>2. written \in [DOMAIN registry[name].parameters -> Parameters]
    BY <1>12
  <2>3. \A i \in DOMAIN registry[name].parameters :
           written[i].node_id = registry[name].parameters[i].node_id
    BY <1>13
  <2> HIDE DEF result, parameters
  <2> QED
    BY <1>1, <1>2, <2>1, <2>2, <2>3, EntryWritten, ZenonT(40)
<1>15. \A i \in passed :
          /\ types'[parameters[i].node_id] = Unified(parameters, arguments, i)
          /\ seen'[parameters[i].node_id] =
                seen[parameters[i].node_id] \cup Known(arguments[i])
  BY <1>2, <1>4, <1>8
<1>16. \A i \in passed : written[i].type = Unified(parameters, arguments, i)
  BY DEF Parameter
<1>17. \A i \in DOMAIN parameters \ passed : written[i] = parameters[i]
  OBVIOUS
<1>18. \A node \in Nodes : (\A i \in passed : parameters[i].node_id # node) =>
          types'[node] = types[node] /\ seen'[node] = seen[node]
  BY <1>4
<1> QED
  BY <1>5, <1>6, <1>10, <1>11, <1>14, <1>15, <1>16, <1>17, <1>18

(* A call of a registered function keeps the structure.                         *)
LEMMA CheckedCallStruct ==
    ASSUME StructInv, NEW name \in Names, NEW n \in Nat, n < Len(operands),
           NEW arguments \in [1..n -> Types], CheckedCall(name, arguments),
           IsRegistered(registry, name),
           UNCHANGED <<scopes, function_stack, frames, binding, next_node>>
    PROVE  StructInv'
<1> DEFINE parameters == registry[name].parameters
           passed == 1..n \cap DOMAIN parameters
<1>1. /\ types \in [Nodes -> Types] /\ registry \in [Names -> Signatures]
      /\ seen \in [Nodes -> SUBSET Types] /\ yielded \in [Names -> SUBSET Types]
      /\ next_node \in Int
  BY DEF StructInv, TypeOK
<1>2. /\ operands' \in Seq(Operands)
      /\ reported' \in SUBSET DiagCodes
      /\ types' \in [Nodes -> Types]
      /\ seen' \in [Nodes -> SUBSET Types]
      /\ registry' \in [Names -> Signatures]
      /\ SameOwners
      /\ \A f \in Names : f # name => registry'[f] = registry[f]
      /\ \A i \in passed :
            /\ types'[parameters[i].node_id] = Unified(parameters, arguments, i)
            /\ registry'[name].parameters[i].type = Unified(parameters, arguments, i)
            /\ seen'[parameters[i].node_id] =
                  seen[parameters[i].node_id] \cup Known(arguments[i])
      /\ \A i \in DOMAIN parameters \ passed : registry'[name].parameters[i] = parameters[i]
      /\ \A node \in Nodes : (\A i \in passed : parameters[i].node_id # node) =>
            types'[node] = types[node] /\ seen'[node] = seen[node]
  BY CheckedCallWrites
<1>3. \A f \in Names : \A i \in DOMAIN registry[f].parameters :
         registry[f].parameters[i].node_id \in Nodes
  BY <1>1, EntryTyped
<1>4. HistoryKept
  <2>1. ASSUME NEW node \in Nodes
        PROVE  /\ node >= next_node => seen'[node] = {}
               /\ \A t \in seen'[node] : IsKnown(t)
    <3>1. node \in Int
      BY MaxNodesIsNat DEF Nodes
    <3>2. CASE \A i \in passed : parameters[i].node_id # node
      BY <1>2, <3>2 DEF StructInv, Met, Recorded
    <3>3. CASE \E i \in passed : parameters[i].node_id = node
      <4>1. PICK i \in passed : parameters[i].node_id = node
        BY <3>3
      <4>2. node < next_node
        BY <4>1 DEF StructInv, Met
      <4>3. seen'[node] = seen[node] \cup Known(arguments[i])
        BY <1>2, <4>1
      <4>4. \A t \in seen[node] \cup Known(arguments[i]) : IsKnown(t)
        BY DEF StructInv, Recorded, Known
      <4> QED
        BY <1>1, <3>1, <4>2, <4>3, <4>4
    <3> QED
      BY <3>2, <3>3
  <2>2. yielded' = [yielded EXCEPT ![name] = @ \cup Known(registry[name].return_type)]
    BY DEF CheckedCall
  <2>3. /\ yielded[name] \cup Known(registry[name].return_type) \in SUBSET Types
        /\ \A t \in yielded[name] \cup Known(registry[name].return_type) : IsKnown(t)
    BY <1>1, EntryTyped, KnownAdded DEF StructInv, Recorded
  <2>4. yielded' \in [Names -> SUBSET Types]
    BY <1>1, <2>2, <2>3
  <2>5. \A f \in Names : \A t \in yielded'[f] : IsKnown(t)
    BY <1>1, <2>2, <2>3 DEF StructInv, Recorded
  <2>6. \A f \in Names : ~IsRegistered(registry, f) => yielded'[f] = {}
    BY <1>1, <2>2 DEF StructInv, Recorded
  <2> QED
    BY <1>2, <2>1, <2>4, <2>5, <2>6 DEF HistoryKept
<1>5. SignaturesInStep'
  <2>1. ASSUME NEW f \in Names, ~IsActive(f), NEW i \in DOMAIN registry[f].parameters
        PROVE  registry'[f].parameters[i].type = types'[registry[f].parameters[i].node_id]
    <3>1. registry[f].parameters[i].type = types[registry[f].parameters[i].node_id]
      BY <2>1 DEF StructInv, SignaturesInStep
    <3>2. CASE f = name /\ i \in passed
      BY <1>2, <3>2
    <3>3. CASE ~(f = name /\ i \in passed)
      <4>1. \A j \in passed : parameters[j].node_id # registry[f].parameters[i].node_id
        BY <3>3 DEF StructInv, Owned
      <4>2. types'[registry[f].parameters[i].node_id] = types[registry[f].parameters[i].node_id]
        BY <1>2, <1>3, <4>1
      <4>3. registry'[f].parameters[i] = registry[f].parameters[i]
        BY <1>2, <3>3
      <4> QED
        BY <3>1, <4>2, <4>3
    <3> QED
      BY <3>2, <3>3
  <2>2. ASSUME NEW f \in Names, ~IsActive(f), NEW i \in DOMAIN registry'[f].parameters
        PROVE  registry'[f].parameters[i].type = types'[registry'[f].parameters[i].node_id]
    <3>1. /\ i \in DOMAIN registry[f].parameters
          /\ registry'[f].parameters[i].node_id = registry[f].parameters[i].node_id
      BY <1>2, <2>2 DEF SameOwners
    <3> QED
      BY <2>1, <2>2, <3>1
  <2> QED
    BY <2>2 DEF SignaturesInStep, IsActive
<1>6. SameActive
  BY DEF SameActive, StructInv, TypeOK
<1> QED
  BY <1>2, <1>4, <1>5, <1>6, WriteStep

(* analyze_call keeps the structure.                                            *)
LEMMA CallStruct ==
    ASSUME StructInv, NEW n \in 0..MaxParams, analyze_call(n)
    PROVE  StructInv'
<1> DEFINE callee == operands[Len(operands) - n].type
           arguments == [i \in 1..n |-> operands[Len(operands) - n + i].type]
           callees == IF callee.kind = "Function"
                      THEN RegisteredAs(registry, callee.reference) ELSE {}
<1>1. operands \in Seq(Operands) /\ reported \in SUBSET DiagCodes
  BY DEF StructInv, TypeOK
<1>2. n \in Nat /\ Len(operands) \in Nat /\ n < Len(operands)
  BY <1>1, BoundsAreNats, OperandsTyped DEF analyze_call
<1>3. arguments \in [1..n -> Types]
  <2>1. \A i \in 1..n : Len(operands) - n + i \in 1..Len(operands)
    BY <1>2
  <2> QED
    BY <1>1, <2>1, OperandsTyped
<1>4. ASSUME NEW name \in callees, CheckedCall(name, arguments)
      PROVE  StructInv'
  <2>1. name \in Names /\ IsRegistered(registry, name)
    BY DEF RegisteredAs
  <2>2. UNCHANGED <<scopes, function_stack, frames, binding, next_node>>
    BY DEF analyze_call
  <2> HIDE DEF arguments
  <2> QED
    BY <1>2, <1>3, <1>4, <2>1, <2>2, CheckedCallStruct
<1>5. ASSUME Compute(n + 1, Unknown, NoName), UNCHANGED <<registry, types, reported, history>>
      PROVE  StructInv'
  <2>1. n + 1 \in 0..Len(operands)
    BY <1>2
  <2>2. operands' \in Seq(Operands)
    BY <1>1, <1>5, <2>1, ComputeTyped, TypeTyped
  <2>3. reported' \in SUBSET DiagCodes
    BY <1>1, <1>5
  <2> QED
    BY <1>5, <2>2, <2>3, QuietStep DEF analyze_call, history
<1>6. \/ \E name \in callees : CheckedCall(name, arguments)
      \/ Compute(n + 1, Unknown, NoName) /\ UNCHANGED <<registry, types, reported, history>>
  BY DEF analyze_call
<1> QED
  BY <1>4, <1>5, <1>6

(* EndLet keeps the structure.                                                  *)
LEMMA EndLetStruct ==
    ASSUME StructInv, EndLet
    PROVE  StructInv'
<1>1. /\ operands \in Seq(Operands) /\ reported \in SUBSET DiagCodes
      /\ types \in [Nodes -> Types] /\ registry \in [Names -> Signatures]
      /\ seen \in [Nodes -> SUBSET Types] /\ next_node \in Int
      /\ binding \in Nodes
  BY DEF StructInv, TypeOK, EndLet
<1>2. Top.type \in Types
  BY <1>1, OperandsTyped DEF EndLet, Top
<1>3. /\ types' = [types EXCEPT ![binding] = Top.type]
      /\ seen' = [seen EXCEPT ![binding] = Known(Top.type)]
      /\ binding' = NoNode /\ operands' = <<>>
      /\ UNCHANGED <<scopes, registry, function_stack, frames, reported, next_node, yielded>>
  BY DEF EndLet
<1>4. operands' \in Seq(Operands) /\ types' \in [Nodes -> Types]
  BY <1>1, <1>2, <1>3, EmptySeq
<1>5. HistoryKept
  <2>1. /\ Known(Top.type) \in SUBSET Types
        /\ \A t \in Known(Top.type) : IsKnown(t)
    BY <1>2 DEF Known
  <2>2. seen' \in [Nodes -> SUBSET Types]
    BY <1>1, <1>3, <2>1
  <2>3. ASSUME NEW node \in Nodes
        PROVE  /\ node >= next_node => seen'[node] = {}
               /\ \A t \in seen'[node] : IsKnown(t)
    <3>1. node \in Int /\ binding \in Int /\ binding < next_node
      BY <1>1, MaxNodesIsNat DEF Nodes, StructInv, Met
    <3>2. CASE node = binding
      BY <1>1, <1>3, <2>1, <3>1, <3>2
    <3>3. CASE node # binding
      BY <1>1, <1>3, <3>3 DEF StructInv, Met, Recorded
    <3> QED
      BY <3>2, <3>3
  <2> QED
    BY <1>3, <2>2, <2>3 DEF HistoryKept, StructInv, Recorded, TypeOK
<1>6. SignaturesInStep'
  <2>1. ASSUME NEW f \in Names, ~IsActive(f), NEW i \in DOMAIN registry[f].parameters
        PROVE  registry[f].parameters[i].type = types'[registry[f].parameters[i].node_id]
    <3>1. registry[f].parameters[i].node_id # binding
      BY DEF StructInv, Owned
    <3>2. registry[f].parameters[i].node_id \in Nodes
      BY <1>1, EntryTyped
    <3>3. types'[registry[f].parameters[i].node_id] = types[registry[f].parameters[i].node_id]
      BY <1>1, <1>3, <3>1, <3>2
    <3> QED
      BY <2>1, <3>3 DEF StructInv, SignaturesInStep
  <2> QED
    BY <1>3, <2>1 DEF SignaturesInStep, IsActive
<1>7. SameOwners /\ SameActive
  BY <1>3 DEF SameOwners, SameActive, StructInv, TypeOK
<1>8. UNCHANGED <<scopes, frames, next_node>> /\ registry' \in [Names -> Signatures]
  BY <1>1, <1>3
<1>9. reported' \in SUBSET DiagCodes
  BY <1>1, <1>3
<1> QED
  BY <1>3, <1>4, <1>5, <1>6, <1>7, <1>8, <1>9, WriteStep

(* The innermost active function.                                               *)
LEMMA ActiveTyped ==
    ASSUME function_stack \in Seq(ActiveFunctions)
    PROVE  /\ Len(function_stack) \in Nat
           /\ DOMAIN function_stack = 1..Len(function_stack)
           /\ \A i \in 1..Len(function_stack) :
                 /\ function_stack[i] \in ActiveFunctions
                 /\ function_stack[i].signature \in Names
                 /\ function_stack[i].inferred_return \in Types
                 /\ function_stack[i].saw_return \in BOOLEAN
           /\ function_stack # <<>> => Len(function_stack) \in 1..Len(function_stack)
<1>1. /\ Len(function_stack) \in Nat
      /\ DOMAIN function_stack = 1..Len(function_stack)
      /\ \A i \in 1..Len(function_stack) : function_stack[i] \in ActiveFunctions
  BY LenProperties, ElementOfSeq
<1>2. function_stack # <<>> => Len(function_stack) \in 1..Len(function_stack)
  BY <1>1, EmptySeq
<1> QED
  BY <1>1, <1>2 DEF ActiveFunctions

\* What a return writes to the active function at depth and to its entry.
ReturnWrites(depth, type, unified, inferred) ==
    LET name == function_stack[depth].signature
    IN  /\ function_stack' \in Seq(ActiveFunctions)
        /\ DOMAIN function_stack' = DOMAIN function_stack
        /\ \A i \in DOMAIN function_stack \ {depth} : function_stack'[i] = function_stack[i]
        /\ function_stack'[depth].signature = name
        /\ function_stack'[depth].inferred_return = inferred
        /\ registry' \in [Names -> Signatures]
        /\ SameOwners
        /\ registry'[name].return_type = inferred
        /\ registry'[name].parameters = registry[name].parameters
        /\ \A f \in Names \ {name} : registry'[f] = registry[f]
        /\ yielded' = [yielded EXCEPT ![name] = @ \cup Known(type)]
        /\ report(Mismatch(registry[name].return_type, type)
                  \cup Mismatch(function_stack[depth].inferred_return, unified))

(* What a return writes to the signature of the function it returns from.       *)
LEMMA ReturnsWrites ==
    ASSUME StructInv, NEW type \in Types, returns(type), function_stack # <<>>
    PROVE  LET depth    == Len(function_stack)
               active   == function_stack[depth]
               unified  == unify_types(registry[active.signature].return_type, type)
               inferred == IF IsKnown(unified)
                           THEN unify_types(active.inferred_return, unified) ELSE Unknown
           IN  /\ unified \in Types /\ inferred \in Types
               /\ ReturnWrites(depth, type, unified, inferred)
<1> DEFINE depth    == Len(function_stack)
           active   == function_stack[depth]
           name     == active.signature
           declared == registry[name].return_type
           unified  == unify_types(declared, type)
           inferred == IF IsKnown(unified)
                       THEN unify_types(active.inferred_return, unified) ELSE Unknown
           saw      == active.saw_return \/ unified.kind # "Void"
           after    == [active EXCEPT !.inferred_return = inferred, !.saw_return = saw]
<1>1. function_stack \in Seq(ActiveFunctions) /\ registry \in [Names -> Signatures]
  BY DEF StructInv, TypeOK
<1>2. /\ depth \in 1..Len(function_stack) /\ DOMAIN function_stack = 1..Len(function_stack)
      /\ active \in ActiveFunctions /\ name \in Names
      /\ active.inferred_return \in Types /\ active.saw_return \in BOOLEAN
  BY <1>1, ActiveTyped
<1>3. declared \in Types
  BY <1>1, <1>2, EntryTyped
<1>4. unified \in Types
  BY <1>3, UnifyTyped
<1>5. inferred \in Types
  <2> HIDE DEF unified
  <2> QED
    BY <1>2, <1>4, UnifyTyped, TypeTyped
<1>6. /\ report(Mismatch(declared, type) \cup Mismatch(active.inferred_return, unified))
      /\ function_stack' = [function_stack EXCEPT ![depth] = after]
      /\ registry' = [registry EXCEPT ![name].return_type = inferred]
      /\ yielded' = [yielded EXCEPT ![name] = @ \cup Known(type)]
  BY DEF returns
<1>7. saw \in BOOLEAN
  OBVIOUS
<1> HIDE DEF saw, inferred, unified, declared
<1>8. /\ after \in ActiveFunctions /\ after.signature = name
      /\ after.inferred_return = inferred
  BY <1>2, <1>5, <1>7 DEF ActiveFunctions
<1>9. /\ function_stack' \in Seq(ActiveFunctions)
      /\ Len(function_stack') = Len(function_stack)
      /\ \A i \in 1..Len(function_stack) :
            function_stack'[i] = IF i = depth THEN after ELSE function_stack[i]
  <2> HIDE DEF after
  <2> QED
    BY <1>1, <1>2, <1>6, <1>8, ExceptSeq
<1>10. DOMAIN function_stack' = DOMAIN function_stack
  BY <1>2, <1>9, LenProperties
<1>11. /\ function_stack'[depth].signature = name
       /\ function_stack'[depth].inferred_return = inferred
       /\ \A i \in DOMAIN function_stack \ {depth} : function_stack'[i] = function_stack[i]
  <2> HIDE DEF after, depth
  <2> QED
    BY <1>2, <1>8, <1>9
<1>12. /\ registry' \in [Names -> Signatures]
       /\ SameOwners
       /\ registry'[name].parameters = registry[name].parameters
       /\ registry'[name].return_type = inferred
       /\ \A f \in Names : f # name => registry'[f] = registry[f]
  <2> HIDE DEF active, name
  <2>1. registry[name] \in Signatures
    BY <1>1, <1>2
  <2>2. [registry[name] EXCEPT !.return_type = inferred] =
           [node_id |-> registry[name].node_id, parameters |-> registry[name].parameters,
            return_type |-> inferred]
    BY <2>1 DEF Signatures
  <2>3. registry[name].parameters \in [DOMAIN registry[name].parameters -> Parameters]
    BY <1>1, <1>2, EntryTyped, LenProperties
  <2>4. registry' = [registry EXCEPT
           ![name] = [node_id |-> registry[name].node_id,
                      parameters |-> registry[name].parameters, return_type |-> inferred]]
    BY <1>6, <2>2
  <2> QED
    BY <1>1, <1>2, <1>5, <2>3, <2>4, EntryWritten
<1>13. report(Mismatch(registry[name].return_type, type)
              \cup Mismatch(function_stack[depth].inferred_return, unified))
  BY <1>6 DEF declared
<1>14. ReturnWrites(depth, type, unified, inferred)
  BY <1>6, <1>9, <1>10, <1>11, <1>12, <1>13 DEF ReturnWrites
<1> QED
  BY <1>4, <1>5, <1>14 DEF inferred, unified, declared

(* analyze_return keeps the structure.                                          *)
LEMMA ReturnsStruct ==
    ASSUME StructInv, NEW type \in Types, returns(type)
    PROVE  StructInv'
<1>1. /\ function_stack \in Seq(ActiveFunctions) /\ registry \in [Names -> Signatures]
      /\ types \in [Nodes -> Types] /\ yielded \in [Names -> SUBSET Types]
      /\ reported \in SUBSET DiagCodes
  BY DEF StructInv, TypeOK
<1>2. /\ operands' \in Seq(Operands)
      /\ UNCHANGED <<scopes, types, frames, binding, next_node, seen>>
  BY EmptySeq DEF returns
<1>3. CASE function_stack = <<>>
  <2>1. UNCHANGED <<registry, function_stack, reported, yielded>>
    BY <1>3 DEF returns
  <2>2. reported' \in SUBSET DiagCodes
    BY <1>1, <2>1
  <2> QED
    BY <1>2, <2>1, <2>2, QuietStep DEF history
<1>4. CASE function_stack # <<>>
  <2> DEFINE depth == Len(function_stack)
  <2>1. depth \in DOMAIN function_stack /\ function_stack[depth].signature \in Names
    BY <1>1, <1>4, ActiveTyped
  <2>2. PICK unified, inferred : ReturnWrites(depth, type, unified, inferred)
    BY <1>4, ReturnsWrites
  <2> HIDE DEF depth
  <2> DEFINE name == function_stack[depth].signature
  <2>3. SameActive /\ SameOwners /\ registry' \in [Names -> Signatures]
    BY <2>1, <2>2 DEF SameActive, ReturnWrites
  <2>4. reported' \in SUBSET DiagCodes
    BY <1>1, <2>2, ReportTyped DEF ReturnWrites
  <2>5. IsRegistered(registry, name)
    BY <2>1 DEF StructInv, Nested
  <2>6. yielded' = [yielded EXCEPT ![name] = @ \cup Known(type)]
    BY <2>2 DEF ReturnWrites
  <2>7. HistoryKept
    <3>1. /\ yielded[name] \cup Known(type) \in SUBSET Types
          /\ \A t \in yielded[name] \cup Known(type) : IsKnown(t)
      BY <1>1, <2>1, KnownAdded DEF StructInv, Recorded
    <3> HIDE DEF name
    <3>2. yielded' \in [Names -> SUBSET Types]
      BY <1>1, <2>6, <3>1
    <3>3. \A f \in Names : \A t \in yielded'[f] : IsKnown(t)
      BY <1>1, <2>6, <3>1 DEF StructInv, Recorded
    <3>4. \A f \in Names : ~IsRegistered(registry, f) => yielded'[f] = {}
      BY <1>1, <2>5, <2>6 DEF StructInv, Recorded
    <3>5. /\ \A node \in Nodes : node >= next_node => seen'[node] = {}
          /\ \A node \in Nodes : \A t \in seen'[node] : IsKnown(t)
          /\ seen' \in [Nodes -> SUBSET Types]
      BY <1>2 DEF StructInv, Met, Recorded, TypeOK
    <3> QED
      BY <3>2, <3>3, <3>4, <3>5 DEF HistoryKept
  <2>8. \A f \in Names : registry'[f].parameters = registry[f].parameters
    BY <2>2 DEF ReturnWrites
  <2>9. SignaturesInStep'
    BY <1>2, <2>8 DEF StructInv, SignaturesInStep, IsActive
  <2>10. types' \in [Nodes -> Types] /\ binding' = binding /\ UNCHANGED <<scopes, frames, next_node>>
    BY <1>1, <1>2
  <2> QED
    BY <1>2, <2>3, <2>4, <2>7, <2>9, <2>10, WriteStep
<1> QED
  BY <1>3, <1>4

-------------------------------------------------------------------------------
(* Steps that declare a variable, or enter or leave a block.                    *)

(* There is always a scope, one more than frames.                               *)
LEMMA StacksTyped ==
    ASSUME StructInv
    PROVE  /\ scopes \in Seq(Scope) /\ frames \in Seq(Names \cup {Block})
           /\ Len(scopes) \in Nat /\ Len(frames) \in Nat
           /\ DOMAIN scopes = 1..Len(scopes) /\ DOMAIN frames = 1..Len(frames)
           /\ Len(scopes) = Len(frames) + 1
           /\ Len(scopes) >= 1
           /\ \A level \in 1..Len(scopes), name \in Names :
                 scopes[level][name] \in Nodes \cup {NoNode}
<1>1. scopes \in Seq(Scope) /\ frames \in Seq(Names \cup {Block})
  BY DEF StructInv, TypeOK
<1>2. /\ Len(scopes) \in Nat /\ Len(frames) \in Nat
      /\ DOMAIN scopes = 1..Len(scopes) /\ DOMAIN frames = 1..Len(frames)
      /\ \A level \in 1..Len(scopes) : scopes[level] \in Scope
  BY <1>1, LenProperties, ElementOfSeq
<1>3. Len(scopes) = Len(frames) + 1
  BY DEF StructInv, Nested
<1> QED
  BY <1>1, <1>2, <1>3 DEF Scope

(* BeginLet keeps the structure.                                                *)
LEMMA BeginLetStruct ==
    ASSUME StructInv, NEW name \in Names, BeginLet(name)
    PROVE  StructInv'
<1>1. /\ scopes' = insert(scopes, name, next_node)
      /\ binding' = next_node /\ next_node' = next_node + 1 /\ next_node \in Nodes
      /\ UNCHANGED <<registry, types, function_stack, frames, operands, seen, yielded>>
  BY DEF BeginLet, history
<1>2. next_node \in Int /\ next_node >= 1 /\ next_node <= MaxNodes
  BY <1>1, MaxNodesIsNat DEF Nodes
<1>3. /\ scopes' \in Seq(Scope) /\ Len(scopes') = Len(scopes)
      /\ \A level \in 1..Len(scopes), other \in Names :
            scopes'[level][other] = scopes[level][other] \/ scopes'[level][other] = next_node
  <2>1. scopes \in Seq(Scope) /\ Len(scopes) >= 1
    BY StacksTyped
  <2>2. /\ insert(scopes, name, next_node) \in Seq(Scope)
        /\ Len(insert(scopes, name, next_node)) = Len(scopes)
        /\ \A i \in 1..Len(scopes), other \in Names :
              \/ insert(scopes, name, next_node)[i][other] = scopes[i][other]
              \/ insert(scopes, name, next_node)[i][other] = next_node
    <3>1. PICK stack, node : stack = scopes /\ node = next_node
      OBVIOUS
    <3>2. stack \in Seq(Scope) /\ Len(stack) >= 1 /\ node \in Nodes
      BY <1>1, <2>1, <3>1
    <3>3. /\ insert(stack, name, node) \in Seq(Scope)
          /\ Len(insert(stack, name, node)) = Len(stack)
          /\ \A i \in 1..Len(stack), other \in Names :
                \/ insert(stack, name, node)[i][other] = stack[i][other]
                \/ insert(stack, name, node)[i][other] = node
      BY <3>2, ScopesTyped
    <3> QED
      BY <3>1, <3>3
  <2> QED
    BY <1>1, <2>2
<1>4. DOMAIN scopes' = DOMAIN scopes /\ DOMAIN scopes = 1..Len(scopes)
  BY <1>3, StacksTyped, LenProperties
<1>5. reported' \in SUBSET DiagCodes
  BY ReportTyped DEF BeginLet, StructInv, TypeOK
<1>6. \A f \in Names : \A i \in DOMAIN registry[f].parameters :
         /\ registry[f].parameters[i].node_id # next_node
         /\ registry[f].parameters[i].node_id \in Int
  <2>1. \A f \in Names : \A i \in DOMAIN registry[f].parameters :
           registry[f].parameters[i].node_id \in Nodes
    BY EntryTyped DEF StructInv, TypeOK
  <2> QED
    BY <1>2, <2>1, MaxNodesIsNat DEF StructInv, Met, Nodes
<1>7. TypeOK'
  <2>1. next_node' \in 1..(MaxNodes + 1)
    BY <1>1, <1>2, MaxNodesIsNat
  <2> QED
    BY <1>1, <1>3, <1>5, <2>1 DEF StructInv, TypeOK
<1>8. Nested'
  BY <1>1, <1>3 DEF StructInv, Nested
<1>9. Met'
  <2>1. ASSUME NEW level \in DOMAIN scopes', NEW other \in Names
        PROVE  scopes'[level][other] < next_node'
    <3>1. scopes[level][other] \in Nodes \cup {NoNode} /\ scopes[level][other] < next_node
      BY <1>4, StacksTyped DEF StructInv, Met
    <3>2. scopes[level][other] \in Int
      BY <3>1, MaxNodesIsNat DEF Nodes, NoNode
    <3>3. scopes'[level][other] = scopes[level][other] \/ scopes'[level][other] = next_node
      BY <1>3, <1>4
    <3>4. PICK old, new : old = scopes[level][other] /\ new = scopes'[level][other]
      OBVIOUS
    <3>5. old \in Int /\ old < next_node /\ (new = old \/ new = next_node)
      BY <3>1, <3>2, <3>3, <3>4
    <3>6. new < next_node + 1
      BY <1>2, <3>5
    <3> QED
      BY <1>1, <3>4, <3>6, SMTT(30)
  <2>2. \A f \in Names : \A i \in DOMAIN registry'[f].parameters :
           registry'[f].parameters[i].node_id < next_node'
    BY <1>1, <1>2, <1>6 DEF StructInv, Met
  <2>3. binding' < next_node'
    BY <1>1, <1>2
  <2>4. ASSUME NEW node \in Nodes, node >= next_node'
        PROVE  seen'[node] = {}
    <3>1. node \in Int
      BY MaxNodesIsNat DEF Nodes
    <3> QED
      BY <1>1, <1>2, <2>4, <3>1 DEF StructInv, Met
  <2> QED
    BY <2>1, <2>2, <2>3, <2>4 DEF Met
<1>10. Owned'
  BY <1>1, <1>6 DEF StructInv, Owned
<1>11. Recorded'
  BY <1>1 DEF StructInv, Recorded, IsRegistered
<1>12. ParametersAreScoped'
  BY <1>1, <1>3, <1>4, <1>6 DEF StructInv, ParametersAreScoped
<1>13. SignaturesInStep'
  BY <1>1 DEF StructInv, SignaturesInStep, IsActive
<1> QED
  BY <1>7, <1>8, <1>9, <1>10, <1>11, <1>12, <1>13 DEF StructInv

(* A block's frame is no function's.                                            *)
LEMMA WalksBlock ==
    ASSUME NEW active, NEW open \in Seq(Names \cup {Block}), Walks(active, open)
    PROVE  /\ Walks(active, Append(open, Block))
           /\ open # <<>> /\ open[Len(open)] = Block /\ (\A i \in DOMAIN active : active[i].signature \in Names)
                => Walks(active, SubSeq(open, 1, Len(open) - 1))
<1>1. PICK at \in [DOMAIN active -> DOMAIN open] :
        /\ \A i, j \in DOMAIN active : i < j => at[i] < at[j]
        /\ \A level \in DOMAIN open :
              open[level] # Block => \E i \in DOMAIN active : at[i] = level
        /\ \A i \in DOMAIN active : open[at[i]] = active[i].signature
  BY DEF Walks
<1>2. Len(open) \in Nat /\ DOMAIN open = 1..Len(open)
  BY LenProperties
<1>3. Walks(active, Append(open, Block))
  <2> DEFINE more == Append(open, Block)
  <2>1. /\ more \in Seq(Names \cup {Block}) /\ Len(more) = Len(open) + 1
        /\ \A level \in 1..Len(open) : more[level] = open[level]
        /\ more[Len(open) + 1] = Block
    BY AppendProperties
  <2>2. DOMAIN more = 1..(Len(open) + 1)
    BY <2>1, LenProperties
  <2> HIDE DEF more
  <2>3. at \in [DOMAIN active -> DOMAIN more]
    BY <1>1, <1>2, <2>2
  <2>4. ASSUME NEW level \in DOMAIN more, more[level] # Block
        PROVE  \E i \in DOMAIN active : at[i] = level
    <3>1. level \in DOMAIN open /\ open[level] # Block
      BY <1>2, <2>1, <2>2, <2>4
    <3> QED
      BY <1>1, <3>1
  <2>5. \A i \in DOMAIN active : more[at[i]] = active[i].signature
    BY <1>1, <1>2, <2>1
  <2>6. Walks(active, more)
    BY <1>1, <2>3, <2>4, <2>5 DEF Walks
  <2> QED
    BY <2>6 DEF more
<1>4. ASSUME open # <<>>, open[Len(open)] = Block, \A i \in DOMAIN active : active[i].signature \in Names
      PROVE  Walks(active, SubSeq(open, 1, Len(open) - 1))
  <2> DEFINE less == SubSeq(open, 1, Len(open) - 1)
  <2>1. Len(open) >= 1
    BY <1>2, <1>4, EmptySeq
  <2>2. /\ less \in Seq(Names \cup {Block}) /\ Len(less) = Len(open) - 1
        /\ \A level \in 1..(Len(open) - 1) : less[level] = open[level]
    <3>1. Len(open) >= 1
      BY <1>2, <2>1
    <3> QED
      BY <3>1, WithoutLast
  <2>3. DOMAIN less = 1..(Len(open) - 1)
    BY <2>2, LenProperties
  <2> HIDE DEF less
  <2>4. ASSUME NEW i \in DOMAIN active
        PROVE  at[i] \in DOMAIN less
    <3>1. at[i] \in 1..Len(open) /\ open[at[i]] \in Names
      BY <1>1, <1>2, <1>4
    <3>2. at[i] # Len(open)
      BY <1>4, <3>1, MarkersAreNotNames
    <3> QED
      BY <1>2, <2>1, <2>3, <3>1, <3>2
  <2>5. at \in [DOMAIN active -> DOMAIN less]
    BY <1>1, <2>4
  <2>6. \A level \in DOMAIN less : less[level] # Block => \E i \in DOMAIN active : at[i] = level
    BY <1>1, <1>2, <2>2, <2>3
  <2>7. \A i \in DOMAIN active : less[at[i]] = active[i].signature
    BY <1>1, <2>2, <2>3, <2>4
  <2>8. \A i, j \in DOMAIN active : i < j => at[i] < at[j]
    BY <1>1
  <2>9. Walks(active, less)
    BY <2>5, <2>6, <2>7, <2>8, Zenon DEF Walks
  <2> QED
    BY <2>9 DEF less
<1> QED
  BY <1>3, <1>4

(* EnterBlock keeps the structure.                                              *)
LEMMA EnterBlockStruct ==
    ASSUME StructInv, EnterBlock
    PROVE  StructInv'
<1>1. /\ frames' = Append(frames, Block) /\ scopes' = push_scope(scopes, EmptyScope)
      /\ UNCHANGED <<registry, types, function_stack, binding, operands, reported,
                     next_node, seen, yielded>>
  BY DEF EnterBlock, history
<1>2. /\ scopes \in Seq(Scope) /\ Len(scopes) \in Nat /\ Len(scopes) >= 1
      /\ frames \in Seq(Names \cup {Block}) /\ Len(frames) \in Nat
      /\ DOMAIN scopes = 1..Len(scopes) /\ DOMAIN frames = 1..Len(frames)
      /\ Len(scopes) = Len(frames) + 1
  BY StacksTyped
<1>3. /\ frames' \in Seq(Names \cup {Block}) /\ Len(frames') = Len(frames) + 1
      /\ \A level \in 1..Len(frames) : frames'[level] = frames[level]
      /\ frames'[Len(frames) + 1] = Block
  BY <1>1, <1>2, AppendProperties
<1>4. /\ scopes' \in Seq(Scope) /\ Len(scopes') = Len(scopes) + 1
      /\ \A level \in 1..Len(scopes) : scopes'[level] = scopes[level]
      /\ scopes'[Len(scopes) + 1] = EmptyScope
  <2>1. EmptyScope \in Scope
    BY DEF EmptyScope, Scope
  <2> QED
    BY <1>1, <1>2, <2>1, AppendProperties DEF push_scope
<1>5. DOMAIN frames' = 1..Len(frames') /\ DOMAIN scopes' = 1..Len(scopes')
  BY <1>3, <1>4, LenProperties
<1>6. TypeOK'
  BY <1>1, <1>3, <1>4 DEF StructInv, TypeOK
<1>7. Nested'
  <2>1. Walks(function_stack, Append(frames, Block))
    BY <1>2, WalksBlock DEF StructInv, Nested
  <2>2. Len(scopes') = Len(frames') + 1
    BY <1>2, <1>3, <1>4
  <2>3. Walks(function_stack', frames')
    BY <1>1, <2>1
  <2> QED
    BY <1>1, <2>2, <2>3 DEF StructInv, Nested, IsRegistered
<1>8. Met'
  <2>1. 0 < next_node
    BY DEF StructInv, TypeOK
  <2>2. ASSUME NEW level \in DOMAIN scopes', NEW name \in Names
        PROVE  scopes'[level][name] < next_node
    <3>1. CASE level \in 1..Len(scopes)
      BY <1>2, <1>4, <3>1 DEF StructInv, Met
    <3>2. CASE level = Len(scopes) + 1
      BY <1>4, <2>1, <3>2 DEF EmptyScope, NoNode
    <3> QED
      BY <1>2, <1>4, <1>5, <3>1, <3>2
  <2> QED
    BY <1>1, <2>2 DEF StructInv, Met
<1>9. Owned' /\ Recorded'
  BY <1>1 DEF StructInv, Owned, Recorded, IsRegistered
<1>10. ParametersAreScoped'
  <2>1. ASSUME NEW level \in DOMAIN scopes', NEW name \in Names, NEW f \in Names,
               NEW i \in DOMAIN registry[f].parameters,
               scopes'[level][name] = registry[f].parameters[i].node_id
        PROVE  level - 1 \in DOMAIN frames' /\ frames'[level - 1] = f
    <3>1. CASE level \in 1..Len(scopes)
      <4>1. scopes[level][name] = registry[f].parameters[i].node_id
        BY <1>4, <2>1, <3>1
      <4>2. level - 1 \in DOMAIN frames /\ frames[level - 1] = f
        BY <1>2, <3>1, <4>1 DEF StructInv, ParametersAreScoped
      <4> QED
        BY <1>2, <1>3, <1>5, <4>2
    <3>2. CASE level = Len(scopes) + 1
      <4>1. registry[f].parameters[i].node_id \in Nodes
        BY EntryTyped DEF StructInv, TypeOK
      <4>2. registry[f].parameters[i].node_id = NoNode
        BY <1>4, <2>1, <3>2 DEF EmptyScope
      <4> QED
        BY <4>1, <4>2, MaxNodesIsNat DEF Nodes, NoNode
    <3> QED
      BY <1>2, <1>4, <1>5, <3>1, <3>2
  <2> QED
    BY <1>1, <2>1 DEF ParametersAreScoped
<1>11. SignaturesInStep'
  <2>1. ASSUME NEW f \in Names, IsActive(f)
        PROVE  IsActive(f)'
    BY <1>2, <1>3, <1>5, <2>1 DEF IsActive
  <2> QED
    BY <1>1, <2>1 DEF StructInv, SignaturesInStep
<1> QED
  BY <1>6, <1>7, <1>8, <1>9, <1>10, <1>11 DEF StructInv

(* A sequence without its last element.                                         *)
Shortened(less, all) ==
    /\ Len(less) = Len(all) - 1 /\ DOMAIN less = 1..(Len(all) - 1)
    /\ \A level \in DOMAIN less : level \in DOMAIN all /\ less[level] = all[level]

(* The frame and its scope are left.                                            *)
LeavesFrame ==
    frames # <<>> /\ frames' = SubSeq(frames, 1, Len(frames) - 1) /\ scopes' = pop_scope(scopes)

(* What leaving a frame does to the frames and the scopes.                      *)
LEMMA LeaveFrame ==
    ASSUME StructInv, LeavesFrame
    PROVE  /\ frames' \in Seq(Names \cup {Block}) /\ scopes' \in Seq(Scope)
           /\ Len(frames) >= 1
           /\ Shortened(frames', frames) /\ Shortened(scopes', scopes)
<1>1. /\ scopes \in Seq(Scope) /\ Len(scopes) \in Nat /\ Len(scopes) >= 1
      /\ frames \in Seq(Names \cup {Block}) /\ Len(frames) \in Nat
      /\ DOMAIN scopes = 1..Len(scopes) /\ DOMAIN frames = 1..Len(frames)
      /\ Len(scopes) = Len(frames) + 1
  BY StacksTyped, Zenon
<1>2. Len(frames) >= 1 /\ Len(scopes) > 1
  BY <1>1, EmptySeq DEF LeavesFrame
<1>3. /\ frames' \in Seq(Names \cup {Block}) /\ Len(frames') = Len(frames) - 1
      /\ \A level \in 1..(Len(frames) - 1) : frames'[level] = frames[level]
  <2>1. /\ SubSeq(frames, 1, Len(frames) - 1) \in Seq(Names \cup {Block})
        /\ Len(SubSeq(frames, 1, Len(frames) - 1)) = Len(frames) - 1
        /\ \A level \in 1..(Len(frames) - 1) :
              SubSeq(frames, 1, Len(frames) - 1)[level] = frames[level]
    BY <1>1, <1>2, WithoutLast
  <2> QED
    BY <2>1 DEF LeavesFrame
<1>4. /\ scopes' \in Seq(Scope) /\ Len(scopes') = Len(scopes) - 1
      /\ \A level \in 1..(Len(scopes) - 1) : scopes'[level] = scopes[level]
  BY <1>1, <1>2, ScopesTyped DEF LeavesFrame
<1>5. DOMAIN frames' = 1..(Len(frames) - 1) /\ DOMAIN scopes' = 1..(Len(scopes) - 1)
  BY <1>3, <1>4, LenProperties
<1>6. \A level \in DOMAIN frames' : level \in DOMAIN frames /\ frames'[level] = frames[level]
  BY <1>1, <1>3, <1>5
<1>7. \A level \in DOMAIN scopes' : level \in DOMAIN scopes /\ scopes'[level] = scopes[level]
  BY <1>1, <1>4, <1>5
<1>8. Shortened(frames', frames)
  BY <1>3, <1>5, <1>6 DEF Shortened
<1>9. Shortened(scopes', scopes)
  BY <1>4, <1>5, <1>7 DEF Shortened
<1> QED
  BY <1>2, <1>3, <1>4, <1>8, <1>9, ZenonT(30)

(* What is in scope after a frame is left was so before.                        *)
LEMMA LeaveFrameKeeps ==
    ASSUME StructInv, LeavesFrame, SameOwners,
           UNCHANGED <<types, binding, next_node, seen, yielded>>
    PROVE  Len(scopes') = Len(frames') + 1 /\ Met' /\ Owned' /\ Recorded' /\ ParametersAreScoped'
<1>1. /\ Len(frames') = Len(frames) - 1 /\ DOMAIN frames' = 1..(Len(frames) - 1)
      /\ \A level \in DOMAIN frames' : level \in DOMAIN frames /\ frames'[level] = frames[level]
      /\ Len(scopes') = Len(scopes) - 1 /\ DOMAIN scopes' = 1..(Len(scopes) - 1)
      /\ \A level \in DOMAIN scopes' : level \in DOMAIN scopes /\ scopes'[level] = scopes[level]
  <2>1. Shortened(frames', frames) /\ Shortened(scopes', scopes)
    BY LeaveFrame, Zenon
  <2> QED
    BY <2>1 DEF Shortened
<1>2. /\ Len(scopes) \in Nat /\ Len(frames) \in Nat /\ Len(scopes) = Len(frames) + 1
  BY StacksTyped
<1>3. Len(scopes') = Len(frames') + 1
  <2>1. PICK a, b, c, d : /\ a = Len(scopes) /\ b = Len(frames)
                          /\ c = Len(scopes') /\ d = Len(frames')
    OBVIOUS
  <2>2. a \in Nat /\ b \in Nat /\ a = b + 1 /\ c = a - 1 /\ d = b - 1
    BY <1>1, <1>2, <2>1
  <2>3. c = d + 1
    BY <2>2
  <2> QED
    BY <2>1, <2>3
<1>4. Met'
  <2>1. /\ \A level \in DOMAIN scopes, name \in Names : scopes[level][name] < next_node
        /\ \A f \in Names : \A i \in DOMAIN registry[f].parameters :
              registry[f].parameters[i].node_id < next_node
        /\ binding < next_node
        /\ \A node \in Nodes : node >= next_node => seen[node] = {}
    BY DEF StructInv, Met
  <2>2. binding' = binding /\ next_node' = next_node /\ seen' = seen
    OBVIOUS
  <2>3. \A level \in DOMAIN scopes', name \in Names : scopes'[level][name] < next_node'
    BY <1>1, <2>1, <2>2
  <2>4. \A f \in Names : \A i \in DOMAIN registry'[f].parameters :
           registry'[f].parameters[i].node_id < next_node'
    BY <2>1, <2>2 DEF SameOwners
  <2>5. binding' < next_node'
    BY <2>1, <2>2
  <2>6. \A node \in Nodes : node >= next_node' => seen'[node] = {}
    BY <2>1, <2>2
  <2> QED
    BY <2>3, <2>4, <2>5, <2>6 DEF Met
<1>5. Owned' /\ Recorded'
  <2>1. Owned /\ Recorded
    BY DEF StructInv
  <2>2. Owned'
    BY <2>1 DEF Owned, SameOwners
  <2>3. Recorded'
    BY <2>1 DEF Recorded, SameOwners, IsRegistered
  <2> QED
    BY <2>2, <2>3
<1>6. ParametersAreScoped'
  <2>1. ASSUME NEW level \in DOMAIN scopes', NEW name \in Names, NEW f \in Names,
               NEW i \in DOMAIN registry'[f].parameters,
               scopes'[level][name] = registry'[f].parameters[i].node_id
        PROVE  level - 1 \in DOMAIN frames' /\ frames'[level - 1] = f
    <3>1. /\ i \in DOMAIN registry[f].parameters /\ level \in DOMAIN scopes
          /\ scopes[level][name] = registry[f].parameters[i].node_id
      BY <1>1, <2>1 DEF SameOwners
    <3>2. level - 1 \in DOMAIN frames /\ frames[level - 1] = f
      BY <3>1 DEF StructInv, ParametersAreScoped
    <3>3. DOMAIN frames = 1..Len(frames)
      BY StacksTyped
    <3> QED
      BY <1>1, <1>2, <3>2, <3>3
  <2> QED
    BY <2>1 DEF ParametersAreScoped
<1> QED
  BY <1>3, <1>4, <1>5, <1>6

(* ExitBlock keeps the structure.                                               *)
LEMMA ExitBlockStruct ==
    ASSUME StructInv, ExitBlock
    PROVE  StructInv'
<1>1. /\ frames # <<>> /\ frames[Len(frames)] = Block
      /\ frames' = SubSeq(frames, 1, Len(frames) - 1) /\ scopes' = pop_scope(scopes)
      /\ UNCHANGED <<registry, types, function_stack, binding, operands, reported,
                     next_node, seen, yielded>>
  BY DEF ExitBlock, history
<1>2. /\ frames' \in Seq(Names \cup {Block}) /\ scopes' \in Seq(Scope)
      /\ Len(frames) >= 1 /\ Len(frames) \in Nat /\ DOMAIN frames' = 1..(Len(frames) - 1)
      /\ \A level \in DOMAIN frames' : frames'[level] = frames[level]
  BY <1>1, LeaveFrame, StacksTyped DEF Shortened, LeavesFrame
<1>3. SameOwners
  BY <1>1 DEF SameOwners
<1>4. Len(scopes') = Len(frames') + 1 /\ Met' /\ Owned' /\ Recorded' /\ ParametersAreScoped'
  BY <1>1, <1>3, LeaveFrameKeeps DEF LeavesFrame
<1>5. TypeOK'
  BY <1>1, <1>2 DEF StructInv, TypeOK
<1>6. Nested'
  <2>1. function_stack \in Seq(ActiveFunctions) /\ frames \in Seq(Names \cup {Block})
    BY DEF StructInv, TypeOK
  <2>2. \A i \in DOMAIN function_stack : function_stack[i].signature \in Names
    BY <2>1, ActiveTyped
  <2>3. Walks(function_stack, SubSeq(frames, 1, Len(frames) - 1))
    BY <1>1, <2>1, <2>2, WalksBlock DEF StructInv, Nested
  <2>4. Walks(function_stack', frames')
    BY <1>1, <2>3
  <2> QED
    BY <1>1, <1>4, <2>4 DEF StructInv, Nested, IsRegistered
<1>7. SignaturesInStep'
  <2>1. ASSUME NEW f \in Names, IsActive(f)
        PROVE  IsActive(f)'
    <3>1. PICK level \in DOMAIN frames : frames[level] = f
      BY <2>1 DEF IsActive
    <3>2. level \in 1..Len(frames) /\ level # Len(frames)
      BY <1>1, <3>1, StacksTyped, MarkersAreNotNames
    <3> QED
      BY <1>2, <3>1, <3>2 DEF IsActive
  <2> QED
    BY <1>1, <2>1 DEF StructInv, SignaturesInStep
<1> QED
  BY <1>4, <1>5, <1>6, <1>7 DEF StructInv

-------------------------------------------------------------------------------
(* Steps that leave or enter a function.                                        *)

(* The innermost frame, when a function's, is the innermost active function's,  *)
(* and leaving both leaves the rest in step.                                    *)
LEMMA WalksLeave ==
    ASSUME NEW active \in Seq(ActiveFunctions), NEW open \in Seq(Names \cup {Block}),
           Walks(active, open), open # <<>>, open[Len(open)] # Block
    PROVE  /\ active # <<>>
           /\ active[Len(active)].signature = open[Len(open)]
           /\ Walks(SubSeq(active, 1, Len(active) - 1), SubSeq(open, 1, Len(open) - 1))
<1>1. PICK at \in [DOMAIN active -> DOMAIN open] :
        /\ \A i, j \in DOMAIN active : i < j => at[i] < at[j]
        /\ \A level \in DOMAIN open :
              open[level] # Block => \E i \in DOMAIN active : at[i] = level
        /\ \A i \in DOMAIN active : open[at[i]] = active[i].signature
  BY DEF Walks
<1>2. /\ Len(open) \in Nat /\ DOMAIN open = 1..Len(open) /\ Len(open) >= 1
      /\ Len(active) \in Nat /\ DOMAIN active = 1..Len(active)
  BY LenProperties, EmptySeq
<1>3. PICK last \in DOMAIN active : at[last] = Len(open)
  BY <1>1, <1>2
<1>4. Len(active) >= 1 /\ active # <<>>
  BY <1>2, <1>3, EmptySeq
<1>5. last = Len(active)
  <2>1. CASE last < Len(active)
    <3>1. at[last] < at[Len(active)] /\ at[Len(active)] \in 1..Len(open)
      <4>1. Len(active) \in DOMAIN active
        BY <1>2, <1>4
      <4> QED
        BY <1>1, <1>2, <1>3, <2>1, <4>1
    <3> QED
      BY <1>2, <1>3, <3>1
  <2> QED
    BY <1>2, <1>3, <2>1
<1>6. active[Len(active)].signature = open[Len(open)]
  BY <1>1, <1>3, <1>5
<1> DEFINE fewer == SubSeq(active, 1, Len(active) - 1)
           less  == SubSeq(open, 1, Len(open) - 1)
           to    == [i \in DOMAIN fewer |-> at[i]]
<1>7. /\ fewer \in Seq(ActiveFunctions) /\ Len(fewer) = Len(active) - 1
      /\ \A i \in 1..(Len(active) - 1) : fewer[i] = active[i]
  BY <1>4, WithoutLast
<1>8. /\ less \in Seq(Names \cup {Block}) /\ Len(less) = Len(open) - 1
      /\ \A level \in 1..(Len(open) - 1) : less[level] = open[level]
  BY <1>2, WithoutLast
<1>9. DOMAIN fewer = 1..(Len(active) - 1) /\ DOMAIN less = 1..(Len(open) - 1)
  BY <1>7, <1>8, LenProperties
<1> HIDE DEF fewer, less
<1>10. ASSUME NEW i \in DOMAIN fewer
       PROVE  i \in DOMAIN active /\ at[i] \in DOMAIN less
  <2>1. i \in DOMAIN active /\ i < Len(active) /\ Len(active) \in DOMAIN active
    BY <1>2, <1>4, <1>9
  <2>2. at[i] < at[Len(active)] /\ at[i] \in 1..Len(open)
    BY <1>1, <1>2, <2>1
  <2> QED
    BY <1>2, <1>3, <1>5, <1>9, <2>1, <2>2
<1>11. to \in [DOMAIN fewer -> DOMAIN less]
  BY <1>10
<1>12. \A i, j \in DOMAIN fewer : i < j => to[i] < to[j]
  BY <1>1, <1>10
<1>13. ASSUME NEW level \in DOMAIN less, less[level] # Block
       PROVE  \E i \in DOMAIN fewer : to[i] = level
  <2>1. level \in DOMAIN open /\ open[level] # Block /\ level # Len(open)
    BY <1>2, <1>8, <1>9, <1>13
  <2>2. PICK i \in DOMAIN active : at[i] = level
    BY <1>1, <2>1
  <2>3. i \in DOMAIN fewer
    BY <1>2, <1>3, <1>5, <1>9, <2>1, <2>2
  <2> QED
    BY <2>2, <2>3
<1>14. \A i \in DOMAIN fewer : less[to[i]] = fewer[i].signature
  BY <1>1, <1>7, <1>8, <1>9, <1>10
<1>15. Walks(fewer, less)
  <2> HIDE DEF to
  <2> QED
    BY <1>11, <1>12, <1>13, <1>14 DEF Walks
<1> QED
  BY <1>4, <1>6, <1>15 DEF fewer, less

(* Entering a function makes it active.                                         *)
LEMMA WalksEnter ==
    ASSUME NEW active \in Seq(ActiveFunctions), NEW open \in Seq(Names \cup {Block}),
           Walks(active, open), NEW function \in ActiveFunctions
    PROVE  Walks(Append(active, function), Append(open, function.signature))
<1>1. PICK at \in [DOMAIN active -> DOMAIN open] :
        /\ \A i, j \in DOMAIN active : i < j => at[i] < at[j]
        /\ \A level \in DOMAIN open :
              open[level] # Block => \E i \in DOMAIN active : at[i] = level
        /\ \A i \in DOMAIN active : open[at[i]] = active[i].signature
  BY DEF Walks
<1>2. /\ Len(open) \in Nat /\ DOMAIN open = 1..Len(open)
      /\ Len(active) \in Nat /\ DOMAIN active = 1..Len(active)
  BY LenProperties
<1> DEFINE name == function.signature
           further == Append(active, function)
           more == Append(open, name)
           to == [i \in DOMAIN further |-> IF i \in DOMAIN active THEN at[i] ELSE Len(open) + 1]
<1>3. name \in Names
  BY DEF ActiveFunctions
<1>4. /\ further \in Seq(ActiveFunctions) /\ Len(further) = Len(active) + 1
      /\ \A i \in 1..Len(active) : further[i] = active[i]
      /\ further[Len(active) + 1] = function
  BY AppendProperties
<1>5. /\ more \in Seq(Names \cup {Block}) /\ Len(more) = Len(open) + 1
      /\ \A level \in 1..Len(open) : more[level] = open[level]
      /\ more[Len(open) + 1] = name
  <2> HIDE DEF name
  <2> QED
    BY <1>3, AppendProperties
<1>6. DOMAIN further = 1..(Len(active) + 1) /\ DOMAIN more = 1..(Len(open) + 1)
  BY <1>4, <1>5, LenProperties
<1> HIDE DEF further, more
<1>7. \A i \in DOMAIN active : at[i] \in 1..Len(open)
  BY <1>1, <1>2
<1>8. to \in [DOMAIN further -> DOMAIN more]
  BY <1>2, <1>6, <1>7
<1>9. ASSUME NEW i \in DOMAIN further, NEW j \in DOMAIN further, i < j
      PROVE  to[i] < to[j]
  <2>1. i \in DOMAIN active
    BY <1>2, <1>6, <1>9
  <2>2. CASE j \in DOMAIN active
    BY <1>1, <1>9, <2>1, <2>2
  <2>3. CASE j \notin DOMAIN active
    BY <1>2, <1>7, <2>1, <2>3
  <2> QED
    BY <2>2, <2>3
<1>10. ASSUME NEW level \in DOMAIN more, more[level] # Block
       PROVE  \E i \in DOMAIN further : to[i] = level
  <2>1. CASE level \in DOMAIN open
    <3>1. PICK i \in DOMAIN active : at[i] = level
      BY <1>1, <1>2, <1>5, <1>10, <2>1
    <3>2. i \in DOMAIN further
      BY <1>2, <1>6
    <3> QED
      BY <3>1, <3>2
  <2>2. CASE level = Len(open) + 1
    <3>1. Len(active) + 1 \in DOMAIN further /\ Len(active) + 1 \notin DOMAIN active
      BY <1>2, <1>6
    <3> QED
      BY <2>2, <3>1
  <2> QED
    BY <1>2, <1>6, <2>1, <2>2
<1>11. ASSUME NEW i \in DOMAIN further
       PROVE  more[to[i]] = further[i].signature
  <2>1. CASE i \in DOMAIN active
    BY <1>1, <1>2, <1>4, <1>5, <1>7, <2>1
  <2>2. CASE i \notin DOMAIN active
    <3>1. i = Len(active) + 1
      BY <1>2, <1>6, <2>2
    <3> QED
      BY <1>4, <1>5, <2>2, <3>1
  <2> QED
    BY <2>1, <2>2
<1>12. Walks(further, more)
  <2> HIDE DEF to
  <2> QED
    BY <1>8, <1>9, <1>10, <1>11 DEF Walks
<1> QED
  BY <1>12 DEF further, more

(* What leaving a function does to its entry.                                   *)
LEMMA ExitFunctionWrites ==
    ASSUME StructInv, ExitFunction
    PROVE  LET name   == frames[Len(frames)]
               active == function_stack[Len(function_stack)]
               result == IF ~active.saw_return /\ ~IsKnown(active.inferred_return)
                         THEN Type("Void") ELSE active.inferred_return
           IN  /\ frames # <<>> /\ function_stack # <<>>
               /\ name \in Names /\ active.signature = name
               /\ function_stack' = SubSeq(function_stack, 1, Len(function_stack) - 1)
               /\ function_stack' \in Seq(ActiveFunctions)
               /\ Len(function_stack') = Len(function_stack) - 1
               /\ \A i \in 1..(Len(function_stack) - 1) : function_stack'[i] = function_stack[i]
               /\ Walks(function_stack', frames')
               /\ result \in Types
               /\ registry' \in [Names -> Signatures]
               /\ SameOwners
               /\ registry'[name].parameters = Synced(registry[name].parameters)
               /\ registry'[name].return_type = result
               /\ \A f \in Names : f # name => registry'[f] = registry[f]
<1> DEFINE name   == frames[Len(frames)]
           active == function_stack[Len(function_stack)]
           result == IF ~active.saw_return /\ ~IsKnown(active.inferred_return)
                     THEN Type("Void") ELSE active.inferred_return
           synced == Synced(registry[name].parameters)
<1>1. /\ function_stack \in Seq(ActiveFunctions) /\ frames \in Seq(Names \cup {Block})
      /\ registry \in [Names -> Signatures] /\ types \in [Nodes -> Types]
  BY DEF StructInv, TypeOK
<1>2. /\ frames # <<>> /\ name # Block
      /\ frames' = SubSeq(frames, 1, Len(frames) - 1)
      /\ function_stack' = SubSeq(function_stack, 1, Len(function_stack) - 1)
      /\ registry' = [registry EXCEPT ![name].return_type = result, ![name].parameters = synced]
  BY DEF ExitFunction
<1>3. /\ function_stack # <<>> /\ active.signature = name
      /\ Walks(function_stack', frames')
  BY <1>1, <1>2, WalksLeave DEF StructInv, Nested
<1>4. /\ Len(function_stack) \in Nat /\ Len(function_stack) \in 1..Len(function_stack)
      /\ active.signature \in Names
      /\ active.inferred_return \in Types
  BY <1>1, <1>3, ActiveTyped
<1>5. /\ function_stack' \in Seq(ActiveFunctions)
      /\ Len(function_stack') = Len(function_stack) - 1
      /\ \A i \in 1..(Len(function_stack) - 1) : function_stack'[i] = function_stack[i]
  <2>1. Len(function_stack) >= 1
    BY <1>4
  <2>2. /\ SubSeq(function_stack, 1, Len(function_stack) - 1) \in Seq(ActiveFunctions)
        /\ Len(SubSeq(function_stack, 1, Len(function_stack) - 1)) = Len(function_stack) - 1
        /\ \A i \in 1..(Len(function_stack) - 1) :
              SubSeq(function_stack, 1, Len(function_stack) - 1)[i] = function_stack[i]
    BY <1>1, <2>1, WithoutLast
  <2> QED
    BY <1>2, <2>2
<1>6. name \in Names /\ result \in Types
  BY <1>3, <1>4, TypeTyped
<1>7. /\ synced \in [DOMAIN registry[name].parameters -> Parameters]
      /\ \A i \in DOMAIN registry[name].parameters :
            synced[i].node_id = registry[name].parameters[i].node_id
  <2> HIDE DEF name
  <2> QED
    BY <1>1, <1>6, EntryTyped DEF Synced, Parameter, Parameters
<1> HIDE DEF name, active, result, synced
<1>8. /\ registry' \in [Names -> Signatures]
      /\ SameOwners
      /\ registry'[name].parameters = synced
      /\ registry'[name].return_type = result
      /\ \A f \in Names : f # name => registry'[f] = registry[f]
  <2> DEFINE entry == [node_id |-> registry[name].node_id, parameters |-> synced,
                       return_type |-> result]
  <2>1. registry[name] \in Signatures
    BY <1>1, <1>6
  <2>2. PICK middle : middle = [registry[name] EXCEPT !.return_type = result]
    OBVIOUS
  <2>3. middle \in Signatures /\ middle.node_id = registry[name].node_id
        /\ middle.return_type = result
    BY <1>6, <2>1, <2>2 DEF Signatures
  <2>4. [middle EXCEPT !.parameters = synced] = entry
    BY <2>3 DEF Signatures
  <2>5. PICK written : written = [registry EXCEPT ![name] = middle]
    OBVIOUS
  <2>6. registry' = [written EXCEPT ![name] = [written[name] EXCEPT !.parameters = synced]]
    BY <1>2, <2>2, <2>5
  <2>7. written[name] = middle
    BY <1>1, <1>6, <2>5
  <2>8. registry' = [written EXCEPT ![name] = entry]
    BY <2>4, <2>6, <2>7
  <2>9. registry' = [registry EXCEPT ![name] = entry]
    BY <1>1, <1>6, <2>5, <2>8
  <2>10. registry' = [registry EXCEPT
            ![name] = [node_id |-> registry[name].node_id, parameters |-> synced,
                       return_type |-> result]]
    BY <2>9 DEF entry
  <2> QED
    BY <1>1, <1>6, <1>7, <2>10, EntryWritten, ZenonT(40)
<1> QED
  BY <1>2, <1>3, <1>5, <1>6, <1>8 DEF name, active, result, synced

(* ExitFunction keeps the structure.                                            *)
LEMMA ExitFunctionStruct ==
    ASSUME StructInv, ExitFunction
    PROVE  StructInv'
<1> DEFINE name == frames[Len(frames)]
<1>1. /\ frames # <<>> /\ function_stack # <<>> /\ name \in Names
      /\ function_stack' \in Seq(ActiveFunctions)
      /\ Len(function_stack') = Len(function_stack) - 1
      /\ \A i \in 1..(Len(function_stack) - 1) : function_stack'[i] = function_stack[i]
      /\ Walks(function_stack', frames')
      /\ registry' \in [Names -> Signatures] /\ SameOwners
      /\ registry'[name].parameters = Synced(registry[name].parameters)
      /\ \A f \in Names : f # name => registry'[f] = registry[f]
  BY ExitFunctionWrites
<1>2. /\ frames' = SubSeq(frames, 1, Len(frames) - 1) /\ scopes' = pop_scope(scopes)
      /\ UNCHANGED <<types, binding, operands, reported, next_node, seen, yielded>>
  BY DEF ExitFunction, history
<1>3. /\ frames' \in Seq(Names \cup {Block}) /\ scopes' \in Seq(Scope)
      /\ Len(frames) >= 1 /\ Len(frames) \in Nat /\ DOMAIN frames' = 1..(Len(frames) - 1)
      /\ \A level \in DOMAIN frames' : frames'[level] = frames[level]
  BY <1>1, <1>2, LeaveFrame, StacksTyped DEF Shortened, LeavesFrame
<1>4. Len(scopes') = Len(frames') + 1 /\ Met' /\ Owned' /\ Recorded' /\ ParametersAreScoped'
  BY <1>1, <1>2, LeaveFrameKeeps DEF LeavesFrame
<1> HIDE DEF name
<1>5. TypeOK'
  BY <1>1, <1>2, <1>3 DEF StructInv, TypeOK
<1>6. Nested'
  <2>1. function_stack \in Seq(ActiveFunctions)
    BY DEF StructInv, TypeOK
  <2>2. Len(function_stack) \in Nat /\ DOMAIN function_stack = 1..Len(function_stack)
    BY <2>1, ActiveTyped
  <2>3. DOMAIN function_stack' = 1..(Len(function_stack) - 1)
    BY <1>1, LenProperties
  <2>4. ASSUME NEW i \in DOMAIN function_stack'
        PROVE  IsRegistered(registry', function_stack'[i].signature)
    <3>1. i \in 1..Len(function_stack) /\ function_stack'[i] = function_stack[i]
      BY <1>1, <2>2, <2>3
    <3>2. function_stack[i].signature \in Names
      BY <2>1, <3>1, ActiveTyped
    <3>3. IsRegistered(registry, function_stack[i].signature)
      BY <2>2, <3>1 DEF StructInv, Nested
    <3> QED
      BY <1>1, <3>1, <3>2, <3>3 DEF SameOwners, IsRegistered
  <2> QED
    BY <1>1, <1>4, <2>4 DEF Nested
<1>7. SignaturesInStep'
  <2>1. ASSUME NEW f \in Names, IsActive(f), f # name
        PROVE  IsActive(f)'
    <3>1. PICK level \in DOMAIN frames : frames[level] = f
      BY <2>1 DEF IsActive
    <3>2. level \in 1..Len(frames) /\ level # Len(frames)
      BY <2>1, <3>1, StacksTyped DEF name
    <3> QED
      BY <1>3, <3>1, <3>2 DEF IsActive
  <2>2. ASSUME NEW f \in Names, ~IsActive(f)', NEW i \in DOMAIN registry'[f].parameters
        PROVE  registry'[f].parameters[i].type = types'[registry'[f].parameters[i].node_id]
    <3>1. CASE f = name
      BY <1>1, <1>2, <2>2, <3>1 DEF Synced, Parameter
    <3>2. CASE f # name
      <4>1. SignaturesInStep
        BY DEF StructInv
      <4>2. registry'[f] = registry[f] /\ types' = types /\ ~IsActive(f)
        BY <1>1, <1>2, <2>1, <2>2, <3>2
      <4> QED
        BY <2>2, <4>1, <4>2 DEF SignaturesInStep
    <3> QED
      BY <3>1, <3>2
  <2> QED
    BY <2>2 DEF SignaturesInStep
<1> QED
  BY <1>4, <1>5, <1>6, <1>7 DEF StructInv

(* The entry a function is entered with: the one its name already had, or a     *)
(* fresh one whose nodes follow the function's own.                             *)
LEMMA EnterFunctionEntry ==
    ASSUME StructInv, NEW name \in Names, NEW n \in Nat, NEW names \in [1..n -> Names],
           EnterFunction(name, names)
    PROVE  /\ next_node \in Nodes /\ next_node + n \in Nodes
           /\ next_node' = next_node + n + 1
           /\ registry' \in [Names -> Signatures]
           /\ \A f \in Names : f # name => registry'[f] = registry[f]
           /\ IsRegistered(registry', name)
           /\ IsRegistered(registry, name) => registry' = registry
           /\ ~IsRegistered(registry, name) =>
                 /\ registry'[name].node_id = next_node
                 /\ registry'[name].return_type = Unknown
                 /\ DOMAIN registry'[name].parameters = 1..n
                 /\ \A i \in 1..n :
                       /\ registry'[name].parameters[i].node_id = next_node + i
                       /\ registry'[name].parameters[i].type = Unknown
<1> DEFINE parameters == [i \in 1..n |-> Parameter(names[i], next_node + i, Unknown)]
           fresh == Signature(next_node, parameters)
<1>1. registry \in [Names -> Signatures] /\ next_node \in Nat /\ next_node >= 1
  BY DEF StructInv, TypeOK
<1>2. DOMAIN names = 1..n /\ Len(names) = n
  OBVIOUS
<1>3. /\ registry' = declare(registry, name, fresh)
      /\ next_node + n \in Nodes /\ next_node' = next_node + n + 1
  BY <1>2 DEF EnterFunction
<1>4. next_node \in Nodes /\ \A i \in 1..n : next_node + i \in Nodes
  BY <1>1, <1>3, MaxNodesIsNat DEF Nodes
<1>5. parameters \in [1..n -> Parameters]
  BY <1>4, TypeTyped DEF Parameter, Parameters
<1>6. parameters \in Seq(Parameters)
  <2> HIDE DEF parameters
  <2> QED
    BY <1>5, SeqDef
<1>7. fresh \in Signatures
  <2> HIDE DEF parameters
  <2> QED
    BY <1>4, <1>6, TypeTyped DEF Signature, Signatures
<1>8. /\ fresh.node_id = next_node /\ fresh.return_type = Unknown
      /\ fresh.parameters = parameters
  BY DEF Signature
<1>9. \A i \in 1..n : parameters[i].node_id = next_node + i /\ parameters[i].type = Unknown
  BY DEF Parameter
<1>10. DOMAIN parameters = 1..n
  OBVIOUS
<1> HIDE DEF fresh, parameters
<1>11. CASE IsRegistered(registry, name)
  BY <1>1, <1>3, <1>4, <1>11 DEF declare
<1>12. CASE ~IsRegistered(registry, name)
  <2>1. registry' = [registry EXCEPT ![name] = fresh]
    BY <1>3, <1>12 DEF declare
  <2>2. registry'[name] = fresh /\ registry' \in [Names -> Signatures]
        /\ \A f \in Names : f # name => registry'[f] = registry[f]
    BY <1>1, <1>7, <2>1
  <2>3. IsRegistered(registry', name)
    BY <1>1, <1>8, <2>2 DEF IsRegistered, NoNode
  <2> QED
    BY <1>3, <1>4, <1>8, <1>9, <1>10, <1>12, <2>2, <2>3
<1> QED
  BY <1>11, <1>12

(* Every parameter of the entered function has been met and has a node of its own. *)
LEMMA EnterFunctionOwned ==
    ASSUME StructInv, NEW name \in Names, NEW n \in Nat, NEW names \in [1..n -> Names],
           EnterFunction(name, names)
    PROVE  /\ Owned'
           /\ \A f \in Names : \A i \in DOMAIN registry'[f].parameters :
                 /\ registry'[f].parameters[i].node_id \in Nodes
                 /\ registry'[f].parameters[i].node_id < next_node'
                 /\ registry'[f].parameters[i].node_id # next_node
           /\ \A f \in Names : \A i \in DOMAIN registry'[f].parameters :
                 \/ registry'[f].parameters[i].node_id > next_node
                 \/ /\ i \in DOMAIN registry[f].parameters
                    /\ registry'[f].parameters[i] = registry[f].parameters[i]
<1>1. /\ next_node \in Nodes /\ next_node' = next_node + n + 1
      /\ registry' \in [Names -> Signatures]
      /\ \A f \in Names : f # name => registry'[f] = registry[f]
      /\ IsRegistered(registry, name) => registry' = registry
      /\ ~IsRegistered(registry, name) =>
            /\ DOMAIN registry'[name].parameters = 1..n
            /\ \A i \in 1..n : registry'[name].parameters[i].node_id = next_node + i
  BY EnterFunctionEntry
<1>2. next_node \in Nat
  BY DEF StructInv, TypeOK
<1>3. \A f \in Names : \A i \in DOMAIN registry[f].parameters :
         /\ registry[f].parameters[i].node_id \in Nat
         /\ registry[f].parameters[i].node_id < next_node
  <2>1. \A f \in Names : \A i \in DOMAIN registry[f].parameters :
           registry[f].parameters[i].node_id \in Nodes
    BY EntryTyped DEF StructInv, TypeOK
  <2> QED
    BY <2>1, MaxNodesIsNat DEF StructInv, Met, Nodes
<1>4. \A f \in Names : \A i \in DOMAIN registry'[f].parameters :
         registry'[f].parameters[i].node_id \in Nodes
  BY <1>1, EntryTyped
<1>5. ASSUME NEW f \in Names, NEW i \in DOMAIN registry'[f].parameters
      PROVE  \/ /\ i \in DOMAIN registry[f].parameters
                /\ registry'[f].parameters[i] = registry[f].parameters[i]
             \/ /\ f = name /\ ~IsRegistered(registry, name) /\ i \in 1..n
                /\ registry'[f].parameters[i].node_id = next_node + i
  BY <1>1
<1>6. ASSUME NEW f \in Names, NEW i \in DOMAIN registry'[f].parameters
      PROVE  /\ registry'[f].parameters[i].node_id < next_node'
             /\ registry'[f].parameters[i].node_id # next_node
             /\ \/ registry'[f].parameters[i].node_id > next_node
                \/ /\ i \in DOMAIN registry[f].parameters
                   /\ registry'[f].parameters[i] = registry[f].parameters[i]
  <2>1. CASE /\ i \in DOMAIN registry[f].parameters
             /\ registry'[f].parameters[i] = registry[f].parameters[i]
    BY <1>1, <1>2, <1>3, <2>1
  <2>2. CASE i \in 1..n /\ registry'[f].parameters[i].node_id = next_node + i
    BY <1>1, <1>2, <2>2
  <2> QED
    BY <1>5, <2>1, <2>2
<1>7. ASSUME NEW f \in Names, NEW g \in Names,
             NEW i \in DOMAIN registry'[f].parameters, NEW j \in DOMAIN registry'[g].parameters,
             registry'[f].parameters[i].node_id = registry'[g].parameters[j].node_id
      PROVE  f = g /\ i = j
  <2>1. CASE /\ i \in DOMAIN registry[f].parameters
             /\ registry'[f].parameters[i] = registry[f].parameters[i]
    <3>1. CASE /\ j \in DOMAIN registry[g].parameters
               /\ registry'[g].parameters[j] = registry[g].parameters[j]
      BY <1>7, <2>1, <3>1 DEF StructInv, Owned
    <3>2. CASE j \in 1..n /\ registry'[g].parameters[j].node_id = next_node + j
      BY <1>2, <1>3, <1>7, <2>1, <3>2
    <3> QED
      BY <1>5, <3>1, <3>2
  <2>2. CASE /\ f = name /\ ~IsRegistered(registry, name) /\ i \in 1..n
             /\ registry'[f].parameters[i].node_id = next_node + i
    <3>1. CASE /\ j \in DOMAIN registry[g].parameters
               /\ registry'[g].parameters[j] = registry[g].parameters[j]
      BY <1>2, <1>3, <1>7, <2>2, <3>1
    <3>2. CASE g = name /\ j \in 1..n /\ registry'[g].parameters[j].node_id = next_node + j
      BY <1>2, <1>7, <2>2, <3>2
    <3> QED
      BY <1>5, <3>1, <3>2
  <2> QED
    BY <1>5, <2>1, <2>2
<1>8. binding' = NoNode
  BY DEF EnterFunction, AtStatement
<1>9. Owned'
  <2>1. \A f \in Names : \A i \in DOMAIN registry'[f].parameters :
           registry'[f].parameters[i].node_id # NoNode
    BY <1>4, MaxNodesIsNat DEF Nodes, NoNode
  <2> QED
    BY <1>7, <1>8, <2>1 DEF Owned
<1> QED
  BY <1>4, <1>6, <1>9

(* The scope of a function's parameters holds nothing else.                     *)
LEMMA ParameterScopeTyped ==
    ASSUME NEW parameters \in Seq(Parameters)
    PROVE  /\ ParameterScope(parameters) \in Scope
           /\ \A x \in Names :
                 \/ ParameterScope(parameters)[x] = NoNode
                 \/ \E i \in DOMAIN parameters : ParameterScope(parameters)[x] = parameters[i].node_id
<1>1. \A i \in DOMAIN parameters : parameters[i].node_id \in Nodes
  <2>1. \A i \in DOMAIN parameters : parameters[i] \in Parameters
    BY LenProperties, ElementOfSeq
  <2> QED
    BY <2>1 DEF Parameters
<1>2. ASSUME NEW x \in Names
      PROVE  /\ ParameterScope(parameters)[x] \in Nodes \cup {NoNode}
             /\ \/ ParameterScope(parameters)[x] = NoNode
                \/ \E i \in DOMAIN parameters : ParameterScope(parameters)[x] = parameters[i].node_id
  <2> DEFINE found == Occurrences(parameters, x)
             first == CHOOSE i \in found : TRUE
  <2>1. CASE found = {}
    BY <2>1 DEF ParameterScope
  <2>2. CASE found # {}
    <3>1. first \in found
      BY <2>2
    <3>2. first \in DOMAIN parameters
      BY <3>1 DEF Occurrences
    <3>3. ParameterScope(parameters)[x] = parameters[first].node_id
      BY <2>2 DEF ParameterScope
    <3> HIDE DEF first
    <3> QED
      BY <1>1, <3>2, <3>3
  <2> QED
    BY <2>1, <2>2
<1>3. ParameterScope(parameters) \in Scope
  BY <1>2 DEF ParameterScope, Scope
<1> QED
  BY <1>2, <1>3

(* The types of the function's own node and of its parameters' nodes.           *)
LEMMA EnterFunctionTypes ==
    ASSUME StructInv, NEW name \in Names, NEW n \in Nat, NEW names \in [1..n -> Names],
           EnterFunction(name, names)
    PROVE  LET parameters == registry'[name].parameters
           IN  /\ types' \in [Nodes -> Types]
               /\ \A i \in DOMAIN parameters : types'[parameters[i].node_id] = parameters[i].type
               /\ types'[next_node] = FunctionType(next_node)
               /\ \A node \in Nodes \ {next_node} :
                     (\A i \in DOMAIN parameters : parameters[i].node_id # node) =>
                        types'[node] = types[node]
<1> DEFINE parameters == registry'[name].parameters
           named == [types EXCEPT ![next_node] = FunctionType(next_node)]
<1>1. /\ next_node \in Nodes /\ registry' \in [Names -> Signatures]
  BY EnterFunctionEntry
<1>2. types \in [Nodes -> Types]
  BY DEF StructInv, TypeOK
<1>3. types' = Assigned(named, parameters)
  BY DEF EnterFunction
<1>4. \A i \in DOMAIN parameters :
         /\ parameters[i].type \in Types
         /\ parameters[i].node_id \in Nodes
         /\ parameters[i].node_id # next_node
  BY <1>1, EntryTyped, EnterFunctionOwned
<1>5. \A i, j \in DOMAIN parameters : parameters[i].node_id = parameters[j].node_id => i = j
  BY EnterFunctionOwned DEF Owned
<1>6. named \in [Nodes -> Types]
  BY <1>1, <1>2, TypeTyped
<1>7. /\ named[next_node] = FunctionType(next_node)
      /\ \A node \in Nodes \ {next_node} : named[node] = types[node]
  BY <1>1, <1>2
<1> HIDE DEF parameters, named
<1>8. ASSUME NEW i \in DOMAIN parameters
      PROVE  types'[parameters[i].node_id] = parameters[i].type
  <2> DEFINE found == CHOOSE j \in DOMAIN parameters : parameters[j].node_id = parameters[i].node_id
  <2>1. found = i
    BY <1>5
  <2>2. types'[parameters[i].node_id] = parameters[found].type
    BY <1>3, <1>4 DEF Assigned
  <2> QED
    BY <2>1, <2>2
<1>9. ASSUME NEW node \in Nodes, \A i \in DOMAIN parameters : parameters[i].node_id # node
      PROVE  types'[node] = named[node]
  BY <1>3, <1>9 DEF Assigned
<1>10. types' \in [Nodes -> Types]
  <2>1. ASSUME NEW node \in Nodes
        PROVE  types'[node] \in Types
    <3>1. CASE \A i \in DOMAIN parameters : parameters[i].node_id # node
      BY <1>6, <1>9, <3>1
    <3>2. CASE \E i \in DOMAIN parameters : parameters[i].node_id = node
      BY <1>4, <1>8, <3>2
    <3> QED
      BY <3>1, <3>2
  <2> QED
    BY <1>3, <2>1 DEF Assigned
<1> QED
  BY <1>1, <1>4, <1>7, <1>8, <1>9, <1>10 DEF parameters

(* The scopes and frames within the function.                                   *)
LEMMA EnterFunctionScopes ==
    ASSUME StructInv, NEW name \in Names, NEW n \in Nat, NEW names \in [1..n -> Names],
           EnterFunction(name, names)
    PROVE  LET parameters == registry'[name].parameters
           IN  /\ scopes' \in Seq(Scope)
               /\ Len(scopes') = Len(scopes) + 1
               /\ DOMAIN scopes' = 1..(Len(scopes) + 1)
               /\ \A level \in 1..Len(scopes), x \in Names :
                     scopes'[level][x] = scopes[level][x] \/ scopes'[level][x] = next_node
               /\ \A x \in Names :
                     \/ scopes'[Len(scopes) + 1][x] = NoNode
                     \/ \E i \in DOMAIN parameters :
                           scopes'[Len(scopes) + 1][x] = parameters[i].node_id
               /\ frames' \in Seq(Names \cup {Block})
               /\ Len(frames') = Len(frames) + 1
               /\ DOMAIN frames' = 1..(Len(frames) + 1)
               /\ \A level \in DOMAIN frames : frames'[level] = frames[level]
               /\ frames'[Len(frames) + 1] = name
<1> DEFINE parameters == registry'[name].parameters
           outer == insert(scopes, name, next_node)
<1>1. /\ next_node \in Nodes /\ registry' \in [Names -> Signatures]
  BY EnterFunctionEntry
<1>2. /\ scopes \in Seq(Scope) /\ Len(scopes) \in Nat /\ Len(scopes) >= 1
      /\ frames \in Seq(Names \cup {Block}) /\ Len(frames) \in Nat
      /\ DOMAIN frames = 1..Len(frames)
  BY StacksTyped
<1>3. /\ scopes' = push_scope(outer, ParameterScope(parameters))
      /\ frames' = Append(frames, name)
  BY DEF EnterFunction
<1>4. parameters \in Seq(Parameters)
  BY <1>1, EntryTyped
<1>5. /\ outer \in Seq(Scope) /\ Len(outer) = Len(scopes)
      /\ \A level \in 1..Len(scopes), x \in Names :
            outer[level][x] = scopes[level][x] \/ outer[level][x] = next_node
  BY <1>1, <1>2, ScopesTyped
<1> HIDE DEF parameters, outer
<1>6. ParameterScope(parameters) \in Scope
  BY <1>4, ParameterScopeTyped
<1>7. /\ scopes' \in Seq(Scope) /\ Len(scopes') = Len(outer) + 1
      /\ \A level \in 1..Len(outer) : scopes'[level] = outer[level]
      /\ scopes'[Len(outer) + 1] = ParameterScope(parameters)
  BY <1>3, <1>5, <1>6, AppendProperties DEF push_scope
<1>8. /\ frames' \in Seq(Names \cup {Block}) /\ Len(frames') = Len(frames) + 1
      /\ \A level \in 1..Len(frames) : frames'[level] = frames[level]
      /\ frames'[Len(frames) + 1] = name
  BY <1>2, <1>3, AppendProperties
<1>9. DOMAIN scopes' = 1..Len(scopes') /\ DOMAIN frames' = 1..Len(frames')
  BY <1>7, <1>8, LenProperties
<1>10. \A x \in Names :
          \/ scopes'[Len(scopes) + 1][x] = NoNode
          \/ \E i \in DOMAIN parameters : scopes'[Len(scopes) + 1][x] = parameters[i].node_id
  BY <1>4, <1>5, <1>7, ParameterScopeTyped
<1>11. \A level \in 1..Len(scopes), x \in Names :
          scopes'[level][x] = scopes[level][x] \/ scopes'[level][x] = next_node
  BY <1>5, <1>7
<1> QED
  BY <1>2, <1>5, <1>7, <1>8, <1>9, <1>10, <1>11 DEF parameters

(* EnterFunction keeps the structure.                                           *)
LEMMA EnterFunctionStruct ==
    ASSUME StructInv, NEW name \in Names, NEW n \in Nat, NEW names \in [1..n -> Names],
           EnterFunction(name, names)
    PROVE  StructInv'
<1>1. /\ next_node \in Nodes /\ next_node + n \in Nodes /\ next_node' = next_node + n + 1
      /\ registry' \in [Names -> Signatures]
      /\ \A f \in Names : f # name => registry'[f] = registry[f]
      /\ IsRegistered(registry', name)
      /\ IsRegistered(registry, name) => registry' = registry
  BY EnterFunctionEntry
<1>2. /\ Owned'
      /\ \A f \in Names : \A i \in DOMAIN registry'[f].parameters :
            /\ registry'[f].parameters[i].node_id \in Nodes
            /\ registry'[f].parameters[i].node_id < next_node'
            /\ registry'[f].parameters[i].node_id # next_node
            /\ \/ registry'[f].parameters[i].node_id > next_node
               \/ /\ i \in DOMAIN registry[f].parameters
                  /\ registry'[f].parameters[i] = registry[f].parameters[i]
  BY EnterFunctionOwned
<1>3. /\ scopes' \in Seq(Scope)
      /\ Len(scopes') = Len(scopes) + 1
      /\ DOMAIN scopes' = 1..(Len(scopes) + 1)
      /\ \A level \in 1..Len(scopes), x \in Names :
            scopes'[level][x] = scopes[level][x] \/ scopes'[level][x] = next_node
      /\ \A x \in Names :
            \/ scopes'[Len(scopes) + 1][x] = NoNode
            \/ \E i \in DOMAIN registry'[name].parameters :
                  scopes'[Len(scopes) + 1][x] = registry'[name].parameters[i].node_id
      /\ frames' \in Seq(Names \cup {Block})
      /\ Len(frames') = Len(frames) + 1
      /\ DOMAIN frames' = 1..(Len(frames) + 1)
      /\ \A level \in DOMAIN frames : frames'[level] = frames[level]
      /\ frames'[Len(frames) + 1] = name
  BY EnterFunctionScopes
<1>4. /\ types' \in [Nodes -> Types]
      /\ \A node \in Nodes \ {next_node} :
            (\A i \in DOMAIN registry'[name].parameters :
                registry'[name].parameters[i].node_id # node) => types'[node] = types[node]
  BY EnterFunctionTypes
<1>5. /\ Len(scopes) \in Nat /\ Len(scopes) >= 1 /\ Len(frames) \in Nat
      /\ DOMAIN scopes = 1..Len(scopes) /\ DOMAIN frames = 1..Len(frames)
      /\ Len(scopes) = Len(frames) + 1
      /\ \A level \in 1..Len(scopes), x \in Names :
            scopes[level][x] \in Nodes \cup {NoNode} /\ scopes[level][x] < next_node
  BY StacksTyped DEF StructInv, Met
<1>6. next_node \in Nat /\ next_node >= 1 /\ seen \in [Nodes -> SUBSET Types]
  BY DEF StructInv, TypeOK
<1>7. /\ seen' = [seen EXCEPT ![next_node] = {FunctionType(next_node)}]
      /\ function_stack' = Append(function_stack, ActiveFunction(name))
      /\ frames' = Append(frames, name)
      /\ binding' = NoNode
      /\ UNCHANGED <<binding, operands, yielded>>
  BY DEF EnterFunction, AtStatement
<1>8. ActiveFunction(name) \in ActiveFunctions /\ ActiveFunction(name).signature = name
  BY TypeTyped DEF ActiveFunction, ActiveFunctions
<1>9. function_stack \in Seq(ActiveFunctions) /\ frames \in Seq(Names \cup {Block})
  BY DEF StructInv, TypeOK
<1>10. /\ function_stack' \in Seq(ActiveFunctions)
       /\ Len(function_stack') = Len(function_stack) + 1
       /\ \A i \in 1..Len(function_stack) : function_stack'[i] = function_stack[i]
       /\ function_stack'[Len(function_stack) + 1] = ActiveFunction(name)
  BY <1>7, <1>8, <1>9, AppendProperties
<1>11. TypeOK'
  <2>1. reported' \in SUBSET DiagCodes
    BY ReportTyped DEF EnterFunction, StructInv, TypeOK
  <2>2. seen' \in [Nodes -> SUBSET Types]
    BY <1>1, <1>6, <1>7, TypeTyped
  <2>3. next_node' \in 1..(MaxNodes + 1)
    BY <1>1, <1>6, MaxNodesIsNat DEF Nodes
  <2>4. operands' \in Seq(Operands) /\ yielded' \in [Names -> SUBSET Types]
    BY <1>7 DEF StructInv, TypeOK
  <2> QED
    BY <1>1, <1>3, <1>4, <1>7, <1>10, <2>1, <2>2, <2>3, <2>4 DEF TypeOK
<1>12. Nested'
  <2>1. Walks(function_stack', frames')
    BY <1>7, <1>8, <1>9, WalksEnter DEF StructInv, Nested
  <2>2. Len(function_stack) \in Nat /\ DOMAIN function_stack = 1..Len(function_stack)
    BY <1>9, ActiveTyped
  <2>3. DOMAIN function_stack' = 1..(Len(function_stack) + 1)
    BY <1>10, LenProperties
  <2>4. ASSUME NEW i \in DOMAIN function_stack'
        PROVE  IsRegistered(registry', function_stack'[i].signature)
    <3>1. CASE i \in DOMAIN function_stack
      <4>1. function_stack[i].signature \in Names /\ IsRegistered(registry, function_stack[i].signature)
        BY <1>9, <3>1, ActiveTyped DEF StructInv, Nested
      <4>2. function_stack'[i] = function_stack[i]
        BY <1>10, <2>2, <3>1
      <4> QED
        BY <1>1, <4>1, <4>2 DEF IsRegistered
    <3>2. CASE i = Len(function_stack) + 1
      BY <1>1, <1>8, <1>10, <3>2
    <3> QED
      BY <2>2, <2>3, <3>1, <3>2
  <2> QED
    BY <1>3, <1>5, <2>1, <2>4 DEF Nested
<1>13. Met'
  <2>1. ASSUME NEW level \in DOMAIN scopes', NEW x \in Names
        PROVE  scopes'[level][x] < next_node'
    <3>1. CASE level \in 1..Len(scopes)
      <4>1. /\ scopes[level][x] \in Int /\ scopes[level][x] < next_node
            /\ scopes'[level][x] = scopes[level][x] \/ scopes'[level][x] = next_node
        BY <1>3, <1>5, <3>1, MaxNodesIsNat DEF Nodes, NoNode
      <4> QED
        BY <1>1, <1>6, <4>1
    <3>2. CASE level = Len(scopes) + 1
      <4>1. CASE scopes'[Len(scopes) + 1][x] = NoNode
        BY <1>1, <1>6, <3>2, <4>1 DEF NoNode
      <4>2. CASE scopes'[Len(scopes) + 1][x] # NoNode
        <5>1. PICK i \in DOMAIN registry'[name].parameters :
                 scopes'[Len(scopes) + 1][x] = registry'[name].parameters[i].node_id
          BY <1>3, <4>2
        <5>2. registry'[name].parameters[i].node_id < next_node'
          BY <1>2
        <5> QED
          BY <3>2, <5>1, <5>2
      <4> QED
        BY <4>1, <4>2
    <3> QED
      BY <1>3, <1>5, <3>1, <3>2
  <2>2. \A f \in Names : \A i \in DOMAIN registry'[f].parameters :
           registry'[f].parameters[i].node_id < next_node'
    BY <1>2
  <2>3. binding' < next_node'
    BY <1>1, <1>6, <1>7 DEF NoNode
  <2>4. ASSUME NEW node \in Nodes, node >= next_node'
        PROVE  seen'[node] = {}
    <3>1. node \in Nat /\ node >= next_node /\ node # next_node
      BY <1>1, <1>6, <2>4, MaxNodesIsNat DEF Nodes
    <3> QED
      BY <1>6, <1>7, <3>1 DEF StructInv, Met
  <2> QED
    BY <2>1, <2>2, <2>3, <2>4 DEF Met
<1>14. Recorded'
  <2>1. ASSUME NEW node \in Nodes, NEW t \in seen'[node]
        PROVE  IsKnown(t)
    BY <1>6, <1>7, <2>1 DEF StructInv, Recorded, IsKnown, FunctionType
  <2>2. ASSUME NEW f \in Names, ~IsRegistered(registry', f)
        PROVE  yielded'[f] = {}
    BY <1>1, <1>7, <2>2 DEF StructInv, Recorded, IsRegistered
  <2> QED
    BY <1>7, <2>1, <2>2 DEF StructInv, Recorded
<1>15. ParametersAreScoped'
  <2>1. ASSUME NEW level \in DOMAIN scopes', NEW x \in Names, NEW f \in Names,
               NEW i \in DOMAIN registry'[f].parameters,
               scopes'[level][x] = registry'[f].parameters[i].node_id
        PROVE  level - 1 \in DOMAIN frames' /\ frames'[level - 1] = f
    <3>1. registry'[f].parameters[i].node_id # NoNode
      BY <1>2, MaxNodesIsNat DEF Nodes, NoNode
    <3>2. CASE level \in 1..Len(scopes)
      <4>1. scopes[level][x] = registry'[f].parameters[i].node_id
        BY <1>2, <1>3, <2>1, <3>2
      <4>2. /\ i \in DOMAIN registry[f].parameters
            /\ scopes[level][x] = registry[f].parameters[i].node_id
        <5>1. scopes[level][x] \in Int /\ scopes[level][x] < next_node
          BY <1>5, <3>2, MaxNodesIsNat DEF Nodes, NoNode
        <5> QED
          BY <1>2, <1>6, <4>1, <5>1
      <4>3. level - 1 \in DOMAIN frames /\ frames[level - 1] = f
        BY <1>5, <3>2, <4>2 DEF StructInv, ParametersAreScoped
      <4> QED
        BY <1>3, <1>5, <4>3
    <3>3. CASE level = Len(scopes) + 1
      <4>1. PICK j \in DOMAIN registry'[name].parameters :
               scopes'[level][x] = registry'[name].parameters[j].node_id
        BY <1>3, <2>1, <3>1, <3>3
      <4>2. registry'[f].parameters[i].node_id = registry'[name].parameters[j].node_id
        BY <2>1, <4>1
      <4>3. Owned'
        BY <1>2
      <4>4. f = name
        BY <4>2, <4>3 DEF Owned
      <4> QED
        BY <1>3, <1>5, <3>3, <4>4
    <3> QED
      BY <1>3, <1>5, <3>2, <3>3
  <2> QED
    BY <2>1 DEF ParametersAreScoped
<1>16. SignaturesInStep'
  <2>1. ASSUME NEW f \in Names, ~IsActive(f)'
        PROVE  ~IsActive(f) /\ f # name
    BY <1>3, <1>5, <2>1 DEF IsActive
  <2>2. ASSUME NEW f \in Names, ~IsActive(f)', NEW i \in DOMAIN registry'[f].parameters
        PROVE  registry'[f].parameters[i].type = types'[registry'[f].parameters[i].node_id]
    <3>1. ~IsActive(f) /\ f # name /\ registry'[f] = registry[f]
      BY <1>1, <2>1, <2>2
    <3>2. registry[f].parameters[i].type = types[registry[f].parameters[i].node_id]
      BY <2>2, <3>1 DEF StructInv, SignaturesInStep
    <3>3. /\ registry[f].parameters[i].node_id \in Nodes \ {next_node}
          /\ \A j \in DOMAIN registry'[name].parameters :
                registry'[name].parameters[j].node_id # registry[f].parameters[i].node_id
      BY <1>2, <2>2, <3>1 DEF Owned
    <3> QED
      BY <1>4, <3>1, <3>2, <3>3
  <2> QED
    BY <2>2 DEF SignaturesInStep
<1> QED
  BY <1>2, <1>11, <1>12, <1>13, <1>14, <1>15, <1>16 DEF StructInv

-------------------------------------------------------------------------------
(* The theorems.                                                                *)

(* A walk begins with the structure ...                                         *)
LEMMA InitStruct ==
    ASSUME Init
    PROVE  StructInv
<1>1. /\ scopes = <<EmptyScope>> /\ registry = EmptyRegistry
      /\ types = [node \in Nodes |-> Unknown] /\ function_stack = <<>> /\ frames = <<>>
      /\ binding = NoNode /\ operands = <<>> /\ reported = {} /\ next_node = 1
      /\ seen = [node \in Nodes |-> {}] /\ yielded = [name \in Names |-> {}]
  BY DEF Init
<1>2. /\ scopes \in Seq(Scope) /\ DOMAIN scopes = {1} /\ Len(scopes) = 1
      /\ scopes[1] = EmptyScope
  <2>1. EmptyScope \in Scope
    BY DEF EmptyScope, Scope
  <2> QED
    BY <1>1, <2>1
<1>3. /\ registry \in [Names -> Signatures]
      /\ \A f \in Names : registry[f].node_id = NoNode /\ DOMAIN registry[f].parameters = {}
  <2>1. NoSignature \in Signatures
    BY TypeTyped, EmptySeq DEF NoSignature, Signature, Signatures
  <2> QED
    BY <1>1, <2>1 DEF EmptyRegistry, NoSignature, Signature
<1>4. /\ function_stack \in Seq(ActiveFunctions) /\ frames \in Seq(Names \cup {Block})
      /\ operands \in Seq(Operands) /\ DOMAIN function_stack = {} /\ DOMAIN frames = {}
      /\ Len(frames) = 0
  BY <1>1
<1>5. TypeOK
  BY <1>1, <1>2, <1>3, <1>4, TypeTyped, MaxNodesIsNat DEF TypeOK
<1>6. Nested
  <2>1. Walks(function_stack, frames)
    <3>1. [i \in DOMAIN function_stack |-> 1] \in [DOMAIN function_stack -> DOMAIN frames]
      BY <1>4
    <3> QED
      BY <1>4, <3>1 DEF Walks
  <2> QED
    BY <1>2, <1>4, <2>1 DEF Nested
<1>7. Met
  BY <1>1, <1>2, <1>3 DEF Met, EmptyScope, NoNode
<1>8. Owned /\ Recorded
  BY <1>1, <1>3 DEF Owned, Recorded
<1>9. ParametersAreScoped /\ SignaturesInStep
  BY <1>3 DEF ParametersAreScoped, SignaturesInStep
<1> QED
  BY <1>5, <1>6, <1>7, <1>8, <1>9 DEF StructInv

(* ... and every step keeps it.                                                 *)
LEMMA NextStruct ==
    ASSUME StructInv, [Next]_vars
    PROVE  StructInv'
<1>1. ASSUME NEW kind \in LiteralKinds, analyze_literal(kind)
      PROVE  StructInv'
  BY <1>1, LiteralStruct
<1>2. ASSUME NEW name \in Names, analyze_identifier(name)
      PROVE  StructInv'
  BY <1>2, IdentifierStruct
<1>3. CASE analyze_binary
  BY <1>3, BinaryStruct
<1>4. CASE analyze_unary_or_group
  BY <1>4, UnaryOrGroupStruct
<1>5. CASE analyze_assignment
  BY <1>5, AssignmentStruct
<1>6. ASSUME NEW n \in 0..MaxParams, analyze_call(n)
      PROVE  StructInv'
  BY <1>6, CallStruct
<1>7. ASSUME NEW name \in Names, BeginLet(name)
      PROVE  StructInv'
  BY <1>7, BeginLetStruct
<1>8. CASE EndLet
  BY <1>8, EndLetStruct
<1>9. CASE analyze_expression_statement
  BY <1>9, ExpressionStatementStruct
<1>10. CASE analyze_return_value
  <2>1. operands \in Seq(Operands)
    BY DEF StructInv, TypeOK
  <2>2. Top.type \in Types /\ returns(Top.type)
    BY <1>10, <2>1, OperandsTyped DEF analyze_return_value, Top
  <2> QED
    BY <2>2, ReturnsStruct
<1>11. CASE analyze_return_void
  BY <1>11, TypeTyped, ReturnsStruct DEF analyze_return_void
<1>12. CASE EnterBlock
  BY <1>12, EnterBlockStruct
<1>13. CASE ExitBlock
  BY <1>13, ExitBlockStruct
<1>14. ASSUME NEW name \in Names, NEW n \in 0..MaxParams, NEW names \in [1..n -> Names],
              EnterFunction(name, names)
       PROVE  StructInv'
  BY <1>14, BoundsAreNats, EnterFunctionStruct
<1>15. CASE ExitFunction
  BY <1>15, ExitFunctionStruct
<1>16. CASE UNCHANGED vars
  <2>1. operands' \in Seq(Operands) /\ reported' \in SUBSET DiagCodes
    BY <1>16 DEF vars, StructInv, TypeOK
  <2> QED
    BY <1>16, <2>1, QuietStep DEF vars, history
<1> QED
  BY <1>1, <1>2, <1>3, <1>4, <1>5, <1>6, <1>7, <1>8, <1>9, <1>10, <1>11, <1>12, <1>13,
     <1>14, <1>15, <1>16 DEF Next

(* analyze_node: through the walk of every tree, whatever it declares, shadows  *)
(* or redefines, the scopes and the active functions are those of the frames    *)
(* entered, and no node is declared twice.                                      *)
THEOREM WalkIsStructured == Spec => []StructInv
<1>1. Init => StructInv
  BY InitStruct
<1>2. StructInv /\ [Next]_vars => StructInv'
  BY NextStruct
<1> QED
  BY <1>1, <1>2, PTL DEF Spec

(* Every variable of the analyzer's walk keeps its type.                        *)
THEOREM AnalyzerTypeCorrect == Spec => []TypeOK
<1>1. StructInv => TypeOK
  BY DEF StructInv
<1> QED
  BY <1>1, WalkIsStructured, PTL

(* SymbolTable: a parameter can be named only while its function's body is      *)
(* walked, in that function's own scope, whatever is shadowed or redefined.     *)
THEOREM ParametersStayScoped == Spec => []ParametersAreScoped
<1>1. StructInv => ParametersAreScoped
  BY DEF StructInv
<1> QED
  BY <1>1, WalkIsStructured, PTL

(* FunctionRegistry: outside a function's body the parameter types of its       *)
(* signature are those of its parameter nodes, in rejected programs too.        *)
THEOREM SignaturesStayInStep == Spec => []SignaturesInStep
<1>1. StructInv => SignaturesInStep
  BY DEF StructInv
<1> QED
  BY <1>1, WalkIsStructured, PTL

-------------------------------------------------------------------------------
(* Every accepted program, one in which the analyzer reported no mismatch and no *)
(* duplicate: its variables and its functions have one type each, and the IR's   *)
(* signatures tell them apart as the analyzer does.                              *)

\* The codes that reject a program are among those kept track of.
Watching == {"SemTypeMismatch", "SemDuplicateSymbol"} \subseteq WatchedCodes

-------------------------------------------------------------------------------
(* The inductive invariant of accepted programs.                                *)

\* A function type's node is a registered function's.
Resolves(table, type) ==
    type.kind = "Function" => RegisteredAs(table, type.reference) # {}

\* A node has every known type it was given since it was declared.
SeenAgree == \A node \in Nodes : seen[node] \subseteq {types[node]}

\* A signature has every known return type its function was found to have.
YieldedAgree == \A name \in Names : yielded[name] \subseteq {registry[name].return_type}

\* What an active function returned so far is the return type its signature
\* shows, and no two active functions share a signature.
ActiveAgree ==
    /\ \A i \in DOMAIN function_stack :
          registry[function_stack[i].signature].return_type = function_stack[i].inferred_return
    /\ \A i, j \in DOMAIN function_stack :
          function_stack[i].signature = function_stack[j].signature => i = j

\* No type that can still be written to a node is that of a function without entry.
AllResolve ==
    /\ \A node \in Nodes : Resolves(registry, types[node])
    /\ \A name \in Names : Resolves(registry, registry[name].return_type)
    /\ \A i \in DOMAIN operands : Resolves(registry, operands[i].type)

Agreed == SeenAgree /\ YieldedAgree /\ ActiveAgree /\ AllResolve

Agreement == Accepted => Agreed

-------------------------------------------------------------------------------
(* Lemmas on types and reports.                                                 *)

(* Unification invents no type but Unknown.                                     *)
LEMMA UnifyResolves ==
    ASSUME NEW table, NEW l, NEW r, Resolves(table, l), Resolves(table, r)
    PROVE  Resolves(table, unify_types(l, r)) /\ Resolves(table, pick_known(l, r))
<1>1. /\ unify_types(l, r) = l \/ unify_types(l, r) = r \/ unify_types(l, r) = Unknown
      /\ pick_known(l, r) = l \/ pick_known(l, r) = r
  BY DEF unify_types, pick_known
<1>2. Resolves(table, Unknown)
  BY DEF Resolves, Unknown, Type
<1> QED
  BY <1>1, <1>2

(* A plain type refers to no function.                                          *)
LEMMA PlainResolves ==
    ASSUME NEW table
    PROVE  /\ \A kind \in PlainKinds : Resolves(table, Type(kind))
           /\ Resolves(table, Unknown) /\ Resolves(table, Type("Void"))
BY DEF Resolves, Type, Unknown, PlainKinds

(* What resolves goes on resolving while the entries keep their nodes.          *)
LEMMA ResolvesKept ==
    ASSUME NEW before, NEW after, NEW type, Resolves(before, type),
           \A f \in Names : IsRegistered(before, f) => after[f].node_id = before[f].node_id
    PROVE  Resolves(after, type)
BY DEF Resolves, RegisteredAs, IsRegistered

(* What was not reported in a step that leaves the program accepted.            *)
LEMMA NotReported ==
    ASSUME Watching, NEW codes, report(codes), Accepted'
    PROVE  "SemTypeMismatch" \notin codes /\ "SemDuplicateSymbol" \notin codes
<1>1. PICK mismatch, duplicate : mismatch = "SemTypeMismatch" /\ duplicate = "SemDuplicateSymbol"
  OBVIOUS
<1>2. mismatch \in WatchedCodes /\ duplicate \in WatchedCodes
  BY <1>1 DEF Watching
<1>3. reported' = reported \cup (codes \cap WatchedCodes)
  BY DEF report
<1>4. mismatch \notin reported' /\ duplicate \notin reported'
  BY <1>1 DEF Accepted
<1> QED
  BY <1>1, <1>2, <1>3, <1>4

(* A program once rejected stays so.                                            *)
LEMMA ReportsAreKept ==
    ASSUME [Next]_vars, Accepted'
    PROVE  Accepted
<1>1. reported \subseteq reported'
  <2>1. CASE UNCHANGED vars
    BY <2>1 DEF vars
  <2>2. CASE \E kind \in LiteralKinds : analyze_literal(kind)
    BY <2>2 DEF analyze_literal
  <2>3. CASE \E name \in Names : analyze_identifier(name)
    BY <2>3 DEF analyze_identifier, report
  <2>4. CASE analyze_binary
    BY <2>4 DEF analyze_binary, report
  <2>5. CASE analyze_unary_or_group
    BY <2>5 DEF analyze_unary_or_group
  <2>6. CASE analyze_assignment
    BY <2>6, SMTT(30) DEF analyze_assignment, report
  <2>7. CASE \E n \in 0..MaxParams : analyze_call(n)
    BY <2>7 DEF analyze_call, CheckedCall, report
  <2>8. CASE \E name \in Names : BeginLet(name)
    BY <2>8 DEF BeginLet, report
  <2>9. CASE EndLet
    BY <2>9 DEF EndLet
  <2>10. CASE analyze_expression_statement
    BY <2>10, Zenon DEF analyze_expression_statement
  <2>11. CASE analyze_return_value \/ analyze_return_void
    BY <2>11 DEF analyze_return_value, analyze_return_void, returns, report
  <2>12. CASE EnterBlock \/ ExitBlock
    BY <2>12 DEF EnterBlock, ExitBlock
  <2>13. CASE \E name \in Names, n \in 0..MaxParams :
                \E names \in [1..n -> Names] : EnterFunction(name, names)
    BY <2>13 DEF EnterFunction, report
  <2>14. CASE ExitFunction
    BY <2>14 DEF ExitFunction
  <2> QED
    BY <2>1, <2>2, <2>3, <2>4, <2>5, <2>6, <2>7, <2>8, <2>9, <2>10, <2>11, <2>12, <2>13,
       <2>14 DEF Next
<1>2. PICK mismatch, duplicate : mismatch = "SemTypeMismatch" /\ duplicate = "SemDuplicateSymbol"
  OBVIOUS
<1> QED
  BY <1>1, <1>2 DEF Accepted

-------------------------------------------------------------------------------
(* Steps that only compute operands.                                            *)

(* A step that only computes operands, of types that resolve.                   *)
LEMMA QuietAgreed ==
    ASSUME Agreed, UNCHANGED <<registry, types, function_stack, history>>,
           \A i \in DOMAIN operands' : Resolves(registry, operands'[i].type)
    PROVE  Agreed'
<1>1. SeenAgree' /\ YieldedAgree'
  BY DEF Agreed, SeenAgree, YieldedAgree, history
<1>2. ActiveAgree'
  BY DEF Agreed, ActiveAgree
<1>3. AllResolve'
  BY DEF Agreed, AllResolve
<1> QED
  BY <1>1, <1>2, <1>3 DEF Agreed

(* A computed type that resolves leaves operands that resolve.                  *)
LEMMA ComputeResolves ==
    ASSUME operands \in Seq(Operands), NEW n \in 0..Len(operands),
           NEW type \in Types, NEW name \in Names \cup {NoName}, Compute(n, type, name),
           NEW table, Resolves(table, type),
           \A i \in DOMAIN operands : Resolves(table, operands[i].type)
    PROVE  \A i \in DOMAIN operands' : Resolves(table, operands'[i].type)
<1>1. \A i \in DOMAIN operands' :
         operands'[i].type = type \/ \E j \in DOMAIN operands : operands'[i] = operands[j]
  BY ComputeTyped
<1> QED
  BY <1>1

(* analyze_literal keeps what an accepted program agrees on.                    *)
LEMMA LiteralAgreed ==
    ASSUME StructInv, Agreed, NEW kind \in LiteralKinds, analyze_literal(kind)
    PROVE  Agreed'
<1>1. operands \in Seq(Operands) /\ Len(operands) \in Nat
  BY LenProperties DEF StructInv, TypeOK
<1>2. Type(kind) \in Types /\ Resolves(registry, Type(kind))
  BY TypeTyped, PlainResolves, LiteralKindsArePlain
<1>3. Compute(0, Type(kind), NoName) /\ 0 \in 0..Len(operands)
  BY <1>1 DEF analyze_literal
<1>4. \A i \in DOMAIN operands' : Resolves(registry, operands'[i].type)
  BY <1>1, <1>2, <1>3, ComputeResolves DEF Agreed, AllResolve
<1> QED
  BY <1>4, QuietAgreed DEF analyze_literal, history

(* analyze_identifier keeps what an accepted program agrees on.                 *)
LEMMA IdentifierAgreed ==
    ASSUME StructInv, Agreed, NEW name \in Names, analyze_identifier(name)
    PROVE  Agreed'
<1> DEFINE node == lookup(scopes, name)
           type == IF node = NoNode THEN Unknown ELSE types[node]
<1>1. operands \in Seq(Operands) /\ Len(operands) \in Nat /\ types \in [Nodes -> Types]
  BY LenProperties DEF StructInv, TypeOK
<1>2. type \in Types /\ Resolves(registry, type)
  BY <1>1, TypeTyped, PlainResolves, FoundDeclaration DEF Agreed, AllResolve
<1>3. Compute(0, type, name) /\ 0 \in 0..Len(operands)
  BY <1>1 DEF analyze_identifier
<1> HIDE DEF type
<1>4. \A i \in DOMAIN operands' : Resolves(registry, operands'[i].type)
  BY <1>1, <1>2, <1>3, ComputeResolves DEF Agreed, AllResolve
<1> QED
  BY <1>4, QuietAgreed DEF analyze_identifier, history

(* analyze_binary keeps what an accepted program agrees on.                     *)
LEMMA BinaryAgreed ==
    ASSUME StructInv, Agreed, analyze_binary
    PROVE  Agreed'
<1> DEFINE left  == operands[Len(operands) - 1].type
           right == Top.type
           type  == unify_types(left, right)
<1>1. operands \in Seq(Operands)
  BY DEF StructInv, TypeOK
<1>2. /\ Len(operands) \in Nat /\ Len(operands) >= 2
      /\ Len(operands) - 1 \in DOMAIN operands /\ Len(operands) \in DOMAIN operands
      /\ left \in Types /\ right \in Types
  <2>1. Len(operands) \in Nat /\ Len(operands) >= 2 /\ DOMAIN operands = 1..Len(operands)
    BY <1>1, OperandsTyped DEF analyze_binary
  <2>2. Len(operands) - 1 \in 1..Len(operands) /\ Len(operands) \in 1..Len(operands)
    BY <2>1
  <2> QED
    BY <1>1, <2>1, <2>2, OperandsTyped DEF Top
<1>3. Resolves(registry, left) /\ Resolves(registry, right)
  BY <1>2 DEF Agreed, AllResolve, Top
<1>4. Compute(2, type, NoName) /\ 2 \in 0..Len(operands)
  BY <1>2 DEF analyze_binary
<1> HIDE DEF left, right
<1>5. type \in Types /\ Resolves(registry, type)
  BY <1>2, <1>3, UnifyTyped, UnifyResolves
<1> HIDE DEF type
<1>6. \A i \in DOMAIN operands' : Resolves(registry, operands'[i].type)
  BY <1>1, <1>4, <1>5, ComputeResolves DEF Agreed, AllResolve
<1> QED
  BY <1>6, QuietAgreed DEF analyze_binary, history

(* analyze_unary_or_group keeps what an accepted program agrees on.             *)
LEMMA UnaryOrGroupAgreed ==
    ASSUME StructInv, Agreed, analyze_unary_or_group
    PROVE  Agreed'
<1>1. operands \in Seq(Operands)
  BY DEF StructInv, TypeOK
<1>2. /\ Len(operands) \in Nat /\ 1 \in 0..Len(operands) /\ Len(operands) \in DOMAIN operands
      /\ Top.type \in Types
  <2>1. Len(operands) \in 1..Len(operands) /\ Len(operands) \in Nat
        /\ DOMAIN operands = 1..Len(operands)
    BY <1>1, EmptySeq, OperandsTyped DEF analyze_unary_or_group
  <2> QED
    BY <1>1, <2>1, OperandsTyped DEF Top
<1>3. Resolves(registry, Top.type)
  BY <1>2 DEF Agreed, AllResolve, Top
<1>4. Compute(1, Top.type, NoName)
  BY DEF analyze_unary_or_group
<1>5. \A i \in DOMAIN operands' : Resolves(registry, operands'[i].type)
  BY <1>1, <1>2, <1>3, <1>4, ComputeResolves DEF Agreed, AllResolve
<1> QED
  BY <1>5, QuietAgreed DEF analyze_unary_or_group, history

(* analyze_expression_statement keeps what an accepted program agrees on.       *)
LEMMA ExpressionStatementAgreed ==
    ASSUME Agreed, analyze_expression_statement
    PROVE  Agreed'
<1>1. DOMAIN operands' = {}
  BY DEF analyze_expression_statement
<1> QED
  BY <1>1, QuietAgreed DEF analyze_expression_statement, history

-------------------------------------------------------------------------------
(* Steps that write types but declare nothing.                                  *)

(* A node that is given a type it agrees with agrees with all it was given.     *)
LEMMA NodeAgrees ==
    ASSUME StructInv, SeenAgree, NEW node \in Nodes, NEW type \in Types,
           Mismatch(types[node], type) = {}
    PROVE  seen[node] \cup Known(type) \subseteq {unify_types(types[node], type)}
<1>1. types[node] \in Types /\ seen[node] \subseteq {types[node]}
  BY DEF StructInv, TypeOK, SeenAgree
<1>2. \A t \in seen[node] : IsKnown(t)
  BY DEF StructInv, Recorded
<1> QED
  BY <1>1, <1>2, UnifyKeepsAgreement

(* analyze_assignment keeps what an accepted program agrees on.                 *)
LEMMA AssignmentAgreed ==
    ASSUME Watching, StructInv, Agreed, analyze_assignment, Accepted'
    PROVE  Agreed'
<1> DEFINE left  == operands[Len(operands) - 1]
           right == Top.type
           decl  == IF left.name = NoName THEN NoNode ELSE lookup(scopes, left.name)
           unified == unify_types(types[decl], right)
<1>1. operands \in Seq(Operands) /\ types \in [Nodes -> Types] /\ seen \in [Nodes -> SUBSET Types]
  BY DEF StructInv, TypeOK
<1>2. /\ Len(operands) \in Nat /\ 2 \in 0..Len(operands)
      /\ Len(operands) - 1 \in DOMAIN operands /\ Len(operands) \in DOMAIN operands
      /\ left.type \in Types /\ right \in Types /\ left.name \in Names \cup {NoName}
  <2>1. Len(operands) \in Nat /\ Len(operands) >= 2 /\ DOMAIN operands = 1..Len(operands)
    BY <1>1, OperandsTyped DEF analyze_assignment
  <2>2. Len(operands) - 1 \in 1..Len(operands) /\ Len(operands) \in 1..Len(operands)
    BY <2>1
  <2> QED
    BY <1>1, <2>1, <2>2, OperandsTyped DEF Top
<1>3. Resolves(registry, left.type) /\ Resolves(registry, right)
  BY <1>2 DEF Agreed, AllResolve, Top
<1>4. \A i \in DOMAIN operands : Resolves(registry, operands[i].type)
  BY DEF Agreed, AllResolve
<1>5. CASE decl = NoNode
  <2>1. /\ Compute(2, pick_known(right, left.type), NoName)
        /\ UNCHANGED <<registry, types, function_stack, history>>
    BY <1>5 DEF analyze_assignment, history
  <2>2. pick_known(right, left.type) \in Types /\ Resolves(registry, pick_known(right, left.type))
    BY <1>2, <1>3, UnifyTyped, UnifyResolves
  <2>3. \A i \in DOMAIN operands' : Resolves(registry, operands'[i].type)
    BY <1>1, <1>2, <1>4, <2>1, <2>2, ComputeResolves
  <2> QED
    BY <2>1, <2>3, QuietAgreed
<1>6. CASE decl # NoNode
  <2>1. /\ types' = [types EXCEPT ![decl] = unified]
        /\ seen' = [seen EXCEPT ![decl] = @ \cup Known(right)]
        /\ Compute(2, pick_known(right, unified), NoName)
        /\ report(Mismatch(left.type, right) \cup Mismatch(types[decl], right))
        /\ UNCHANGED <<registry, function_stack, yielded>>
    BY <1>6 DEF analyze_assignment
  <2>2. decl \in Nodes
    BY <1>2, <1>6, FoundDeclaration
  <2> HIDE DEF left, right, decl
  <2>3. Mismatch(types[decl], right) = {}
    BY <2>1, NotReported DEF Mismatch
  <2>4. seen[decl] \cup Known(right) \subseteq {unified}
    BY <1>2, <2>2, <2>3, NodeAgrees DEF Agreed
  <2>5. /\ unified \in Types /\ pick_known(right, unified) \in Types
        /\ Resolves(registry, unified) /\ Resolves(registry, pick_known(right, unified))
    <3>1. types[decl] \in Types /\ Resolves(registry, types[decl])
      BY <1>1, <2>2 DEF Agreed, AllResolve
    <3>2. unified \in Types /\ Resolves(registry, unified)
      BY <1>2, <1>3, <3>1, UnifyTyped, UnifyResolves
    <3> HIDE DEF unified
    <3> QED
      BY <1>2, <1>3, <3>2, UnifyTyped, UnifyResolves
  <2> HIDE DEF unified
  <2>6. \A i \in DOMAIN operands' : Resolves(registry, operands'[i].type)
    BY <1>1, <1>2, <1>4, <2>1, <2>5, ComputeResolves
  <2>7. SeenAgree'
    BY <1>1, <2>1, <2>2, <2>4 DEF Agreed, SeenAgree
  <2>8. YieldedAgree' /\ ActiveAgree'
    BY <2>1 DEF Agreed, YieldedAgree, ActiveAgree
  <2>9. AllResolve'
    BY <1>1, <2>1, <2>2, <2>5, <2>6 DEF Agreed, AllResolve
  <2> QED
    BY <2>7, <2>8, <2>9 DEF Agreed
<1> QED
  BY <1>5, <1>6

(* A call of a registered function keeps what an accepted program agrees on.    *)
LEMMA CheckedCallAgreed ==
    ASSUME Watching, StructInv, Agreed, NEW name \in Names, NEW n \in Nat, n < Len(operands),
           NEW arguments \in [1..n -> Types], CheckedCall(name, arguments), Accepted',
           \A i \in 1..n : Resolves(registry, arguments[i]),
           UNCHANGED function_stack
    PROVE  Agreed'
<1> DEFINE parameters == registry[name].parameters
           passed == 1..n \cap DOMAIN parameters
           result == registry[name].return_type
<1>1. /\ types \in [Nodes -> Types] /\ registry \in [Names -> Signatures]
      /\ operands \in Seq(Operands) /\ yielded \in [Names -> SUBSET Types]
      /\ function_stack \in Seq(ActiveFunctions)
  BY DEF StructInv, TypeOK
<1>2. /\ SameOwners
      /\ \A f \in Names : f # name => registry'[f] = registry[f]
      /\ registry'[name].return_type = result
      /\ \A i \in passed :
            /\ types'[parameters[i].node_id] = Unified(parameters, arguments, i)
            /\ seen'[parameters[i].node_id] =
                  seen[parameters[i].node_id] \cup Known(arguments[i])
      /\ \A node \in Nodes : (\A i \in passed : parameters[i].node_id # node) =>
            types'[node] = types[node] /\ seen'[node] = seen[node]
  BY CheckedCallWrites
<1>3. \A i \in passed : Mismatch(types[parameters[i].node_id], arguments[i]) = {}
  <2>1. PICK codes : /\ report(codes)
                     /\ \A i \in passed :
                           Mismatch(types[parameters[i].node_id], arguments[i]) \subseteq codes
    <3>1. Len(arguments) = n
      OBVIOUS
    <3>2. report((IF Len(parameters) # n THEN {"SemArgumentCountMismatch"} ELSE {})
                 \cup UNION {Mismatch(types[parameters[i].node_id], arguments[i]) : i \in passed})
      BY <3>1 DEF CheckedCall
    <3> QED
      BY <3>2
  <2>2. "SemTypeMismatch" \notin codes
    BY <2>1, NotReported
  <2> QED
    BY <2>1, <2>2 DEF Mismatch
<1>4. /\ Compute(n + 1, result, NoName)
      /\ yielded' = [yielded EXCEPT ![name] = @ \cup Known(result)]
  <2>1. Len(arguments) = n
    OBVIOUS
  <2> QED
    BY <2>1 DEF CheckedCall
<1>5. result \in Types /\ \A i \in passed : parameters[i].node_id \in Nodes
  BY <1>1, EntryTyped
<1>6. \A f \in Names : registry'[f].return_type = registry[f].return_type
  BY <1>2
<1>7. SeenAgree'
  <2>1. ASSUME NEW node \in Nodes
        PROVE  seen'[node] \subseteq {types'[node]}
    <3>1. CASE \A i \in passed : parameters[i].node_id # node
      BY <1>2, <3>1 DEF Agreed, SeenAgree
    <3>2. CASE \E i \in passed : parameters[i].node_id = node
      <4>1. PICK i \in passed : parameters[i].node_id = node
        BY <3>2
      <4>2. seen[node] \cup Known(arguments[i]) \subseteq {unify_types(types[node], arguments[i])}
        BY <1>3, <4>1, NodeAgrees DEF Agreed
      <4>3. types'[node] = unify_types(types[node], arguments[i])
        BY <1>2, <4>1 DEF Unified
      <4> QED
        BY <1>2, <4>1, <4>2, <4>3
    <3> QED
      BY <3>1, <3>2
  <2> QED
    BY <2>1 DEF SeenAgree
<1>8. YieldedAgree'
  <2>1. Known(result) \subseteq {result}
    BY DEF Known
  <2>2. ASSUME NEW f \in Names
        PROVE  yielded'[f] \subseteq {registry'[f].return_type}
    BY <1>1, <1>4, <1>6, <2>1 DEF Agreed, YieldedAgree
  <2> QED
    BY <2>2 DEF YieldedAgree
<1>9. ActiveAgree'
  <2>1. \A i \in DOMAIN function_stack : function_stack[i].signature \in Names
    BY <1>1, ActiveTyped
  <2> QED
    BY <1>6, <2>1 DEF Agreed, ActiveAgree
<1>10. AllResolve'
  <2>1. ASSUME NEW type, Resolves(registry, type)
        PROVE  Resolves(registry', type)
    BY <1>2, <2>1, ResolvesKept DEF SameOwners
  <2>2. ASSUME NEW node \in Nodes
        PROVE  Resolves(registry', types'[node])
    <3>1. CASE \A i \in passed : parameters[i].node_id # node
      BY <1>2, <2>1, <3>1 DEF Agreed, AllResolve
    <3>2. CASE \E i \in passed : parameters[i].node_id = node
      <4>1. PICK i \in passed : parameters[i].node_id = node
        BY <3>2
      <4>2. Resolves(registry, unify_types(types[node], arguments[i]))
        BY UnifyResolves DEF Agreed, AllResolve
      <4>3. types'[node] = unify_types(types[node], arguments[i])
        BY <1>2, <4>1 DEF Unified
      <4> QED
        BY <2>1, <4>2, <4>3
    <3> QED
      BY <3>1, <3>2
  <2>3. \A f \in Names : Resolves(registry', registry'[f].return_type)
    BY <1>6, <2>1 DEF Agreed, AllResolve
  <2>4. \A i \in DOMAIN operands' : Resolves(registry', operands'[i].type)
    <3>1. \A i \in DOMAIN operands : Resolves(registry', operands[i].type)
      BY <2>1 DEF Agreed, AllResolve
    <3>2. Resolves(registry', result)
      BY <2>1 DEF Agreed, AllResolve
    <3>3. n + 1 \in 0..Len(operands)
      BY <1>1, LenProperties
    <3> HIDE DEF result
    <3> QED
      BY <1>1, <1>4, <1>5, <3>1, <3>2, <3>3, ComputeResolves
  <2> QED
    BY <2>2, <2>3, <2>4 DEF AllResolve
<1> QED
  BY <1>7, <1>8, <1>9, <1>10 DEF Agreed

(* analyze_call keeps what an accepted program agrees on.                       *)
LEMMA CallAgreed ==
    ASSUME Watching, StructInv, Agreed, NEW n \in 0..MaxParams, analyze_call(n), Accepted'
    PROVE  Agreed'
<1> DEFINE callee == operands[Len(operands) - n].type
           arguments == [i \in 1..n |-> operands[Len(operands) - n + i].type]
           callees == IF callee.kind = "Function"
                      THEN RegisteredAs(registry, callee.reference) ELSE {}
<1>1. operands \in Seq(Operands)
  BY DEF StructInv, TypeOK
<1>2. /\ n \in Nat /\ Len(operands) \in Nat /\ n < Len(operands)
      /\ DOMAIN operands = 1..Len(operands)
  BY <1>1, BoundsAreNats, OperandsTyped DEF analyze_call
<1>3. \A i \in 1..n : Len(operands) - n + i \in 1..Len(operands)
  BY <1>2
<1>4. arguments \in [1..n -> Types] /\ \A i \in 1..n : Resolves(registry, arguments[i])
  BY <1>1, <1>2, <1>3, OperandsTyped DEF Agreed, AllResolve
<1>5. ASSUME NEW name \in callees, CheckedCall(name, arguments)
      PROVE  Agreed'
  <2>1. name \in Names /\ UNCHANGED function_stack
    BY DEF RegisteredAs, analyze_call
  <2> HIDE DEF arguments
  <2> QED
    BY <1>2, <1>4, <1>5, <2>1, CheckedCallAgreed
<1>6. ASSUME Compute(n + 1, Unknown, NoName), UNCHANGED <<registry, types, reported, history>>
      PROVE  Agreed'
  <2>1. n + 1 \in 0..Len(operands)
    BY <1>2
  <2>2. \A i \in DOMAIN operands' : Resolves(registry, operands'[i].type)
    BY <1>1, <1>6, <2>1, ComputeResolves, TypeTyped, PlainResolves DEF Agreed, AllResolve
  <2> QED
    BY <1>6, <2>2, QuietAgreed DEF analyze_call, history
<1>7. \/ \E name \in callees : CheckedCall(name, arguments)
      \/ Compute(n + 1, Unknown, NoName) /\ UNCHANGED <<registry, types, reported, history>>
  BY DEF analyze_call
<1> QED
  BY <1>5, <1>6, <1>7

(* EndLet keeps what an accepted program agrees on.                             *)
LEMMA EndLetAgreed ==
    ASSUME StructInv, Agreed, EndLet
    PROVE  Agreed'
<1>1. /\ operands \in Seq(Operands) /\ types \in [Nodes -> Types]
      /\ seen \in [Nodes -> SUBSET Types] /\ binding \in Nodes
  BY DEF StructInv, TypeOK, EndLet
<1>2. /\ types' = [types EXCEPT ![binding] = Top.type]
      /\ seen' = [seen EXCEPT ![binding] = Known(Top.type)]
      /\ DOMAIN operands' = {}
      /\ UNCHANGED <<registry, function_stack, yielded>>
  BY DEF EndLet
<1>3. Resolves(registry, Top.type)
  <2>1. Len(operands) \in DOMAIN operands
    BY <1>1, OperandsTyped DEF EndLet
  <2> QED
    BY <2>1 DEF Agreed, AllResolve, Top
<1>4. SeenAgree'
  BY <1>1, <1>2 DEF Agreed, SeenAgree, Known
<1>5. YieldedAgree' /\ ActiveAgree'
  BY <1>2 DEF Agreed, YieldedAgree, ActiveAgree
<1>6. AllResolve'
  BY <1>1, <1>2, <1>3 DEF Agreed, AllResolve
<1> QED
  BY <1>4, <1>5, <1>6 DEF Agreed

(* Unifying twice with types that do not conflict leaves the last one.          *)
LEMMA ReturnUnifies ==
    ASSUME NEW declared \in Types, NEW type \in Types,
           Mismatch(declared, type) = {},
           Mismatch(declared, unify_types(declared, type)) = {}
    PROVE  (IF IsKnown(unify_types(declared, type))
            THEN unify_types(declared, unify_types(declared, type)) ELSE Unknown)
              = IF IsKnown(unify_types(declared, type)) THEN unify_types(declared, type)
                ELSE Unknown
<1> DEFINE unified == unify_types(declared, type)
<1>1. unified \in Types
  BY UnifyTyped
<1> HIDE DEF unified
<1>2. CASE ~IsKnown(declared)
  BY <1>2 DEF unify_types
<1>3. CASE IsKnown(declared) /\ IsKnown(unified)
  <2>1. ~Conflict(declared, unified)
    BY DEF Mismatch, unified
  <2>2. declared = unified
    BY <1>1, <1>3, <2>1, KnownTypesConflict
  <2>3. unify_types(declared, unified) = declared
    BY <1>3, <2>1 DEF unify_types
  <2> QED
    BY <2>2, <2>3 DEF unified
<1>4. CASE ~IsKnown(unified)
  BY <1>4 DEF unified
<1> QED
  BY <1>2, <1>3, <1>4

(* analyze_return keeps what an accepted program agrees on.                     *)
LEMMA ReturnsAgreed ==
    ASSUME Watching, StructInv, Agreed, NEW type \in Types, Resolves(registry, type),
           returns(type), Accepted'
    PROVE  Agreed'
<1>1. /\ function_stack \in Seq(ActiveFunctions) /\ registry \in [Names -> Signatures]
      /\ yielded \in [Names -> SUBSET Types]
  BY DEF StructInv, TypeOK
<1>2. DOMAIN operands' = {} /\ UNCHANGED <<types, seen>>
  BY DEF returns
<1>3. CASE function_stack = <<>>
  <2>1. UNCHANGED <<registry, types, function_stack, history>>
    BY <1>2, <1>3 DEF returns, history
  <2> QED
    BY <1>2, <2>1, QuietAgreed
<1>4. CASE function_stack # <<>>
  <2> DEFINE depth    == Len(function_stack)
             name     == function_stack[depth].signature
             declared == registry[name].return_type
             unified  == unify_types(declared, type)
             so_far   == function_stack[depth].inferred_return
             inferred == IF IsKnown(unified) THEN unify_types(so_far, unified) ELSE Unknown
  <2>1. depth \in DOMAIN function_stack /\ name \in Names
        /\ \A i \in DOMAIN function_stack : function_stack[i].signature \in Names
    BY <1>1, <1>4, ActiveTyped
  <2>2. unified \in Types /\ inferred \in Types /\ ReturnWrites(depth, type, unified, inferred)
    BY <1>4, ReturnsWrites
  <2>3. declared \in Types /\ so_far = declared
    BY <1>1, <2>1, EntryTyped DEF Agreed, ActiveAgree
  <2> HIDE DEF depth, name, declared, so_far
  <2>4. /\ function_stack' \in Seq(ActiveFunctions)
        /\ DOMAIN function_stack' = DOMAIN function_stack
        /\ \A i \in DOMAIN function_stack \ {depth} : function_stack'[i] = function_stack[i]
        /\ function_stack'[depth].signature = name
        /\ function_stack'[depth].inferred_return = inferred
        /\ SameOwners
        /\ registry'[name].return_type = inferred
        /\ \A f \in Names \ {name} : registry'[f] = registry[f]
        /\ yielded' = [yielded EXCEPT ![name] = @ \cup Known(type)]
        /\ report(Mismatch(declared, type) \cup Mismatch(so_far, unified))
    BY <2>2 DEF ReturnWrites, name, declared, so_far
  <2>5. Mismatch(declared, type) = {} /\ Mismatch(declared, unified) = {}
    BY <2>3, <2>4, NotReported DEF Mismatch
  <2>6. inferred = IF IsKnown(unified) THEN unified ELSE Unknown
    BY <2>3, <2>5, ReturnUnifies
  <2>7. yielded[name] \subseteq {declared} /\ \A t \in yielded[name] : IsKnown(t)
    BY <2>1 DEF Agreed, YieldedAgree, StructInv, Recorded, declared
  <2>8. yielded[name] \cup Known(type) \subseteq {inferred}
    <3>1. /\ yielded[name] \cup Known(type) \subseteq {unified}
          /\ \A t \in yielded[name] \cup Known(type) : IsKnown(t)
      BY <2>3, <2>5, <2>7, UnifyKeepsAgreement
    <3> HIDE DEF unified
    <3> QED
      BY <2>6, <3>1
  <2>9. Resolves(registry, inferred)
    <3>1. Resolves(registry, declared)
      BY <2>1 DEF Agreed, AllResolve, declared
    <3>2. Resolves(registry, unified)
      BY <3>1, UnifyResolves
    <3> HIDE DEF unified, inferred
    <3> QED
      BY <2>6, <3>2, PlainResolves
  <2> HIDE DEF unified, inferred
  <2>10. SeenAgree'
    BY <1>2 DEF Agreed, SeenAgree
  <2>11. YieldedAgree'
    BY <1>1, <2>1, <2>4, <2>8 DEF Agreed, YieldedAgree
  <2>12. \A i \in DOMAIN function_stack : function_stack'[i].signature = function_stack[i].signature
    BY <2>4 DEF name
  <2>13. ActiveAgree'
    <3>1. ASSUME NEW i \in DOMAIN function_stack'
          PROVE  registry'[function_stack'[i].signature].return_type
                    = function_stack'[i].inferred_return
      <4>1. CASE i = depth
        BY <2>4, <4>1
      <4>2. CASE i # depth
        <5>1. function_stack[i].signature # name /\ function_stack[i].signature \in Names
          BY <2>1, <2>4, <3>1, <4>2 DEF Agreed, ActiveAgree, name
        <5>2. function_stack'[i] = function_stack[i] /\ i \in DOMAIN function_stack
          BY <2>4, <4>2
        <5> QED
          BY <2>4, <5>1, <5>2 DEF Agreed, ActiveAgree
      <4> QED
        BY <4>1, <4>2
    <3>2. \A i, j \in DOMAIN function_stack' :
             function_stack'[i].signature = function_stack'[j].signature => i = j
      BY <2>4, <2>12 DEF Agreed, ActiveAgree
    <3> QED
      BY <3>1, <3>2 DEF ActiveAgree
  <2>14. AllResolve'
    <3>1. ASSUME NEW t, Resolves(registry, t)
          PROVE  Resolves(registry', t)
      BY <2>4, <3>1, ResolvesKept DEF SameOwners
    <3>2. \A node \in Nodes : Resolves(registry', types'[node])
      BY <1>2, <3>1 DEF Agreed, AllResolve
    <3>3. ASSUME NEW f \in Names
          PROVE  Resolves(registry', registry'[f].return_type)
      <4>1. CASE f = name
        BY <2>4, <2>9, <3>1, <4>1
      <4>2. CASE f # name
        BY <2>4, <3>1, <4>2 DEF Agreed, AllResolve
      <4> QED
        BY <4>1, <4>2
    <3> QED
      BY <1>2, <3>2, <3>3 DEF AllResolve
  <2> QED
    BY <2>10, <2>11, <2>13, <2>14 DEF Agreed
<1> QED
  BY <1>3, <1>4

(* BeginLet keeps what an accepted program agrees on.                           *)
LEMMA BeginLetAgreed ==
    ASSUME Agreed, NEW name \in Names, BeginLet(name)
    PROVE  Agreed'
<1>1. UNCHANGED <<registry, types, function_stack, history>> /\ operands' = operands
  BY DEF BeginLet
<1>2. \A i \in DOMAIN operands' : Resolves(registry, operands'[i].type)
  BY <1>1 DEF Agreed, AllResolve
<1> QED
  BY <1>1, <1>2, QuietAgreed

(* Entering or leaving a block keeps what an accepted program agrees on.        *)
LEMMA BlockAgreed ==
    ASSUME Agreed, EnterBlock \/ ExitBlock
    PROVE  Agreed'
<1>1. UNCHANGED <<registry, types, function_stack, history>> /\ operands' = operands
  BY DEF EnterBlock, ExitBlock
<1>2. \A i \in DOMAIN operands' : Resolves(registry, operands'[i].type)
  BY <1>1 DEF Agreed, AllResolve
<1> QED
  BY <1>1, <1>2, QuietAgreed

-------------------------------------------------------------------------------
(* Steps that leave or enter a function.                                        *)

(* ExitFunction keeps what an accepted program agrees on.                       *)
LEMMA ExitFunctionAgreed ==
    ASSUME StructInv, Agreed, ExitFunction
    PROVE  Agreed'
<1> DEFINE name   == frames[Len(frames)]
           last   == Len(function_stack)
           active == function_stack[last]
           result == IF ~active.saw_return /\ ~IsKnown(active.inferred_return)
                     THEN Type("Void") ELSE active.inferred_return
<1>1. /\ function_stack # <<>>
      /\ name \in Names /\ active.signature = name
      /\ function_stack' \in Seq(ActiveFunctions)
      /\ Len(function_stack') = Len(function_stack) - 1
      /\ \A i \in 1..(Len(function_stack) - 1) : function_stack'[i] = function_stack[i]
      /\ SameOwners
      /\ registry'[name].return_type = result
      /\ \A f \in Names : f # name => registry'[f] = registry[f]
  BY ExitFunctionWrites
<1>2. UNCHANGED <<types, operands, seen, yielded>>
  BY DEF ExitFunction, history
<1>3. /\ function_stack \in Seq(ActiveFunctions)
  BY DEF StructInv, TypeOK
<1>4. /\ last \in Nat /\ DOMAIN function_stack = 1..last /\ last \in 1..last
      /\ \A i \in 1..last : function_stack[i].signature \in Names
  BY <1>1, <1>3, ActiveTyped
<1>5. DOMAIN function_stack' = 1..(last - 1)
  BY <1>1, LenProperties
<1>6. registry[name].return_type = active.inferred_return
  BY <1>1, <1>4 DEF Agreed, ActiveAgree
<1>7. YieldedAgree'
  <2>1. yielded[name] \subseteq {active.inferred_return} /\ \A t \in yielded[name] : IsKnown(t)
    BY <1>1, <1>6 DEF Agreed, YieldedAgree, StructInv, Recorded
  <2>2. yielded[name] \subseteq {result}
    BY <2>1
  <2> HIDE DEF name, result
  <2>3. ASSUME NEW f \in Names
        PROVE  yielded'[f] \subseteq {registry'[f].return_type}
    <3>1. CASE f = name
      BY <1>1, <1>2, <2>2, <3>1
    <3>2. CASE f # name
      BY <1>1, <1>2, <3>2 DEF Agreed, YieldedAgree
    <3> QED
      BY <3>1, <3>2
  <2> QED
    BY <2>3 DEF YieldedAgree
<1>8. Resolves(registry, result)
  <2>1. Resolves(registry, active.inferred_return)
    BY <1>1, <1>6 DEF Agreed, AllResolve
  <2> QED
    BY <2>1, PlainResolves
<1> HIDE DEF name, result, last
<1>9. SeenAgree'
  BY <1>2 DEF Agreed, SeenAgree
<1>10. ActiveAgree'
  <2>1. ASSUME NEW i \in DOMAIN function_stack'
        PROVE  /\ i \in DOMAIN function_stack /\ i # last
               /\ function_stack'[i] = function_stack[i]
               /\ function_stack[i].signature \in Names \ {name}
    <3>1. i \in 1..last /\ i # last /\ i \in 1..(last - 1)
      BY <1>4, <1>5
    <3>2. function_stack[i].signature # name
      BY <1>1, <1>4, <3>1 DEF Agreed, ActiveAgree
    <3>3. function_stack'[i] = function_stack[i]
      BY <1>1, <3>1 DEF last
    <3> QED
      BY <1>4, <3>1, <3>2, <3>3
  <2>2. ASSUME NEW i \in DOMAIN function_stack'
        PROVE  registry'[function_stack'[i].signature].return_type
                  = function_stack'[i].inferred_return
    BY <1>1, <2>1 DEF Agreed, ActiveAgree
  <2>3. \A i, j \in DOMAIN function_stack' :
           function_stack'[i].signature = function_stack'[j].signature => i = j
    BY <2>1 DEF Agreed, ActiveAgree
  <2> QED
    BY <2>2, <2>3 DEF ActiveAgree
<1>11. AllResolve'
  <2>1. ASSUME NEW t, Resolves(registry, t)
        PROVE  Resolves(registry', t)
    BY <1>1, <2>1, ResolvesKept DEF SameOwners
  <2>2. ASSUME NEW f \in Names
        PROVE  Resolves(registry', registry'[f].return_type)
    <3>1. CASE f = name
      BY <1>1, <1>8, <2>1, <3>1
    <3>2. CASE f # name
      BY <1>1, <2>1, <3>2 DEF Agreed, AllResolve
    <3> QED
      BY <3>1, <3>2
  <2>3. /\ \A node \in Nodes : Resolves(registry', types'[node])
        /\ \A i \in DOMAIN operands' : Resolves(registry', operands'[i].type)
    BY <1>2, <2>1 DEF Agreed, AllResolve
  <2> QED
    BY <2>2, <2>3 DEF AllResolve
<1> QED
  BY <1>7, <1>9, <1>10, <1>11 DEF Agreed

(* EnterFunction keeps what an accepted program agrees on.                      *)
LEMMA EnterFunctionAgreed ==
    ASSUME Watching, StructInv, Agreed, NEW name \in Names, NEW n \in Nat,
           NEW names \in [1..n -> Names], EnterFunction(name, names), Accepted'
    PROVE  Agreed'
<1>1. /\ next_node \in Nodes /\ registry' \in [Names -> Signatures]
      /\ \A f \in Names : f # name => registry'[f] = registry[f]
      /\ IsRegistered(registry', name)
      /\ ~IsRegistered(registry, name) =>
            /\ registry'[name].node_id = next_node
            /\ registry'[name].return_type = Unknown
            /\ DOMAIN registry'[name].parameters = 1..n
            /\ \A i \in 1..n :
                  /\ registry'[name].parameters[i].node_id = next_node + i
                  /\ registry'[name].parameters[i].type = Unknown
  BY EnterFunctionEntry
<1>2. ~IsRegistered(registry, name)
  <2>1. PICK codes : report(codes) /\ DuplicateFunction(name) \subseteq codes
    BY DEF EnterFunction
  <2>2. "SemDuplicateSymbol" \notin codes
    BY <2>1, NotReported
  <2> QED
    BY <2>1, <2>2 DEF DuplicateFunction
<1> DEFINE parameters == registry'[name].parameters
<1>3. /\ \A i \in 1..n : types'[parameters[i].node_id] = Unknown
      /\ types'[next_node] = FunctionType(next_node)
      /\ \A node \in Nodes \ {next_node} :
            (\A i \in 1..n : parameters[i].node_id # node) => types'[node] = types[node]
  BY <1>1, <1>2, EnterFunctionTypes
<1>4. /\ seen' = [seen EXCEPT ![next_node] = {FunctionType(next_node)}]
      /\ function_stack' = Append(function_stack, ActiveFunction(name))
      /\ DOMAIN operands' = {}
      /\ UNCHANGED <<operands, yielded>>
  BY DEF EnterFunction, AtStatement
<1>5. /\ function_stack \in Seq(ActiveFunctions) /\ seen \in [Nodes -> SUBSET Types]
      /\ next_node \in Nat
  BY DEF StructInv, TypeOK
<1>6. \A i \in 1..n : /\ parameters[i].node_id = next_node + i
                      /\ parameters[i].node_id \in Nodes
  BY <1>1, <1>2, EntryTyped
<1> HIDE DEF parameters
<1>7. SeenAgree'
  <2>1. ASSUME NEW node \in Nodes
        PROVE  seen'[node] \subseteq {types'[node]}
    <3>1. CASE node = next_node
      BY <1>1, <1>3, <1>4, <1>5, <3>1
    <3>2. CASE node # next_node /\ \A i \in 1..n : parameters[i].node_id # node
      BY <1>3, <1>4, <1>5, <3>2 DEF Agreed, SeenAgree
    <3>3. CASE \E i \in 1..n : parameters[i].node_id = node
      <4>1. PICK i \in 1..n : node = next_node + i
        BY <1>6, <3>3
      <4>2. node >= next_node /\ node # next_node
        BY <1>5, <4>1
      <4>3. seen[node] = {}
        BY <4>2 DEF StructInv, Met
      <4> QED
        BY <1>4, <1>5, <4>2, <4>3
    <3> QED
      BY <3>1, <3>2, <3>3
  <2> QED
    BY <2>1 DEF SeenAgree
<1>8. YieldedAgree'
  <2>1. ASSUME NEW f \in Names
        PROVE  yielded'[f] \subseteq {registry'[f].return_type}
    <3>1. CASE f = name
      BY <1>2, <1>4, <3>1 DEF StructInv, Recorded
    <3>2. CASE f # name
      BY <1>1, <1>4, <3>2 DEF Agreed, YieldedAgree
    <3> QED
      BY <3>1, <3>2
  <2> QED
    BY <2>1 DEF YieldedAgree
<1>9. ActiveAgree'
  <2>1. /\ DOMAIN function_stack = 1..Len(function_stack) /\ Len(function_stack) \in Nat
        /\ \A i \in DOMAIN function_stack :
              /\ function_stack[i].signature \in Names
              /\ IsRegistered(registry, function_stack[i].signature)
    BY <1>5, ActiveTyped DEF StructInv, Nested
  <2>2. \A i \in DOMAIN function_stack : function_stack[i].signature # name
    BY <1>2, <2>1
  <2>3. /\ ActiveFunction(name) \in ActiveFunctions /\ ActiveFunction(name).signature = name
        /\ ActiveFunction(name).inferred_return = Unknown
    BY TypeTyped DEF ActiveFunction, ActiveFunctions
  <2>4. /\ function_stack' \in Seq(ActiveFunctions)
        /\ Len(function_stack') = Len(function_stack) + 1
        /\ \A i \in 1..Len(function_stack) : function_stack'[i] = function_stack[i]
        /\ function_stack'[Len(function_stack) + 1] = ActiveFunction(name)
    BY <1>4, <1>5, <2>3, AppendProperties
  <2>5. DOMAIN function_stack' = 1..(Len(function_stack) + 1)
    BY <2>4, LenProperties
  <2>6. ASSUME NEW i \in DOMAIN function_stack'
        PROVE  \/ i \in DOMAIN function_stack /\ function_stack'[i] = function_stack[i]
               \/ i = Len(function_stack) + 1 /\ function_stack'[i] = ActiveFunction(name)
    BY <2>1, <2>4, <2>5
  <2>7. ASSUME NEW i \in DOMAIN function_stack'
        PROVE  registry'[function_stack'[i].signature].return_type
                  = function_stack'[i].inferred_return
    <3>1. CASE i \in DOMAIN function_stack /\ function_stack'[i] = function_stack[i]
      BY <1>1, <2>1, <2>2, <3>1 DEF Agreed, ActiveAgree
    <3>2. CASE function_stack'[i] = ActiveFunction(name)
      BY <1>1, <1>2, <2>3, <3>2
    <3> QED
      BY <2>6, <3>1, <3>2
  <2>8. ASSUME NEW i \in DOMAIN function_stack', NEW j \in DOMAIN function_stack',
               function_stack'[i].signature = function_stack'[j].signature
        PROVE  i = j
    BY <2>2, <2>3, <2>6, <2>8 DEF Agreed, ActiveAgree
  <2> QED
    BY <2>7, <2>8 DEF ActiveAgree
<1>10. AllResolve'
  <2>1. ASSUME NEW t, Resolves(registry, t)
        PROVE  Resolves(registry', t)
    BY <1>1, <1>2, <2>1, ResolvesKept
  <2>2. ASSUME NEW f \in Names
        PROVE  Resolves(registry', registry'[f].return_type)
    <3>1. CASE f = name
      BY <1>1, <1>2, <3>1, PlainResolves
    <3>2. CASE f # name
      BY <1>1, <2>1, <3>2 DEF Agreed, AllResolve
    <3> QED
      BY <3>1, <3>2
  <2>3. ASSUME NEW node \in Nodes
        PROVE  Resolves(registry', types'[node])
    <3>1. CASE node = next_node
      <4>1. name \in RegisteredAs(registry', next_node)
        BY <1>1, <1>2 DEF RegisteredAs
      <4> QED
        BY <1>3, <3>1, <4>1 DEF Resolves, FunctionType
    <3>2. CASE node # next_node /\ \A i \in 1..n : parameters[i].node_id # node
      BY <1>3, <2>1, <3>2 DEF Agreed, AllResolve
    <3>3. CASE \E i \in 1..n : parameters[i].node_id = node
      BY <1>3, <3>3, PlainResolves
    <3> QED
      BY <3>1, <3>2, <3>3
  <2> QED
    BY <1>4, <2>2, <2>3 DEF AllResolve
<1> QED
  BY <1>7, <1>8, <1>9, <1>10 DEF Agreed

-------------------------------------------------------------------------------
(* The theorems.                                                                *)

(* Nothing has disagreed when a walk begins ...                                 *)
LEMMA InitAgreed ==
    ASSUME Init
    PROVE  Agreed
<1>1. /\ types = [node \in Nodes |-> Unknown] /\ registry = EmptyRegistry
      /\ DOMAIN function_stack = {} /\ DOMAIN operands = {}
      /\ seen = [node \in Nodes |-> {}] /\ yielded = [name \in Names |-> {}]
  BY DEF Init
<1>2. SeenAgree /\ YieldedAgree /\ ActiveAgree
  BY <1>1 DEF SeenAgree, YieldedAgree, ActiveAgree
<1>3. AllResolve
  BY <1>1, PlainResolves DEF AllResolve, EmptyRegistry, NoSignature, Signature
<1> QED
  BY <1>2, <1>3 DEF Agreed

(* ... and nothing does after a step that leaves the program accepted.          *)
LEMMA NextAgreed ==
    ASSUME Watching, StructInv, Agreed, [Next]_vars, Accepted'
    PROVE  Agreed'
<1>1. ASSUME NEW kind \in LiteralKinds, analyze_literal(kind)
      PROVE  Agreed'
  BY <1>1, LiteralAgreed
<1>2. ASSUME NEW name \in Names, analyze_identifier(name)
      PROVE  Agreed'
  BY <1>2, IdentifierAgreed
<1>3. CASE analyze_binary
  BY <1>3, BinaryAgreed
<1>4. CASE analyze_unary_or_group
  BY <1>4, UnaryOrGroupAgreed
<1>5. CASE analyze_assignment
  BY <1>5, AssignmentAgreed
<1>6. ASSUME NEW n \in 0..MaxParams, analyze_call(n)
      PROVE  Agreed'
  BY <1>6, CallAgreed
<1>7. ASSUME NEW name \in Names, BeginLet(name)
      PROVE  Agreed'
  BY <1>7, BeginLetAgreed
<1>8. CASE EndLet
  BY <1>8, EndLetAgreed
<1>9. CASE analyze_expression_statement
  BY <1>9, ExpressionStatementAgreed
<1>10. CASE analyze_return_value
  <2>1. operands \in Seq(Operands) /\ Len(operands) = 1 /\ returns(Top.type)
    BY <1>10 DEF StructInv, TypeOK, analyze_return_value
  <2>2. Len(operands) \in DOMAIN operands /\ Top.type \in Types
    BY <2>1, OperandsTyped DEF Top
  <2>3. Resolves(registry, Top.type)
    BY <2>2 DEF Agreed, AllResolve, Top
  <2> QED
    BY <2>1, <2>2, <2>3, ReturnsAgreed
<1>11. CASE analyze_return_void
  BY <1>11, TypeTyped, PlainResolves, ReturnsAgreed DEF analyze_return_void
<1>12. CASE EnterBlock \/ ExitBlock
  BY <1>12, BlockAgreed
<1>13. ASSUME NEW name \in Names, NEW n \in 0..MaxParams, NEW names \in [1..n -> Names],
              EnterFunction(name, names)
       PROVE  Agreed'
  BY <1>13, BoundsAreNats, EnterFunctionAgreed
<1>14. CASE ExitFunction
  BY <1>14, ExitFunctionAgreed
<1>15. CASE UNCHANGED vars
  <2>1. UNCHANGED <<registry, types, function_stack, history>> /\ operands' = operands
    BY <1>15 DEF vars
  <2>2. \A i \in DOMAIN operands' : Resolves(registry, operands'[i].type)
    BY <2>1 DEF Agreed, AllResolve
  <2> QED
    BY <2>1, <2>2, QuietAgreed
<1> QED
  BY <1>1, <1>2, <1>3, <1>4, <1>5, <1>6, <1>7, <1>8, <1>9, <1>10, <1>11, <1>12, <1>13,
     <1>14, <1>15 DEF Next

(* While a program is accepted, its types agree and resolve.                    *)
THEOREM AcceptedProgramsAgree ==
    ASSUME Watching
    PROVE  Spec => []Agreement
<1>1. Init => Agreement
  BY InitAgreed DEF Agreement
<1>2. StructInv /\ Agreement /\ [Next]_vars => Agreement'
  <2> SUFFICES ASSUME StructInv, Agreement, [Next]_vars, Accepted'
               PROVE  Agreed'
    BY DEF Agreement
  <2>1. Agreed
    BY ReportsAreKept DEF Agreement
  <2> QED
    BY <2>1, NextAgreed
<1> QED
  BY <1>1, <1>2, WalkIsStructured, PTL DEF Spec

(* unify_types and its callers: in an accepted program all the known types ever *)
(* given to a variable or a parameter, by assignments and by calls, are the one *)
(* type the analyzer leaves it with.                                            *)
THEOREM AcceptedVariablesHaveOneType ==
    ASSUME Watching
    PROVE  Spec => []AcceptedVariables
<1>1. Agreement => AcceptedVariables
  BY DEF Agreement, Agreed, SeenAgree, AcceptedVariables
<1> QED
  BY <1>1, AcceptedProgramsAgree, PTL

(* update_current_function_return: in an accepted program all the known types a *)
(* function's body returns, and all its calls were given before and after its   *)
(* body was walked, are the return type of its signature.                       *)
THEOREM AcceptedReturnsHaveOneType ==
    ASSUME Watching
    PROVE  Spec => []AcceptedReturns
<1>1. Agreement => AcceptedReturns
  BY DEF Agreement, Agreed, YieldedAgree, AcceptedReturns
<1> QED
  BY <1>1, AcceptedProgramsAgree, PTL

(* FunctionRegistry::lookup: in an accepted program a variable of a function    *)
(* type can be called with its arguments checked.                               *)
THEOREM AcceptedFunctionTypesResolve ==
    ASSUME Watching
    PROVE  Spec => []AcceptedFunctionsResolve
<1>1. Agreement => AcceptedFunctionsResolve
  BY DEF Agreement, Agreed, AllResolve, Resolves, AcceptedFunctionsResolve
<1> QED
  BY <1>1, AcceptedProgramsAgree, PTL

-------------------------------------------------------------------------------
(* What lower_module makes of the types the analyzer agreed on.                 *)

(* The kinds of the types there are.                                            *)
LEMMA KindsOfTypes ==
    \A type \in Types : type.kind \in PlainKinds \cup {"Function"}
<1> SUFFICES ASSUME NEW type \in Types
             PROVE  type.kind \in PlainKinds \cup {"Function"}
  OBVIOUS
<1>1. CASE type \in {Type(kind) : kind \in PlainKinds}
  BY <1>1 DEF Type
<1>2. CASE type \in {FunctionType(node) : node \in Nodes}
  BY <1>2 DEF FunctionType
<1> QED
  BY <1>1, <1>2 DEF Types

(* map_type, kind by kind.                                                      *)
LEMMA KindsMapped ==
    ASSUME NEW type
    PROVE  /\ type.kind = "Integer" => map_type(type) = Builtin("I64")
           /\ type.kind = "Float" => map_type(type) = Builtin("F64")
           /\ type.kind = "Bool" => map_type(type) = Builtin("Bool")
           /\ type.kind = "String" => map_type(type) = Builtin("String")
           /\ type.kind = "Function" => map_type(type) = Generic("fn")
           /\ type.kind = "Void" => map_type(type) = Builtin("Void")
BY DEF map_type

(* map_type sends known types of different kinds to different types of the IR,  *)
(* and only Void to void.                                                       *)
LEMMA KindsLoweredApart ==
    ASSUME NEW s \in Types, NEW t \in Types, IsKnown(s), IsKnown(t)
    PROVE  /\ s.kind = t.kind <=> map_type(s) = map_type(t)
           /\ s.kind = "Void" <=> map_type(s) = Builtin("Void")
<1>1. \A k, l : Builtin(k) = Builtin(l) => k = l
  BY DEF Builtin
<1>2. \A k \in {"I64", "F64", "Bool", "String", "Void"} : Builtin(k) # Generic("fn")
  BY DEF Builtin, Generic
<1>3. /\ s.kind \in {"Integer", "Float", "Bool", "String", "Function", "Void"}
      /\ t.kind \in {"Integer", "Float", "Bool", "String", "Function", "Void"}
  BY KindsOfTypes DEF PlainKinds, IsKnown
<1> QED
  BY <1>1, <1>2, <1>3, KindsMapped

(* In an accepted program, after the walk, what is lowered with a value's type  *)
(* is that type's own translation.                                              *)
LEMMA LoweredAreTranslations ==
    ASSUME StructInv, Agreed, Walked, NEW p \in Lowered
    PROVE  \E type \in Types : IsKnown(type) /\ p = <<type.kind, map_type(type)>>
<1>1. PICK f \in lower_module :
        \/ p \in {<<type.kind, f.return_type>> : type \in yielded[f.name]}
        \/ \E i \in DOMAIN f.parameters :
             p \in {<<type.kind, f.parameters[i].type>> :
                      type \in seen[registry[f.name].parameters[i].node_id]}
  BY DEF Lowered
<1>2. PICK name \in Names : f = IRFunction(name, map_type(registry[name].return_type), <<>>,
                [i \in DOMAIN registry[name].parameters |->
                    lower_parameter(registry[name].parameters[i])], <<>>)
  BY <1>1 DEF lower_module
<1>3. /\ f.name = name
      /\ f.return_type = map_type(registry[name].return_type)
      /\ f.parameters = [i \in DOMAIN registry[name].parameters |->
                            lower_parameter(registry[name].parameters[i])]
  BY <1>2 DEF IRFunction
<1>4. /\ \A n \in Names : yielded[n] \subseteq Types /\ \A t \in yielded[n] : IsKnown(t)
      /\ \A n \in Nodes : seen[n] \subseteq Types /\ \A t \in seen[n] : IsKnown(t)
  BY DEF StructInv, Recorded, TypeOK
<1>5. CASE p \in {<<type.kind, f.return_type>> : type \in yielded[f.name]}
  <2>1. PICK type \in yielded[name] : p = <<type.kind, map_type(registry[name].return_type)>>
    BY <1>3, <1>5
  <2>2. type = registry[name].return_type
    BY <2>1 DEF Agreed, YieldedAgree
  <2> QED
    BY <1>4, <2>1, <2>2
<1>6. ASSUME NEW i \in DOMAIN f.parameters,
             p \in {<<type.kind, f.parameters[i].type>> :
                      type \in seen[registry[f.name].parameters[i].node_id]}
      PROVE  \E type \in Types : IsKnown(type) /\ p = <<type.kind, map_type(type)>>
  <2> DEFINE parameter == registry[name].parameters[i]
  <2>1. i \in DOMAIN registry[name].parameters /\ f.parameters[i].type = map_type(parameter.type)
    BY <1>3, <1>6 DEF lower_parameter, IRParameter
  <2>2. parameter.node_id \in Nodes
    <3>1. registry[name] \in Signatures
      BY DEF StructInv, TypeOK
    <3>2. registry[name].parameters \in Seq(Parameters)
      BY <3>1 DEF Signatures
    <3>3. parameter \in Parameters
      BY <2>1, <3>2
    <3> QED
      BY <3>3 DEF Parameters
  <2>3. ~IsActive(name)
    BY DEF IsActive, Walked
  <2>4. parameter.type = types[parameter.node_id]
    BY <2>1, <2>3 DEF StructInv, SignaturesInStep
  <2>5. PICK type \in seen[parameter.node_id] : p = <<type.kind, map_type(parameter.type)>>
    BY <1>3, <1>6, <2>1
  <2>6. type = types[parameter.node_id]
    BY <2>2, <2>5 DEF Agreed, SeenAgree
  <2> HIDE DEF parameter
  <2> QED
    BY <1>4, <2>2, <2>4, <2>5, <2>6
<1> QED
  BY <1>1, <1>5, <1>6

(* lower_module and map_type: in an accepted program the IR's signatures tell   *)
(* values apart as the analyzer does, whatever a function returned and was      *)
(* called with.                                                                 *)
THEOREM AcceptedSignaturesAreLowered ==
    ASSUME Watching
    PROVE  Spec => []AcceptedTypesAreLowered
<1>1. StructInv /\ Agreement => AcceptedTypesAreLowered
  <2> SUFFICES ASSUME StructInv, Agreed, Walked, NEW p \in Lowered, NEW q \in Lowered
               PROVE  /\ p[1] = q[1] <=> p[2] = q[2]
                      /\ p[1] = "Void" <=> p[2] = Builtin("Void")
    BY DEF Agreement, AcceptedTypesAreLowered
  <2>1. PICK s \in Types : IsKnown(s) /\ p = <<s.kind, map_type(s)>>
    BY LoweredAreTranslations
  <2>2. PICK t \in Types : IsKnown(t) /\ q = <<t.kind, map_type(t)>>
    BY LoweredAreTranslations
  <2>3. p[1] = s.kind /\ p[2] = map_type(s) /\ q[1] = t.kind /\ q[2] = map_type(t)
    BY <2>1, <2>2
  <2> QED
    BY <2>1, <2>2, <2>3, KindsLoweredApart
<1> QED
  BY <1>1, WalkIsStructured, AcceptedProgramsAgree, PTL
===============================================================================
