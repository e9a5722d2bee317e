----------------------------- MODULE PipelineProofs -----------------------------
(* What holds of the folding passes for every module, of whatever instructions, *)
(* at every width of integers and for any number of passes, and of the files    *)
(* the backend then writes, of whatever structs, signatures and types.          *)
EXTENDS Pipeline, SequenceTheorems, FiniteSetTheorems, WellFoundedInduction, TLAPS

-------------------------------------------------------------------------------
(* Integers of the IR.                                                          *)

(* Every integer of the host wraps around into the IR's.                        *)
LEMMA WrappedInRange ==
    ASSUME NEW n \in Int
    PROVE  Wrapped(n) \in Int64
<1> DEFINE m == 2 * (Greatest + 1)
<1>1. Greatest \in Nat /\ m \in Nat \ {0} /\ Least \in Int /\ n - Least \in Int
  BY GreatestIsNat DEF Least
<1>2. (n - Least) % m \in 0..(m - 1)
  <2> HIDE DEF m
  <2> QED
    BY <1>1
<1>3. PICK r \in 0..(m - 1) : Wrapped(n) = r + Least
  BY <1>2 DEF Wrapped
<1> QED
  BY <1>1, <1>3 DEF Int64, Least

(* The host computes an integer of two unless it divides by zero.               *)
LEMMA ExactInt ==
    ASSUME NEW op \in {"add", "sub", "mul", "div"}, NEW a \in Int, NEW b \in Int,
           op = "div" => b # 0
    PROVE  Exact(op, a, b) \in Int
<1>1. CASE op # "div"
  <2>1. a + b \in Int /\ a - b \in Int /\ a * b \in Int
    OBVIOUS
  <2> QED
    BY <1>1, <2>1 DEF Exact
<1>2. CASE op = "div"
  <2>1. Abs(a) \in Int /\ Abs(b) \in Nat \ {0}
    BY <1>2 DEF Abs
  <2>2. \A x \in Int, y \in Nat \ {0} : x \div y \in Int /\ -(x \div y) \in Int
    OBVIOUS
  <2>3. Quotient(a, b) \in Int
    BY <2>1, <2>2 DEF Quotient
  <2> QED
    BY <1>2, <2>3 DEF Exact
<1> QED
  BY <1>1, <1>2

(* The IR's integers are integers.                                              *)
LEMMA Int64IsInt == Int64 \subseteq Int
BY GreatestIsNat DEF Int64, Least

-------------------------------------------------------------------------------
(* Marking an instruction a constant.                                           *)

\* mark_constant's instruction.
Marked(inst, value) ==
    [inst EXCEPT !.op = "const", !.operands = <<>>,
                 !.is_constant = TRUE, !.constant_value = value]

(* What marking an instruction leaves of it.                                    *)
LEMMA MarkedTyped ==
    ASSUME NEW inst \in Instructions, NEW value \in Int64
    PROVE  /\ Marked(inst, value) \in Instructions
           /\ Marked(inst, value).is_constant = TRUE
           /\ Marked(inst, value).constant_value = value
           /\ Marked(inst, value).result = inst.result
<1>1. <<>> \in Seq(Operands)
  OBVIOUS
<1>2. PICK a : a = [inst EXCEPT !.op = "const"]
  OBVIOUS
<1>3. a \in Instructions /\ a.result = inst.result
  BY <1>2 DEF Instructions
<1>4. PICK b : b = [a EXCEPT !.operands = <<>>]
  OBVIOUS
<1>5. b \in Instructions /\ b.result = inst.result
  BY <1>1, <1>3, <1>4 DEF Instructions
<1>6. PICK c : c = [b EXCEPT !.is_constant = TRUE]
  OBVIOUS
<1>7. c \in Instructions /\ c.result = inst.result /\ c.is_constant = TRUE
  BY <1>5, <1>6 DEF Instructions
<1>8. PICK d : d = [c EXCEPT !.constant_value = value]
  OBVIOUS
<1>9. /\ d \in Instructions /\ d.result = inst.result
      /\ d.is_constant = TRUE /\ d.constant_value = value
  BY <1>7, <1>8 DEF Instructions
<1>10. d = Marked(inst, value)
  BY <1>2, <1>4, <1>6, <1>8 DEF Marked
<1> QED
  BY <1>9, <1>10

-------------------------------------------------------------------------------
(* The module: the functions it was given with, their instructions folded.      *)

\* The manager was given one of the modules it can be given.
SourceIsGiven == \E modules \in ModuleSets : source \in modules

(* The functions the manager was given.                                         *)
LEMMA SourceTyped ==
    ASSUME SourceIsGiven
    PROVE  /\ Len(source.functions) \in Nat
           /\ DOMAIN source.functions = 1..Len(source.functions)
           /\ \A f \in DOMAIN source.functions :
                IsIRFunction(source.functions[f]) /\ Given(f) \in Seq(Instructions)
           /\ source.functions \in Seq({source.functions[f] : f \in DOMAIN source.functions})
<1> DEFINE given == {source.functions[f] : f \in DOMAIN source.functions}
<1>1. /\ source.functions \in Seq(given)
      /\ \A f \in given : IsIRFunction(f) /\ f.instructions \in Seq(Instructions)
  BY ModulesAreTyped DEF SourceIsGiven
<1>2. \A f \in DOMAIN source.functions : source.functions[f] \in given
  OBVIOUS
<1>3. Len(source.functions) \in Nat /\ DOMAIN source.functions = 1..Len(source.functions)
  <2> HIDE DEF given
  <2> QED
    BY <1>1
<1> QED
  BY <1>1, <1>2, <1>3 DEF Given

(* The functions are as many after the passes as before.                        *)
LEMMA FunctionsTyped ==
    ASSUME SourceIsGiven, TypeOK
    PROVE  /\ DOMAIN functions = DOMAIN source.functions
           /\ Len(functions) = Len(source.functions)
           /\ Len(functions) \in Nat /\ DOMAIN functions = 1..Len(functions)
<1>1. functions = [f \in DOMAIN source.functions |->
                       [source.functions[f] EXCEPT !.instructions = Folded(f)]]
  BY DEF TypeOK
<1>2. DOMAIN functions = DOMAIN source.functions
  BY <1>1
<1> QED
  BY <1>1, <1>2, SourceTyped, LenProperties

\* A function with other code.
WithCode(f, code) == [f EXCEPT !.instructions = code]

(* The last code written for a function is its code.                            *)
LEMMA Rewritten ==
    ASSUME NEW f, IsIRFunction(f), NEW old, NEW new
    PROVE  /\ WithCode(WithCode(f, old), new) = WithCode(f, new)
           /\ WithCode(f, new).instructions = new
           /\ WithCode(f, f.instructions) = f
<1>1. PICK a, b, c, d, e : f = [name |-> a, return_type |-> b, template_params |-> c,
                                parameters |-> d, instructions |-> e]
  BY DEF IsIRFunction, IRFunction
<1>2. DOMAIN f = {"name", "return_type", "template_params", "parameters", "instructions"}
  BY <1>1
<1>3. f.instructions = e
  BY <1>1
<1> QED
  BY <1>1, <1>2, <1>3 DEF WithCode

(* What mark_constant leaves in the module.                                     *)
LEMMA Marking ==
    ASSUME SourceIsGiven, TypeOK, InFunction, NEW value, mark_constant(value)
    PROVE  /\ current \in DOMAIN functions
           /\ position \in DOMAIN Body
           /\ functions' = [f \in DOMAIN functions |->
                IF f = current
                THEN [functions[current] EXCEPT !.instructions =
                         [Body EXCEPT ![position] = Marked(Inst, value)]]
                ELSE functions[f]]
<1>1. current \in DOMAIN functions
  BY FunctionsTyped DEF TypeOK, InFunction, InModule
<1>2. Body \in Seq(Instructions) /\ position \in Nat \ {0}
  BY <1>1 DEF TypeOK, Folded, Body
<1>3. position \in DOMAIN Body
  BY <1>2, LenProperties DEF InFunction
<1>4. \A f : f \in DOMAIN functions /\ f # current => functions'[f] = functions[f]
  BY DEF mark_constant, TypeOK
<1>5. PICK f, code, inst : f = functions[current] /\ code = Body /\ inst = Inst
  OBVIOUS
<1>6. code = f.instructions /\ inst = f.instructions[position]
  BY <1>5 DEF Body, Inst
<1>7. functions' = [functions EXCEPT ![current] =
          [f EXCEPT !.instructions = [f.instructions EXCEPT ![position] = Marked(inst, value)]]]
  BY <1>5, <1>6 DEF mark_constant, Marked
<1>8. functions' = [functions EXCEPT ![current] =
          [f EXCEPT !.instructions = [code EXCEPT ![position] = Marked(inst, value)]]]
  BY <1>6, <1>7
<1>9. functions' = [g \in DOMAIN functions |->
          IF g = current
          THEN [f EXCEPT !.instructions = [code EXCEPT ![position] = Marked(inst, value)]]
          ELSE functions[g]]
  BY <1>8
<1> QED
  BY <1>1, <1>3, <1>5, <1>9

(* A module is still the one given with other code when an instruction is       *)
(* marked a constant of the IR's range.                                         *)
LEMMA MarkingTyped ==
    ASSUME SourceIsGiven, TypeOK, InFunction, NEW value \in Int64, mark_constant(value),
           UNCHANGED source
    PROVE  /\ functions' = [f \in DOMAIN source'.functions |->
                               [source'.functions[f] EXCEPT !.instructions = Folded(f)']]
           /\ \A f \in DOMAIN functions' : Folded(f)' \in Seq(Instructions)
           /\ Len(functions') = Len(functions)
           /\ \A f \in DOMAIN functions : f # current => Folded(f)' = Folded(f)
           /\ \A f : f = current =>
                Folded(f)' = [Body EXCEPT ![position] = Marked(Inst, value)]
           /\ [Body EXCEPT ![position] = Marked(Inst, value)] \in Seq(Instructions)
<1> DEFINE code == [Body EXCEPT ![position] = Marked(Inst, value)]
<1>1. /\ current \in DOMAIN functions /\ position \in DOMAIN Body
      /\ functions' = [f \in DOMAIN functions |->
            IF f = current THEN [functions[current] EXCEPT !.instructions = code]
            ELSE functions[f]]
  BY Marking
<1>2. Body \in Seq(Instructions)
  BY <1>1 DEF TypeOK, Folded, Body
<1>3. Inst \in Instructions
  BY <1>1, <1>2 DEF Inst
<1>4. code \in Seq(Instructions)
  <2>1. Marked(Inst, value) \in Instructions
    BY <1>3, MarkedTyped
  <2>2. position \in 1..Len(Body)
    BY <1>1, <1>2, LenProperties
  <2> QED
    BY <1>2, <2>1, <2>2, ExceptSeq
<1>5. DOMAIN functions = DOMAIN source.functions
  BY FunctionsTyped
<1>6. functions[current] = [source.functions[current] EXCEPT !.instructions = Folded(current)]
  BY <1>1, <1>5 DEF TypeOK
<1> HIDE DEF code
<1>7. /\ functions'[current] = [source.functions[current] EXCEPT !.instructions = code]
      /\ functions'[current].instructions = code
  <2>1. functions'[current] = [functions[current] EXCEPT !.instructions = code]
    BY <1>1
  <2>2. PICK given : given = source.functions[current]
    OBVIOUS
  <2>3. PICK old : old = Folded(current)
    OBVIOUS
  <2>4. IsIRFunction(given)
    BY <1>1, <1>5, <2>2, SourceTyped
  <2>5. PICK new : new = code
    OBVIOUS
  <2>6. /\ WithCode(WithCode(given, old), new) = WithCode(given, new)
        /\ WithCode(given, new).instructions = new
    BY <2>4, Rewritten
  <2>7. functions[current] = WithCode(given, old)
    BY <1>6, <2>2, <2>3 DEF WithCode
  <2>8. functions'[current] = WithCode(given, new)
    <3>1. functions'[current] = WithCode(functions[current], new)
      BY <2>1, <2>5 DEF WithCode
    <3> QED
      BY <2>6, <2>7, <3>1
  <2>9. functions'[current] = [given EXCEPT !.instructions = new]
    BY <2>8 DEF WithCode
  <2>10. functions'[current].instructions = new
    BY <2>6, <2>8
  <2> QED
    BY <2>2, <2>5, <2>9, <2>10
<1>8. \A f \in DOMAIN functions : f # current => functions'[f] = functions[f]
  BY <1>1
<1>9. DOMAIN functions' = DOMAIN source.functions
  BY <1>1, <1>5
<1>10. /\ \A f \in DOMAIN functions : f # current => Folded(f)' = Folded(f)
       /\ \A f : f = current => Folded(f)' = code
  <2>1. ASSUME NEW f \in DOMAIN functions, f # current
        PROVE  Folded(f)' = Folded(f)
    BY <1>8, <2>1 DEF Folded
  <2>2. ASSUME NEW f, f = current
        PROVE  Folded(f)' = code
    BY <1>7, <2>2 DEF Folded
  <2> QED
    BY <2>1, <2>2
<1>11. \A f \in DOMAIN source.functions :
          functions'[f] = [source.functions[f] EXCEPT !.instructions = Folded(f)']
  <2> SUFFICES ASSUME NEW f \in DOMAIN source.functions
               PROVE  functions'[f] = [source.functions[f] EXCEPT !.instructions = Folded(f)']
    OBVIOUS
  <2>1. CASE f = current
    BY <1>7, <1>10, <2>1
  <2>2. CASE f # current
    <3>1. functions'[f] = functions[f] /\ Folded(f)' = Folded(f)
      BY <1>5, <1>8, <1>10, <2>2
    <3>2. functions[f] = [source.functions[f] EXCEPT !.instructions = Folded(f)]
      BY DEF TypeOK
    <3> QED
      BY <3>1, <3>2
  <2> QED
    BY <2>1, <2>2
<1>12. functions' = [f \in DOMAIN source.functions |->
                        [source.functions[f] EXCEPT !.instructions = Folded(f)']]
  BY <1>1, <1>5, <1>11
<1>13. \A f \in DOMAIN functions : Folded(f)' \in Seq(Instructions)
  BY <1>4, <1>10 DEF TypeOK
<1>14. Len(functions') = Len(functions)
  BY <1>1, FunctionsTyped, LenProperties
<1> QED
  BY <1>4, <1>5, <1>9, <1>10, <1>12, <1>13, <1>14 DEF code

-------------------------------------------------------------------------------
(* Type correctness.                                                            *)

(* A step that changes no function.                                             *)
LEMMA ModuleKept ==
    ASSUME TypeOK, UNCHANGED <<source, functions>>
    PROVE  /\ functions' = [f \in DOMAIN source'.functions |->
                               [source'.functions[f] EXCEPT !.instructions = Folded(f)']]
           /\ \A f \in DOMAIN functions' : Folded(f)' \in Seq(Instructions)
BY DEF TypeOK, Folded

(* The passes begin with the module given.                                      *)
LEMMA InitTyped == Init => SourceIsGiven /\ TypeOK
<1> SUFFICES ASSUME Init PROVE SourceIsGiven /\ TypeOK
  OBVIOUS
<1>1. SourceIsGiven
  BY DEF Init, SourceIsGiven
<1>2. functions = source.functions
  BY DEF Init
<1>3. \A f \in DOMAIN source.functions :
         source.functions[f] = [source.functions[f] EXCEPT !.instructions = Folded(f)]
  <2> SUFFICES ASSUME NEW f \in DOMAIN source.functions
               PROVE  source.functions[f]
                        = [source.functions[f] EXCEPT !.instructions = Folded(f)]
    OBVIOUS
  <2>1. Folded(f) = source.functions[f].instructions
    BY <1>2 DEF Folded
  <2>2. PICK given : given = source.functions[f]
    OBVIOUS
  <2>3. IsIRFunction(given)
    BY <1>1, <2>2, SourceTyped
  <2>4. WithCode(given, given.instructions) = given
    BY <2>3, Rewritten
  <2> QED
    BY <2>1, <2>2, <2>4 DEF WithCode
<1>4. source.functions = [f \in DOMAIN source.functions |-> source.functions[f]]
  BY <1>1, SourceTyped
<1>5. functions = [f \in DOMAIN source.functions |->
                       [source.functions[f] EXCEPT !.instructions = Folded(f)]]
  BY <1>2, <1>3, <1>4
<1>6. \A f \in DOMAIN functions : Folded(f) \in Seq(Instructions)
  BY <1>1, <1>2, SourceTyped DEF Folded, Given
<1>7. pass \in 1..(Passes + 1) /\ current \in 1..(Len(functions) + 1) /\ position \in Nat \ {0}
  BY <1>1, <1>2, SourceTyped, PassesIsNat DEF Init
<1>8. constants \in [Results -> Int64 \cup {NoConstant}] /\ trapped \in BOOLEAN
  BY DEF Init, NoConstants
<1> QED
  BY <1>1, <1>5, <1>6, <1>7, <1>8 DEF TypeOK

(* The instruction the pass has come to, and what it knows of its operands.     *)
LEMMA InstTyped ==
    ASSUME SourceIsGiven, TypeOK, InFunction
    PROVE  /\ Body \in Seq(Instructions) /\ Body = Folded(current)
           /\ current \in DOMAIN functions /\ position \in DOMAIN Body
           /\ Inst \in Instructions
           /\ \A i \in DOMAIN Inst.operands : Inst.operands[i] \in Operands
           /\ \A i \in DOMAIN Inst.operands : IsName(Inst.operands[i]) =>
                 Inst.operands[i].name \in Registers
<1>1. current \in DOMAIN functions
  BY FunctionsTyped DEF TypeOK, InFunction, InModule
<1>2. Body \in Seq(Instructions) /\ position \in Nat \ {0} /\ Body = Folded(current)
  BY <1>1 DEF TypeOK, Folded, Body
<1>3. position \in DOMAIN Body
  BY <1>2, LenProperties DEF InFunction
<1>4. Inst \in Instructions
  BY <1>2, <1>3 DEF Inst
<1>5. Inst.operands \in Seq(Operands)
  BY <1>4 DEF Instructions
<1>6. \A i \in DOMAIN Inst.operands : Inst.operands[i] \in Operands
  BY <1>5
<1>7. \A operand \in Operands : IsName(operand) => operand.name \in Registers
  BY DEF Operands, IsName, Name, Literals
<1> QED
  BY <1>1, <1>2, <1>3, <1>4, <1>6, <1>7

(* What a fold computes is an integer, and in the IR's range once wrapped.      *)
LEMMA FoldTyped ==
    ASSUME SourceIsGiven, TypeOK, InFunction, Foldable
    PROVE  Wrapped(Exact(Inst.op, constants[Inst.operands[1].name],
                         constants[Inst.operands[2].name])) \in Int64
<1> DEFINE a == constants[Inst.operands[1].name]
           b == constants[Inst.operands[2].name]
<1>1. Inst.operands \in Seq(Operands)
  BY InstTyped DEF Instructions
<1>2. 1 \in DOMAIN Inst.operands /\ 2 \in DOMAIN Inst.operands
  BY <1>1, LenProperties DEF Foldable
<1>3. Inst.operands[1].name \in Registers /\ Inst.operands[2].name \in Registers
  BY <1>2, InstTyped DEF Foldable, Tabled
<1>4. a \in Int64 /\ b \in Int64
  <2>1. a # NoConstant /\ b # NoConstant
    BY DEF Foldable, Tabled
  <2>2. a \in Int64 \cup {NoConstant} /\ b \in Int64 \cup {NoConstant}
    BY <1>3 DEF TypeOK, Results
  <2> QED
    BY <2>1, <2>2
<1>5. Inst.op \in {"add", "sub", "mul", "div"} /\ (Inst.op = "div" => b # 0)
  BY DEF Foldable
<1> HIDE DEF a, b
<1>6. a \in Int /\ b \in Int
  BY <1>4, Int64IsInt
<1>7. Exact(Inst.op, a, b) \in Int
  BY <1>5, <1>6, ExactInt
<1>8. Wrapped(Exact(Inst.op, a, b)) \in Int64
  BY <1>7, WrappedInRange
<1> QED
  BY <1>8 DEF a, b

(* A literal's value is in the IR's range.                                      *)
LEMMA ParseTyped ==
    ASSUME SourceIsGiven, TypeOK, InFunction, try_parse_literal(Inst)
    PROVE  Inst.operands[1].parsed \in Int64
<1>1. Inst.operands \in Seq(Operands)
  BY InstTyped DEF Instructions
<1>2. 1 \in DOMAIN Inst.operands
  BY <1>1, EmptySeq, LenProperties DEF try_parse_literal
<1>3. Inst.operands[1] \in Operands
  BY <1>2, InstTyped
<1>4. Inst.operands[1] \in Literals
  <2>1. \A name \in Registers : IsName(Name(name))
    BY MarkersAreNeither DEF IsName, Name
  <2> QED
    BY <1>3, <2>1 DEF Operands, try_parse_literal
<1> QED
  BY <1>4 DEF Literals

(* Recording a value, or nothing, leaves a table of the IR's integers.          *)
LEMMA RecordTyped ==
    ASSUME SourceIsGiven, TypeOK, InFunction, NEW value \in Int64
    PROVE  [constants EXCEPT ![Inst.result] = value] \in [Results -> Int64 \cup {NoConstant}]
<1>1. Inst.result \in Results
  BY InstTyped DEF Instructions
<1> QED
  BY <1>1 DEF TypeOK

(* Every step keeps the module's shape and types.                               *)
LEMMA NextTyped ==
    ASSUME SourceIsGiven, TypeOK, [Next]_vars
    PROVE  SourceIsGiven' /\ TypeOK'
<1>1. CASE UNCHANGED vars
  <2>1. /\ source' = source /\ functions' = functions /\ pass' = pass /\ current' = current
        /\ position' = position /\ constants' = constants /\ trapped' = trapped
    BY <1>1 DEF vars
  <2>2. SourceIsGiven'
    BY <2>1 DEF SourceIsGiven
  <2>3. TypeOK'
    BY <2>1 DEF TypeOK, Folded
  <2> QED
    BY <2>2, <2>3
<1>2. CASE KnownConstant
  <2>1. Inst.constant_value \in Int64
    BY <1>2, InstTyped DEF KnownConstant, Instructions
  <2>2. constants' \in [Results -> Int64 \cup {NoConstant}]
    BY <1>2, <2>1, RecordTyped DEF KnownConstant, Record
  <2>3. /\ source' = source /\ functions' = functions /\ pass' = pass /\ current' = current
        /\ position' = position + 1 /\ trapped' = trapped
    BY <1>2 DEF KnownConstant, Advance
  <2>4. SourceIsGiven'
    BY <2>3 DEF SourceIsGiven
  <2>5. /\ functions' = [f \in DOMAIN source'.functions |->
                             [source'.functions[f] EXCEPT !.instructions = Folded(f)']]
        /\ \A f \in DOMAIN functions' : Folded(f)' \in Seq(Instructions)
    BY <2>3, ModuleKept
  <2>6. /\ pass' \in 1..(Passes + 1) /\ current' \in 1..(Len(functions') + 1)
        /\ position' \in Nat \ {0}
    BY <2>3 DEF TypeOK
  <2>7. trapped' \in BOOLEAN
    BY <2>3 DEF TypeOK
  <2>8. TypeOK'
    BY <2>2, <2>5, <2>6, <2>7 DEF TypeOK
  <2> QED
    BY <2>4, <2>8
<1>3. CASE ParsedConstant
  <2>1. /\ InFunction /\ mark_constant(Inst.operands[1].parsed)
        /\ constants' = [constants EXCEPT ![Inst.result] = Inst.operands[1].parsed]
        /\ Advance /\ UNCHANGED trapped
    BY <1>3 DEF ParsedConstant, Record
  <2>2. Inst.operands[1].parsed \in Int64
    BY <1>3, ParseTyped DEF ParsedConstant
  <2>3. constants' \in [Results -> Int64 \cup {NoConstant}]
    BY <2>1, <2>2, RecordTyped
  <2>4. UNCHANGED source
    BY <2>1 DEF Advance
  <2>5. /\ functions' = [f \in DOMAIN source'.functions |->
                            [source'.functions[f] EXCEPT !.instructions = Folded(f)']]
        /\ \A f \in DOMAIN functions' : Folded(f)' \in Seq(Instructions)
        /\ Len(functions') = Len(functions)
    BY <2>1, <2>2, <2>4, MarkingTyped
  <2> QED
    BY <2>1, <2>3, <2>5 DEF Advance, SourceIsGiven, TypeOK
<1>4. CASE FoldedOperation
  <2> DEFINE exact == Exact(Inst.op, constants[Inst.operands[1].name],
                            constants[Inst.operands[2].name])
  <2>1. CASE trapped'
    <3>1. /\ trapped' = TRUE
          /\ UNCHANGED <<source, functions, pass, current, position, constants>>
      \/ /\ UNCHANGED trapped /\ Advance
         /\ mark_constant(Wrapped(exact)) /\ Record(Wrapped(exact))
      BY <1>4 DEF FoldedOperation
    <3>2. ~trapped
      BY <1>4 DEF FoldedOperation, InFunction, InModule
    <3> QED
      BY <2>1, <3>1, <3>2, ModuleKept DEF SourceIsGiven, TypeOK
  <2>2. CASE ~trapped'
    <3> HIDE DEF exact
    <3>1. /\ InFunction /\ mark_constant(Wrapped(exact))
          /\ constants' = [constants EXCEPT ![Inst.result] = Wrapped(exact)]
          /\ Advance /\ UNCHANGED trapped
      BY <1>4, <2>2 DEF FoldedOperation, Record, exact
    <3>2. Wrapped(exact) \in Int64
      BY <1>4, FoldTyped DEF FoldedOperation, exact
    <3>3. constants' \in [Results -> Int64 \cup {NoConstant}]
      BY <3>1, <3>2, RecordTyped
    <3>4. UNCHANGED source
      BY <3>1 DEF Advance
    <3>5. /\ functions' = [f \in DOMAIN source'.functions |->
                              [source'.functions[f] EXCEPT !.instructions = Folded(f)']]
          /\ \A f \in DOMAIN functions' : Folded(f)' \in Seq(Instructions)
          /\ Len(functions') = Len(functions)
      BY <3>1, <3>2, <3>4, MarkingTyped
    <3> QED
      BY <3>1, <3>3, <3>5 DEF Advance, SourceIsGiven, TypeOK
  <2> QED
    BY <2>1, <2>2
<1>5. CASE LeftAlone
  <2>1. /\ UNCHANGED <<source, functions, pass, current, constants, trapped>>
        /\ position' = position + 1
    BY <1>5 DEF LeftAlone, Advance
  <2>2. position' \in Nat \ {0}
    BY <2>1 DEF TypeOK
  <2> QED
    BY <2>1, <2>2, ModuleKept DEF SourceIsGiven, TypeOK
<1>6. CASE NextFunction
  <2>1. current + 1 \in 1..(Len(functions) + 1)
    BY <1>6, FunctionsTyped DEF NextFunction, InModule, TypeOK
  <2>2. NoConstants \in [Results -> Int64 \cup {NoConstant}]
    BY DEF NoConstants
  <2> QED
    <3>1. /\ UNCHANGED <<source, functions, pass, trapped>>
          /\ current' = current + 1 /\ position' = 1 /\ constants' = NoConstants
      BY <1>6 DEF NextFunction
    <3>2. /\ pass' \in 1..(Passes + 1) /\ current' \in 1..(Len(functions') + 1)
          /\ position' \in Nat \ {0} /\ trapped' \in BOOLEAN
      BY <2>1, <3>1 DEF TypeOK
    <3>3. constants' \in [Results -> Int64 \cup {NoConstant}]
      BY <2>2, <3>1
    <3>4. SourceIsGiven'
      BY <3>1 DEF SourceIsGiven
    <3> QED
      BY <3>1, <3>2, <3>3, <3>4, ModuleKept DEF TypeOK
<1>7. CASE NextPass
  <2>1. pass + 1 \in 1..(Passes + 1) /\ 1 \in 1..(Len(functions) + 1)
    BY <1>7, FunctionsTyped, PassesIsNat DEF NextPass, TypeOK
  <2>2. NoConstants \in [Results -> Int64 \cup {NoConstant}]
    BY DEF NoConstants
  <2> QED
    <3>1. /\ UNCHANGED <<source, functions, trapped>>
          /\ pass' = pass + 1 /\ current' = 1 /\ position' = 1 /\ constants' = NoConstants
      BY <1>7 DEF NextPass
    <3>2. /\ pass' \in 1..(Passes + 1) /\ current' \in 1..(Len(functions') + 1)
          /\ position' \in Nat \ {0} /\ trapped' \in BOOLEAN
      BY <2>1, <3>1 DEF TypeOK
    <3>3. constants' \in [Results -> Int64 \cup {NoConstant}]
      BY <2>2, <3>1
    <3>4. SourceIsGiven'
      BY <3>1 DEF SourceIsGiven
    <3> QED
      BY <3>1, <3>2, <3>3, <3>4, ModuleKept DEF TypeOK
<1> QED
  BY <1>1, <1>2, <1>3, <1>4, <1>5, <1>6, <1>7 DEF Next

(* ConstantFoldingPass::run and PassManager::run: what folding leaves is a      *)
(* module of the functions that were given, whose constants are all in the      *)
(* range of the IR's integers, however often it overflows.                      *)
THEOREM FoldingTypeCorrect == Spec => []TypeOK
<1>1. Init => SourceIsGiven /\ TypeOK
  BY InitTyped
<1>2. (SourceIsGiven /\ TypeOK) /\ [Next]_vars => (SourceIsGiven /\ TypeOK)'
  BY NextTyped
<1> QED
  BY <1>1, <1>2, PTL DEF Spec

-------------------------------------------------------------------------------
(* The inductive invariant of folding.                                          *)

\* The instructions before the n-th that are constants called name.
Writers(code, n, name) ==
    {k \in DOMAIN code : k < n /\ code[k].is_constant /\ code[k].result = name}

\* The last of some places in a function.
LastOf(places) == CHOOSE k \in places : \A other \in places : other <= k

\* The table a pass has when it comes to the n-th instruction, if it changes
\* nothing before it: each name's last constant.
TableAt(code, n) ==
    [name \in Results |->
        IF Writers(code, n, name) = {} THEN NoConstant
        ELSE code[LastOf(Writers(code, n, name))].constant_value]

TabledIn(table, operand) == IsName(operand) /\ table[operand.name] # NoConstant

\* Foldable, of any instruction and any table.
FoldableWith(inst, table) ==
    /\ ~inst.is_constant /\ Len(inst.operands) = 2
    /\ TabledIn(table, inst.operands[1]) /\ TabledIn(table, inst.operands[2])
    /\ \/ inst.op \in {"add", "sub", "mul"}
       \/ inst.op = "div" /\ table[inst.operands[2].name] # 0

\* A pass that has the table leaves the instruction as it is.
Settled(inst, table) ==
    inst.is_constant \/ IF inst.op = "const" THEN ~try_parse_literal(inst)
                        ELSE ~FoldableWith(inst, table)

\* The pass's table is what the instructions before where it is, as it has left
\* them, say.
TableInStep == InModule => constants = TableAt(Body, position)

\* What a pass has gone through stays folded: the first pass up to where it is,
\* and the whole module from then on.
PassedIsSettled ==
    \A f \in DOMAIN functions : \A k \in DOMAIN Folded(f) :
        pass > 1 \/ f < current \/ (f = current /\ k < position) =>
            Settled(Folded(f)[k], TableAt(Folded(f), k))

FoldInv == SourceIsGiven /\ TypeOK /\ TableInStep /\ PassedIsSettled

-------------------------------------------------------------------------------
(* A table and the instructions it comes from.                                  *)

(* Places in a function, if any, have a last one.                               *)
LEMMA LastIsLast ==
    ASSUME NEW n \in Nat, NEW L, L \subseteq 1..n, L # {}
    PROVE  LastOf(L) \in L /\ \A other \in L : other <= LastOf(L)
<1> DEFINE R == OpToRel(<, Nat)
           T == {n - place : place \in L}
<1>1. IsWellFoundedOn(R, Nat)
  BY NatLessThanWellFounded
<1>2. T \subseteq Nat /\ T # {}
  <2>1. \A place \in L : place \in Nat /\ n - place \in Nat
    OBVIOUS
  <2>2. PICK place \in L : TRUE
    OBVIOUS
  <2>3. n - place \in T
    OBVIOUS
  <2> QED
    BY <2>1, <2>3
<1>3. PICK x \in T : \A y \in T : <<y, x>> \notin R
  <2> HIDE DEF R, T
  <2> QED
    BY <1>1, <1>2, WFMin
<1>4. \A y \in T : ~(y < x)
  BY <1>2, <1>3 DEF OpToRel
<1>5. PICK place \in L : x = n - place
  OBVIOUS
<1>6. \A other \in L : other <= place
  <2> SUFFICES ASSUME NEW other \in L
               PROVE  other <= place
    OBVIOUS
  <2>1. ~(n - other < n - place)
    BY <1>4, <1>5
  <2>2. other \in Int /\ place \in Int
    OBVIOUS
  <2> HIDE DEF T
  <2> QED
    BY <2>1, <2>2
<1> QED
  BY <1>6 DEF LastOf

(* Nothing comes before a function's first instruction.                         *)
LEMMA TableAtStart ==
    ASSUME NEW code \in Seq(Instructions)
    PROVE  TableAt(code, 1) = NoConstants
<1>1. \A name : Writers(code, 1, name) = {}
  BY LenProperties DEF Writers
<1> QED
  BY <1>1 DEF TableAt, NoConstants

(* A table comes from the instructions before it alone.                         *)
LEMMA TableFromBefore ==
    ASSUME NEW code \in Seq(Instructions), NEW other \in Seq(Instructions),
           NEW n \in Int, DOMAIN other = DOMAIN code,
           \A k \in DOMAIN code : k < n => other[k] = code[k]
    PROVE  TableAt(other, n) = TableAt(code, n)
<1>1. \A name : Writers(other, n, name) = Writers(code, n, name)
  BY DEF Writers
<1>2. ASSUME NEW name \in Results, Writers(code, n, name) # {}
      PROVE  other[LastOf(Writers(code, n, name))] = code[LastOf(Writers(code, n, name))]
  <2>1. Writers(code, n, name) \subseteq 1..Len(code) /\ Len(code) \in Nat
    BY LenProperties DEF Writers
  <2>2. LastOf(Writers(code, n, name)) \in Writers(code, n, name)
    BY <1>2, <2>1, LastIsLast
  <2> QED
    BY <2>2 DEF Writers
<1> QED
  BY <1>1, <1>2 DEF TableAt

(* An instruction that is a constant is tabled, one that is not leaves the table*)
(* alone.                                                                       *)
LEMMA TableAfter ==
    ASSUME NEW code \in Seq(Instructions), NEW n \in DOMAIN code
    PROVE  TableAt(code, n + 1) =
             IF code[n].is_constant
             THEN [TableAt(code, n) EXCEPT ![code[n].result] = code[n].constant_value]
             ELSE TableAt(code, n)
<1>1. DOMAIN code = 1..Len(code) /\ Len(code) \in Nat /\ n \in Int
  BY LenProperties
<1>2. \A name : Writers(code, n + 1, name) =
        IF code[n].is_constant /\ code[n].result = name
        THEN Writers(code, n, name) \cup {n} ELSE Writers(code, n, name)
  BY <1>1 DEF Writers
<1>3. ASSUME NEW name, code[n].is_constant, code[n].result = name
      PROVE  LastOf(Writers(code, n + 1, name)) = n
  <2>1. Writers(code, n + 1, name) = Writers(code, n, name) \cup {n}
    BY <1>2, <1>3
  <2>2. Writers(code, n + 1, name) \subseteq 1..Len(code)
    BY <1>1 DEF Writers
  <2>3. PICK last : last = LastOf(Writers(code, n + 1, name))
    OBVIOUS
  <2>4. last \in Writers(code, n + 1, name) /\ \A k \in Writers(code, n + 1, name) : k <= last
    BY <1>1, <2>1, <2>2, <2>3, LastIsLast
  <2>5. last \in Int /\ last < n + 1 /\ n <= last
    BY <1>1, <2>1, <2>2, <2>4 DEF Writers
  <2> QED
    BY <1>1, <2>3, <2>5
<1>4. CASE code[n].is_constant
  <2>1. ASSUME NEW name \in Results
        PROVE  TableAt(code, n + 1)[name] =
                 IF name = code[n].result THEN code[n].constant_value
                 ELSE TableAt(code, n)[name]
    <3>1. CASE name = code[n].result
      <4>1. Writers(code, n + 1, name) # {}
        BY <1>2, <1>4, <3>1
      <4>2. LastOf(Writers(code, n + 1, name)) = n
        BY <1>3, <1>4, <3>1
      <4> QED
        BY <2>1, <3>1, <4>1, <4>2 DEF TableAt
    <3>2. CASE name # code[n].result
      <4>1. Writers(code, n + 1, name) = Writers(code, n, name)
        BY <1>2, <3>2
      <4> QED
        BY <2>1, <3>2, <4>1 DEF TableAt
    <3> QED
      BY <3>1, <3>2
  <2>2. /\ TableAt(code, n + 1) = [name \in Results |-> TableAt(code, n + 1)[name]]
        /\ TableAt(code, n) = [name \in Results |-> TableAt(code, n)[name]]
    BY DEF TableAt
  <2> QED
    BY <1>4, <2>1, <2>2
<1>5. CASE ~code[n].is_constant
  <2>1. \A name : Writers(code, n + 1, name) = Writers(code, n, name)
    BY <1>2, <1>5
  <2> QED
    BY <1>5, <2>1 DEF TableAt
<1> QED
  BY <1>4, <1>5

-------------------------------------------------------------------------------
(* The steps keep the invariant.                                                *)

(* The table begins empty, before any pass.                                     *)
LEMMA InitSettled == Init => TableInStep /\ PassedIsSettled
<1> SUFFICES ASSUME Init PROVE TableInStep /\ PassedIsSettled
  OBVIOUS
<1>1. SourceIsGiven /\ TypeOK
  BY InitTyped
<1>2. TableInStep
  <2> SUFFICES ASSUME InModule PROVE constants = TableAt(Body, position)
    BY DEF TableInStep
  <2>1. current \in DOMAIN functions
    BY <1>1, FunctionsTyped DEF TypeOK, InModule
  <2>2. Body \in Seq(Instructions)
    BY <1>1, <2>1 DEF TypeOK, Body, Folded
  <2> QED
    BY <2>2, TableAtStart DEF Init
<1>3. PassedIsSettled
  <2>1. \A f \in DOMAIN functions : f \in Int /\ ~(f < 1)
    BY <1>1, FunctionsTyped
  <2>2. \A f \in DOMAIN functions : \A k \in DOMAIN Folded(f) : k \in Int /\ ~(k < 1)
    BY <1>1, LenProperties DEF TypeOK
  <2> QED
    BY <2>1, <2>2 DEF Init, PassedIsSettled
<1> QED
  BY <1>2, <1>3

(* A second pass meets nothing that it would change.                            *)
LEMMA NothingLeftToFold ==
    ASSUME SourceIsGiven, TypeOK, TableInStep, PassedIsSettled, InFunction, pass > 1
    PROVE  ~ParsedConstant /\ ~FoldedOperation
<1>1. Settled(Inst, constants)
  <2>1. current \in DOMAIN functions /\ position \in DOMAIN Body /\ Body = Folded(current)
    BY InstTyped
  <2>2. Settled(Body[position], TableAt(Body, position))
    BY <2>1 DEF PassedIsSettled
  <2> QED
    BY <2>2 DEF TableInStep, InFunction, Inst
<1>2. ~ParsedConstant
  BY <1>1 DEF Settled, ParsedConstant
<1>3. ~FoldedOperation
  <2>1. Foldable => FoldableWith(Inst, constants) /\ Inst.op # "const" /\ ~Inst.is_constant
    BY DEF Foldable, FoldableWith, Tabled, TabledIn
  <2> QED
    BY <1>1, <2>1 DEF Settled, FoldedOperation
<1> QED
  BY <1>2, <1>3

(* Going past an instruction that is as the pass would leave it.                *)
LEMMA PassingKeeps ==
    ASSUME SourceIsGiven, TypeOK, TableInStep, PassedIsSettled, InFunction,
           UNCHANGED <<source, functions, pass, current, trapped>>, position' = position + 1,
           Settled(Inst, constants),
           constants' = IF Inst.is_constant
                        THEN [constants EXCEPT ![Inst.result] = Inst.constant_value]
                        ELSE constants
    PROVE  TableInStep' /\ PassedIsSettled'
<1>1. /\ Body \in Seq(Instructions) /\ Body = Folded(current)
      /\ current \in DOMAIN functions /\ position \in DOMAIN Body
  BY InstTyped
<1>2. constants = TableAt(Body, position)
  BY DEF TableInStep, InFunction
<1>3. constants' = TableAt(Body, position + 1)
  BY <1>1, <1>2, TableAfter DEF Inst
<1>4. Body' = Body
  BY DEF Body
<1>5. TableInStep'
  BY <1>3, <1>4 DEF TableInStep
<1>6. Settled(Body[position], TableAt(Body, position))
  BY <1>2 DEF Inst
<1>7. PassedIsSettled'
  <2> SUFFICES ASSUME NEW f \in DOMAIN functions, NEW k \in DOMAIN Folded(f),
                      pass > 1 \/ f < current \/ (f = current /\ k < position + 1)
               PROVE  Settled(Folded(f)[k], TableAt(Folded(f), k))
    BY DEF PassedIsSettled, Folded
  <2>1. CASE pass > 1 \/ f < current \/ (f = current /\ k < position)
    BY <2>1 DEF PassedIsSettled
  <2>2. CASE f = current /\ ~(k < position)
    <3>1. k \in Int /\ position \in Int
      BY <1>1, <2>2, LenProperties
    <3>2. k = position \/ pass > 1
      BY <2>2, <3>1, FunctionsTyped
    <3> QED
      BY <1>1, <1>6, <2>1, <2>2, <3>2
  <2> QED
    BY <2>1, <2>2
<1> QED
  BY <1>5, <1>7

(* Marking an instruction in the first pass and going past it.                  *)
LEMMA MarkingKeeps ==
    ASSUME SourceIsGiven, TypeOK, TableInStep, PassedIsSettled, InFunction, ~(pass > 1),
           NEW value \in Int64, mark_constant(value), Record(value), Advance
    PROVE  TableInStep' /\ PassedIsSettled'
<1> DEFINE code == [Body EXCEPT ![position] = Marked(Inst, value)]
<1>1. /\ Body \in Seq(Instructions) /\ Body = Folded(current)
      /\ current \in DOMAIN functions /\ position \in DOMAIN Body /\ Inst \in Instructions
  BY InstTyped
<1>2. /\ UNCHANGED <<source, pass, current>> /\ position' = position + 1
      /\ constants' = [constants EXCEPT ![Inst.result] = value]
  BY DEF Advance, Record
<1>3. /\ \A f \in DOMAIN functions : f # current => Folded(f)' = Folded(f)
      /\ \A f : f = current => Folded(f)' = code
      /\ code \in Seq(Instructions)
  BY <1>2, MarkingTyped
<1>4. DOMAIN functions' = DOMAIN functions
  BY Marking
<1>5. /\ DOMAIN code = DOMAIN Body
      /\ \A k \in DOMAIN Body : k < position => code[k] = Body[k]
      /\ code[position] = Marked(Inst, value)
  BY <1>1, LenProperties
<1>6. position \in Int /\ \A k \in DOMAIN Body : k \in Int
  BY <1>1, LenProperties
<1>7. constants = TableAt(Body, position)
  BY DEF TableInStep, InFunction
<1>8. /\ Marked(Inst, value).is_constant = TRUE /\ Marked(Inst, value).constant_value = value
      /\ Marked(Inst, value).result = Inst.result
  BY <1>1, MarkedTyped
<1> HIDE DEF code
<1>9. TableAt(code, position) = constants
  BY <1>1, <1>3, <1>5, <1>6, <1>7, TableFromBefore
<1>10. TableAt(code, position + 1) = constants'
  <2>1. position \in DOMAIN code
    BY <1>1, <1>5
  <2>2. TableAt(code, position + 1) =
          [TableAt(code, position) EXCEPT ![code[position].result]
               = code[position].constant_value]
    <3>1. code[position].is_constant
      BY <1>5, <1>8
    <3> QED
      BY <1>3, <2>1, <3>1, TableAfter
  <2>3. code[position].result = Inst.result /\ code[position].constant_value = value
    BY <1>5, <1>8
  <2> QED
    BY <1>2, <1>9, <2>2, <2>3
<1>11. Body' = code
  <2>1. \A f : f = current => functions'[f].instructions = code
    BY <1>3 DEF Folded
  <2> QED
    BY <1>2, <2>1 DEF Body
<1>12. TableInStep'
  BY <1>2, <1>10, <1>11 DEF TableInStep
<1>13. PassedIsSettled'
  <2> SUFFICES ASSUME NEW f \in DOMAIN functions, NEW k \in DOMAIN Folded(f)',
                      pass > 1 \/ f < current \/ (f = current /\ k < position + 1)
               PROVE  Settled(Folded(f)'[k], TableAt(Folded(f)', k))
    BY <1>2, <1>4 DEF PassedIsSettled
  <2>1. CASE f # current
    <3>1. Folded(f)' = Folded(f)
      BY <1>3, <2>1
    <3> QED
      BY <2>1, <3>1 DEF PassedIsSettled
  <2>2. CASE f = current
    <3>1. Folded(f)' = code /\ k \in DOMAIN Body
      BY <1>3, <1>5, <2>2
    <3>2. k \in Int /\ k < position + 1
      BY <1>1, <1>6, <2>2, <3>1, FunctionsTyped
    <3>3. CASE k < position
      <4>1. TableAt(code, k) = TableAt(Body, k)
        <5>1. \A j \in DOMAIN Body : j < k => code[j] = Body[j]
          BY <1>5, <1>6, <3>2, <3>3
        <5> QED
          BY <1>1, <1>3, <1>5, <3>2, <5>1, TableFromBefore
      <4>2. Settled(Body[k], TableAt(Body, k))
        BY <1>1, <2>2, <3>1, <3>3 DEF PassedIsSettled
      <4> QED
        BY <1>5, <3>1, <3>3, <4>1, <4>2
    <3>4. CASE ~(k < position)
      <4>1. k = position
        BY <1>6, <3>2, <3>4
      <4>2. Settled(code[k], TableAt(code, k))
        BY <1>5, <1>8, <4>1 DEF Settled
      <4> QED
        BY <3>1, <4>2
    <3> QED
      BY <3>3, <3>4
  <2> QED
    BY <2>1, <2>2
<1> QED
  BY <1>12, <1>13

(* Every step keeps the table in step and what a pass has left settled.         *)
LEMMA NextSettled ==
    ASSUME FoldInv, [Next]_vars
    PROVE  TableInStep' /\ PassedIsSettled'
<1> USE DEF FoldInv
<1>1. CASE UNCHANGED vars
  BY <1>1 DEF vars, TableInStep, InModule, Body, PassedIsSettled, Folded
<1>2. CASE KnownConstant
  <2>1. /\ InFunction /\ Inst.is_constant /\ position' = position + 1
        /\ UNCHANGED <<source, functions, pass, current, trapped>>
        /\ constants' = [constants EXCEPT ![Inst.result] = Inst.constant_value]
    BY <1>2 DEF KnownConstant, Advance, Record
  <2>2. Settled(Inst, constants)
    BY <2>1 DEF Settled
  <2> QED
    BY <2>1, <2>2, PassingKeeps
<1>3. CASE ParsedConstant
  <2>1. InFunction /\ try_parse_literal(Inst)
    BY <1>3 DEF ParsedConstant
  <2>2. ~(pass > 1)
    BY <1>3, <2>1, NothingLeftToFold
  <2>3. Inst.operands[1].parsed \in Int64
    BY <2>1, ParseTyped
  <2> QED
    BY <1>3, <2>1, <2>2, <2>3, MarkingKeeps DEF ParsedConstant
<1>4. CASE FoldedOperation
  <2> DEFINE folded == Wrapped(Exact(Inst.op, constants[Inst.operands[1].name],
                                     constants[Inst.operands[2].name]))
  <2>1. InFunction /\ Foldable
    BY <1>4 DEF FoldedOperation
  <2>2. ~(pass > 1)
    BY <1>4, <2>1, NothingLeftToFold
  <2>3. folded \in Int64
    BY <2>1, FoldTyped
  <2>4. \/ mark_constant(folded) /\ Record(folded) /\ Advance
        \/ UNCHANGED <<source, functions, pass, current, position, constants>> /\ trapped'
    BY <1>4 DEF FoldedOperation
  <2> HIDE DEF folded
  <2>5. CASE mark_constant(folded) /\ Record(folded) /\ Advance
    BY <2>1, <2>2, <2>3, <2>5, MarkingKeeps
  <2>6. CASE UNCHANGED <<source, functions, pass, current, position, constants>> /\ trapped'
    BY <2>6 DEF TableInStep, InModule, PassedIsSettled, Folded
  <2> QED
    BY <2>4, <2>5, <2>6
<1>5. CASE LeftAlone
  <2>1. /\ InFunction /\ ~Inst.is_constant /\ position' = position + 1
        /\ UNCHANGED <<source, functions, pass, current, trapped, constants>>
    BY <1>5 DEF LeftAlone, Advance
  <2>2. IF Inst.op = "const" THEN ~try_parse_literal(Inst) ELSE ~Foldable
    BY <1>5 DEF LeftAlone
  <2>3. Foldable <=> FoldableWith(Inst, constants)
    BY DEF Foldable, FoldableWith, Tabled, TabledIn
  <2>4. Settled(Inst, constants)
    BY <2>2, <2>3 DEF Settled
  <2> QED
    BY <2>1, <2>4, PassingKeeps
<1>6. CASE NextFunction
  <2>1. /\ InModule /\ position = Len(Body) + 1 /\ current' = current + 1 /\ position' = 1
        /\ constants' = NoConstants /\ UNCHANGED <<source, functions, pass, trapped>>
    BY <1>6 DEF NextFunction
  <2>2. current \in Int /\ \A f \in DOMAIN functions : f \in Int
    BY FunctionsTyped DEF TypeOK
  <2>3. TableInStep'
    <3> SUFFICES ASSUME InModule' PROVE constants' = TableAt(Body', position')
      BY DEF TableInStep
    <3>1. current + 1 \in DOMAIN functions
      BY <2>1, <2>2, FunctionsTyped DEF TypeOK, InModule
    <3>2. Folded(current + 1) \in Seq(Instructions)
      BY <3>1 DEF TypeOK
    <3>3. Body' = Folded(current + 1)
      BY <2>1 DEF Body, Folded
    <3> QED
      BY <2>1, <3>2, <3>3, TableAtStart
  <2>4. PassedIsSettled'
    <3> SUFFICES ASSUME NEW f \in DOMAIN functions, NEW k \in DOMAIN Folded(f),
                        pass > 1 \/ f < current + 1 \/ (f = current + 1 /\ k < 1)
                 PROVE  Settled(Folded(f)[k], TableAt(Folded(f), k))
      BY <2>1 DEF PassedIsSettled, Folded
    <3>1. k \in 1..Len(Folded(f)) /\ Len(Folded(f)) \in Nat
      BY LenProperties DEF TypeOK
    <3>2. pass > 1 \/ f < current \/ f = current
      BY <2>2, <3>1
    <3>3. f = current => k < position
      BY <2>1, <3>1 DEF Body, Folded
    <3> QED
      BY <3>2, <3>3 DEF PassedIsSettled
  <2> QED
    BY <2>3, <2>4
<1>7. CASE NextPass
  <2>1. /\ current > Len(functions) /\ pass' = pass + 1 /\ current' = 1 /\ position' = 1
        /\ constants' = NoConstants /\ UNCHANGED <<source, functions, trapped>>
    BY <1>7 DEF NextPass
  <2>2. TableInStep'
    <3> SUFFICES ASSUME InModule' PROVE constants' = TableAt(Body', position')
      BY DEF TableInStep
    <3>1. 1 \in DOMAIN functions
      BY <2>1, FunctionsTyped DEF InModule
    <3>2. Folded(1) \in Seq(Instructions)
      BY <3>1 DEF TypeOK
    <3>3. Body' = Folded(1)
      BY <2>1 DEF Body, Folded
    <3> QED
      BY <2>1, <3>2, <3>3, TableAtStart
  <2>3. \A f \in DOMAIN functions : f < current
    BY <2>1, FunctionsTyped DEF TypeOK
  <2>4. \A f \in DOMAIN functions : \A k \in DOMAIN Folded(f) :
           Settled(Folded(f)[k], TableAt(Folded(f), k))
    BY <2>3 DEF PassedIsSettled
  <2>5. PassedIsSettled'
    BY <2>1, <2>4 DEF PassedIsSettled, Folded
  <2> QED
    BY <2>2, <2>5
<1> QED
  BY <1>1, <1>2, <1>3, <1>4, <1>5, <1>6, <1>7 DEF Next

(* The table is that of the instructions gone through, and what was gone        *)
(* through is folded.                                                           *)
THEOREM FoldingIsSettled == Spec => []FoldInv
<1>1. Init => FoldInv
  BY InitTyped, InitSettled DEF FoldInv
<1>2. FoldInv /\ [Next]_vars => FoldInv'
  <2> SUFFICES ASSUME FoldInv, [Next]_vars PROVE FoldInv'
    OBVIOUS
  <2>1. SourceIsGiven' /\ TypeOK'
    BY NextTyped DEF FoldInv
  <2>2. TableInStep' /\ PassedIsSettled'
    BY NextSettled
  <2> QED
    BY <2>1, <2>2 DEF FoldInv
<1> QED
  BY <1>1, <1>2, PTL DEF Spec

(* PassManager::run with more than one folding pass: the first folds all that   *)
(* any would, whatever the module, the ones after it change nothing.            *)
THEOREM FirstPassFoldsAll == Spec => OncePassedIsFolded
<1>1. FoldInv /\ [Next]_vars => (pass > 1 => UNCHANGED functions)
  <2> SUFFICES ASSUME FoldInv, [Next]_vars, pass > 1
               PROVE  UNCHANGED functions
    OBVIOUS
  <2>1. ~ParsedConstant /\ ~FoldedOperation
    <3>1. CASE InFunction
      BY <3>1, NothingLeftToFold DEF FoldInv
    <3>2. CASE ~InFunction
      BY <3>2 DEF ParsedConstant, FoldedOperation
    <3> QED
      BY <3>1, <3>2
  <2> QED
    BY <2>1 DEF Next, KnownConstant, LeftAlone, NextFunction, NextPass, vars
<1>2. FoldInv /\ [Next]_vars => [pass > 1 => UNCHANGED functions]_vars
  BY <1>1
<1> QED
  BY <1>2, FoldingIsSettled, PTL DEF Spec, OncePassedIsFolded

-------------------------------------------------------------------------------
(* What a function computes, line by line.                                      *)

(* Natural numbers, if any, have a first one.                                   *)
LEMMA FirstOf ==
    ASSUME NEW S, S \subseteq Nat, S # {}
    PROVE  \E first \in S : \A other \in S : first <= other
<1> DEFINE R == OpToRel(<, Nat)
<1>1. IsWellFoundedOn(R, Nat)
  BY NatLessThanWellFounded
<1>2. PICK x \in S : \A y \in S : <<y, x>> \notin R
  <2> HIDE DEF R
  <2> QED
    BY <1>1, WFMin
<1>3. \A y \in S : ~(y < x)
  BY <1>2 DEF OpToRel
<1> QED
  BY <1>3

\* One line of a function.
Stepped(values, inst) == [values EXCEPT ![inst.result] = Computed(values, inst)]

\* The names' values after each of a function's first n lines.
IsRun(code, n, run) ==
    run = [k \in 0..n |-> IF k = 0 THEN Arguments ELSE Stepped(run[k - 1], code[k])]

(* Any number of lines can be run.                                              *)
LEMMA RunExists ==
    ASSUME NEW code, NEW n \in Nat
    PROVE  \E run : IsRun(code, n, run)
<1> DEFINE stuck == {k \in Nat : ~\E run : IsRun(code, k, run)}
<1> SUFFICES ASSUME stuck # {} PROVE FALSE
  OBVIOUS
<1>1. PICK first \in stuck : \A other \in stuck : first <= other
  BY FirstOf
<1>2. first # 0
  <2>1. PICK run : run = [k \in 0..0 |-> Arguments]
    OBVIOUS
  <2>2. IsRun(code, 0, run)
    BY <2>1 DEF IsRun
  <2> QED
    BY <2>2
<1>3. first - 1 \in Nat /\ first - 1 \notin stuck
  BY <1>1, <1>2
<1>4. PICK run : IsRun(code, first - 1, run)
  BY <1>3
<1>5. PICK longer : longer = [k \in 0..first |->
         IF k = first THEN Stepped(run[first - 1], code[first]) ELSE run[k]]
  OBVIOUS
<1>6. ASSUME NEW k \in 0..first
      PROVE  longer[k] = IF k = 0 THEN Arguments ELSE Stepped(longer[k - 1], code[k])
  <2>1. CASE k = first
    <3>1. longer[k - 1] = run[first - 1]
      BY <1>2, <1>5, <2>1
    <3> QED
      BY <1>2, <1>5, <2>1, <3>1
  <2>2. CASE k # first
    <3>1. k \in 0..(first - 1)
      BY <2>2
    <3>2. run[k] = IF k = 0 THEN Arguments ELSE Stepped(run[k - 1], code[k])
      BY <1>4, <3>1 DEF IsRun
    <3>3. longer[k] = run[k] /\ (k # 0 => longer[k - 1] = run[k - 1])
      BY <1>5, <2>2, <3>1
    <3> QED
      BY <3>2, <3>3
  <2> QED
    BY <2>1, <2>2
<1>7. IsRun(code, first, longer)
  BY <1>5, <1>6 DEF IsRun
<1> QED
  BY <1>7

(* All runs of the same lines are the same.                                     *)
LEMMA RunsAgree ==
    ASSUME NEW code, NEW n \in Nat, NEW m \in 0..n, NEW run, IsRun(code, n, run),
           NEW other, IsRun(code, m, other)
    PROVE  \A k \in 0..m : run[k] = other[k]
<1> DEFINE apart == {k \in 0..m : run[k] # other[k]}
<1> SUFFICES ASSUME apart # {} PROVE FALSE
  OBVIOUS
<1>1. PICK first \in apart : \A k \in apart : first <= k
  <2>1. apart \subseteq Nat
    OBVIOUS
  <2> HIDE DEF apart
  <2> QED
    BY <2>1, FirstOf
<1>2. first \in 0..n /\ first \in 0..m
  OBVIOUS
<1>3. first # 0
  BY <1>1, <1>2 DEF IsRun
<1>4. first - 1 \in 0..m /\ first - 1 \notin apart
  BY <1>1, <1>2, <1>3
<1>5. run[first] = Stepped(run[first - 1], code[first])
  BY <1>2, <1>3 DEF IsRun
<1>6. other[first] = Stepped(other[first - 1], code[first])
  BY <1>2, <1>3 DEF IsRun
<1> QED
  BY <1>1, <1>4, <1>5, <1>6

(* ValuesAfter, line by line.                                                   *)
LEMMA ValuesAfterRun ==
    ASSUME NEW code, NEW n \in Nat
    PROVE  \E run : IsRun(code, n, run) /\ ValuesAfter(code, n) = run[n]
<1> DEFINE values == CHOOSE run : run = [k \in 0..n |->
              IF k = 0 THEN Arguments
              ELSE [run[k - 1] EXCEPT ![code[k].result] = Computed(run[k - 1], code[k])]]
<1>1. ValuesAfter(code, n) = values[n]
  BY DEF ValuesAfter
<1>2. IsRun(code, n, values)
  BY RunExists DEF IsRun, Stepped
<1> QED
  BY <1>1, <1>2

(* The values after a line are those before it, with what the line computes.    *)
LEMMA ValuesSteps ==
    ASSUME NEW code
    PROVE  /\ ValuesAfter(code, 0) = Arguments
           /\ \A n \in Nat \ {0} :
                ValuesAfter(code, n) = Stepped(ValuesAfter(code, n - 1), code[n])
<1>1. ValuesAfter(code, 0) = Arguments
  BY ValuesAfterRun DEF IsRun
<1>2. ASSUME NEW n \in Nat \ {0}
      PROVE  ValuesAfter(code, n) = Stepped(ValuesAfter(code, n - 1), code[n])
  <2>1. PICK run : IsRun(code, n, run) /\ ValuesAfter(code, n) = run[n]
    BY ValuesAfterRun
  <2>2. PICK m : m = n - 1
    OBVIOUS
  <2>3. m \in Nat /\ m \in 0..n
    BY <2>2
  <2>4. PICK other : IsRun(code, m, other) /\ ValuesAfter(code, m) = other[m]
    BY <2>3, ValuesAfterRun
  <2>5. run[m] = other[m]
    <3>1. \A k \in 0..m : run[k] = other[k]
      BY <2>1, <2>3, <2>4, RunsAgree
    <3> QED
      BY <2>3, <3>1
  <2>6. run[n] = Stepped(run[n - 1], code[n])
    BY <2>1 DEF IsRun
  <2> QED
    BY <2>1, <2>2, <2>4, <2>5, <2>6
<1> QED
  BY <1>1, <1>2

(* A run gives values to the same names throughout.                             *)
LEMMA ValuesOfResults ==
    ASSUME NEW code, NEW n \in Nat
    PROVE  DOMAIN ValuesAfter(code, n) = Results
<1> DEFINE others == {k \in Nat : DOMAIN ValuesAfter(code, k) # Results}
<1> SUFFICES ASSUME others # {} PROVE FALSE
  OBVIOUS
<1>1. PICK first \in others : \A k \in others : first <= k
  <2>1. others \subseteq Nat
    OBVIOUS
  <2> HIDE DEF others
  <2> QED
    BY <2>1, FirstOf
<1>2. first # 0
  BY <1>1, ValuesSteps, ArgumentsAreInts
<1>3. first - 1 \in Nat /\ first - 1 \notin others
  BY <1>1, <1>2
<1>4. ValuesAfter(code, first) = Stepped(ValuesAfter(code, first - 1), code[first])
  BY <1>2, ValuesSteps
<1> QED
  BY <1>1, <1>3, <1>4 DEF Stepped

(* What a line gives a name, and what it leaves the others.                     *)
LEMMA ValueAfterLine ==
    ASSUME NEW code, NEW n \in Nat \ {0}, NEW name \in Registers
    PROVE  ValuesAfter(code, n)[name] =
             IF name = code[n].result THEN Computed(ValuesAfter(code, n - 1), code[n])
             ELSE ValuesAfter(code, n - 1)[name]
<1>1. ValuesAfter(code, n) = Stepped(ValuesAfter(code, n - 1), code[n])
  BY ValuesSteps
<1>2. DOMAIN ValuesAfter(code, n - 1) = Results
  BY ValuesOfResults
<1>3. name \in Results
  BY DEF Results
<1> QED
  BY <1>1, <1>2, <1>3 DEF Stepped

(* What a constant's digits make of it is that number, or nothing.              *)
LEMMA EmittedIsNumber ==
    ASSUME NEW n
    PROVE  Emitted(n) = Undefined \/ Emitted(n).number = n
BY DEF Emitted

(* An operation's result is that number, or nothing.                            *)
LEMMA IntegerIsNumber ==
    ASSUME NEW type, NEW n
    PROVE  Integer(type, n) = Undefined \/ (Integer(type, n).number = n /\ Fits(type, n))
BY DEF Integer

\* A line's result, of the values of its operands.
OfOne(op, v) ==
    IF v = Undefined THEN Undefined
    ELSE IF op = "const" THEN v
    ELSE Integer(IF v.type = "long" THEN "long" ELSE "int", -v.number)
OfTwo(op, v, w) ==
    LET type == IF v.type = "long" \/ w.type = "long" THEN "long" ELSE "int"
    IN  IF v = Undefined \/ w = Undefined THEN Undefined
        ELSE IF op \in {"div", "mod"} /\ ~Divides(type, v.number, w.number) THEN Undefined
        ELSE Integer(type, Exact(op, v.number, w.number))

(* What a line with one operand computes.                                       *)
LEMMA ComputedOfOne ==
    ASSUME NEW values, NEW inst \in Instructions, ~inst.is_constant,
           inst.op \in {"const", "neg"}
    PROVE  Computed(values, inst) =
             IF Len(inst.operands) # 1 THEN Undefined
             ELSE OfOne(inst.op, Value(values, inst.operands[1]))
<1> DEFINE operand(i) == Value(values, inst.operands[i])
<1>1. /\ (\A i \in 1..1 : operand(i) # Undefined) <=> operand(1) # Undefined
      /\ (\E i \in 1..1 : operand(i).type = "long") <=> operand(1).type = "long"
  <2>1. \A i : i \in 1..1 <=> i = 1
    OBVIOUS
  <2> QED
    BY <2>1
<1>2. CASE inst.op = "const"
  BY <1>1, <1>2 DEF Computed, OfOne
<1>3. CASE inst.op = "neg"
  BY <1>1, <1>3 DEF Computed, OfOne
<1> QED
  BY <1>2, <1>3

(* What a line with two operands computes.                                      *)
LEMMA ComputedOfTwo ==
    ASSUME NEW values, NEW inst \in Instructions, ~inst.is_constant,
           inst.op \in {"add", "sub", "mul", "div", "mod"}
    PROVE  Computed(values, inst) =
             IF Len(inst.operands) # 2 THEN Undefined
             ELSE OfTwo(inst.op, Value(values, inst.operands[1]),
                                 Value(values, inst.operands[2]))
<1> DEFINE operand(i) == Value(values, inst.operands[i])
           v == operand(1)
           w == operand(2)
<1>1. /\ (\A i \in 1..2 : operand(i) # Undefined) <=> v # Undefined /\ w # Undefined
      /\ (\E i \in 1..2 : operand(i).type = "long") <=> v.type = "long" \/ w.type = "long"
  <2>1. \A i : i \in 1..2 <=> i = 1 \/ i = 2
    OBVIOUS
  <2> QED
    BY <2>1
<1>2. inst.op \notin {"const", "neg", "call", "ret"}
  OBVIOUS
<1> QED
  BY <1>1, <1>2 DEF Computed, OfTwo

\* Two values of a name are the same number, or, told that they are exactly, the
\* same value, as far as the first is defined.
Agrees(exactly, v, w) ==
    IF exactly THEN v \in {w, Undefined} ELSE SameNumber(v, w)

(* Where the values before a line agree, so does what the line computes.        *)
LEMMA ComputedAgrees ==
    ASSUME NEW exactly, NEW before, NEW after, NEW inst \in Instructions,
           \A name \in Registers : Agrees(exactly, before[name], after[name])
    PROVE  Agrees(exactly, Computed(before, inst), Computed(after, inst))
<1> DEFINE v(i) == Value(before, inst.operands[i])
           w(i) == Value(after, inst.operands[i])
<1>1. \A i \in DOMAIN inst.operands : Agrees(exactly, v(i), w(i))
  <2> TAKE i \in DOMAIN inst.operands
  <2>1. inst.operands[i] \in Operands
    BY DEF Instructions
  <2>2. IsName(inst.operands[i]) => inst.operands[i].name \in Registers
    BY <2>1 DEF Operands, IsName, Name, Literals
  <2>3. \A value : Agrees(exactly, value, value)
    BY DEF Agrees, SameNumber
  <2>4. CASE IsName(inst.operands[i])
    <3>1. v(i) = before[inst.operands[i].name] /\ w(i) = after[inst.operands[i].name]
      BY <2>4 DEF Value
    <3>2. Agrees(exactly, before[inst.operands[i].name], after[inst.operands[i].name])
      BY <2>2, <2>4
    <3> HIDE DEF v, w
    <3> QED
      BY <3>1, <3>2
  <2>5. CASE ~IsName(inst.operands[i])
    <3>1. v(i) = w(i)
      BY <2>5 DEF Value
    <3> HIDE DEF v, w
    <3> QED
      BY <2>3, <3>1
  <2> QED
    BY <2>4, <2>5
<1>2. DOMAIN inst.operands = 1..Len(inst.operands)
  <2>1. inst.operands \in Seq(Operands)
    BY DEF Instructions
  <2> HIDE DEF v, w
  <2> QED
    BY <2>1, LenProperties
<1> HIDE DEF v, w
<1>3. CASE inst.is_constant \/ inst.op \in {"call", "ret"}
  <2>1. Computed(before, inst) = Computed(after, inst)
    BY <1>3 DEF Computed
  <2> QED
    BY <2>1 DEF Agrees, SameNumber
<1>4. CASE ~inst.is_constant /\ inst.op \in {"const", "neg"}
  <2>1. CASE Len(inst.operands) # 1
    BY <1>4, <2>1, ComputedOfOne DEF Agrees, SameNumber
  <2>2. CASE Len(inst.operands) = 1
    <3>1. Agrees(exactly, v(1), w(1))
      BY <1>1, <1>2, <2>2
    <3>2. Agrees(exactly, OfOne(inst.op, v(1)), OfOne(inst.op, w(1)))
      BY <3>1, IntegerIsNumber DEF OfOne, Agrees, SameNumber
    <3> QED
      BY <1>4, <2>2, <3>2, ComputedOfOne DEF v, w
  <2> QED
    BY <2>1, <2>2
<1>5. CASE ~inst.is_constant /\ inst.op \in {"add", "sub", "mul", "div", "mod"}
  <2>1. CASE Len(inst.operands) # 2
    BY <1>5, <2>1, ComputedOfTwo DEF Agrees, SameNumber
  <2>2. CASE Len(inst.operands) = 2
    <3>1. Agrees(exactly, v(1), w(1)) /\ Agrees(exactly, v(2), w(2))
      BY <1>1, <1>2, <2>2
    <3>2. Agrees(exactly, OfTwo(inst.op, v(1), v(2)), OfTwo(inst.op, w(1), w(2)))
      BY <3>1, IntegerIsNumber DEF OfTwo, Agrees, SameNumber
    <3> QED
      BY <1>5, <2>2, <3>2, ComputedOfTwo DEF v, w
  <2> QED
    BY <2>1, <2>2
<1> QED
  BY <1>3, <1>4, <1>5 DEF Instructions

-------------------------------------------------------------------------------
(* Folded code that is faithful to what it was folded from.                     *)

\* A value is the number n, if it is anything.
Gives(v, n) == v = Undefined \/ v.number = n

\* Each line is as it was given, or a constant for the number computed there,
\* wherever that was defined.
IsFaithful(code, given) ==
    /\ DOMAIN code = DOMAIN given
    /\ \A k \in DOMAIN given :
          \/ code[k] = given[k]
          \/ /\ code[k].is_constant /\ code[k].result = given[k].result
             /\ Gives(Computed(ValuesAfter(given, k - 1), given[k]),
                      code[k].constant_value)

\* The constants are of the types computed there, too.
IsExact(code, given) ==
    \A k \in DOMAIN given :
        code[k].is_constant /\ code[k] # given[k] =>
            Computed(ValuesAfter(given, k - 1), given[k])
                \in {Emitted(code[k].constant_value), Undefined}

(* Every name has in a faithful function, after each line, the number it had in *)
(* the one it was folded from, wherever that was defined, and if the function is*)
(* exact the value it had there.                                                *)
LEMMA FaithfulValues ==
    ASSUME NEW given \in Seq(Instructions), NEW code \in Seq(Instructions),
           NEW exactly, IsFaithful(code, given), exactly => IsExact(code, given),
           NEW n \in 0..Len(given)
    PROVE  \A name \in Registers :
             Agrees(exactly, ValuesAfter(given, n)[name], ValuesAfter(code, n)[name])
<1> DEFINE Agree(k) == \A name \in Registers :
              Agrees(exactly, ValuesAfter(given, k)[name], ValuesAfter(code, k)[name])
           apart == {k \in 0..Len(given) : ~Agree(k)}
<1> SUFFICES ASSUME apart # {} PROVE FALSE
  OBVIOUS
<1>0. Len(given) \in Nat /\ DOMAIN given = 1..Len(given)
  BY LenProperties
<1>1. PICK first \in apart : \A k \in apart : first <= k
  <2>1. apart \subseteq Nat
    BY <1>0
  <2> HIDE DEF apart
  <2> QED
    BY <2>1, FirstOf
<1>2. Agree(0)
  BY ValuesSteps DEF Agrees, SameNumber
<1>3. first # 0
  BY <1>1, <1>2
<1>4. first \in Nat \ {0} /\ first \in DOMAIN given /\ first - 1 \in Nat
  BY <1>0, <1>1, <1>3
<1>5. Agree(first - 1)
  <2>1. first - 1 \in 0..Len(given) /\ ~(first <= first - 1)
    BY <1>0, <1>4
  <2> HIDE DEF Agree
  <2> QED
    BY <1>1, <2>1
<1>6. given[first] \in Instructions
  BY <1>4
<1>7. /\ code[first].result = given[first].result
      /\ Agrees(exactly, Computed(ValuesAfter(given, first - 1), given[first]),
                         Computed(ValuesAfter(code, first - 1), code[first]))
  <2>1. CASE code[first] = given[first]
    BY <1>5, <1>6, <2>1, ComputedAgrees
  <2>2. CASE code[first] # given[first]
    <3>1. PICK value : value = code[first].constant_value
      OBVIOUS
    <3>2. PICK was : was = Computed(ValuesAfter(given, first - 1), given[first])
      OBVIOUS
    <3>3. /\ code[first].is_constant /\ code[first].result = given[first].result
          /\ Gives(was, value)
      BY <1>4, <2>2, <3>1, <3>2 DEF IsFaithful
    <3>4. exactly => was \in {Emitted(value), Undefined}
      BY <1>4, <2>2, <3>1, <3>2, <3>3 DEF IsExact
    <3>5. Computed(ValuesAfter(code, first - 1), code[first]) = Emitted(value)
      BY <3>1, <3>3 DEF Computed
    <3>6. Agrees(exactly, was, Emitted(value))
      BY <3>3, <3>4, EmittedIsNumber DEF Agrees, SameNumber, Gives
    <3> QED
      BY <3>2, <3>3, <3>5, <3>6
  <2> QED
    BY <2>1, <2>2
<1>8. Agree(first)
  <2> SUFFICES ASSUME NEW name \in Registers
               PROVE  Agrees(exactly, ValuesAfter(given, first)[name],
                                      ValuesAfter(code, first)[name])
    OBVIOUS
  <2>1. /\ ValuesAfter(given, first)[name] =
             IF name = given[first].result
             THEN Computed(ValuesAfter(given, first - 1), given[first])
             ELSE ValuesAfter(given, first - 1)[name]
        /\ ValuesAfter(code, first)[name] =
             IF name = code[first].result
             THEN Computed(ValuesAfter(code, first - 1), code[first])
             ELSE ValuesAfter(code, first - 1)[name]
    BY <1>4, ValueAfterLine
  <2> QED
    BY <1>5, <1>7, <2>1
<1> QED
  BY <1>1, <1>8

(* A name keeps its value over lines whose result it is not.                    *)
LEMMA UnwrittenStays ==
    ASSUME NEW code, NEW i \in Nat, NEW n \in Nat, i <= n, NEW name \in Registers,
           \A k \in (i + 1)..n : code[k].result # name
    PROVE  ValuesAfter(code, n)[name] = ValuesAfter(code, i)[name]
<1> DEFINE apart == {k \in i..n : ValuesAfter(code, k)[name] # ValuesAfter(code, i)[name]}
<1> SUFFICES ASSUME apart # {} PROVE FALSE
  OBVIOUS
<1>1. PICK first \in apart : \A k \in apart : first <= k
  <2>1. apart \subseteq Nat
    OBVIOUS
  <2> HIDE DEF apart
  <2> QED
    BY <2>1, FirstOf
<1>2. first \in (i + 1)..n
  BY <1>1
<1>3. first \in Nat \ {0} /\ first - 1 \in i..n /\ first - 1 \notin apart
  BY <1>1, <1>2
<1>4. ValuesAfter(code, first)[name] = ValuesAfter(code, first - 1)[name]
  BY <1>2, <1>3, ValueAfterLine
<1> QED
  BY <1>1, <1>3, <1>4

(* What the table of a faithful function says of a name is its number in the one*)
(* it was folded from, wherever that was defined, when each name of that is     *)
(* given a value once.                                                          *)
LEMMA TableIsRight ==
    ASSUME NEW given \in Seq(Instructions), NEW code \in Seq(Instructions),
           IsFaithful(code, given), Compiles(given), NEW n \in DOMAIN code,
           NEW name \in Registers, TableAt(code, n)[name] # NoConstant
    PROVE  Gives(ValuesAfter(given, n - 1)[name], TableAt(code, n)[name])
<1>1. /\ DOMAIN code = 1..Len(code) /\ Len(code) \in Nat /\ n \in Nat \ {0}
      /\ DOMAIN given = DOMAIN code
  BY LenProperties DEF IsFaithful
<1>2. name \in Results /\ name # NoName
  BY MarkersAreNeither DEF Results
<1>3. /\ Writers(code, n, name) # {}
      /\ TableAt(code, n)[name] = code[LastOf(Writers(code, n, name))].constant_value
  BY <1>2 DEF TableAt
<1>4. PICK last : last = LastOf(Writers(code, n, name))
  OBVIOUS
<1>5. last \in Writers(code, n, name)
  <2>1. Writers(code, n, name) \subseteq 1..Len(code)
    BY <1>1 DEF Writers
  <2> QED
    BY <1>1, <1>3, <1>4, <2>1, LastIsLast
<1>6. /\ last \in DOMAIN given /\ last < n /\ last \in Nat \ {0}
      /\ code[last].is_constant /\ code[last].result = name
  BY <1>1, <1>5 DEF Writers
<1>7. /\ given[last].result = name
      /\ Gives(Computed(ValuesAfter(given, last - 1), given[last]),
               code[last].constant_value)
  <2>1. CASE code[last] = given[last]
    <3>1. Computed(ValuesAfter(given, last - 1), given[last]) =
            Emitted(code[last].constant_value)
      BY <1>6, <2>1 DEF Computed
    <3> QED
      BY <1>6, <2>1, <3>1, EmittedIsNumber DEF Gives
  <2>2. CASE code[last] # given[last]
    BY <1>6, <2>2 DEF IsFaithful
  <2> QED
    BY <2>1, <2>2
<1>8. Gives(ValuesAfter(given, last)[name], code[last].constant_value)
  BY <1>6, <1>7, ValueAfterLine
<1>9. \A k \in (last + 1)..(n - 1) : given[k].result # name
  <2> SUFFICES ASSUME NEW k \in (last + 1)..(n - 1), given[k].result = name PROVE FALSE
    OBVIOUS
  <2>1. k \in DOMAIN given /\ last < k
    BY <1>1, <1>6
  <2>2. given[k].result \notin Names(given[last])
    BY <1>2, <1>6, <2>1 DEF Compiles
  <2> QED
    BY <1>7, <2>2 DEF Names
<1>10. ValuesAfter(given, n - 1)[name] = ValuesAfter(given, last)[name]
  <2>1. PICK m : m = n - 1
    OBVIOUS
  <2>2. m \in Nat /\ last \in Nat /\ last <= m
    BY <1>1, <1>6, <2>1
  <2>3. \A k \in (last + 1)..m : given[k].result # name
    BY <1>9, <2>1
  <2>4. ValuesAfter(given, m)[name] = ValuesAfter(given, last)[name]
    BY <2>2, <2>3, UnwrittenStays
  <2> QED
    BY <2>1, <2>4
<1>11. TableAt(code, n)[name] = code[last].constant_value
  BY <1>3, <1>4
<1> QED
  BY <1>8, <1>10, <1>11

-------------------------------------------------------------------------------
(* Folding keeps every function faithful to what it was given as.               *)

(* An integer of the IR's range is itself.                                      *)
LEMMA WrappedWithin ==
    ASSUME NEW n \in Int64
    PROVE  Wrapped(n) = n
<1> DEFINE m == 2 * (Greatest + 1)
<1>1. m \in Nat \ {0} /\ Least \in Int /\ n \in Int /\ n - Least \in 0..(m - 1)
  BY GreatestIsNat DEF Int64, Least
<1>2. \A i \in Nat \ {0} : \A j \in 0..(i - 1) : j % i = j
  OBVIOUS
<1>3. (n - Least) % m = n - Least
  <2> HIDE DEF m
  <2> QED
    BY <1>1, <1>2
<1> QED
  BY <1>1, <1>3 DEF Wrapped

(* Marking a line with what it computes keeps a function faithful.              *)
LEMMA MarkedFaithful ==
    ASSUME NEW given \in Seq(Instructions), NEW code \in Seq(Instructions),
           IsFaithful(code, given), NEW p \in DOMAIN code, ~code[p].is_constant,
           NEW value \in Int64,
           Gives(Computed(ValuesAfter(given, p - 1), code[p]), value)
    PROVE  IsFaithful([code EXCEPT ![p] = Marked(code[p], value)], given)
<1> DEFINE new == [code EXCEPT ![p] = Marked(code[p], value)]
<1>1. code[p] = given[p] /\ p \in DOMAIN given
  BY DEF IsFaithful
<1>2. code[p] \in Instructions
  OBVIOUS
<1>3. /\ new[p].is_constant /\ new[p].constant_value = value
      /\ new[p].result = given[p].result
  <2>1. new[p] = Marked(code[p], value)
    OBVIOUS
  <2>2. /\ Marked(code[p], value).is_constant
        /\ Marked(code[p], value).constant_value = value
        /\ Marked(code[p], value).result = code[p].result
    BY <1>2, MarkedTyped
  <2> HIDE DEF new
  <2> QED
    BY <1>1, <2>1, <2>2
<1>4. DOMAIN new = DOMAIN given /\ \A k \in DOMAIN given : k # p => new[k] = code[k]
  BY DEF IsFaithful
<1> HIDE DEF new
<1>5. ASSUME NEW k \in DOMAIN given
      PROVE  \/ new[k] = given[k]
             \/ /\ new[k].is_constant /\ new[k].result = given[k].result
                /\ Gives(Computed(ValuesAfter(given, k - 1), given[k]),
                         new[k].constant_value)
  <2>1. CASE k = p
    BY <1>1, <1>3, <2>1
  <2>2. CASE k # p
    BY <1>4, <2>2 DEF IsFaithful
  <2> QED
    BY <2>1, <2>2
<1>6. IsFaithful(new, given)
  BY <1>4, <1>5 DEF IsFaithful
<1> QED
  BY <1>6 DEF new

(* std::stoll reads what the line computes.                                     *)
LEMMA ParsedIsComputed ==
    ASSUME NEW inst \in Instructions, NEW values, ~inst.is_constant, inst.op = "const",
           try_parse_literal(inst),
           inst.operands[1].emitted = Emitted(inst.operands[1].parsed)
    PROVE  Gives(Computed(values, inst), inst.operands[1].parsed)
<1>1. Value(values, inst.operands[1]) = Emitted(inst.operands[1].parsed)
  BY DEF Value, try_parse_literal
<1> QED
  BY <1>1, ComputedOfOne, EmittedIsNumber DEF OfOne, Gives

(* What fits a type of C++ fits the IR's.                                       *)
LEMMA FitsInt64 ==
    ASSUME NEW type, NEW n, Fits(type, n)
    PROVE  n \in Int64
BY GreatestIsNat DEF Fits, Int64, Least

(* The host's arithmetic on two operands of the table is the generated          *)
(* program's, wherever that is defined.                                         *)
LEMMA FoldedIsComputed ==
    ASSUME NEW inst \in Instructions, NEW values, NEW table, FoldableWith(inst, table),
           \A i \in {1, 2} : /\ table[inst.operands[i].name] \in Int64
                             /\ Gives(values[inst.operands[i].name],
                                      table[inst.operands[i].name])
    PROVE  Gives(Computed(values, inst),
                 Wrapped(Exact(inst.op, table[inst.operands[1].name],
                               table[inst.operands[2].name])))
<1> DEFINE a == table[inst.operands[1].name]
           b == table[inst.operands[2].name]
           v == Value(values, inst.operands[1])
           w == Value(values, inst.operands[2])
<1>1. /\ ~inst.is_constant /\ Len(inst.operands) = 2
      /\ inst.op \in {"add", "sub", "mul", "div"}
  BY DEF FoldableWith
<1>2. Gives(v, a) /\ Gives(w, b)
  BY DEF Value, FoldableWith, TabledIn
<1>3. Computed(values, inst) = OfTwo(inst.op, v, w)
  BY <1>1, ComputedOfTwo
<1> HIDE DEF a, b, v, w
<1>4. Gives(OfTwo(inst.op, v, w), Wrapped(Exact(inst.op, a, b)))
  <2>1. PICK exact : exact = Exact(inst.op, a, b)
    OBVIOUS
  <2>2. \/ OfTwo(inst.op, v, w) = Undefined
        \/ \E type : OfTwo(inst.op, v, w) = Integer(type, exact)
    BY <1>2, <2>1 DEF OfTwo, Gives
  <2>3. \A type : Fits(type, exact) => Wrapped(exact) = exact
    BY FitsInt64, WrappedWithin
  <2>4. \A type : Gives(Integer(type, exact), Wrapped(exact))
    BY <2>3, IntegerIsNumber DEF Gives
  <2> QED
    BY <2>1, <2>2, <2>4 DEF Gives
<1> QED
  BY <1>3, <1>4 DEF a, b

\* Every function that is eligible is faithful to what it was given as.
FoldedIsFaithful ==
    \A f \in DOMAIN functions : Eligible(f) => IsFaithful(Folded(f), Given(f))

(* Marking is faithful where the value is the one computed, if any is.          *)
LEMMA MarkingFaithful ==
    ASSUME SourceIsGiven, TypeOK, FoldedIsFaithful, InFunction, NEW value \in Int64,
           mark_constant(value), Advance, ~Inst.is_constant,
           Eligible(current) =>
             Gives(Computed(ValuesAfter(Given(current), position - 1), Inst), value)
    PROVE  FoldedIsFaithful'
<1> DEFINE code == [Body EXCEPT ![position] = Marked(Inst, value)]
<1>1. /\ Body \in Seq(Instructions) /\ Body = Folded(current)
      /\ current \in DOMAIN functions /\ position \in DOMAIN Body
  BY InstTyped
<1>2. UNCHANGED source
  BY DEF Advance
<1>3. /\ \A f \in DOMAIN functions : f # current => Folded(f)' = Folded(f)
      /\ \A f : f = current => Folded(f)' = code
  BY <1>2, MarkingTyped
<1>4. DOMAIN functions' = DOMAIN functions /\ DOMAIN functions = DOMAIN source.functions
  BY Marking, FunctionsTyped
<1>5. Eligible(current) => IsFaithful(code, Given(current))
  <2> SUFFICES ASSUME Eligible(current) PROVE IsFaithful(code, Given(current))
    OBVIOUS
  <2>1. Given(current) \in Seq(Instructions)
    BY <1>1, <1>4, SourceTyped
  <2>2. IsFaithful(Body, Given(current))
    BY <1>1 DEF FoldedIsFaithful
  <2> QED
    BY <1>1, <2>1, <2>2, MarkedFaithful DEF Inst
<1> HIDE DEF code
<1>6. ASSUME NEW f \in DOMAIN functions, Eligible(f)
      PROVE  IsFaithful(Folded(f)', Given(f))
  <2>1. CASE f = current
    BY <1>3, <1>5, <1>6, <2>1
  <2>2. CASE f # current
    BY <1>3, <1>6, <2>2 DEF FoldedIsFaithful
  <2> QED
    BY <2>1, <2>2
<1>7. \A f : Given(f)' = Given(f) /\ (Eligible(f)' <=> Eligible(f))
  BY <1>2 DEF Given, Eligible
<1> QED
  BY <1>4, <1>6, <1>7 DEF FoldedIsFaithful

(* A literal's value is what the literal computes.                              *)
LEMMA ParsingFaithful ==
    ASSUME SourceIsGiven, TypeOK, FoldedIsFaithful, ParsedConstant
    PROVE  FoldedIsFaithful'
<1> DEFINE value == Inst.operands[1].parsed
<1>1. /\ InFunction /\ ~Inst.is_constant /\ Inst.op = "const" /\ try_parse_literal(Inst)
      /\ mark_constant(value) /\ Advance
  BY DEF ParsedConstant
<1>2. value \in Int64
  BY <1>1, ParseTyped
<1>3. /\ Body = Folded(current) /\ current \in DOMAIN functions
      /\ position \in DOMAIN Body /\ Inst \in Instructions
  BY <1>1, InstTyped
<1>4. ASSUME Eligible(current)
      PROVE  Gives(Computed(ValuesAfter(Given(current), position - 1), Inst), value)
  <2>1. IsFaithful(Body, Given(current))
    BY <1>3, <1>4 DEF FoldedIsFaithful
  <2>2. position \in DOMAIN Given(current) /\ Given(current)[position] = Inst
    BY <1>1, <1>3, <2>1 DEF IsFaithful, Inst
  <2>3. 1 \in DOMAIN Inst.operands
    <3>1. Inst.operands \in Seq(Operands)
      BY <1>3 DEF Instructions
    <3> QED
      BY <1>1, <3>1, EmptySeq, LenProperties DEF try_parse_literal
  <2>4. Inst.operands[1].emitted = Emitted(Inst.operands[1].parsed)
    BY <1>1, <1>4, <2>2, <2>3 DEF Eligible, IsPlain, try_parse_literal
  <2> QED
    BY <1>1, <1>3, <2>4, ParsedIsComputed
<1> HIDE DEF value
<1> QED
  BY <1>1, <1>2, <1>4, MarkingFaithful

(* An operation's value is what it computes of the operands the table gives.    *)
LEMMA FoldingFaithful ==
    ASSUME SourceIsGiven, TypeOK, TableInStep, FoldedIsFaithful, FoldedOperation, ~trapped'
    PROVE  FoldedIsFaithful'
<1> DEFINE value == Wrapped(Exact(Inst.op, constants[Inst.operands[1].name],
                                  constants[Inst.operands[2].name]))
<1>1. InFunction /\ Foldable /\ ~Inst.is_constant /\ mark_constant(value) /\ Advance
  BY DEF FoldedOperation, Foldable
<1>2. value \in Int64
  BY <1>1, FoldTyped
<1>3. /\ Body \in Seq(Instructions) /\ Body = Folded(current)
      /\ current \in DOMAIN functions /\ position \in DOMAIN Body /\ Inst \in Instructions
  BY <1>1, InstTyped
<1>4. FoldableWith(Inst, constants)
  BY <1>1 DEF Foldable, FoldableWith, Tabled, TabledIn
<1>5. ASSUME NEW i \in {1, 2}
      PROVE  /\ Inst.operands[i].name \in Registers
             /\ constants[Inst.operands[i].name] \in Int64
             /\ constants[Inst.operands[i].name] # NoConstant
  <2>1. Inst.operands \in Seq(Operands) /\ Len(Inst.operands) = 2
    BY <1>1, <1>3 DEF Foldable, Instructions
  <2>2. i \in DOMAIN Inst.operands
    BY <2>1, LenProperties
  <2>3. Tabled(Inst.operands[i])
    BY <1>1 DEF Foldable
  <2>4. Inst.operands[i].name \in Registers
    BY <1>1, <2>2, <2>3, InstTyped DEF Tabled
  <2>5. constants[Inst.operands[i].name] \in Int64 \cup {NoConstant}
    BY <2>4 DEF TypeOK, Results
  <2> QED
    BY <2>3, <2>4, <2>5 DEF Tabled
<1>6. ASSUME Eligible(current)
      PROVE  Gives(Computed(ValuesAfter(Given(current), position - 1), Inst), value)
  <2>1. Given(current) \in Seq(Instructions)
    BY <1>3, FunctionsTyped, SourceTyped
  <2>2. IsFaithful(Body, Given(current)) /\ Compiles(Given(current))
    BY <1>3, <1>6 DEF FoldedIsFaithful, Eligible
  <2>3. constants = TableAt(Body, position)
    BY <1>1 DEF TableInStep, InFunction
  <2>4. \A i \in {1, 2} :
          Gives(ValuesAfter(Given(current), position - 1)[Inst.operands[i].name],
                constants[Inst.operands[i].name])
    BY <1>3, <1>5, <2>1, <2>2, <2>3, TableIsRight
  <2> QED
    BY <1>3, <1>4, <1>5, <2>4, FoldedIsComputed
<1> HIDE DEF value
<1> QED
  BY <1>1, <1>2, <1>6, MarkingFaithful

(* A module nothing was folded in is faithful.                                  *)
LEMMA InitFaithful == Init => FoldedIsFaithful
<1> SUFFICES ASSUME Init, NEW f \in DOMAIN functions
             PROVE  IsFaithful(Folded(f), Given(f))
  BY DEF FoldedIsFaithful
<1>1. Folded(f) = Given(f)
  BY DEF Init, Folded, Given
<1> QED
  BY <1>1 DEF IsFaithful

(* Every step keeps the folded functions faithful.                              *)
LEMMA NextFaithful ==
    ASSUME SourceIsGiven, TypeOK, TableInStep, FoldedIsFaithful, [Next]_vars
    PROVE  FoldedIsFaithful'
<1>1. CASE UNCHANGED <<source, functions>>
  <2>1. \A f : Given(f)' = Given(f) /\ Folded(f)' = Folded(f) /\ (Eligible(f)' <=> Eligible(f))
    BY <1>1 DEF Given, Folded, Eligible
  <2> QED
    BY <1>1, <2>1 DEF FoldedIsFaithful
<1>2. CASE ParsedConstant
  BY <1>2, ParsingFaithful
<1>3. CASE FoldedOperation /\ ~trapped'
  BY <1>3, FoldingFaithful
<1>4. ParsedConstant \/ (FoldedOperation /\ ~trapped') \/ UNCHANGED <<source, functions>>
  <2>1. KnownConstant => UNCHANGED <<source, functions>>
    BY DEF KnownConstant, Advance
  <2>2. FoldedOperation /\ trapped' => UNCHANGED <<source, functions>>
    BY DEF FoldedOperation, InFunction, InModule
  <2>3. LeftAlone => UNCHANGED <<source, functions>>
    BY DEF LeftAlone, Advance
  <2>4. NextFunction \/ NextPass => UNCHANGED <<source, functions>>
    BY DEF NextFunction, NextPass
  <2>5. UNCHANGED vars => UNCHANGED <<source, functions>>
    BY DEF vars
  <2> QED
    BY <2>1, <2>2, <2>3, <2>4, <2>5 DEF Next
<1> QED
  BY <1>1, <1>2, <1>3, <1>4

(* ConstantFoldingPass against translate_instructions: whatever the module, at  *)
(* every moment of every pass no name of a function that compiles has another   *)
(* number, in the C++ generated from it, than before folding; and each has the  *)
(* value it had, wherever that was defined, unless folding gave a line of the   *)
(* function another type of C++.                                                *)
THEOREM FoldingKeepsMeaning == Spec => []MeaningKept
<1>1. Init => FoldedIsFaithful
  BY InitFaithful
<1>2. FoldInv /\ FoldedIsFaithful /\ [Next]_vars => FoldedIsFaithful'
  BY NextFaithful DEF FoldInv
<1>3. FoldInv /\ FoldedIsFaithful => MeaningKept
  <2> SUFFICES ASSUME SourceIsGiven, TypeOK, FoldedIsFaithful,
                      NEW f \in DOMAIN functions, Eligible(f), NEW name \in Registers
               PROVE  LET before == ValuesAfter(Given(f), Len(Given(f)))[name]
                          after  == ValuesAfter(Folded(f), Len(Folded(f)))[name]
                      IN  /\ SameNumber(before, after)
                          /\ Retyped(f) \/ before \in {after, Undefined}
    BY DEF FoldInv, MeaningKept
  <2>1. Given(f) \in Seq(Instructions) /\ Folded(f) \in Seq(Instructions)
    BY FunctionsTyped, SourceTyped DEF TypeOK
  <2>2. IsFaithful(Folded(f), Given(f))
    BY DEF FoldedIsFaithful
  <2>3. Len(Folded(f)) = Len(Given(f)) /\ Len(Given(f)) \in 0..Len(Given(f))
    BY <2>1, <2>2, LenProperties DEF IsFaithful
  <2>4. ~Retyped(f) => IsExact(Folded(f), Given(f))
    <3> SUFFICES ASSUME ~Retyped(f), NEW k \in DOMAIN Given(f),
                        Folded(f)[k].is_constant, Folded(f)[k] # Given(f)[k]
                 PROVE  Computed(ValuesAfter(Given(f), k - 1), Given(f)[k])
                          \in {Emitted(Folded(f)[k].constant_value), Undefined}
      BY DEF IsExact
    <3>1. Gives(Computed(ValuesAfter(Given(f), k - 1), Given(f)[k]),
                Folded(f)[k].constant_value)
      BY <2>2 DEF IsFaithful
    <3> QED
      BY <3>1 DEF Retyped, Gives
  <2>5. \A exactly \in BOOLEAN :
          (exactly => IsExact(Folded(f), Given(f))) =>
            Agrees(exactly, ValuesAfter(Given(f), Len(Given(f)))[name],
                            ValuesAfter(Folded(f), Len(Folded(f)))[name])
    BY <2>1, <2>2, <2>3, FaithfulValues
  <2> QED
    BY <2>4, <2>5 DEF Agrees
<1> QED
  BY <1>1, <1>2, <1>3, FoldingIsSettled, PTL DEF Spec

-------------------------------------------------------------------------------
(* The passes before the backend.                                               *)

\* Each line is as it was given, or a constant with the same result.
LinesKept ==
    \A f \in DOMAIN functions :
        /\ DOMAIN Folded(f) = DOMAIN Given(f)
        /\ \A k \in DOMAIN Given(f) :
              \/ Folded(f)[k] = Given(f)[k]
              \/ Folded(f)[k].is_constant /\ Folded(f)[k].result = Given(f)[k].result

(* Marking a line makes it a constant with its result.                          *)
LEMMA MarkingKeepsLines ==
    ASSUME SourceIsGiven, TypeOK, LinesKept, InFunction, NEW value \in Int64,
           mark_constant(value), Advance
    PROVE  LinesKept'
<1>1. /\ Body \in Seq(Instructions) /\ Body = Folded(current)
      /\ current \in DOMAIN functions /\ position \in DOMAIN Body /\ Inst \in Instructions
  BY InstTyped
<1>2. UNCHANGED source
  BY DEF Advance
<1>3. PICK code : code = [Body EXCEPT ![position] = Marked(Inst, value)]
  OBVIOUS
<1>4. /\ \A f \in DOMAIN functions : f # current => Folded(f)' = Folded(f)
      /\ \A f : f = current => Folded(f)' = code
  BY <1>2, <1>3, MarkingTyped
<1>5. DOMAIN functions' = DOMAIN functions
  BY Marking
<1>6. \A f : Given(f)' = Given(f)
  BY <1>2 DEF Given
<1>7. PICK inst : inst = Marked(Inst, value)
  OBVIOUS
<1>8. inst.is_constant /\ inst.result = Inst.result
  BY <1>1, <1>7, MarkedTyped
<1>9. DOMAIN code = DOMAIN Body /\ code[position] = inst
      /\ \A k \in DOMAIN Body : k # position => code[k] = Body[k]
  BY <1>1, <1>3, <1>7
<1>10. ASSUME NEW f \in DOMAIN functions
       PROVE  /\ DOMAIN Folded(f)' = DOMAIN Given(f)
              /\ \A k \in DOMAIN Given(f) :
                    \/ Folded(f)'[k] = Given(f)[k]
                    \/ Folded(f)'[k].is_constant /\ Folded(f)'[k].result = Given(f)[k].result
  <2>1. CASE f # current
    BY <1>4, <2>1 DEF LinesKept
  <2>2. CASE f = current
    <3>1. Folded(f)' = code /\ Folded(f) = Body
      BY <1>1, <1>4, <2>2
    <3>2. /\ DOMAIN Body = DOMAIN Given(f)
          /\ \A k \in DOMAIN Given(f) :
                \/ Body[k] = Given(f)[k]
                \/ Body[k].is_constant /\ Body[k].result = Given(f)[k].result
      BY <3>1 DEF LinesKept
    <3>3. Inst = Body[position]
      BY DEF Inst
    <3>4. inst.result = Given(f)[position].result
      BY <1>1, <1>8, <3>2, <3>3
    <3>5. ASSUME NEW k \in DOMAIN Given(f)
          PROVE  \/ code[k] = Given(f)[k]
                 \/ code[k].is_constant /\ code[k].result = Given(f)[k].result
      <4>1. CASE k = position
        BY <1>8, <1>9, <3>4, <4>1
      <4>2. CASE k # position
        BY <1>9, <3>2, <4>2
      <4> QED
        BY <4>1, <4>2
    <3> QED
      BY <1>9, <3>1, <3>2, <3>5
  <2> QED
    BY <2>1, <2>2
<1> QED
  BY <1>5, <1>6, <1>10 DEF LinesKept

(* Nothing else changes a line.                                                 *)
LEMMA NextKeepsLines ==
    ASSUME SourceIsGiven, TypeOK, LinesKept, [Next]_vars
    PROVE  LinesKept'
<1>1. CASE UNCHANGED <<source, functions>>
  <2>1. \A f : Given(f)' = Given(f) /\ Folded(f)' = Folded(f)
    BY <1>1 DEF Given, Folded
  <2> QED
    BY <1>1, <2>1 DEF LinesKept
<1>2. CASE ParsedConstant
  <2>1. PICK value : value = Inst.operands[1].parsed
    OBVIOUS
  <2>2. InFunction /\ mark_constant(value) /\ Advance
    BY <1>2, <2>1 DEF ParsedConstant
  <2>3. value \in Int64
    BY <1>2, <2>1, ParseTyped DEF ParsedConstant
  <2> QED
    BY <2>2, <2>3, MarkingKeepsLines
<1>3. CASE FoldedOperation /\ ~trapped'
  <2>1. PICK value : value = Wrapped(Exact(Inst.op, constants[Inst.operands[1].name],
                                           constants[Inst.operands[2].name]))
    OBVIOUS
  <2>2. InFunction /\ Foldable /\ mark_constant(value) /\ Advance
    BY <1>3, <2>1 DEF FoldedOperation
  <2>3. value \in Int64
    BY <2>1, <2>2, FoldTyped
  <2> QED
    BY <2>2, <2>3, MarkingKeepsLines
<1>4. ParsedConstant \/ (FoldedOperation /\ ~trapped') \/ UNCHANGED <<source, functions>>
  <2>1. KnownConstant => UNCHANGED <<source, functions>>
    BY DEF KnownConstant, Advance
  <2>2. FoldedOperation /\ trapped' => UNCHANGED <<source, functions>>
    BY DEF FoldedOperation, InFunction, InModule
  <2>3. LeftAlone => UNCHANGED <<source, functions>>
    BY DEF LeftAlone, Advance
  <2>4. NextFunction \/ NextPass => UNCHANGED <<source, functions>>
    BY DEF NextFunction, NextPass
  <2>5. UNCHANGED vars => UNCHANGED <<source, functions>>
    BY DEF vars
  <2> QED
    BY <2>1, <2>2, <2>3, <2>4, <2>5 DEF Next
<1> QED
  BY <1>1, <1>2, <1>3, <1>4

(* Through every pass each line stays as it was given, or is a constant.        *)
LEMMA LinesAreKept == Spec => []LinesKept
<1>1. Init => LinesKept
  BY DEF Init, LinesKept, Folded, Given
<1>2. FoldInv /\ LinesKept /\ [Next]_vars => LinesKept'
  BY NextKeepsLines DEF FoldInv
<1> HIDE DEF Init, Next, vars, FoldInv, LinesKept
<1> QED
  BY <1>1, <1>2, FoldingIsSettled, PTL DEF Spec

(* PassManager::run, then emit: to the passes the backend is nothing, so that   *)
(* what is proved of them alone holds of the pipeline.                          *)
THEOREM PipelineRunsPasses == PipelineSpec => Spec
<1>1. PipelineInit => Init
  BY DEF PipelineInit
<1>2. [PipelineNext]_pipeline_vars => [Next]_vars
  BY DEF PipelineNext, pipeline_vars, Optimize, Generate
<1> HIDE DEF PipelineInit, Init, PipelineNext, pipeline_vars, Next, vars
<1> QED
  BY <1>1, <1>2, PTL DEF PipelineSpec, Spec

-------------------------------------------------------------------------------
(* The types within a type.                                                     *)

\* The arguments of the types of some kinds.
ArgumentsOf(types, kinds) ==
    UNION {ToSet(part.type_arguments) : part \in {part \in types : part.kind \in kinds}}

\* What Within builds, one depth after the other.
IsLevels(levels, type, kinds, depth) ==
    levels = [n \in 0..depth |->
                 IF n = 0 THEN {type} ELSE levels[n - 1] \cup ArgumentsOf(levels[n - 1], kinds)]

(* It can be built, however deep.                                               *)
LEMMA LevelsExist ==
    ASSUME NEW type, NEW kinds, NEW depth \in Nat
    PROVE  \E levels : IsLevels(levels, type, kinds, depth)
<1> DEFINE stuck == {d \in Nat : ~\E levels : IsLevels(levels, type, kinds, d)}
<1> SUFFICES ASSUME stuck # {} PROVE FALSE
  OBVIOUS
<1>1. PICK first \in stuck : \A d \in stuck : first <= d
  <2>1. stuck \subseteq Nat
    OBVIOUS
  <2> HIDE DEF stuck
  <2> QED
    BY <2>1, FirstOf
<1>2. CASE first = 0
  <2>1. PICK levels : levels = [n \in 0..0 |-> {type}]
    OBVIOUS
  <2>2. levels = [n \in 0..0 |->
           IF n = 0 THEN {type} ELSE levels[n - 1] \cup ArgumentsOf(levels[n - 1], kinds)]
    BY <2>1
  <2>3. IsLevels(levels, type, kinds, 0)
    BY <2>2 DEF IsLevels
  <2> QED
    BY <1>1, <1>2, <2>3
<1>3. CASE first # 0
  <2>1. first - 1 \in Nat /\ first - 1 \notin stuck
    BY <1>1, <1>3
  <2>2. PICK old : IsLevels(old, type, kinds, first - 1)
    BY <2>1
  <2>3. PICK new : new = [n \in 0..first |->
           IF n = first THEN old[n - 1] \cup ArgumentsOf(old[n - 1], kinds) ELSE old[n]]
    OBVIOUS
  <2>4. ASSUME NEW n \in 0..first
        PROVE  new[n] = IF n = 0 THEN {type}
                        ELSE new[n - 1] \cup ArgumentsOf(new[n - 1], kinds)
    <3>1. n # 0 => new[n - 1] = old[n - 1]
      <4>1. n # 0 => n - 1 \in 0..first /\ n - 1 # first
        BY <1>1
      <4> QED
        BY <2>3, <4>1
    <3>2. CASE n = first
      BY <1>3, <2>3, <3>1, <3>2
    <3>3. CASE n # first
      <4>1. n \in 0..(first - 1)
        BY <1>1, <3>3
      <4>2. old[n] = IF n = 0 THEN {type} ELSE old[n - 1] \cup ArgumentsOf(old[n - 1], kinds)
        BY <2>2, <4>1 DEF IsLevels
      <4> QED
        BY <2>3, <3>1, <3>3, <4>2
    <3> QED
      BY <3>2, <3>3
  <2>5. new = [n \in 0..first |->
           IF n = 0 THEN {type} ELSE new[n - 1] \cup ArgumentsOf(new[n - 1], kinds)]
    BY <2>3, <2>4
  <2>6. IsLevels(new, type, kinds, first)
    BY <2>5 DEF IsLevels
  <2> QED
    BY <1>1, <2>6
<1> QED
  BY <1>2, <1>3

(* It is what Within goes through.                                              *)
LEMMA WithinIsLevels ==
    ASSUME NEW type, NEW kinds
    PROVE  \E levels : /\ Backend!Within(type, kinds) = levels[TypeDepth]
                       /\ IsLevels(levels, type, kinds, TypeDepth)
<1> DEFINE parts == CHOOSE parts : parts = [n \in 0..TypeDepth |->
              IF n = 0 THEN {type}
              ELSE parts[n - 1] \cup
                   UNION {ToSet(part.type_arguments) :
                              part \in {part \in parts[n - 1] : part.kind \in kinds}}]
<1>1. Backend!Within(type, kinds) = parts[TypeDepth]
  BY DEF Backend!Within, Backend!ToSet, ToSet
<1>2. \E levels : IsLevels(levels, type, kinds, TypeDepth)
  BY TypeDepthIsNat, LevelsExist
<1>3. IsLevels(parts, type, kinds, TypeDepth)
  BY <1>2 DEF IsLevels, ArgumentsOf
<1> QED
  BY <1>1, <1>3

(* What stands at a depth stands at every greater one.                          *)
LEMMA LevelsGrow ==
    ASSUME NEW type, NEW kinds, NEW levels, IsLevels(levels, type, kinds, TypeDepth)
    PROVE  \A n \in 0..TypeDepth : levels[n] \subseteq levels[TypeDepth]
<1> DEFINE bad == {d \in 0..TypeDepth : ~(levels[TypeDepth - d] \subseteq levels[TypeDepth])}
<1>1. bad = {}
  <2> SUFFICES ASSUME bad # {} PROVE FALSE
    OBVIOUS
  <2>1. PICK first \in bad : \A d \in bad : first <= d
    <3>1. bad \subseteq Nat
      BY TypeDepthIsNat
    <3> HIDE DEF bad
    <3> QED
      BY <3>1, FirstOf
  <2>2. first # 0
    <3>1. TypeDepth - 0 = TypeDepth
      BY TypeDepthIsNat
    <3> QED
      BY <2>1, <3>1
  <2>3. PICK n : n = TypeDepth - first
    OBVIOUS
  <2>4. /\ n \in 0..TypeDepth /\ n + 1 \in 0..TypeDepth /\ n + 1 # 0 /\ n + 1 - 1 = n
        /\ first - 1 \in 0..TypeDepth /\ TypeDepth - (first - 1) = n + 1 /\ ~(first <= first - 1)
    BY <2>1, <2>2, <2>3, TypeDepthIsNat
  <2>5. levels[n + 1] \subseteq levels[TypeDepth]
    <3>1. first - 1 \notin bad
      BY <2>1, <2>4
    <3> QED
      BY <2>4, <3>1
  <2>6. levels[n + 1] = levels[n] \cup ArgumentsOf(levels[n], kinds)
    <3>1. PICK m : m = n + 1
      OBVIOUS
    <3>2. m \in 0..TypeDepth /\ m # 0 /\ m - 1 = n
      BY <2>4, <3>1
    <3>3. levels[m] = levels[m - 1] \cup ArgumentsOf(levels[m - 1], kinds)
      BY <3>2 DEF IsLevels
    <3> QED
      BY <3>1, <3>2, <3>3
  <2> QED
    BY <2>1, <2>3, <2>5, <2>6
<1>2. ASSUME NEW n \in 0..TypeDepth PROVE levels[n] \subseteq levels[TypeDepth]
  <2>1. PICK d : d = TypeDepth - n
    OBVIOUS
  <2>2. d \in 0..TypeDepth /\ TypeDepth - d = n
    BY <2>1, TypeDepthIsNat
  <2>3. d \notin bad
    BY <1>1
  <2> QED
    BY <2>2, <2>3
<1> QED
  BY <1>2

(* A type of the IR has arguments only if it is a struct.                       *)
LEMMA OnlyStructsHaveArguments ==
    ASSUME NEW type, IsIRType(type)
    PROVE  /\ type.kind \in BuiltinKinds \cup {"Generic", "Struct"}
           /\ type.kind # "Struct" => ToSet(type.type_arguments) = {}
<1>1. CASE \E kind \in BuiltinKinds : type = Builtin(kind)
  <2>1. PICK kind \in BuiltinKinds : type = Builtin(kind)
    BY <1>1
  <2>2. type.kind = kind /\ type.type_arguments = <<>>
    BY <2>1 DEF Builtin
  <2> QED
    BY <2>2 DEF ToSet
<1>2. CASE type = Generic(type.name)
  <2>1. type.kind = "Generic" /\ type.type_arguments = <<>>
    BY <1>2 DEF Generic
  <2> QED
    BY <2>1 DEF ToSet
<1>3. CASE type = Struct(type.name, type.type_arguments)
  <2>1. type.kind = "Struct"
    BY <1>3 DEF Struct
  <2> QED
    BY <2>1
<1> QED
  BY <1>1, <1>2, <1>3 DEF IsIRType

(* In a type made of the IR's, all that collect_includes_for_type visits is     *)
(* what type_to_string writes, and the type itself is part of it.               *)
LEMMA WrittenIsVisited ==
    ASSUME NEW type, \A part \in Backend!Parts(type) : IsIRType(part)
    PROVE  /\ type \in Backend!Parts(type)
           /\ Backend!type_to_string(type) =
                {Backend!CppName(part) : part \in Backend!Parts(type)}
<1>1. PICK kinds : kinds = BuiltinKinds \cup {"Generic", "Struct"}
  OBVIOUS
<1>2. PICK all : /\ Backend!Within(type, kinds) = all[TypeDepth]
                 /\ IsLevels(all, type, kinds, TypeDepth)
  BY WithinIsLevels
<1>3. PICK some : /\ Backend!Within(type, {"Struct"}) = some[TypeDepth]
                  /\ IsLevels(some, type, {"Struct"}, TypeDepth)
  BY WithinIsLevels
<1>4. Backend!Parts(type) = all[TypeDepth]
  BY <1>1, <1>2 DEF Backend!Parts, Backend!BuiltinKinds, BuiltinKinds
<1>5. type \in all[TypeDepth]
  <2>1. 0 \in 0..TypeDepth
    BY TypeDepthIsNat
  <2>2. type \in all[0]
    BY <1>2, <2>1 DEF IsLevels
  <2> QED
    BY <1>2, <2>1, <2>2, LevelsGrow
<1>6. ASSUME NEW n \in 0..TypeDepth
      PROVE  ArgumentsOf(all[n], kinds) = ArgumentsOf(all[n], {"Struct"})
  <2>1. \A part \in all[n] : IsIRType(part)
    BY <1>2, <1>4, LevelsGrow
  <2>2. \A part \in all[n] : /\ part.kind \in kinds
                             /\ part.kind # "Struct" => ToSet(part.type_arguments) = {}
    BY <1>1, <2>1, OnlyStructsHaveArguments
  <2>3. "Struct" \in kinds
    BY <1>1
  <2> QED
    BY <2>2, <2>3 DEF ArgumentsOf
<1> DEFINE apart == {n \in 0..TypeDepth : all[n] # some[n]}
<1>7. apart = {}
  <2> SUFFICES ASSUME apart # {} PROVE FALSE
    OBVIOUS
  <2>1. PICK first \in apart : \A n \in apart : first <= n
    <3>1. apart \subseteq Nat
      BY TypeDepthIsNat
    <3> HIDE DEF apart
    <3> QED
      BY <3>1, FirstOf
  <2>2. first \in 0..TypeDepth /\ all[first] # some[first]
    BY <2>1
  <2>3. first # 0
    BY <1>2, <1>3, <2>2 DEF IsLevels
  <2>4. first - 1 \in 0..TypeDepth /\ ~(first <= first - 1)
    BY <2>2, <2>3, TypeDepthIsNat
  <2>5. all[first - 1] = some[first - 1]
    BY <2>1, <2>4
  <2>6. all[first] = all[first - 1] \cup ArgumentsOf(all[first - 1], kinds)
    BY <1>2, <2>2, <2>3 DEF IsLevels
  <2>7. some[first] = some[first - 1] \cup ArgumentsOf(some[first - 1], {"Struct"})
    BY <1>3, <2>2, <2>3 DEF IsLevels
  <2> QED
    BY <1>6, <2>2, <2>4, <2>5, <2>6, <2>7
<1>8. all[TypeDepth] = some[TypeDepth]
  <2>1. TypeDepth \in 0..TypeDepth
    BY TypeDepthIsNat
  <2> QED
    BY <1>7, <2>1
<1> QED
  BY <1>3, <1>4, <1>5, <1>8 DEF Backend!type_to_string

-------------------------------------------------------------------------------
(* Sequences put together, and the sequence of a set.                           *)

(* What stands where in two sequences put together.                             *)
LEMMA JoinOfTwo ==
    ASSUME NEW S, NEW a \in Seq(S), NEW b \in Seq(S), NEW whole, whole = a \o b
    PROVE  /\ whole \in Seq(S) /\ Len(whole) = Len(a) + Len(b)
           /\ Len(a) \in Nat /\ Len(b) \in Nat /\ Len(whole) \in Nat
           /\ DOMAIN a = 1..Len(a) /\ DOMAIN b = 1..Len(b) /\ DOMAIN whole = 1..Len(whole)
           /\ \A i \in DOMAIN a : i \in DOMAIN whole /\ whole[i] = a[i]
           /\ \A i \in DOMAIN b : Len(a) + i \in DOMAIN whole /\ whole[Len(a) + i] = b[i]
<1>1. PICK n, m : n = Len(a) /\ m = Len(b)
  OBVIOUS
<1>2. n \in Nat /\ m \in Nat /\ DOMAIN a = 1..n /\ DOMAIN b = 1..m
  BY <1>1, LenProperties
<1>3. whole \in Seq(S) /\ Len(whole) = n + m
  BY <1>1, ConcatProperties
<1>4. DOMAIN whole = 1..(n + m)
  BY <1>3, LenProperties
<1>5. \A i \in 1..(n + m) : whole[i] = IF i <= n THEN a[i] ELSE b[i - n]
  BY <1>1, ConcatProperties
<1>6. \A i \in 1..n : i \in 1..(n + m) /\ whole[i] = a[i]
  BY <1>2, <1>5
<1>7. ASSUME NEW i \in 1..m PROVE n + i \in 1..(n + m) /\ whole[n + i] = b[i]
  <2>1. PICK k : k = n + i
    OBVIOUS
  <2>2. k \in 1..(n + m) /\ ~(k <= n) /\ k - n = i
    BY <1>2, <2>1
  <2>3. whole[k] = b[k - n]
    BY <1>5, <2>2
  <2> QED
    BY <2>1, <2>2, <2>3
<1>8. DOMAIN a = 1..n /\ DOMAIN b = 1..m /\ DOMAIN whole = 1..(n + m)
  BY <1>2, <1>4
<1>9. /\ \A i \in DOMAIN a : i \in DOMAIN whole /\ whole[i] = a[i]
      /\ \A i \in DOMAIN b : n + i \in DOMAIN whole /\ whole[n + i] = b[i]
  BY <1>6, <1>7, <1>8
<1>10. Len(whole) \in Nat
  BY <1>2, <1>3
<1> QED
  BY <1>1, <1>2, <1>3, <1>8, <1>9, <1>10


\* \o, under a name the provers do not open.
Joined(a, b) == a \o b

(* Nothing else stands in them.                                                 *)
LEMMA JoinIsOfTwo ==
    ASSUME NEW S, NEW a \in Seq(S), NEW b \in Seq(S), NEW whole, whole = Joined(a, b),
           NEW i \in DOMAIN whole
    PROVE  \/ i \in DOMAIN a /\ whole[i] = a[i]
           \/ \E j \in DOMAIN b : i = Len(a) + j /\ whole[i] = b[j]
<1>1. whole = a \o b
  BY DEF Joined
<1>2. PICK n, m : n = Len(a) /\ m = Len(b)
  OBVIOUS
<1>3. n \in Nat /\ m \in Nat /\ DOMAIN a = 1..n /\ DOMAIN b = 1..m
  BY <1>2, LenProperties
<1>4. whole \in Seq(S) /\ Len(whole) = n + m
  BY <1>1, <1>2, ConcatProperties
<1>5. DOMAIN whole = 1..(n + m)
  BY <1>4, LenProperties
<1>6. whole[i] = IF i <= n THEN a[i] ELSE b[i - n]
  BY <1>1, <1>2, <1>5, ConcatProperties
<1>7. i \in 1..(n + m)
  BY <1>5
<1>8. CASE i \in 1..n
  BY <1>3, <1>6, <1>8
<1>9. CASE i \notin 1..n
  <2>1. PICK j : j = i - n
    OBVIOUS
  <2>2. j \in 1..m /\ i = n + j /\ ~(i <= n)
    BY <1>3, <1>7, <1>9, <2>1
  <2>3. whole[i] = b[j]
    BY <1>6, <2>1, <2>2
  <2> QED
    BY <1>2, <1>3, <2>2, <2>3
<1> QED
  BY <1>8, <1>9

(* A finite set's elements are those of its sequence.                           *)
LEMMA SetAsSequence ==
    ASSUME NEW S, IsFiniteSet(S), NEW s, s = SetToSeq(S)
    PROVE  /\ s \in Seq(S)
           /\ \A e \in S : \E i \in DOMAIN s : s[i] = e
<1>1. PICK n : n = Cardinality(S)
  OBVIOUS
<1>2. n \in Nat /\ ExistsBijection(1..n, S)
  BY <1>1, FS_CardinalityType
<1>3. PICK b \in Bijection(1..n, S) : TRUE
  BY <1>2 DEF ExistsBijection
<1>4. b \in [1..n -> S] /\ IsInjective(b)
  BY <1>3 DEF Bijection, Injection, IsInjective
<1>5. s \in [1..n -> S] /\ IsInjective(s)
  BY <1>1, <1>4 DEF SetToSeq
<1>6. s \in Injection(1..n, S)
  BY <1>5 DEF Injection, IsInjective
<1>7. IsFiniteSet(1..n) /\ Cardinality(1..n) = n
  <2>1. IsFiniteSet(1..n) /\ Cardinality(1..n) = IF 1 > n THEN 0 ELSE n - 1 + 1
    BY <1>2, FS_Interval
  <2> QED
    BY <1>2, <2>1
<1>8. s \in Surjection(1..n, S)
  BY <1>1, <1>6, <1>7, FS_Injection
<1>9. \A e \in S : \E i \in 1..n : s[i] = e
  BY <1>8 DEF Surjection
<1>10. DOMAIN s = 1..n
  BY <1>5
<1>11. s \in Seq(S)
  BY <1>2, <1>5
<1> QED
  BY <1>9, <1>10, <1>11

-------------------------------------------------------------------------------
(* The files.                                                                   *)

AllTypes == Backend!StructTypes \cup Backend!FunctionTypes
AllIncludes == Backend!Includes(AllTypes)

\* The parts of a file.
IncludeItems ==
    [i \in DOMAIN SetToSeq(AllIncludes) |-> Backend!Include(SetToSeq(AllIncludes)[i])]
StructItems == [i \in DOMAIN source.structs |-> Backend!emit_struct(source.structs[i])]
Declarations == [f \in DOMAIN functions |-> Backend!emit_function_declaration(functions[f])]
Definitions == [f \in DOMAIN functions |-> Backend!emit_function_definition(functions[f])]

HeaderFile == [name |-> "header", items |-> IncludeItems \o StructItems \o Declarations]
SourceFile ==
    [name |-> "source",
     items |-> (IF options.emit_header THEN <<Backend!Include("header")>> ELSE IncludeItems)
               \o Definitions]

HeaderFiles == IF options.emit_header THEN <<HeaderFile>> ELSE <<>>

\* The files made so far, from the module as it was when the passes were done.
FilesAreMade ==
    /\ phase \in {"idle", "collect", "header", "source", "done"}
    /\ options \in [emit_header : BOOLEAN, emit_source : BOOLEAN]
    /\ phase # "idle" => pass > Passes
    /\ phase \in {"header", "source"} => header_includes = AllIncludes
    /\ files = CASE phase \in {"idle", "collect", "header"} -> <<>>
                 [] phase = "source" -> HeaderFiles
                 [] phase = "done" ->
                       IF options.emit_source THEN Append(HeaderFiles, SourceFile)
                       ELSE HeaderFiles

(* The types the passes leave are those they were given.                        *)
LEMMA TypesKept ==
    ASSUME SourceIsGiven, TypeOK
    PROVE  /\ AllTypes = TypesIn(source)
           /\ \A f \in DOMAIN functions :
                /\ functions[f].name = source.functions[f].name
                /\ functions[f].return_type = source.functions[f].return_type
                /\ functions[f].template_params = source.functions[f].template_params
                /\ functions[f].parameters = source.functions[f].parameters
                /\ functions[f].instructions = Folded(f)
<1>1. ASSUME NEW f \in DOMAIN functions
      PROVE  /\ functions[f].name = source.functions[f].name
             /\ functions[f].return_type = source.functions[f].return_type
             /\ functions[f].template_params = source.functions[f].template_params
             /\ functions[f].parameters = source.functions[f].parameters
             /\ functions[f].instructions = Folded(f)
  <2>1. f \in DOMAIN source.functions
    BY FunctionsTyped
  <2>2. functions[f] = [source.functions[f] EXCEPT !.instructions = Folded(f)]
    BY <2>1 DEF TypeOK
  <2>3. PICK fn : fn = source.functions[f]
    OBVIOUS
  <2>4. PICK a, b, c, d, e : fn = [name |-> a, return_type |-> b, template_params |-> c,
                                   parameters |-> d, instructions |-> e]
    BY <2>1, <2>3, SourceTyped DEF IsIRFunction, IRFunction
  <2>5. PICK code : code = Folded(f)
    OBVIOUS
  <2>6. functions[f] = [name |-> a, return_type |-> b, template_params |-> c,
                        parameters |-> d, instructions |-> code]
    BY <2>2, <2>3, <2>4, <2>5
  <2>7. /\ fn.name = a /\ fn.return_type = b /\ fn.template_params = c
        /\ fn.parameters = d
    BY <2>4
  <2> QED
    BY <2>3, <2>5, <2>6, <2>7
<1>2. ASSUME NEW f \in DOMAIN functions
      PROVE  Backend!SignatureTypes(functions[f]) = Backend!SignatureTypes(source.functions[f])
  BY <1>1 DEF Backend!SignatureTypes
<1>3. Backend!FunctionTypes =
        UNION {Backend!SignatureTypes(fn) : fn \in {functions[f] : f \in DOMAIN functions}}
  BY DEF Backend!FunctionTypes, Backend!ToSet, IRModule
<1>4. Backend!StructTypes =
        UNION {Backend!FieldTypes(record) : record \in ToSet(source.structs)}
  BY DEF Backend!StructTypes, Backend!ToSet, ToSet, IRModule
<1>5. DOMAIN functions = DOMAIN source.functions
  BY FunctionsTyped
<1>6. {Backend!SignatureTypes(fn) : fn \in {functions[f] : f \in DOMAIN functions}} =
        {Backend!SignatureTypes(fn) : fn \in ToSet(source.functions)}
  BY <1>2, <1>5 DEF ToSet
<1>7. AllTypes = TypesIn(source)
  BY <1>3, <1>4, <1>6 DEF AllTypes, TypesIn
<1> QED
  BY <1>1, <1>7

(* What is collected again while the files are written was there before.        *)
LEMMA NoMoreIncludes ==
    /\ AllIncludes \cup Backend!Includes(Backend!StructTypes \cup Backend!FunctionTypes)
         = AllIncludes
    /\ AllIncludes \subseteq {"<cstdint>", "<string>"}
<1>1. \A kind : Backend!IncludesFor(kind) \subseteq {"<cstdint>", "<string>"}
  BY DEF Backend!IncludesFor
<1>2. \A type : Backend!collect_includes_for_type(type) \subseteq {"<cstdint>", "<string>"}
  BY <1>1 DEF Backend!collect_includes_for_type
<1> QED
  BY <1>2 DEF AllIncludes, AllTypes, Backend!Includes

(* What the backend makes is made of the module as it stands.                   *)
LEMMA MadeOfTheModule ==
    ASSUME header_includes = AllIncludes
    PROVE  /\ Backend!build_header => files' = Append(files, HeaderFile)
           /\ Backend!build_source => files' = Append(files, SourceFile)
<1>1. Backend!Mapped(Backend!Include, Backend!SetToSeq(header_includes)) = IncludeItems
  <2>1. ASSUME NEW S PROVE Backend!SetToSeq(S) = SetToSeq(S)
    BY DEF Backend!SetToSeq, SetToSeq, Backend!IsInjective, IsInjective,
           Backend!Cardinality, Cardinality
  <2>2. Backend!SetToSeq(header_includes) = SetToSeq(AllIncludes)
    BY <2>1
  <2> QED
    BY <2>2 DEF Backend!Mapped, IncludeItems
<1>2. Backend!Mapped(Backend!emit_struct, IRModule(source.structs, functions).structs)
        = StructItems
  BY DEF Backend!Mapped, StructItems, IRModule
<1>3. Backend!Mapped(Backend!emit_function_declaration,
                     IRModule(source.structs, functions).functions) = Declarations
  BY DEF Backend!Mapped, Declarations, IRModule
<1>4. Backend!Mapped(Backend!emit_function_definition,
                     IRModule(source.structs, functions).functions) = Definitions
  BY DEF Backend!Mapped, Definitions, IRModule
<1>5. Backend!build_header => files' = Append(files, HeaderFile)
  BY <1>1, <1>2, <1>3 DEF Backend!build_header, HeaderFile
<1>6. Backend!build_source => files' = Append(files, SourceFile)
  BY <1>1, <1>4 DEF Backend!build_source, SourceFile
<1> QED
  BY <1>5, <1>6

(* The backend begins with nothing.                                             *)
LEMMA InitMade == PipelineInit => FilesAreMade
<1> SUFFICES ASSUME PipelineInit PROVE FilesAreMade
  OBVIOUS
<1>1. /\ options = [emit_header |-> TRUE, emit_source |-> TRUE]
      /\ files = <<>> /\ phase = "idle"
  BY DEF PipelineInit, Backend!Init
<1>2. options \in [emit_header : BOOLEAN, emit_source : BOOLEAN]
  BY <1>1
<1> QED
  BY <1>1, <1>2 DEF FilesAreMade

(* A folding step takes place while it is idle.                                 *)
LEMMA OptimizeKeepsFiles ==
    ASSUME TypeOK, FilesAreMade, Optimize
    PROVE  FilesAreMade'
<1>1. UNCHANGED <<options, header_includes, files, phase>>
  BY DEF Optimize, backend_vars
<1>2. pass <= Passes
  BY DEF Optimize, Next, KnownConstant, ParsedConstant, FoldedOperation, LeftAlone, NextFunction,
         NextPass, InFunction, InModule
<1>3. phase = "idle"
  <2>1. pass \in Nat
    BY PassesIsNat DEF TypeOK
  <2> QED
    BY <1>2, <2>1, PassesIsNat DEF FilesAreMade
<1>4. files = <<>>
  BY <1>3 DEF FilesAreMade
<1> QED
  BY <1>1, <1>3, <1>4 DEF FilesAreMade

(* The module the backend refers to does not change under it.                   *)
LEMMA GeneratedFromOne ==
    ASSUME UNCHANGED vars
    PROVE  /\ AllIncludes' = AllIncludes
           /\ (UNCHANGED options) =>
                 UNCHANGED <<HeaderFile, SourceFile, HeaderFiles>>
<1>1. UNCHANGED <<source, functions>>
  BY DEF vars
<1>2. AllTypes' = AllTypes
  BY <1>1 DEF AllTypes, Backend!StructTypes, Backend!FunctionTypes
<1>3. AllIncludes' = AllIncludes
  BY <1>2 DEF AllIncludes
<1>4. IncludeItems' = IncludeItems
  BY <1>3 DEF IncludeItems
<1>5. StructItems' = StructItems /\ Declarations' = Declarations /\ Definitions' = Definitions
  BY <1>1 DEF StructItems, Declarations, Definitions
<1>6. HeaderFile' = HeaderFile
  BY <1>4, <1>5 DEF HeaderFile
<1>7. UNCHANGED options => SourceFile' = SourceFile
  BY <1>4, <1>5 DEF SourceFile
<1> QED
  BY <1>3, <1>6, <1>7 DEF HeaderFiles

(* Each step of the backend makes what FilesAreMade says of its phase.          *)
LEMMA GenerateMakesFiles ==
    ASSUME FilesAreMade, Generate
    PROVE  FilesAreMade'
<1>1. UNCHANGED vars /\ Backend!Next /\ pass > Passes
  BY DEF Generate
<1>2. pass' = pass
  BY <1>1 DEF vars
<1>3. AllIncludes' = AllIncludes
  BY <1>1, GeneratedFromOne
<1>4. UNCHANGED options => UNCHANGED <<HeaderFile, SourceFile, HeaderFiles>>
  BY <1>1, GeneratedFromOne
<1>5. options \in [emit_header : BOOLEAN, emit_source : BOOLEAN]
  BY DEF FilesAreMade
<1>6. CASE Backend!Emit
  <2>1. /\ phase = "idle" /\ options' \in Options /\ phase' = "collect" /\ files' = files
    BY <1>6 DEF Backend!Emit
  <2>2. files = <<>>
    BY <2>1 DEF FilesAreMade
  <2>3. options' \in [emit_header : BOOLEAN, emit_source : BOOLEAN]
    BY <2>1, OptionsAreTyped
  <2> QED
    BY <1>1, <1>2, <2>1, <2>2, <2>3 DEF FilesAreMade
<1>7. CASE Backend!collect_includes
  <2>1. /\ phase = "collect" /\ phase' = "header" /\ UNCHANGED <<options, files>>
        /\ header_includes' = AllIncludes
    BY <1>7 DEF Backend!collect_includes, AllIncludes, AllTypes
  <2>2. files = <<>>
    BY <2>1 DEF FilesAreMade
  <2> QED
    BY <1>1, <1>2, <1>3, <1>5, <2>1, <2>2 DEF FilesAreMade
<1>8. CASE Backend!build_header
  <2>1. /\ phase = "header" /\ options.emit_header /\ phase' = "source" /\ options' = options
        /\ header_includes' = header_includes
                \cup Backend!Includes(Backend!StructTypes \cup Backend!FunctionTypes)
    BY <1>8 DEF Backend!build_header
  <2>2. files = <<>> /\ header_includes = AllIncludes
    BY <2>1 DEF FilesAreMade
  <2>3. header_includes' = AllIncludes
    BY <2>1, <2>2, NoMoreIncludes
  <2>4. files' = Append(<<>>, HeaderFile)
    BY <1>8, <2>2, MadeOfTheModule
  <2>5. files' = HeaderFiles
    BY <2>1, <2>4 DEF HeaderFiles
  <2> QED
    BY <1>1, <1>2, <1>3, <1>4, <1>5, <2>1, <2>3, <2>5 DEF FilesAreMade
<1>9. CASE Backend!NoHeader
  <2>1. /\ phase = "header" /\ ~options.emit_header /\ phase' = "source"
        /\ UNCHANGED <<options, header_includes, files>>
    BY <1>9 DEF Backend!NoHeader
  <2>2. files = HeaderFiles /\ header_includes = AllIncludes
    BY <2>1 DEF FilesAreMade, HeaderFiles
  <2> QED
    BY <1>1, <1>2, <1>3, <1>4, <1>5, <2>1, <2>2 DEF FilesAreMade
<1>10. CASE Backend!build_source
  <2>1. phase = "source" /\ options.emit_source /\ phase' = "done" /\ options' = options
    BY <1>10 DEF Backend!build_source
  <2>2. files = HeaderFiles /\ header_includes = AllIncludes
    BY <2>1 DEF FilesAreMade
  <2>3. files' = Append(HeaderFiles, SourceFile)
    BY <1>10, <2>2, MadeOfTheModule
  <2> QED
    BY <1>1, <1>2, <1>4, <1>5, <2>1, <2>3 DEF FilesAreMade
<1>11. CASE Backend!NoSource
  <2>1. /\ phase = "source" /\ ~options.emit_source /\ phase' = "done"
        /\ UNCHANGED <<options, header_includes, files>>
    BY <1>11 DEF Backend!NoSource
  <2>2. files = HeaderFiles
    BY <2>1 DEF FilesAreMade
  <2> QED
    BY <1>1, <1>2, <1>4, <1>5, <2>1, <2>2 DEF FilesAreMade
<1> QED
  BY <1>1, <1>6, <1>7, <1>8, <1>9, <1>10, <1>11 DEF Backend!Next

FilesInv == FoldInv /\ FilesAreMade

(* At every moment of the pipeline the files are those of the module as the     *)
(* passes have left it.                                                         *)
LEMMA FilesAreOfTheModule == PipelineSpec => [](FilesInv /\ LinesKept)
<1>1. FilesAreMade /\ [PipelineNext]_pipeline_vars /\ FoldInv => FilesAreMade'
  <2> SUFFICES ASSUME FilesAreMade, [PipelineNext]_pipeline_vars, FoldInv PROVE FilesAreMade'
    OBVIOUS
  <2>1. CASE UNCHANGED pipeline_vars
    <3>1. UNCHANGED vars /\ UNCHANGED <<options, header_includes, files, phase>>
      BY <2>1 DEF pipeline_vars, backend_vars
    <3>2. pass' = pass
      BY <3>1 DEF vars
    <3> QED
      BY <3>1, <3>2, GeneratedFromOne DEF FilesAreMade
  <2> QED
    BY <2>1, OptimizeKeepsFiles, GenerateMakesFiles DEF PipelineNext, FoldInv
<1>2. PipelineSpec => []FoldInv /\ []LinesKept
  BY PipelineRunsPasses, FoldingIsSettled, LinesAreKept, PTL
<1> HIDE DEF PipelineInit, PipelineNext, pipeline_vars, FoldInv, FilesAreMade, LinesKept
<1> QED
  BY <1>1, <1>2, InitMade, PTL DEF PipelineSpec, FilesInv

\* What the files are sequences of.
Things ==
    {IncludeItems[i] : i \in DOMAIN IncludeItems} \cup {StructItems[i] : i \in DOMAIN StructItems}
    \cup {Declarations[f] : f \in DOMAIN Declarations}
    \cup {Definitions[f] : f \in DOMAIN Definitions} \cup {Backend!Include("header")}

(* What an item is made of.                                                     *)
LEMMA ItemIs ==
    ASSUME NEW item, NEW name, NEW params, NEW types, NEW parameters, NEW lines
    PROVE  LET it == Backend!Item(item, name, params, types, parameters, lines)
           IN  /\ it.item = item /\ it.name = name /\ it.template = Backend!ToSet(params)
               /\ it.types = Backend!Written(types)
               /\ it.parameters = parameters /\ it.lines = lines
<1>1. PICK template : template = Backend!ToSet(params)
  OBVIOUS
<1>2. PICK written : written = Backend!Written(types)
  OBVIOUS
<1>3. Backend!Item(item, name, params, types, parameters, lines) =
        [item |-> item, name |-> name, template |-> template, types |-> written,
         parameters |-> parameters, lines |-> lines]
  BY <1>1, <1>2 DEF Backend!Item
<1> QED
  BY <1>1, <1>2, <1>3

(* What is included.                                                            *)
LEMMA IncludesAre ==
    /\ IncludeItems \in Seq(Things)
    /\ \A i \in DOMAIN IncludeItems :
         /\ IncludeItems[i].item = "include" /\ IncludeItems[i].name \in AllIncludes
         /\ IncludeItems[i].types = {} /\ IncludeItems[i].lines = <<>>
         /\ IncludeItems[i] # Backend!Include("header")
    /\ \A name \in AllIncludes : \E i \in DOMAIN IncludeItems : IncludeItems[i].name = name
<1>1. PICK s : s = SetToSeq(AllIncludes)
  OBVIOUS
<1>2. IsFiniteSet({"<cstdint>", "<string>"})
  <2>1. IsFiniteSet({"<cstdint>"})
    BY FS_Singleton
  <2>2. IsFiniteSet({"<cstdint>"} \cup {"<string>"})
    BY <2>1, FS_AddElement
  <2>3. {"<cstdint>"} \cup {"<string>"} = {"<cstdint>", "<string>"}
    OBVIOUS
  <2> QED
    BY <2>2, <2>3
<1>3. IsFiniteSet(AllIncludes)
  BY <1>2, NoMoreIncludes, FS_Subset
<1>4. s \in Seq(AllIncludes) /\ \A e \in AllIncludes : \E i \in DOMAIN s : s[i] = e
  BY <1>1, <1>3, SetAsSequence
<1>5. IncludeItems = [i \in DOMAIN s |-> Backend!Include(s[i])]
  BY <1>1 DEF IncludeItems
<1>6. PICK n \in Nat : DOMAIN s = 1..n
  BY <1>4, LenProperties
<1>7. ASSUME NEW name
      PROVE  /\ Backend!Include(name).item = "include" /\ Backend!Include(name).name = name
             /\ Backend!Include(name).types = {} /\ Backend!Include(name).lines = <<>>
  <2>1. Backend!Written({}) = {}
    BY DEF Backend!Written
  <2> QED
    BY <2>1, ItemIs DEF Backend!Include
<1>8. ASSUME NEW i \in DOMAIN s PROVE s[i] \in AllIncludes
  <2>1. i \in 1..Len(s)
    BY <1>4, LenProperties
  <2> QED
    BY <1>4, <2>1, ElementOfSeq
<1>9. \A i \in DOMAIN IncludeItems : IncludeItems[i] \in Things
  BY DEF Things
<1>10. IncludeItems \in Seq(Things)
  BY <1>5, <1>6, <1>9
<1>11. ASSUME NEW i \in DOMAIN IncludeItems
       PROVE  /\ IncludeItems[i].item = "include" /\ IncludeItems[i].name \in AllIncludes
              /\ IncludeItems[i].types = {} /\ IncludeItems[i].lines = <<>>
  <2>1. i \in DOMAIN s /\ IncludeItems[i] = Backend!Include(s[i])
    BY <1>5
  <2> QED
    BY <1>7, <1>8, <2>1
<1>12. \A i \in DOMAIN IncludeItems : IncludeItems[i] # Backend!Include("header")
  <2>1. "header" \notin AllIncludes
    BY NoMoreIncludes
  <2>2. Backend!Include("header").name = "header"
    BY <1>7
  <2> QED
    BY <1>11, <2>1, <2>2
<1>13. ASSUME NEW name \in AllIncludes
       PROVE  \E i \in DOMAIN IncludeItems : IncludeItems[i].name = name
  <2>1. PICK i \in DOMAIN s : s[i] = name
    BY <1>4
  <2>2. i \in DOMAIN IncludeItems /\ IncludeItems[i] = Backend!Include(name)
    BY <1>5, <2>1
  <2> QED
    BY <1>7, <2>2
<1> QED
  BY <1>10, <1>11, <1>12, <1>13

(* What is written of the structs.                                              *)
LEMMA StructsAre ==
    ASSUME SourceIsGiven
    PROVE  /\ StructItems \in Seq(Things) /\ DOMAIN StructItems = DOMAIN source.structs
           /\ source.structs \in Seq(ToSet(source.structs))
           /\ \A i \in DOMAIN source.structs :
                LET record == source.structs[i]
                IN  /\ StructItems[i].item = "struct" /\ StructItems[i].name = record.name
                    /\ StructItems[i].template = Backend!ToSet(record.template_params)
                    /\ StructItems[i].types = Backend!Written(Backend!FieldTypes(record))
                    /\ StructItems[i].lines = <<>>
<1>1. source.structs \in Seq(ToSet(source.structs))
  BY TypesAreTyped DEF SourceIsGiven
<1>2. PICK n \in Nat : DOMAIN source.structs = 1..n
  <2>1. PICK S : S = ToSet(source.structs)
    OBVIOUS
  <2> QED
    BY <1>1, <2>1, LenProperties
<1>3. DOMAIN StructItems = DOMAIN source.structs
  BY DEF StructItems
<1>4. \A i \in DOMAIN StructItems : StructItems[i] \in Things
  BY DEF Things
<1>5. StructItems \in Seq(Things)
  <2>1. StructItems = [i \in 1..n |-> StructItems[i]]
    BY <1>2 DEF StructItems
  <2>2. StructItems \in [1..n -> Things]
    BY <1>2, <1>3, <1>4, <2>1
  <2> QED
    BY <2>2
<1>6. ASSUME NEW i \in DOMAIN source.structs, NEW record, record = source.structs[i]
      PROVE  /\ StructItems[i].item = "struct" /\ StructItems[i].name = record.name
             /\ StructItems[i].template = Backend!ToSet(record.template_params)
             /\ StructItems[i].types = Backend!Written(Backend!FieldTypes(record))
             /\ StructItems[i].lines = <<>>
  <2>1. StructItems[i] = Backend!emit_struct(record)
    BY <1>6 DEF StructItems
  <2> QED
    BY <2>1, ItemIs DEF Backend!emit_struct
<1> QED
  BY <1>1, <1>3, <1>5, <1>6

(* What is written of the functions.                                            *)
LEMMA FunctionsAre ==
    ASSUME SourceIsGiven, TypeOK
    PROVE  /\ Declarations \in Seq(Things) /\ DOMAIN Declarations = DOMAIN functions
           /\ Definitions \in Seq(Things) /\ DOMAIN Definitions = DOMAIN functions
           /\ \A f \in DOMAIN functions :
                LET fn == source.functions[f]
                IN  /\ Declarations[f].item = "declaration" /\ Declarations[f].name = fn.name
                    /\ Declarations[f].template = Backend!ToSet(fn.template_params)
                    /\ Declarations[f].types = Backend!Written(Backend!SignatureTypes(fn))
                    /\ Declarations[f].lines = <<>>
                    /\ Definitions[f].item = "definition"
                    /\ Definitions[f].template = Backend!ToSet(fn.template_params)
                    /\ Definitions[f].types = Backend!Written(Backend!SignatureTypes(fn))
                    /\ Definitions[f].parameters =
                         {fn.parameters[i].name : i \in DOMAIN fn.parameters}
                    /\ Definitions[f].lines = Backend!translate_instructions(functions[f])
<1>1. Len(functions) \in Nat /\ DOMAIN functions = 1..Len(functions)
  BY FunctionsTyped
<1>2. PICK n \in Nat : DOMAIN functions = 1..n
  BY <1>1
<1>3. DOMAIN Declarations = DOMAIN functions /\ DOMAIN Definitions = DOMAIN functions
  BY DEF Declarations, Definitions
<1>4. /\ \A f \in DOMAIN Declarations : Declarations[f] \in Things
      /\ \A f \in DOMAIN Definitions : Definitions[f] \in Things
  BY DEF Things
<1>5. Declarations \in Seq(Things)
  <2>1. Declarations = [f \in 1..n |-> Declarations[f]]
    BY <1>2 DEF Declarations
  <2>2. Declarations \in [1..n -> Things]
    BY <1>2, <1>3, <1>4, <2>1
  <2> QED
    BY <2>2
<1>6. Definitions \in Seq(Things)
  <2>1. Definitions = [f \in 1..n |-> Definitions[f]]
    BY <1>2 DEF Definitions
  <2>2. Definitions \in [1..n -> Things]
    BY <1>2, <1>3, <1>4, <2>1
  <2> QED
    BY <2>2
<1>7. ASSUME NEW f \in DOMAIN functions, NEW fn, fn = source.functions[f]
      PROVE  /\ Declarations[f].item = "declaration" /\ Declarations[f].name = fn.name
             /\ Declarations[f].template = Backend!ToSet(fn.template_params)
             /\ Declarations[f].types = Backend!Written(Backend!SignatureTypes(fn))
             /\ Declarations[f].lines = <<>>
             /\ Definitions[f].item = "definition"
             /\ Definitions[f].template = Backend!ToSet(fn.template_params)
             /\ Definitions[f].types = Backend!Written(Backend!SignatureTypes(fn))
             /\ Definitions[f].parameters =
                  {fn.parameters[i].name : i \in DOMAIN fn.parameters}
             /\ Definitions[f].lines = Backend!translate_instructions(functions[f])
  <2>1. PICK folded : folded = functions[f]
    OBVIOUS
  <2>2. /\ folded.name = fn.name /\ folded.return_type = fn.return_type
        /\ folded.template_params = fn.template_params
        /\ folded.parameters = fn.parameters
    BY <1>7, <2>1, TypesKept
  <2>3. Backend!SignatureTypes(folded) = Backend!SignatureTypes(fn)
    BY <2>2 DEF Backend!SignatureTypes
  <2>4. Declarations[f] = Backend!emit_function_declaration(folded)
    BY <2>1 DEF Declarations
  <2>5. Definitions[f] = Backend!emit_function_definition(folded)
    BY <2>1 DEF Definitions
  <2>6. /\ Declarations[f].item = "declaration" /\ Declarations[f].name = folded.name
        /\ Declarations[f].template = Backend!ToSet(folded.template_params)
        /\ Declarations[f].types = Backend!Written(Backend!SignatureTypes(folded))
        /\ Declarations[f].lines = <<>>
    BY <2>4, ItemIs DEF Backend!emit_function_declaration
  <2>7. /\ Definitions[f].item = "definition"
        /\ Definitions[f].template = Backend!ToSet(folded.template_params)
        /\ Definitions[f].types = Backend!Written(Backend!SignatureTypes(folded))
        /\ Definitions[f].parameters =
             {folded.parameters[i].name : i \in DOMAIN folded.parameters}
        /\ Definitions[f].lines = Backend!translate_instructions(folded)
    BY <2>5, ItemIs DEF Backend!emit_function_definition
  <2>8. {folded.parameters[i].name : i \in DOMAIN folded.parameters} =
          {fn.parameters[i].name : i \in DOMAIN fn.parameters}
    BY <2>2
  <2> QED
    BY <2>1, <2>2, <2>3, <2>6, <2>7, <2>8
<1> QED
  BY <1>3, <1>5, <1>6, <1>7

\* What a file with its header, or without one, begins with.
Beginning == IncludeItems \o StructItems

(* No sequence of other things holds a line that includes the header.           *)
LEMMA NoHeaderLine ==
    ASSUME SourceIsGiven, TypeOK
    PROVE  /\ Beginning \in Seq(Things)
           /\ \A items \in {Beginning \o Declarations, IncludeItems \o Definitions} :
                /\ items \in Seq(Things)
                /\ \A i \in DOMAIN items : items[i] # Backend!Include("header")
<1>1. ASSUME NEW a \in Seq(Things), NEW b \in Seq(Things),
             \A i \in DOMAIN a : a[i] # Backend!Include("header"),
             \A i \in DOMAIN b : b[i] # Backend!Include("header")
      PROVE  /\ a \o b \in Seq(Things)
             /\ \A i \in DOMAIN (a \o b) : (a \o b)[i] # Backend!Include("header")
  <2>1. PICK whole : whole = a \o b
    OBVIOUS
  <2>2. whole \in Seq(Things)
    BY <2>1, ConcatProperties
  <2>3. ASSUME NEW i \in DOMAIN whole PROVE whole[i] # Backend!Include("header")
    <3>1. whole = Joined(a, b)
      BY <2>1 DEF Joined
    <3> QED
      BY <1>1, <3>1, JoinIsOfTwo
  <2> QED
    BY <2>1, <2>2, <2>3
<1>2. Backend!Include("header").item = "include"
  BY ItemIs DEF Backend!Include
<1>3. /\ IncludeItems \in Seq(Things)
      /\ \A i \in DOMAIN IncludeItems : IncludeItems[i] # Backend!Include("header")
  BY IncludesAre
<1>4. /\ StructItems \in Seq(Things)
      /\ \A i \in DOMAIN StructItems : StructItems[i] # Backend!Include("header")
  <2>1. \A i \in DOMAIN StructItems : StructItems[i].item = "struct"
    BY StructsAre
  <2> QED
    BY <1>2, <2>1, StructsAre
<1>5. /\ Declarations \in Seq(Things) /\ Definitions \in Seq(Things)
      /\ \A f \in DOMAIN Declarations : Declarations[f] # Backend!Include("header")
      /\ \A f \in DOMAIN Definitions : Definitions[f] # Backend!Include("header")
  <2>1. \A f \in DOMAIN functions :
          Declarations[f].item = "declaration" /\ Definitions[f].item = "definition"
    BY FunctionsAre
  <2> QED
    BY <1>2, <2>1, FunctionsAre
<1>6. /\ Beginning \in Seq(Things)
      /\ \A i \in DOMAIN Beginning : Beginning[i] # Backend!Include("header")
  BY <1>1, <1>3, <1>4 DEF Beginning
<1>7. /\ Beginning \o Declarations \in Seq(Things)
      /\ \A i \in DOMAIN (Beginning \o Declarations) :
            (Beginning \o Declarations)[i] # Backend!Include("header")
  BY <1>1, <1>5, <1>6
<1>8. /\ IncludeItems \o Definitions \in Seq(Things)
      /\ \A i \in DOMAIN (IncludeItems \o Definitions) :
            (IncludeItems \o Definitions)[i] # Backend!Include("header")
  BY <1>1, <1>3, <1>5
<1> QED
  BY <1>6, <1>7, <1>8

(* A file is compiled as it is, or the source after the header it includes.     *)
LEMMA UnitIs ==
    ASSUME SourceIsGiven, TypeOK
    PROVE  /\ Backend!Unit(HeaderFile) = Beginning \o Declarations
           /\ ~options.emit_header => Backend!Unit(SourceFile) = IncludeItems \o Definitions
           /\ options.emit_header /\ files[1] = HeaderFile =>
                 Backend!Unit(SourceFile) = (Beginning \o Declarations) \o Definitions
<1>1. ASSUME NEW items \in Seq(Things), NEW name,
             \A i \in DOMAIN items : items[i] # Backend!Include("header")
      PROVE  Backend!Unit([name |-> name, items |-> items]) = items
  <2>1. items # <<>> => 1 \in DOMAIN items
    BY EmptySeq, LenProperties
  <2>2. PICK file : file = [name |-> name, items |-> items]
    OBVIOUS
  <2>3. file.items = items
    BY <2>2
  <2> QED
    BY <1>1, <2>1, <2>2, <2>3 DEF Backend!Unit
<1>2. HeaderFile = [name |-> "header", items |-> Beginning \o Declarations]
  BY DEF HeaderFile, Beginning
<1>3. Backend!Unit(HeaderFile) = Beginning \o Declarations
  <2>1. PICK items : items = Beginning \o Declarations
    OBVIOUS
  <2>2. items \in Seq(Things) /\ \A i \in DOMAIN items : items[i] # Backend!Include("header")
    BY <2>1, NoHeaderLine
  <2>3. Backend!Unit([name |-> "header", items |-> items]) = items
    BY <1>1, <2>2
  <2> QED
    BY <1>2, <2>1, <2>3
<1>4. ASSUME ~options.emit_header
      PROVE  Backend!Unit(SourceFile) = IncludeItems \o Definitions
  <2>1. PICK items : items = IncludeItems \o Definitions
    OBVIOUS
  <2>2. items \in Seq(Things) /\ \A i \in DOMAIN items : items[i] # Backend!Include("header")
    BY <2>1, NoHeaderLine
  <2>3. Backend!Unit([name |-> "source", items |-> items]) = items
    BY <1>1, <2>2
  <2>4. SourceFile = [name |-> "source", items |-> items]
    BY <1>4, <2>1 DEF SourceFile
  <2> QED
    BY <2>1, <2>3, <2>4
<1>5. ASSUME options.emit_header, files[1] = HeaderFile
      PROVE  Backend!Unit(SourceFile) = (Beginning \o Declarations) \o Definitions
  <2>1. PICK line : line = Backend!Include("header")
    OBVIOUS
  <2>2. PICK one : one = <<line>>
    OBVIOUS
  <2>3. PICK items : items = one \o Definitions
    OBVIOUS
  <2>4. one \in Seq(Things) /\ Len(one) = 1 /\ one[1] = line
    BY <2>1, <2>2 DEF Things
  <2>5. Definitions \in Seq(Things)
    BY FunctionsAre
  <2>6. PICK n \in Nat : n = Len(Definitions)
    BY <2>5, LenProperties
  <2>7. /\ items \in Seq(Things) /\ Len(items) = 1 + n
        /\ \A i \in 1..(1 + n) : items[i] = IF i <= 1 THEN one[i] ELSE Definitions[i - 1]
    <3>1. items \in Seq(Things) /\ Len(items) = Len(one) + Len(Definitions)
      BY <2>3, <2>4, <2>5, ConcatProperties
    <3>2. \A i \in 1..(Len(one) + Len(Definitions)) :
            items[i] = IF i <= Len(one) THEN one[i] ELSE Definitions[i - Len(one)]
      BY <2>3, <2>4, <2>5, ConcatProperties
    <3> QED
      BY <2>4, <2>6, <3>1, <3>2
  <2>8. items # <<>> /\ items[1] = line
    <3>1. items # <<>>
      BY <2>6, <2>7, EmptySeq
    <3> QED
      BY <2>4, <2>6, <2>7, <3>1
  <2>9. Tail(items) = Definitions
    <3>1. PICK rest : rest = Tail(items)
      OBVIOUS
    <3>2. /\ rest \in Seq(Things) /\ Len(rest) = Len(items) - 1
          /\ \A i \in 1..Len(rest) : rest[i] = items[i + 1]
      BY <2>7, <2>8, <3>1, HeadTailProperties
    <3>3. Len(rest) = n
      BY <2>6, <2>7, <3>2
    <3>4. ASSUME NEW i \in 1..n PROVE rest[i] = Definitions[i]
      <4>1. PICK k : k = i + 1
        OBVIOUS
      <4>2. k \in 1..(1 + n) /\ ~(k <= 1) /\ k - 1 = i
        BY <2>6, <4>1
      <4>3. items[k] = Definitions[k - 1]
        BY <2>7, <4>2
      <4> QED
        BY <3>2, <3>3, <4>1, <4>2, <4>3
    <3>5. rest = Definitions
      BY <2>5, <2>6, <3>2, <3>3, <3>4, SeqEqual
    <3> QED
      BY <3>1, <3>5
  <2>10. SourceFile = [name |-> "source", items |-> items]
    BY <1>5, <2>1, <2>2, <2>3 DEF SourceFile
  <2>11. SourceFile.items = items
    BY <2>10
  <2>12. HeaderFile.items = Beginning \o Declarations
    BY <1>2
  <2> QED
    BY <1>5, <2>1, <2>8, <2>9, <2>11, <2>12 DEF Backend!Unit
<1> QED
  BY <1>3, <1>4, <1>5

(* What the compiler gets is the includes, the structs, then the functions.     *)
LEMMA UnitsAreMade ==
    ASSUME SourceIsGiven, TypeOK, FilesAreMade, Backend!StructsAreEmitted,
           NEW unit \in Backend!Units
    PROVE  \/ unit = Beginning \o Declarations
           \/ unit = (Beginning \o Declarations) \o Definitions
           \/ ~options.emit_header /\ unit = Beginning \o Definitions
<1>1. PICK i \in DOMAIN files : unit = Backend!Unit(files[i])
  BY DEF Backend!Units
<1>2. files # <<>>
  BY <1>1
<1>3. CASE options.emit_header
  <2>1. HeaderFiles = <<HeaderFile>>
    BY <1>3 DEF HeaderFiles
  <2>2. files \in {<<HeaderFile>>, Append(<<HeaderFile>>, SourceFile)}
    BY <1>2, <2>1 DEF FilesAreMade
  <2>3. files = <<HeaderFile>> \/ files = <<HeaderFile, SourceFile>>
    BY <2>2
  <2>4. files[1] = HeaderFile /\ files[i] \in {HeaderFile, SourceFile}
    BY <1>1, <2>3
  <2> QED
    BY <1>1, <1>3, <2>4, UnitIs
<1>4. CASE ~options.emit_header
  <2>1. HeaderFiles = <<>>
    BY <1>4 DEF HeaderFiles
  <2>2. files = Append(<<>>, SourceFile)
    BY <1>2, <2>1 DEF FilesAreMade
  <2>3. files[i] = SourceFile
    BY <1>1, <2>2
  <2>4. unit = IncludeItems \o Definitions
    BY <1>1, <1>4, <2>3, UnitIs
  <2>5. source.structs = <<>>
    BY <1>4 DEF Backend!StructsAreEmitted, IRModule
  <2>6. StructItems = <<>>
    BY <2>5 DEF StructItems
  <2>7. Beginning = IncludeItems
    BY <2>6, IncludesAre, ConcatEmptySeq DEF Beginning
  <2> QED
    BY <1>4, <2>4, <2>7
<1> QED
  BY <1>3, <1>4

(* What stands in a unit that begins so.                                        *)
LEMMA UnitBegins ==
    ASSUME SourceIsGiven, TypeOK, NEW rest \in Seq(Things), NEW unit, unit = Beginning \o rest
    PROVE  /\ unit \in Seq(Things)
           /\ Len(IncludeItems) \in Nat /\ Len(StructItems) \in Nat
           /\ Len(Beginning) = Len(IncludeItems) + Len(StructItems)
           /\ DOMAIN IncludeItems = 1..Len(IncludeItems)
           /\ DOMAIN StructItems = 1..Len(StructItems)
           /\ \A i \in DOMAIN IncludeItems : i \in DOMAIN unit /\ unit[i] = IncludeItems[i]
           /\ \A i \in DOMAIN StructItems :
                /\ Len(IncludeItems) + i \in DOMAIN unit
                /\ unit[Len(IncludeItems) + i] = StructItems[i]
<1>1. PICK a, b, top : a = IncludeItems /\ b = StructItems /\ top = Beginning
  OBVIOUS
<1>2. a \in Seq(Things) /\ b \in Seq(Things) /\ top = a \o b
  BY <1>1, IncludesAre, StructsAre DEF Beginning
<1>3. PICK n, m : n = Len(a) /\ m = Len(b)
  OBVIOUS
<1>4. /\ top \in Seq(Things) /\ Len(top) = n + m /\ n \in Nat /\ m \in Nat
      /\ DOMAIN a = 1..n /\ DOMAIN b = 1..m
  BY <1>2, <1>3, JoinOfTwo
<1>5. /\ \A i \in DOMAIN a : i \in DOMAIN top /\ top[i] = a[i]
      /\ \A i \in DOMAIN b : n + i \in DOMAIN top /\ top[n + i] = b[i]
  <2>1. \A i \in DOMAIN a : i \in DOMAIN top /\ top[i] = a[i]
    BY <1>2, JoinOfTwo
  <2>2. \A i \in DOMAIN b : Len(a) + i \in DOMAIN top /\ top[Len(a) + i] = b[i]
    BY <1>2, JoinOfTwo
  <2> QED
    BY <1>3, <2>1, <2>2
<1>6. unit \in Seq(Things) /\ \A i \in DOMAIN top : i \in DOMAIN unit /\ unit[i] = top[i]
  BY <1>1, <1>4, JoinOfTwo
<1>7. /\ \A i \in DOMAIN a : i \in DOMAIN unit /\ unit[i] = a[i]
      /\ \A i \in DOMAIN b : n + i \in DOMAIN unit /\ unit[n + i] = b[i]
  BY <1>5, <1>6
<1> QED
  BY <1>1, <1>3, <1>4, <1>6, <1>7

(* Nothing else stands before the rest.                                         *)
LEMMA UnitIsOf ==
    ASSUME SourceIsGiven, TypeOK, NEW rest \in Seq(Things),
           NEW unit, unit = Joined(Beginning, rest), NEW i \in DOMAIN unit
    PROVE  \/ i \in DOMAIN IncludeItems /\ unit[i] = IncludeItems[i]
           \/ \E j \in DOMAIN StructItems :
                 i = Len(IncludeItems) + j /\ unit[i] = StructItems[j]
           \/ \E k \in DOMAIN rest : i = Len(Beginning) + k /\ unit[i] = rest[k]
<1>1. PICK S, a, b, top :
        S = Things /\ a = IncludeItems /\ b = StructItems /\ top = Beginning
  OBVIOUS
<1>2. a \in Seq(S) /\ b \in Seq(S) /\ top \in Seq(S) /\ rest \in Seq(S)
  BY <1>1, IncludesAre, StructsAre, NoHeaderLine
<1>3. top = Joined(a, b) /\ unit = Joined(top, rest)
  BY <1>1 DEF Beginning, Joined
<1>4. \/ i \in DOMAIN top /\ unit[i] = top[i]
      \/ \E k \in DOMAIN rest : i = Len(top) + k /\ unit[i] = rest[k]
  BY <1>2, <1>3, JoinIsOfTwo
<1>5. i \in DOMAIN top => \/ i \in DOMAIN a /\ top[i] = a[i]
                          \/ \E j \in DOMAIN b : i = Len(a) + j /\ top[i] = b[j]
  BY <1>2, <1>3, JoinIsOfTwo
<1> QED
  BY <1>1, <1>4, <1>5

(* What stands in a unit: each of the includes, then each of the structs, then  *)
(* what declares and defines functions, a definition after all declarations.    *)
LEMMA UnitHolds ==
    ASSUME SourceIsGiven, TypeOK, FilesAreMade, Backend!StructsAreEmitted,
           NEW unit \in Backend!Units
    PROVE  /\ unit \in Seq(Things)
           /\ Len(IncludeItems) \in Nat /\ Len(StructItems) \in Nat
           /\ DOMAIN IncludeItems = 1..Len(IncludeItems)
           /\ DOMAIN StructItems = 1..Len(StructItems)
           /\ \A i \in DOMAIN IncludeItems : i \in DOMAIN unit /\ unit[i] = IncludeItems[i]
           /\ \A i \in DOMAIN StructItems :
                /\ Len(IncludeItems) + i \in DOMAIN unit
                /\ unit[Len(IncludeItems) + i] = StructItems[i]
           /\ \A i \in DOMAIN unit :
                \/ i \in DOMAIN IncludeItems /\ unit[i] = IncludeItems[i]
                \/ \E j \in DOMAIN StructItems :
                      i = Len(IncludeItems) + j /\ unit[i] = StructItems[j]
                \/ /\ i > Len(IncludeItems) + Len(StructItems)
                   /\ \E f \in DOMAIN functions :
                        \/ unit[i] = Declarations[f]
                        \/ /\ unit[i] = Definitions[f]
                           /\ options.emit_header => \A g \in DOMAIN functions :
                                \E j \in 1..i : unit[j] = Declarations[g]
<1>1. /\ Declarations \in Seq(Things) /\ DOMAIN Declarations = DOMAIN functions
      /\ Definitions \in Seq(Things) /\ DOMAIN Definitions = DOMAIN functions
  BY FunctionsAre
<1>2. PICK both : both = Declarations \o Definitions
  OBVIOUS
<1>3. both \in Seq(Things) /\ Beginning \in Seq(Things)
  BY <1>1, <1>2, ConcatProperties, NoHeaderLine
<1>4. \/ unit = Beginning \o Declarations
      \/ unit = Beginning \o both
      \/ ~options.emit_header /\ unit = Beginning \o Definitions
  <2>1. PICK S, a, b, c :
          S = Things /\ a = Beginning /\ b = Declarations /\ c = Definitions
    OBVIOUS
  <2>2. a \in Seq(S) /\ b \in Seq(S) /\ c \in Seq(S)
    BY <1>1, <1>3, <2>1
  <2>3. (a \o b) \o c = a \o (b \o c)
    BY <2>2, ConcatAssociative, SMTT(30)
  <2> QED
    BY <1>2, <2>1, <2>3, UnitsAreMade
<1>5. PICK rest : /\ unit = Beginning \o rest
                  /\ \/ rest = Declarations
                     \/ rest = both
                     \/ ~options.emit_header /\ rest = Definitions
  BY <1>4
<1>6. rest \in Seq(Things)
  BY <1>1, <1>3, <1>5
<1>7. Len(Beginning) = Len(IncludeItems) + Len(StructItems) /\ Len(Beginning) \in Nat
  <2>1. Len(Beginning) = Len(IncludeItems) + Len(StructItems)
    BY <1>5, <1>6, UnitBegins
  <2> QED
    BY <1>3, <2>1, LenProperties
<1>8. /\ DOMAIN rest = 1..Len(rest) /\ Len(rest) \in Nat
      /\ \A k \in DOMAIN rest : /\ Len(Beginning) + k \in DOMAIN unit
                                /\ unit[Len(Beginning) + k] = rest[k]
  BY <1>3, <1>5, <1>6, JoinOfTwo
<1>9. ASSUME NEW i \in DOMAIN unit, NEW k \in DOMAIN rest,
             i = Len(Beginning) + k, unit[i] = rest[k]
      PROVE  /\ i > Len(Beginning)
             /\ \E f \in DOMAIN functions :
                  \/ unit[i] = Declarations[f]
                  \/ /\ unit[i] = Definitions[f]
                     /\ options.emit_header => \A g \in DOMAIN functions :
                          \E j \in 1..i : unit[j] = Declarations[g]
  <2>1. i > Len(Beginning)
    BY <1>7, <1>8, <1>9
  <2>2. CASE rest = Declarations
    BY <1>1, <1>9, <2>1, <2>2
  <2>3. CASE ~options.emit_header /\ rest = Definitions
    BY <1>1, <1>9, <2>1, <2>3
  <2>4. CASE rest = both
    <3>1. PICK n : n = Len(Declarations)
      OBVIOUS
    <3>2. n \in Nat /\ DOMAIN Declarations = 1..n
      BY <1>1, <3>1, LenProperties
    <3>3. \A g \in DOMAIN Declarations : g \in DOMAIN rest /\ rest[g] = Declarations[g]
      BY <1>1, <1>2, <2>4, JoinOfTwo
    <3>4. \/ k \in DOMAIN Declarations /\ rest[k] = Declarations[k]
          \/ \E f \in DOMAIN Definitions : k = n + f /\ rest[k] = Definitions[f]
      <4>1. \/ k \in DOMAIN Declarations /\ rest[k] = Declarations[k]
            \/ \E f \in DOMAIN Definitions :
                  k = Len(Declarations) + f /\ rest[k] = Definitions[f]
        <5>1. rest = Joined(Declarations, Definitions)
          BY <1>2, <2>4 DEF Joined
        <5> QED
          BY <1>1, <5>1, JoinIsOfTwo
      <4> QED
        BY <3>1, <4>1
    <3>5. ASSUME NEW f \in DOMAIN Definitions, k = n + f, rest[k] = Definitions[f],
                 NEW g \in DOMAIN functions
          PROVE  \E j \in 1..i : unit[j] = Declarations[g]
      <4>1. g \in 1..n /\ g \in DOMAIN rest /\ rest[g] = Declarations[g]
        BY <1>1, <3>2, <3>3
      <4>2. PICK j : j = Len(Beginning) + g
        OBVIOUS
      <4>3. unit[j] = Declarations[g]
        BY <1>8, <4>1, <4>2
      <4>4. PICK m : m = Len(Definitions)
        OBVIOUS
      <4>5. m \in Nat /\ f \in 1..m
        BY <1>1, <4>4, LenProperties
      <4>6. j \in 1..i
        BY <1>7, <1>9, <3>2, <3>5, <4>1, <4>2, <4>5
      <4> QED
        BY <4>3, <4>6
    <3> QED
      BY <1>1, <1>9, <2>1, <3>4, <3>5
  <2> QED
    BY <1>5, <2>2, <2>3, <2>4
<1>10. ASSUME NEW i \in DOMAIN unit
       PROVE  \/ i \in DOMAIN IncludeItems /\ unit[i] = IncludeItems[i]
              \/ \E j \in DOMAIN StructItems :
                    i = Len(IncludeItems) + j /\ unit[i] = StructItems[j]
              \/ /\ i > Len(IncludeItems) + Len(StructItems)
                 /\ \E f \in DOMAIN functions :
                      \/ unit[i] = Declarations[f]
                      \/ /\ unit[i] = Definitions[f]
                         /\ options.emit_header => \A g \in DOMAIN functions :
                              \E j \in 1..i : unit[j] = Declarations[g]
  <2>1. \/ i \in DOMAIN IncludeItems /\ unit[i] = IncludeItems[i]
        \/ \E j \in DOMAIN StructItems :
              i = Len(IncludeItems) + j /\ unit[i] = StructItems[j]
        \/ \E k \in DOMAIN rest : i = Len(Beginning) + k /\ unit[i] = rest[k]
    <3>1. unit = Joined(Beginning, rest)
      BY <1>5 DEF Joined
    <3> QED
      BY <1>6, <3>1, UnitIsOf
  <2>2. (\E k \in DOMAIN rest : i = Len(Beginning) + k /\ unit[i] = rest[k]) =>
            /\ i > Len(IncludeItems) + Len(StructItems)
            /\ \E f \in DOMAIN functions :
                 \/ unit[i] = Declarations[f]
                 \/ /\ unit[i] = Definitions[f]
                    /\ options.emit_header => \A g \in DOMAIN functions :
                         \E j \in 1..i : unit[j] = Declarations[g]
    BY <1>7, <1>9
  <2> QED
    BY <2>1, <2>2
<1>11. /\ unit \in Seq(Things)
       /\ Len(IncludeItems) \in Nat /\ Len(StructItems) \in Nat
       /\ DOMAIN IncludeItems = 1..Len(IncludeItems)
       /\ DOMAIN StructItems = 1..Len(StructItems)
  BY <1>5, <1>6, UnitBegins
<1>12. /\ \A i \in DOMAIN IncludeItems : i \in DOMAIN unit /\ unit[i] = IncludeItems[i]
       /\ \A i \in DOMAIN StructItems :
            /\ Len(IncludeItems) + i \in DOMAIN unit
            /\ unit[Len(IncludeItems) + i] = StructItems[i]
  BY <1>5, <1>6, UnitBegins
<1> QED
  BY <1>10, <1>11, <1>12

-------------------------------------------------------------------------------
(* The types written in them.                                                   *)

(* A name written in a type is one of what the type is made of, whose includes  *)
(* have been collected.                                                         *)
LEMMA WrittenIsAPart ==
    ASSUME SourceIsGiven, TypeOK, NEW type \in AllTypes, NEW name \in Backend!type_to_string(type)
    PROVE  \E part \in Backend!Parts(type) :
              /\ IsIRType(part) /\ name = Backend!CppName(part)
              /\ Backend!IncludesFor(part.kind) \subseteq AllIncludes
<1>1. \A part \in Backend!Parts(type) : IsIRType(part)
  <2>1. type \in TypesIn(source)
    BY TypesKept
  <2> QED
    BY <2>1, TypesAreTyped DEF SourceIsGiven
<1>2. PICK part \in Backend!Parts(type) : name = Backend!CppName(part)
  BY <1>1, WrittenIsVisited
<1>3. Backend!IncludesFor(part.kind) \subseteq Backend!collect_includes_for_type(type)
  BY DEF Backend!collect_includes_for_type
<1>4. Backend!collect_includes_for_type(type) \subseteq AllIncludes
  BY DEF AllIncludes, Backend!Includes
<1> QED
  BY <1>1, <1>2, <1>3, <1>4

(* A name that is no keyword is a template's parameter, a struct's or included. *)
LEMMA WrittenIsDeclared ==
    ASSUME SourceIsGiven, TypeOK, NEW types, types \subseteq AllTypes, NEW params, NEW structs,
           Backend!Closed(types, params, structs),
           NEW name \in Backend!Written(types) \ Backend!Keywords
    PROVE  \/ name \in Backend!ToSet(params)
           \/ \E j \in DOMAIN structs : structs[j].name = name
           \/ \E j \in DOMAIN IncludeItems : IncludeItems[j].name = Backend!HeaderOf(name)
<1>1. PICK type \in types : name \in Backend!type_to_string(type)
  BY DEF Backend!Written
<1>2. PICK part \in Backend!Parts(type) :
        /\ IsIRType(part) /\ name = Backend!CppName(part)
        /\ Backend!IncludesFor(part.kind) \subseteq AllIncludes
  BY <1>1, WrittenIsAPart
<1>3. part.kind \in BuiltinKinds \cup {"Generic", "Struct"}
  BY <1>2, OnlyStructsHaveArguments
<1>4. /\ part.kind = "Generic" => part.name \in Backend!ToSet(params)
      /\ part.kind = "Struct" => \E j \in DOMAIN structs : structs[j].name = part.name
  BY <1>1 DEF Backend!Closed
<1>5. CASE part.kind \in {"Generic", "Struct"}
  <2>1. name = part.name
    BY <1>2, <1>5 DEF Backend!CppName
  <2> QED
    BY <1>4, <1>5, <2>1
<1>6. CASE part.kind \in {"I32", "I64", "String"}
  <2>1. Backend!HeaderOf(name) \in AllIncludes
    <3>1. CASE part.kind = "I32"
      <4>1. name = "std::int32_t" /\ "<cstdint>" \in Backend!IncludesFor(part.kind)
        BY <1>2, <3>1 DEF Backend!CppName, Backend!IncludesFor
      <4> QED
        BY <1>2, <4>1 DEF Backend!HeaderOf
    <3>2. CASE part.kind = "I64"
      <4>1. name = "std::int64_t" /\ "<cstdint>" \in Backend!IncludesFor(part.kind)
        BY <1>2, <3>2 DEF Backend!CppName, Backend!IncludesFor
      <4> QED
        BY <1>2, <4>1 DEF Backend!HeaderOf
    <3>3. CASE part.kind = "String"
      <4>1. name = "std::string" /\ "<string>" \in Backend!IncludesFor(part.kind)
        BY <1>2, <3>3 DEF Backend!CppName, Backend!IncludesFor
      <4> QED
        BY <1>2, <4>1 DEF Backend!HeaderOf
    <3> QED
      BY <1>6, <3>1, <3>2, <3>3
  <2> QED
    BY <2>1, IncludesAre
<1>7. CASE part.kind \in {"Void", "F32", "F64", "Bool"}
  <2>1. name \in {"void", "float", "double", "bool"}
    BY <1>2, <1>7 DEF Backend!CppName
  <2> QED
    BY <2>1 DEF Backend!Keywords
<1> QED
  BY <1>3, <1>5, <1>6, <1>7 DEF BuiltinKinds

(* Each file's types are declared.                                              *)
LEMMA FilesDeclareTypes ==
    ASSUME SourceIsGiven, TypeOK, FilesAreMade
    PROVE  TypesAreDeclared
<1> SUFFICES ASSUME Backend!TypesAreClosed, Backend!StructsAreEmitted,
                    NEW unit \in Backend!Units, NEW i \in DOMAIN unit,
                    NEW name \in unit[i].types \ Backend!Keywords
             PROVE  \/ name \in unit[i].template
                    \/ Backend!Stands(unit, i - 1, "struct", name)
                    \/ Backend!Stands(unit, i - 1, "include", Backend!HeaderOf(name))
  BY DEF TypesAreDeclared, Backend!TypesAreDeclared
<1>1. PICK n, m : n = Len(IncludeItems) /\ m = Len(StructItems)
  OBVIOUS
<1>2. /\ n \in Nat /\ m \in Nat /\ DOMAIN IncludeItems = 1..n /\ DOMAIN StructItems = 1..m
      /\ unit \in Seq(Things)
  BY <1>1, UnitHolds
<1>3. i \in Nat
  BY <1>2, LenProperties
<1>4. ASSUME i > n, NEW j \in DOMAIN IncludeItems,
             IncludeItems[j].name = Backend!HeaderOf(name)
      PROVE  Backend!Stands(unit, i - 1, "include", Backend!HeaderOf(name))
  <2>1. unit[j] = IncludeItems[j]
    BY UnitHolds
  <2>2. unit[j].item = "include" /\ unit[j].name = Backend!HeaderOf(name)
    BY <1>4, <2>1, IncludesAre
  <2>3. j \in 1..(i - 1)
    BY <1>2, <1>3, <1>4
  <2> QED
    BY <2>2, <2>3 DEF Backend!Stands
<1>5. ASSUME NEW j \in DOMAIN StructItems, i > n + j, source.structs[j].name = name
      PROVE  Backend!Stands(unit, i - 1, "struct", name)
  <2>1. PICK k : k = n + j
    OBVIOUS
  <2>2. unit[k] = StructItems[j]
    BY <1>1, <2>1, UnitHolds
  <2>3. unit[k].item = "struct" /\ unit[k].name = name
    BY <1>5, <2>2, StructsAre
  <2>4. k \in 1..(i - 1)
    BY <1>2, <1>3, <1>5, <2>1
  <2> QED
    BY <2>3, <2>4 DEF Backend!Stands
<1>6. CASE i \in DOMAIN IncludeItems /\ unit[i] = IncludeItems[i]
  BY <1>6, IncludesAre
<1>7. ASSUME NEW j \in DOMAIN StructItems, i = n + j, unit[i] = StructItems[j]
      PROVE  \/ name \in unit[i].template
             \/ Backend!Stands(unit, i - 1, "struct", name)
             \/ Backend!Stands(unit, i - 1, "include", Backend!HeaderOf(name))
  <2>1. PICK structs : structs = source.structs
    OBVIOUS
  <2>2. PICK T : T = ToSet(source.structs)
    OBVIOUS
  <2>3. structs \in Seq(T) /\ DOMAIN structs = DOMAIN StructItems
    BY <2>1, <2>2, StructsAre
  <2>4. PICK record : record = structs[j]
    OBVIOUS
  <2>5. /\ unit[i].template = Backend!ToSet(record.template_params)
        /\ unit[i].types = Backend!Written(Backend!FieldTypes(record))
    BY <1>7, <2>1, <2>3, <2>4, StructsAre
  <2>6. PICK before : before = SubSeq(structs, 1, j - 1)
    OBVIOUS
  <2>7. Backend!Closed(Backend!FieldTypes(record), record.template_params, before)
    BY <2>1, <2>3, <2>4, <2>6 DEF Backend!TypesAreClosed, IRModule
  <2>8. Backend!FieldTypes(record) \subseteq AllTypes
    <3>1. record \in Backend!ToSet(structs)
      BY <2>3, <2>4 DEF Backend!ToSet
    <3> QED
      BY <2>1, <3>1 DEF AllTypes, Backend!StructTypes, IRModule
  <2>9. \/ name \in Backend!ToSet(record.template_params)
        \/ \E k \in DOMAIN before : before[k].name = name
        \/ \E k \in DOMAIN IncludeItems : IncludeItems[k].name = Backend!HeaderOf(name)
    BY <2>5, <2>7, <2>8, WrittenIsDeclared
  <2>10. i > n
    BY <1>2, <1>7
  <2>11. ASSUME NEW k \in DOMAIN before, before[k].name = name
         PROVE  Backend!Stands(unit, i - 1, "struct", name)
    <3>1. j \in 1..m /\ \A l \in 1..(j - 1) : structs[l] \in T
      <4>1. \A l \in DOMAIN structs : structs[l] \in T
        BY <2>3, ElementOfSeq, LenProperties
      <4> QED
        BY <1>2, <2>3, <4>1
    <3>2. PICK last : last = j - 1
      OBVIOUS
    <3>3. last \in Int /\ last <= m /\ 0 <= last
      BY <1>2, <3>1, <3>2
    <3>4. /\ before \in Seq(T) /\ Len(before) = (IF 1 <= last THEN last - 1 + 1 ELSE 0)
          /\ \A l \in 1..(last - 1 + 1) : before[l] = structs[1 + l - 1]
      BY <2>6, <3>1, <3>2, <3>3, SubSeqProperties
    <3>5. Len(before) = last
      BY <3>3, <3>4
    <3>6. DOMAIN before = 1..last
      BY <3>4, <3>5, LenProperties
    <3>7. k \in 1..last /\ before[k] = structs[k]
      BY <2>11, <3>3, <3>4, <3>6
    <3>8. k \in DOMAIN StructItems /\ i > n + k
      BY <1>2, <1>7, <3>1, <3>2, <3>7
    <3> QED
      BY <1>5, <2>1, <2>11, <3>7, <3>8
  <2> QED
    BY <1>4, <2>5, <2>9, <2>10, <2>11
<1>8. ASSUME NEW f \in DOMAIN functions, i > n + m,
             unit[i] \in {Declarations[f], Definitions[f]}
      PROVE  \/ name \in unit[i].template
             \/ Backend!Stands(unit, i - 1, "struct", name)
             \/ Backend!Stands(unit, i - 1, "include", Backend!HeaderOf(name))
  <2>1. PICK fn : fn = functions[f]
    OBVIOUS
  <2>2. /\ fn.template_params = source.functions[f].template_params
        /\ Backend!SignatureTypes(fn) = Backend!SignatureTypes(source.functions[f])
    BY <2>1, TypesKept DEF Backend!SignatureTypes
  <2>3. /\ unit[i].template = Backend!ToSet(fn.template_params)
        /\ unit[i].types = Backend!Written(Backend!SignatureTypes(fn))
    BY <1>8, <2>2, FunctionsAre
  <2>4. fn \in Backend!ToSet(functions)
    BY <2>1 DEF Backend!ToSet
  <2>5. Backend!Closed(Backend!SignatureTypes(fn), fn.template_params, source.structs)
    BY <2>4 DEF Backend!TypesAreClosed, IRModule
  <2>6. Backend!SignatureTypes(fn) \subseteq AllTypes
    BY <2>4 DEF AllTypes, Backend!FunctionTypes, IRModule
  <2>7. \/ name \in Backend!ToSet(fn.template_params)
        \/ \E k \in DOMAIN source.structs : source.structs[k].name = name
        \/ \E k \in DOMAIN IncludeItems : IncludeItems[k].name = Backend!HeaderOf(name)
    BY <2>3, <2>5, <2>6, WrittenIsDeclared
  <2>8. i > n
    BY <1>2, <1>3, <1>8
  <2>9. ASSUME NEW k \in DOMAIN source.structs, source.structs[k].name = name
        PROVE  Backend!Stands(unit, i - 1, "struct", name)
    <3>1. k \in DOMAIN StructItems
      BY StructsAre
    <3>2. i > n + k
      BY <1>2, <1>3, <1>8, <3>1
    <3> QED
      BY <1>5, <2>9, <3>1, <3>2
  <2> QED
    BY <1>4, <2>3, <2>7, <2>8, <2>9
<1>9. \/ i \in DOMAIN IncludeItems /\ unit[i] = IncludeItems[i]
      \/ \E j \in DOMAIN StructItems : i = n + j /\ unit[i] = StructItems[j]
      \/ i > n + m /\ \E f \in DOMAIN functions : unit[i] \in {Declarations[f], Definitions[f]}
  BY <1>1, UnitHolds
<1> QED
  BY <1>6, <1>7, <1>8, <1>9

(* What is included comes from a name written in a type.                        *)
LEMMA IncludedIsWritten ==
    ASSUME SourceIsGiven, TypeOK, NEW include \in AllIncludes
    PROVE  \E type \in AllTypes : \E name \in Backend!type_to_string(type) :
              Backend!HeaderOf(name) = include
<1>1. PICK type \in AllTypes : include \in Backend!collect_includes_for_type(type)
  BY DEF AllIncludes, Backend!Includes
<1>2. PICK part \in Backend!Parts(type) : include \in Backend!IncludesFor(part.kind)
  BY <1>1 DEF Backend!collect_includes_for_type
<1>3. \A other \in Backend!Parts(type) : IsIRType(other)
  <2>1. type \in TypesIn(source)
    BY TypesKept
  <2> QED
    BY <2>1, TypesAreTyped DEF SourceIsGiven
<1>4. Backend!CppName(part) \in Backend!type_to_string(type)
  BY <1>3, WrittenIsVisited
<1>5. \/ part.kind \in {"I32", "I64"} /\ include = "<cstdint>"
      \/ part.kind = "String" /\ include = "<string>"
  BY <1>2 DEF Backend!IncludesFor
<1>6. \/ Backend!CppName(part) = "std::int32_t" /\ include = "<cstdint>"
      \/ Backend!CppName(part) = "std::int64_t" /\ include = "<cstdint>"
      \/ Backend!CppName(part) = "std::string" /\ include = "<string>"
  BY <1>5 DEF Backend!CppName
<1>7. Backend!HeaderOf(Backend!CppName(part)) = include
  BY <1>6 DEF Backend!HeaderOf
<1> QED
  BY <1>4, <1>7

(* A header's includes are used.                                                *)
LEMMA HeadersUseIncludes ==
    ASSUME SourceIsGiven, TypeOK, FilesAreMade
    PROVE  HeaderIncludesAreUsed
<1> SUFFICES ASSUME NEW i \in DOMAIN files, files[i].name = "header",
                    NEW j \in DOMAIN files[i].items, files[i].items[j].item = "include"
             PROVE  \E k \in DOMAIN files[i].items : \E name \in files[i].items[k].types :
                       Backend!HeaderOf(name) = files[i].items[j].name
  BY DEF HeaderIncludesAreUsed, Backend!HeaderIncludesAreUsed
<1>1. files[i] = HeaderFile
  <2>1. files[i] \in {HeaderFile, SourceFile}
    BY DEF FilesAreMade, HeaderFiles
  <2>2. SourceFile.name = "source"
    BY DEF SourceFile
  <2> QED
    BY <2>1, <2>2
<1>2. PICK items : items = files[i].items
  OBVIOUS
<1>3. Declarations \in Seq(Things) /\ DOMAIN Declarations = DOMAIN functions
  BY FunctionsAre
<1>4. items = Beginning \o Declarations
  BY <1>1, <1>2 DEF HeaderFile, Beginning
<1>5. items[j] = IncludeItems[j] /\ j \in DOMAIN IncludeItems
  <2>1. items = Joined(Beginning, Declarations)
    BY <1>4 DEF Joined
  <2>2. \/ j \in DOMAIN IncludeItems /\ items[j] = IncludeItems[j]
        \/ \E k \in DOMAIN StructItems : j = Len(IncludeItems) + k /\ items[j] = StructItems[k]
        \/ \E k \in DOMAIN Declarations : j = Len(Beginning) + k /\ items[j] = Declarations[k]
    BY <1>2, <1>3, <2>1, UnitIsOf
  <2>3. /\ \A k \in DOMAIN StructItems : StructItems[k].item = "struct"
        /\ \A k \in DOMAIN Declarations : Declarations[k].item = "declaration"
    BY <1>3, StructsAre, FunctionsAre
  <2> QED
    BY <1>2, <2>2, <2>3
<1>6. items[j].name \in AllIncludes
  BY <1>5, IncludesAre
<1>7. PICK type \in AllTypes : \E name \in Backend!type_to_string(type) :
                                  Backend!HeaderOf(name) = items[j].name
  BY <1>6, IncludedIsWritten
<1>8. PICK name \in Backend!type_to_string(type) : Backend!HeaderOf(name) = items[j].name
  BY <1>7
<1>9. CASE type \in Backend!StructTypes
  <2>1. PICK k \in DOMAIN source.structs : type \in Backend!FieldTypes(source.structs[k])
    BY <1>9 DEF Backend!StructTypes, Backend!ToSet, IRModule
  <2>2. k \in DOMAIN StructItems /\ name \in StructItems[k].types
    BY <2>1, StructsAre DEF Backend!Written
  <2>3. PICK l : l = Len(IncludeItems) + k
    OBVIOUS
  <2>4. l \in DOMAIN items /\ items[l] = StructItems[k]
    BY <1>3, <1>4, <2>2, <2>3, UnitBegins
  <2> QED
    BY <1>2, <1>8, <2>2, <2>4
<1>10. CASE type \in Backend!FunctionTypes
  <2>1. PICK f \in DOMAIN functions : type \in Backend!SignatureTypes(functions[f])
    BY <1>10 DEF Backend!FunctionTypes, Backend!ToSet, IRModule
  <2>2. Backend!SignatureTypes(functions[f]) = Backend!SignatureTypes(source.functions[f])
    BY TypesKept DEF Backend!SignatureTypes
  <2>3. f \in DOMAIN Declarations /\ name \in Declarations[f].types
    BY <1>3, <2>1, <2>2, FunctionsAre DEF Backend!Written
  <2>4. PICK l : l = Len(Beginning) + f
    OBVIOUS
  <2>5. l \in DOMAIN items /\ items[l] = Declarations[f]
    BY <1>3, <1>4, <2>3, <2>4, NoHeaderLine, JoinOfTwo
  <2> QED
    BY <1>2, <1>8, <2>3, <2>5
<1> QED
  BY <1>7, <1>9, <1>10 DEF AllTypes

-------------------------------------------------------------------------------
(* The bodies.                                                                  *)

(* A line uses names of its operands, unless it is a constant.                  *)
LEMMA UsesAre ==
    ASSUME NEW inst \in Instructions, NEW name \in Backend!translate(inst).uses
    PROVE  ~inst.is_constant /\ \E i \in DOMAIN inst.operands :
              name = inst.operands[i].name /\ IsName(inst.operands[i])
<1>1. PICK operands : operands = inst.operands
  OBVIOUS
<1>2. operands \in Seq(Operands)
  BY <1>1 DEF Instructions
<1>3. ASSUME NEW defines, NEW some
      PROVE  /\ Backend!Line(defines, some).defines = defines
             /\ Backend!Line(defines, some).uses =
                  {some[i].name : i \in DOMAIN some} \ {NoName}
  <2>1. PICK uses : uses = {some[i].name : i \in DOMAIN some} \ {NoName}
    OBVIOUS
  <2>2. Backend!Line(defines, some) = [defines |-> defines, uses |-> uses]
    BY <2>1 DEF Backend!Line
  <2> QED
    BY <2>1, <2>2
<1>4. ASSUME NEW defines PROVE Backend!Line(defines, <<>>).uses = {}
  BY <1>3
<1>5. ASSUME NEW defines
      PROVE  Backend!Line(defines, Backend!First(operands)).uses \subseteq
               Backend!Line(defines, operands).uses
  <2>1. PICK first : first = Backend!First(operands)
    OBVIOUS
  <2>2. CASE operands = <<>>
    <3>1. first = <<>>
      BY <2>1, <2>2, SubSeqEmpty DEF Backend!First
    <3> QED
      BY <1>4, <2>1, <3>1
  <2>3. CASE operands # <<>>
    <3>1. 1 \in DOMAIN operands /\ operands[1] \in Operands
      BY <1>2, <2>3, EmptySeq, LenProperties
    <3>2. PICK one, S : one = 1 /\ S = Operands
      OBVIOUS
    <3>3. first = SubSeq(operands, one, one)
      BY <2>1, <2>3, <3>2 DEF Backend!First
    <3>4. \A i \in one..one : operands[i] \in S
      BY <3>1, <3>2
    <3>5. /\ first \in Seq(S) /\ Len(first) = (IF one <= one THEN one - one + 1 ELSE 0)
          /\ \A i \in 1..(one - one + 1) : first[i] = operands[one + i - 1]
      BY <3>2, <3>3, <3>4, SubSeqProperties
    <3>6. Len(first) = 1 /\ first[1] = operands[1]
      BY <3>2, <3>5
    <3>7. DOMAIN first = {1}
      BY <3>5, <3>6, LenProperties
    <3> QED
      BY <1>3, <2>1, <3>1, <3>6, <3>7
  <2> QED
    BY <2>2, <2>3
<1>6. CASE inst.is_constant
  BY <1>4, <1>6 DEF Backend!translate
<1>7. CASE ~inst.is_constant
  <2>1. Backend!translate(inst) \in
          {Backend!Line(NoName, Backend!First(operands)),
           Backend!Line(inst.result, Backend!First(operands)),
           Backend!Line(inst.result, operands), Backend!Comment}
    BY <1>1, <1>7 DEF Backend!translate
  <2>2. \A defines : Backend!Line(defines, operands).uses =
                       {operands[i].name : i \in DOMAIN operands} \ {NoName}
    BY <1>3
  <2>3. Backend!Comment.uses = {}
    BY <1>4 DEF Backend!Comment
  <2>4. name \in {operands[i].name : i \in DOMAIN operands} \ {NoName}
    BY <1>5, <2>1, <2>2, <2>3
  <2> QED
    BY <1>1, <1>7, <2>4 DEF IsName
<1> QED
  BY <1>6, <1>7

(* An instruction the backend has C++ for declares its result.                  *)
LEMMA DefinesItsResult ==
    ASSUME NEW inst \in Instructions, inst.is_constant \/ IsTranslated(inst), inst.op # "ret"
    PROVE  Backend!translate(inst).defines = inst.result
<1>1. ASSUME NEW defines, NEW some PROVE Backend!Line(defines, some).defines = defines
  <2>1. PICK uses : uses = {some[i].name : i \in DOMAIN some} \ {NoName}
    OBVIOUS
  <2>2. Backend!Line(defines, some) = [defines |-> defines, uses |-> uses]
    BY <2>1 DEF Backend!Line
  <2> QED
    BY <2>2
<1>2. CASE inst.is_constant
  BY <1>1, <1>2 DEF Backend!translate
<1>3. CASE ~inst.is_constant
  <2>1. PICK op, operands : op = inst.op /\ operands = inst.operands
    OBVIOUS
  <2>2. op \in {"const", "add", "sub", "mul", "div", "mod", "neg", "call"}
        /\ operands \in Seq(Operands)
    BY <2>1 DEF Instructions
  <2>3. /\ op \in {"const", "call"} => Len(operands) > 0
        /\ op = "neg" => Len(operands) = 1
        /\ op \in {"add", "sub", "mul", "div", "mod"} => Len(operands) = 2
    BY <1>3, <2>1, <2>2 DEF IsTranslated
  <2>4. op \in {"const", "call"} => operands # <<>>
    BY <2>2, <2>3, EmptySeq
  <2>5. CASE op = "const"
    BY <1>1, <1>3, <2>1, <2>4, <2>5 DEF Backend!translate
  <2>6. CASE op = "call"
    BY <1>1, <1>3, <2>1, <2>4, <2>6 DEF Backend!translate, Backend!BinaryOps
  <2>7. CASE op = "neg"
    BY <1>1, <1>3, <2>1, <2>3, <2>7 DEF Backend!translate, Backend!BinaryOps
  <2>8. CASE op \in {"add", "sub", "mul", "div", "mod"}
    BY <1>1, <1>3, <2>1, <2>3, <2>8 DEF Backend!translate, Backend!BinaryOps
  <2> QED
    BY <2>2, <2>5, <2>6, <2>7, <2>8
<1> QED
  BY <1>2, <1>3

(* Of well-formed functions each name a body looks up is declared.              *)
LEMMA BodiesDeclareNames ==
    ASSUME SourceIsGiven, TypeOK, LinesKept, FilesAreMade
    PROVE  BodiesAreDeclared
<1> SUFFICES ASSUME \A f \in DOMAIN functions : IsClosed(f), options.emit_header,
                    NEW unit \in Backend!Units, NEW i \in DOMAIN unit,
                    NEW k \in DOMAIN unit[i].lines, NEW name \in unit[i].lines[k].uses
             PROVE  \/ name \in unit[i].parameters
                    \/ \E j \in 1..(k - 1) : unit[i].lines[j].defines = name
                    \/ Backend!Stands(unit, i, "declaration", name)
  BY DEF BodiesAreDeclared, Backend!NamesAreDeclared
<1>1. Backend!StructsAreEmitted
  BY DEF Backend!StructsAreEmitted
<1>2. unit[i].lines # <<>>
  OBVIOUS
<1>3. PICK f \in DOMAIN functions :
        /\ unit[i] = Definitions[f]
        /\ \A g \in DOMAIN functions : \E j \in 1..i : unit[j] = Declarations[g]
  <2>1. \A j \in DOMAIN IncludeItems : IncludeItems[j].lines = <<>>
    BY IncludesAre
  <2>2. \A j \in DOMAIN StructItems : StructItems[j].lines = <<>>
    BY StructsAre
  <2>3. \A g \in DOMAIN functions : Declarations[g].lines = <<>>
    BY FunctionsAre
  <2>4. \/ i \in DOMAIN IncludeItems /\ unit[i] = IncludeItems[i]
        \/ \E j \in DOMAIN StructItems :
              i = Len(IncludeItems) + j /\ unit[i] = StructItems[j]
        \/ \E g \in DOMAIN functions :
             \/ unit[i] = Declarations[g]
             \/ /\ unit[i] = Definitions[g]
                /\ \A h \in DOMAIN functions : \E j \in 1..i : unit[j] = Declarations[h]
    BY <1>1, UnitHolds
  <2> QED
    BY <1>2, <2>1, <2>2, <2>3, <2>4
<1>4. PICK lines, code, given :
        lines = unit[i].lines /\ code = Folded(f) /\ given = Given(f)
  OBVIOUS
<1>5. /\ code \in Seq(Instructions) /\ given \in Seq(Instructions) /\ DOMAIN code = DOMAIN given
      /\ \A j \in DOMAIN given :
           code[j] = given[j] \/ (code[j].is_constant /\ code[j].result = given[j].result)
  <2>1. f \in DOMAIN source.functions
    BY FunctionsTyped
  <2> QED
    BY <1>4, <2>1, SourceTyped DEF TypeOK, LinesKept
<1>6. lines = Backend!translate_instructions(functions[f]) /\ functions[f].instructions = code
  BY <1>3, <1>4, FunctionsAre, TypesKept
<1>7. lines = [j \in DOMAIN code |-> Backend!translate(code[j])]
  <2>1. code # <<>>
    <3>1. ASSUME code = <<>> PROVE FALSE
      <4>1. lines = <<Backend!Comment>>
        BY <1>6, <3>1 DEF Backend!translate_instructions
      <4>2. k = 1 /\ lines[k] = Backend!Comment
        BY <1>4, <4>1
      <4>3. Backend!Comment.uses = {}
        BY DEF Backend!Comment, Backend!Line
      <4> QED
        BY <1>4, <4>2, <4>3
    <3> QED
      BY <3>1
  <2> QED
    BY <1>6, <2>1 DEF Backend!translate_instructions
<1>8. k \in DOMAIN code /\ name \in Backend!translate(code[k]).uses
  BY <1>4, <1>7
<1>9. \A j \in DOMAIN code : code[j] \in Instructions /\ given[j] \in Instructions
  BY <1>5, ElementOfSeq, LenProperties
<1>10. PICK inst : inst = code[k]
  OBVIOUS
<1>11. PICK n \in DOMAIN inst.operands : name = inst.operands[n].name /\ IsName(inst.operands[n])
  BY <1>8, <1>9, <1>10, UsesAre
<1>12. inst = given[k]
  <2>1. ~inst.is_constant
    BY <1>8, <1>9, <1>10, UsesAre
  <2> QED
    BY <1>5, <1>8, <1>10, <2>1
<1>13. IsClosed(f)
  OBVIOUS
<1>14. name \in FunctionNames \cup ParametersOf(f)
                \cup {given[j].result : j \in {j \in 1..(k - 1) : given[j].op # "ret"}}
  <2>1. k \in DOMAIN given
    BY <1>5, <1>8
  <2>2. \A l \in DOMAIN inst.operands : IsName(inst.operands[l]) =>
           inst.operands[l].name \in FunctionNames \cup ParametersOf(f)
               \cup {given[j].result : j \in {j \in 1..(k - 1) : given[j].op # "ret"}}
    BY <1>4, <1>12, <1>13, <2>1 DEF IsClosed
  <2> QED
    BY <1>11, <2>2
<1>15. CASE name \in FunctionNames
  <2>1. PICK g \in DOMAIN source.functions : name = source.functions[g].name
    BY <1>15 DEF FunctionNames
  <2>2. g \in DOMAIN functions
    BY <2>1, FunctionsTyped
  <2>3. PICK j \in 1..i : unit[j] = Declarations[g]
    BY <1>3, <2>2
  <2>4. unit[j].item = "declaration" /\ unit[j].name = name
    BY <2>1, <2>2, <2>3, FunctionsAre
  <2> QED
    BY <2>4 DEF Backend!Stands
<1>16. CASE name \in ParametersOf(f)
  <2>1. PICK fn : fn = source.functions[f]
    OBVIOUS
  <2>2. name \in {fn.parameters[j].name : j \in DOMAIN fn.parameters}
    BY <1>16, <2>1 DEF ParametersOf, ToSet
  <2>3. unit[i].parameters = {fn.parameters[j].name : j \in DOMAIN fn.parameters}
    BY <1>3, <2>1, FunctionsAre
  <2> QED
    BY <2>2, <2>3
<1>17. ASSUME NEW j \in 1..(k - 1), given[j].op # "ret", name = given[j].result
       PROVE  \E l \in 1..(k - 1) : unit[i].lines[l].defines = name
  <2>1. j \in DOMAIN code
    <3>1. DOMAIN code = 1..Len(code) /\ Len(code) \in Nat
      BY <1>5, LenProperties
    <3> QED
      BY <1>8, <3>1
  <2>2. PICK line : line = code[j]
    OBVIOUS
  <2>3. line \in Instructions /\ line.result = name
    BY <1>5, <1>9, <1>17, <2>1, <2>2
  <2>4. CASE line = given[j]
    <3>1. IsTranslated(line)
      BY <1>4, <1>5, <1>13, <2>1, <2>4 DEF IsClosed
    <3>2. Backend!translate(line).defines = name
      BY <1>17, <2>3, <2>4, <3>1, DefinesItsResult
    <3> QED
      BY <1>4, <1>7, <2>1, <2>2, <3>2
  <2>5. CASE line.is_constant
    <3>1. Backend!translate(line) = Backend!Line(line.result, <<>>)
      BY <2>5 DEF Backend!translate
    <3>2. Backend!translate(line).defines = name
      BY <2>3, <3>1 DEF Backend!Line
    <3> QED
      BY <1>4, <1>7, <2>1, <2>2, <3>2
  <2> QED
    BY <1>5, <2>1, <2>2, <2>4, <2>5
<1> QED
  BY <1>14, <1>15, <1>16, <1>17

-------------------------------------------------------------------------------
(* The files of every module.                                                   *)

(* At every moment of the pipeline each type written in a file is a keyword of  *)
(* C++ or declared above it, whatever the types and the options (CppEmitter::   *)
(* emit, collect_includes and type_to_string).                                  *)
THEOREM PipelineDeclaresTypes == PipelineSpec => []TypesAreDeclared
<1>1. FilesInv => TypesAreDeclared
  BY FilesDeclareTypes DEF FilesInv, FoldInv
<1> QED
  BY <1>1, FilesAreOfTheModule, PTL

(* At every moment of the pipeline a header includes nothing for a type that is *)
(* not written in it (collect_includes_for_type).                               *)
THEOREM PipelineIncludesWhatIsUsed == PipelineSpec => []HeaderIncludesAreUsed
<1>1. FilesInv => HeaderIncludesAreUsed
  BY HeadersUseIncludes DEF FilesInv, FoldInv
<1> QED
  BY <1>1, FilesAreOfTheModule, PTL

(* At every moment of the pipeline, of well-formed functions each name a body   *)
(* looks up is declared above, whatever lines the passes made constants of      *)
(* (translate_instructions).                                                    *)
THEOREM PipelineDeclaresNames == PipelineSpec => []BodiesAreDeclared
<1>1. FilesInv /\ LinesKept => BodiesAreDeclared
  BY BodiesDeclareNames DEF FilesInv, FoldInv
<1> QED
  BY <1>1, FilesAreOfTheModule, PTL
===============================================================================
