---------------------------- MODULE ConstantFolding ----------------------------
(* ConstantFoldingPass (src/opt/constant_folding.cpp) under the PassManager,    *)
(* against what the C++ backend makes of an instruction before and after it     *)
(* (translate_instructions in src/backends/cpp/cpp_backend.cpp).                *)
EXTENDS Ir

CONSTANTS
    ModuleSets,    \* sets of IR modules, the passes run on one of any of them
    Registers,     \* the names of results, parameters and functions
    Arguments,     \* what the functions are called with: a value for each name
    CallValue,     \* what a call in the generated program returns
    Greatest,      \* the greatest std::int64_t, scaled down; C++'s long is as wide
    GreatestInt,   \* the greatest C++ int, scaled down
    Passes,        \* how many folding passes the manager holds
    Undefined,     \* no value: the generated program's behaviour is not defined
    NoName,        \* of an operand that is a literal, of a result that is not kept
    NoConstant     \* no entry in the pass's table

Least == -Greatest - 1
Int64 == Least..Greatest
Wrapped(n) == ((n - Least) % (2 * (Greatest + 1))) + Least

\* The integers of the generated program are of two types of C++.
Fits(type, n) ==
    n \in IF type = "int" THEN (-GreatestInt - 1)..GreatestInt ELSE Int64
CppInts == {v \in [type : {"int", "long"}, number : Int64] : Fits(v.type, v.number)}
Integer(type, n) == IF Fits(type, n) THEN [type |-> type, number |-> n] ELSE Undefined

\* What "auto x = n;" makes of a number in decimal digits, a sign before them or
\* not: the digits are an int if they fit one, a long if they fit that.
Abs(n) == IF n < 0 THEN -n ELSE n
Emitted(n) ==
    IF Abs(n) > Greatest THEN Undefined
    ELSE [type |-> IF Abs(n) <= GreatestInt THEN "int" ELSE "long", number |-> n]

\* An operand is a name or a literal; std::stoll reads literals in base ten and
\* stops at what is not a digit, C++ reads them its own way.
Name(name) == [name |-> name, parsed |-> 0, emitted |-> Undefined]
Literal(parsed, emitted) == [name |-> NoName, parsed |-> parsed, emitted |-> emitted]
Literals == [name : {NoName}, parsed : Int64, emitted : CppInts \cup {Undefined}]
Operands == {Name(name) : name \in Registers} \cup Literals
IsName(operand) == operand.name # NoName

Results == Registers \cup {NoName}
Instructions ==
    [result : Results,
     op : {"const", "add", "sub", "mul", "div", "mod", "neg", "call", "ret"},
     operands : Seq(Operands), is_constant : BOOLEAN, constant_value : Int64]

ASSUME GreatestIsNat    == Greatest \in Nat /\ GreatestInt \in 0..Greatest
ASSUME PassesIsNat      == Passes \in Nat
ASSUME ModulesAreTyped  ==
    \A modules \in ModuleSets : \A m \in modules :
        LET given == {m.functions[f] : f \in DOMAIN m.functions}
        IN  /\ m.functions \in Seq(given)
            /\ \A f \in given : IsIRFunction(f) /\ f.instructions \in Seq(Instructions)
ASSUME ArgumentsAreInts == Arguments \in [Results -> CppInts]
ASSUME CallValueIsInt   == CallValue \in CppInts
ASSUME UndefinedIsNoInt == Undefined \notin CppInts
ASSUME MarkersAreNeither == NoConstant \notin Int64 /\ NoName \notin Registers

VARIABLES
    source,        \* the module as it was given to the manager; immutable
    functions,     \* module.functions()
    pass,          \* which of the manager's passes is running
    current,       \* the function it is in
    position,      \* the instruction it has come to
    constants,     \* its table, of that function
    trapped        \* a division the host's processor refuses has ended the compiler

vars == <<source, functions, pass, current, position, constants, trapped>>

NoConstants == [name \in Results |-> NoConstant]

Init ==
    /\ \E modules \in ModuleSets : source \in modules
    /\ functions = source.functions
    /\ pass = 1 /\ current = 1 /\ position = 1
    /\ constants = NoConstants
    /\ trapped = FALSE

-------------------------------------------------------------------------------
(* The pass.                                                                    *)

InModule   == pass <= Passes /\ current <= Len(functions) /\ ~trapped
Body == functions[current].instructions
InFunction == InModule /\ position <= Len(Body)
Inst == Body[position]

mark_constant(value) ==
    functions' = [functions EXCEPT ![current].instructions[position] =
        [@ EXCEPT !.op = "const", !.operands = <<>>,
                  !.is_constant = TRUE, !.constant_value = value]]
Record(value) == constants' = [constants EXCEPT ![Inst.result] = value]
Advance == position' = position + 1 /\ UNCHANGED <<source, pass, current>>

KnownConstant ==
    /\ InFunction /\ Inst.is_constant
    /\ Record(Inst.constant_value)
    /\ Advance /\ UNCHANGED <<functions, trapped>>

try_parse_literal(inst) == inst.operands # <<>> /\ ~IsName(inst.operands[1])

\* Mutant: a constant just parsed is not put into the table.
ParsedConstant_NotTabled ==
    /\ InFunction /\ ~Inst.is_constant /\ Inst.op = "const" /\ try_parse_literal(Inst)
    /\ mark_constant(Inst.operands[1].parsed)
    /\ Advance /\ UNCHANGED <<constants, trapped>>

ParsedConstant ==
    /\ InFunction /\ ~Inst.is_constant /\ Inst.op = "const" /\ try_parse_literal(Inst)
    /\ mark_constant(Inst.operands[1].parsed)
    /\ Record(Inst.operands[1].parsed)
    /\ Advance /\ UNCHANGED trapped

Tabled(operand) == IsName(operand) /\ constants[operand.name] # NoConstant

\* Both operands are in the table and op is one the pass computes.
Foldable ==
    /\ ~Inst.is_constant /\ Len(Inst.operands) = 2
    /\ Tabled(Inst.operands[1]) /\ Tabled(Inst.operands[2])
    /\ \/ Inst.op \in {"add", "sub", "mul"}
       \/ Inst.op = "div" /\ constants[Inst.operands[2].name] # 0

\* Division of C++: towards zero.
Quotient(a, b) ==
    LET q == Abs(a) \div Abs(b) IN IF (a < 0) = (b < 0) THEN q ELSE -q
Remainder(a, b) == a - Quotient(a, b) * b

Exact(op, a, b) ==
    CASE op = "add" -> a + b
      [] op = "sub" -> a - b
      [] op = "mul" -> a * b
      [] op = "div" -> Quotient(a, b)
      [] op = "mod" -> Remainder(a, b)

\* Mutant: the result is kept at a greater width than the IR's.
FoldedOperation_Wider ==
    /\ InFunction /\ Foldable
    /\ LET exact == Exact(Inst.op, constants[Inst.operands[1].name],
                          constants[Inst.operands[2].name])
       IN  mark_constant(exact) /\ Record(exact) /\ Advance /\ UNCHANGED trapped

\* The host's arithmetic: overflow wraps around, or a division that overflows
\* traps.
FoldedOperation ==
    /\ InFunction /\ Foldable
    /\ LET exact == Exact(Inst.op, constants[Inst.operands[1].name],
                          constants[Inst.operands[2].name])
       IN  \/ /\ mark_constant(Wrapped(exact))
              /\ Record(Wrapped(exact))
              /\ Advance /\ UNCHANGED trapped
           \/ /\ Inst.op = "div" /\ exact \notin Int64
              /\ trapped' = TRUE
              /\ UNCHANGED <<source, functions, pass, current, position, constants>>

LeftAlone ==
    /\ InFunction /\ ~Inst.is_constant
    /\ IF Inst.op = "const" THEN ~try_parse_literal(Inst) ELSE ~Foldable
    /\ Advance /\ UNCHANGED <<functions, constants, trapped>>

\* Mutant: one table serves the whole module.
NextFunction_SharedTable ==
    /\ InModule /\ position = Len(Body) + 1
    /\ current' = current + 1 /\ position' = 1
    /\ UNCHANGED <<source, functions, pass, constants, trapped>>

\* Each function has a table of its own.
NextFunction ==
    /\ InModule /\ position = Len(Body) + 1
    /\ current' = current + 1 /\ position' = 1 /\ constants' = NoConstants
    /\ UNCHANGED <<source, functions, pass, trapped>>

\* PassManager::run goes on to its next pass.
NextPass ==
    /\ pass <= Passes /\ current > Len(functions)
    /\ pass' = pass + 1 /\ current' = 1 /\ position' = 1 /\ constants' = NoConstants
    /\ UNCHANGED <<source, functions, trapped>>

Next ==
    \/ KnownConstant
    \/ ParsedConstant
    \/ FoldedOperation
    \/ LeftAlone
    \/ NextFunction
    \/ NextPass

Spec == Init /\ [][Next]_vars

-------------------------------------------------------------------------------
(* What the generated C++ computes.                                             *)

Value(values, operand) ==
    IF IsName(operand) THEN values[operand.name] ELSE operand.emitted

\* The processor refuses a division whose quotient does not fit, a remainder too.
Divides(type, a, b) == b # 0 /\ Fits(type, Quotient(a, b))

\* An operation on ints is an int's, any other a long's.  Overflow and division by
\* zero are undefined in the generated program too.
Computed(values, inst) ==
    LET operand(i) == Value(values, inst.operands[i])
        number(i) == operand(i).number
        arity == IF inst.op \in {"const", "neg"} THEN 1 ELSE 2
        known == \A i \in 1..arity : operand(i) # Undefined
        type == IF \E i \in 1..arity : operand(i).type = "long" THEN "long" ELSE "int"
    IN  IF inst.is_constant THEN Emitted(inst.constant_value)
        ELSE IF inst.op = "call" THEN CallValue
        ELSE IF inst.op = "ret" THEN Undefined
        ELSE IF Len(inst.operands) # arity \/ ~known THEN Undefined
        ELSE CASE inst.op = "const" -> operand(1)
               [] inst.op = "neg"   -> Integer(type, -number(1))
               [] inst.op \in {"div", "mod"} /\ ~Divides(type, number(1), number(2)) ->
                      Undefined
               [] OTHER -> Integer(type, Exact(inst.op, number(1), number(2)))

\* The names' values after the first n of a function's lines.
ValuesAfter(code, n) ==
    LET values[k \in 0..n] ==
            IF k = 0 THEN Arguments
            ELSE [values[k - 1] EXCEPT ![code[k].result] = Computed(values[k - 1], code[k])]
    IN  values[n]

\* "auto x = ...;" twice, or for a name already used, does not compile: in the
\* programs that do, an instruction gives a value to a name that none before it
\* names.
Names(inst) == {inst.result} \cup {inst.operands[i].name : i \in DOMAIN inst.operands}
Compiles(code) ==
    \A i, j \in DOMAIN code :
        i < j /\ code[j].result # NoName => code[j].result \notin Names(code[i])

\* Its literals are decimal digits: they mean to C++ what std::stoll reads.
IsPlain(code) ==
    \A k \in DOMAIN code : \A i \in DOMAIN code[k].operands :
        LET operand == code[k].operands[i]
        IN  ~IsName(operand) => operand.emitted = Emitted(operand.parsed)

Given(f) == source.functions[f].instructions
Folded(f) == functions[f].instructions
Eligible(f) == Compiles(Given(f)) /\ IsPlain(Given(f))

TypeOK ==
    /\ functions = [f \in DOMAIN source.functions |->
                       [source.functions[f] EXCEPT !.instructions = Folded(f)]]
    /\ \A f \in DOMAIN functions : Folded(f) \in Seq(Instructions)
    /\ pass \in 1..(Passes + 1)
    /\ current \in 1..(Len(functions) + 1)
    /\ position \in Nat \ {0}
    /\ constants \in [Results -> Int64 \cup {NoConstant}]
    /\ trapped \in BOOLEAN

\* A line of f that folding has given another type, and the same number: C++ takes
\* the type of a folded constant from its digits, not from the operation that was
\* there.  An operation on longs that yields 1 becomes an int, and sums with it that
\* fitted a long overflow; the least long is no literal at all.
Retyped(f) ==
    \E k \in DOMAIN Given(f) :
        LET before == Computed(ValuesAfter(Given(f), k - 1), Given(f)[k])
            value  == Folded(f)[k].constant_value
        IN  /\ Folded(f)[k].is_constant
            /\ before \notin {Undefined, Emitted(value)} /\ before.number = value

SameNumber(v, w) == v = Undefined \/ w = Undefined \/ v.number = w.number

\* At every moment of a pass no name of a function has another number, in the C++
\* generated from it, than it had before; and it has the very value it had, wherever
\* that was defined, unless folding gave a line of the function another type.
MeaningKept ==
    \A f \in DOMAIN functions : Eligible(f) =>
        LET before == ValuesAfter(Given(f), Len(Given(f)))
            after  == ValuesAfter(Folded(f), Len(Folded(f)))
        IN  \A name \in Registers :
                /\ SameNumber(before[name], after[name])
                /\ Retyped(f) \/ before[name] \in {after[name], Undefined}

\* A second pass finds nothing left to fold, whatever the module.
OncePassedIsFolded == [][pass > 1 => UNCHANGED functions]_vars
===============================================================================
