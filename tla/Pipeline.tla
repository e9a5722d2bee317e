-------------------------------- MODULE Pipeline --------------------------------
(* The end of the compiler: the passes fold a module in place, then the C++     *)
(* backend, which keeps a reference to it, writes it out (docs/spec/            *)
(* spec-draft.md, the steps of the pipeline).                                   *)
EXTENDS ConstantFolding, SequencesExt

CONSTANTS
    Options,       \* which files the backend is asked for
    TypeDepth      \* bound: how deep the arguments of types nest

ASSUME TypeDepthIsNat == TypeDepth \in Nat
ASSUME OptionsAreTyped == Options \subseteq [emit_header : BOOLEAN, emit_source : BOOLEAN]

VARIABLES options, header_includes, files, phase    \* of the backend

backend_vars == <<options, header_includes, files, phase>>
pipeline_vars == <<vars, backend_vars>>

\* It sees the module as the passes have left it.
Backend == INSTANCE CppBackend WITH module <- IRModule(source.structs, functions)

TypesIn(m) ==
    UNION ({Backend!FieldTypes(record) : record \in ToSet(m.structs)}
           \cup {Backend!SignatureTypes(fn) : fn \in ToSet(m.functions)})

\* The types are IRType's, no deeper than the bound.
ASSUME TypesAreTyped ==
    \A modules \in ModuleSets : \A m \in modules :
        /\ m.structs \in Seq(ToSet(m.structs))
        /\ \A type \in TypesIn(m) : \A part \in Backend!Parts(type) :
               IsIRType(part) /\ ToSet(part.type_arguments) \subseteq Backend!Parts(type)

PipelineInit == Init /\ Backend!Init

Optimize == Next /\ UNCHANGED backend_vars
Generate == pass > Passes /\ UNCHANGED vars /\ Backend!Next

PipelineNext == Optimize \/ Generate

PipelineSpec == PipelineInit /\ [][PipelineNext]_pipeline_vars

-------------------------------------------------------------------------------

\* Each type written in a file is declared above it, whatever was folded.
TypesAreDeclared == Backend!TypesAreDeclared

\* "header should not introduce unused includes for unrelated types"
\* (test_cpp_backend.cpp).
HeaderIncludesAreUsed == Backend!HeaderIncludesAreUsed

FunctionNames == {source.functions[f].name : f \in DOMAIN source.functions}
ParametersOf(f) == {parameter.name : parameter \in ToSet(source.functions[f].parameters)}

\* The backend has C++ for an instruction.
IsTranslated(inst) ==
    LET n == Len(inst.operands)
    IN  CASE inst.op = "ret" -> TRUE
          [] inst.op = "neg" -> n = 1
          [] inst.op \in {"const", "call"} -> n > 0
          [] OTHER -> n = 2

\* The function as it was given to the passes is well-formed: the backend has C++
\* for its instructions, which name its parameters, results they come after, and
\* functions.
IsClosed(f) ==
    \A k \in DOMAIN Given(f) :
        LET inst == Given(f)[k]
            before == {j \in 1..(k - 1) : Given(f)[j].op # "ret"}
        IN  /\ IsTranslated(inst)
            /\ \A i \in DOMAIN inst.operands : IsName(inst.operands[i]) =>
                   inst.operands[i].name \in
                       FunctionNames \cup ParametersOf(f) \cup {Given(f)[j].result : j \in before}

\* From well-formed functions comes C++ in which each name is declared before it is
\* looked up, folded constants and all; that is of a source file with its header,
\* one alone declares none but the functions before.
BodiesAreDeclared ==
    (\A f \in DOMAIN functions : IsClosed(f)) /\ options.emit_header => Backend!NamesAreDeclared
===============================================================================
