------------------------------- MODULE MCPipeline -------------------------------
(* Modules for model checking the pipeline.                                     *)
EXTENDS Pipeline

\* At least one file.
MCOptions == [emit_header : BOOLEAN, emit_source : BOOLEAN]
             \ {[emit_header |-> FALSE, emit_source |-> FALSE]}

-------------------------------------------------------------------------------
(* Bodies.                                                                      *)

\* The greatest int is 1 and the greatest long 3: 3 and -4 are longs, the least of
\* which no literal writes.
Integers3 == {Literal(n, Emitted(n)) : n \in {-4, -1, 0, 3}}
\* "01.5": three digits to std::stoll, something else to C++.
Odd == Literal(1, Undefined)

Ops == {"add", "sub", "mul", "div"}

Named(names) == {Name(name) : name \in names}

\* The instructions that give result a value from what is before it.
Lines(result, before) ==
    {IRValue(result, "const", <<text>>) : text \in Integers3 \cup {Odd} \cup Named(before)}
    \cup {IRValue(result, op, <<l, r>>) : op \in Ops, l \in Named(before), r \in Named(before)}
    \cup {IRValue(result, "neg", <<l>>) : l \in Named(before)}

Called(callee) == {IRValue(result, "call", <<Name(callee), Name("p")>>) : result \in {"a", NoName}}
Rest(result) ==
    {IRValue(result, "mod", <<Name("a"), Name("p")>>), IRValue(result, "const", <<>>),
     IRValue(result, "add", <<Name("a")>>), IRValue(NoName, "const", <<Literal(3, Emitted(3))>>)}
Returned == {IRValue(NoName, "ret", <<Name("b")>>)}

\* In some of them the second gives the first's result another value.
Three == {<<x, y, z>> : x \in Lines("a", {"p"}),
                        y \in Lines("b", {"a"}) \cup Rest("b") \cup Lines("a", {"p"}),
                        z \in Lines("c", {"a", "b", "p"}) \cup Returned}

Function(name, code) ==
    IRFunction(name, Builtin("I64"), <<>>, <<IRParameter("p", Builtin("I32"))>>, code)

OneFunction == {IRModule(<<>>, <<Function("f", code)>>) : code \in Three}

\* Two functions use the same names, and each calls the other.
TwoFunctions ==
    {IRModule(<<>>, <<Function("f", <<x>>), Function("g", <<y, z>>)>>) :
         x \in Lines("a", {"p"}) \cup Called("g"),
         y \in Lines("b", {"a", "p"}) \cup Called("f"),
         z \in Lines("c", {"a", "b"}) \cup Rest("b") \cup Returned}

-------------------------------------------------------------------------------
(* Types.                                                                       *)

T == Generic("T")
Plain == {Builtin(kind) : kind \in {"Void", "I32", "F64", "String"}}
Pairs == {Struct("Pair", <<type>>) : type \in Plain \cup {Struct("Pair", <<Builtin("String")>>)}}

Pair(field) == IRStruct("Pair", <<"T">>, <<T, field>>)
Box(field)  == IRStruct("Box", <<>>, <<field>>)
StructLists ==
    {<<>>} \cup {<<Pair(field)>> : field \in Plain \cup {T}}
    \cup {<<Pair(T), Box(field)>> : field \in Plain \cup Pairs}
    \cup {<<Box(field), Pair(T)>> : field \in Plain \cup Pairs}

Returning(type, params, parameter) ==
    IRFunction("f", type, params, <<IRParameter("p", parameter)>>, <<>>)
Signatures ==
    {Returning(type, <<>>, parameter) : type, parameter \in Plain \cup Pairs}
    \cup {Returning(type, <<"T">>, parameter) : type, parameter \in {T, Struct("Pair", <<T>>)}}

\* Every type in every place.
TypedModules ==
    {IRModule(structs, fns) :
        structs \in StructLists, fns \in {<<>>} \cup {<<fn>> : fn \in Signatures}}

-------------------------------------------------------------------------------

MCModuleSets == {OneFunction, TwoFunctions, TypedModules}
MCRegisters == {"a", "b", "c", "p", "f", "g"}
MCArguments == [name \in MCRegisters \cup {NoName} |-> Integer("int", 1)]
MCCallValue == Integer("long", 1)
===============================================================================
