-------------------------------- MODULE Lowering --------------------------------
(* lower_module (src/ir/lowering.cpp): what the analyzer knows at the end of a  *)
(* walk becomes the functions of an IR module, without their bodies.            *)
EXTENDS Analyzer, Ir

\* Mutant: a function has no type in the IR.
map_type_NoFunction(type) ==
    CASE type.kind = "Integer" -> Builtin("I64")
      [] type.kind = "Float" -> Builtin("F64")
      [] type.kind \in {"Bool", "String"} -> Builtin(type.kind)
      [] OTHER -> Builtin("Void")

map_type(type) ==
    CASE type.kind = "Integer" -> Builtin("I64")
      [] type.kind = "Float" -> Builtin("F64")
      [] type.kind \in {"Bool", "String"} -> Builtin(type.kind)
      [] type.kind = "Function" -> Generic("fn")
      [] type.kind \in {"Void", "Unknown"} -> Builtin("Void")

lower_parameter(parameter) == IRParameter(parameter.name, map_type(parameter.type))

\* In no order: the registry's entries are those of an unordered_map.
lower_module ==
    {IRFunction(name, map_type(registry[name].return_type), <<>>,
                [i \in DOMAIN registry[name].parameters |->
                    lower_parameter(registry[name].parameters[i])], <<>>) :
        name \in {n \in Names : IsRegistered(registry, n)}}

-------------------------------------------------------------------------------

\* The walk may end here, and lowering follow it.
Walked == AtStatement /\ frames = <<>>

\* The known types that values of a lowered function's result and parameters have
\* had in the program, each with the type the IR gives them.
Lowered ==
    UNION {
        {<<type.kind, f.return_type>> : type \in yielded[f.name]} \cup
        UNION {{<<type.kind, f.parameters[i].type>> :
                   type \in seen[registry[f.name].parameters[i].node_id]} :
                  i \in DOMAIN f.parameters} :
        f \in lower_module}

\* In an accepted program the IR's signatures tell values apart as the analyzer
\* does: whatever a function returned and was called with, wherever in the walk,
\* has one type of the IR for each kind of type, and void only when it is Void.
AcceptedTypesAreLowered ==
    Walked /\ Accepted =>
        \A p, q \in Lowered :
            /\ p[1] = q[1] <=> p[2] = q[2]
            /\ p[1] = "Void" <=> p[2] = Builtin("Void")
===============================================================================
