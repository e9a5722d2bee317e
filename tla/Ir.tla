----------------------------------- MODULE Ir -----------------------------------
(* The IR (src/ir/module.h, type.h) as values: a module is its structs and its  *)
(* functions, an instruction names its result and its operands.                 *)
EXTENDS Integers, Sequences

\* IRType.
Builtin(kind) == [kind |-> kind, name |-> "", type_arguments |-> <<>>]
Generic(name) == [kind |-> "Generic", name |-> name, type_arguments |-> <<>>]
Struct(name, arguments) == [kind |-> "Struct", name |-> name, type_arguments |-> arguments]
BuiltinKinds == {"Void", "I32", "I64", "F32", "F64", "Bool", "String"}
IsIRType(type) ==
    \/ \E kind \in BuiltinKinds : type = Builtin(kind)
    \/ type = Generic(type.name)
    \/ type = Struct(type.name, type.type_arguments)

\* A struct's fields are their types.
IRStruct(name, template_params, fields) ==
    [name |-> name, template_params |-> template_params, fields |-> fields]
IRParameter(name, type) == [name |-> name, type |-> type]
IRFunction(name, return_type, template_params, parameters, instructions) ==
    [name |-> name, return_type |-> return_type, template_params |-> template_params,
     parameters |-> parameters, instructions |-> instructions]
IsIRFunction(f) ==
    f = IRFunction(f.name, f.return_type, f.template_params, f.parameters, f.instructions)
IRModule(structs, functions) == [structs |-> structs, functions |-> functions]

IRValue(result, op, operands) ==
    [result |-> result, op |-> op, operands |-> operands,
     is_constant |-> FALSE, constant_value |-> 0]
===============================================================================
