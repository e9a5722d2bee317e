------------------------------- MODULE CppBackend -------------------------------
(* The C++ backend (src/backends/cpp/cpp_backend.cpp): the files CppEmitter     *)
(* makes of a module of the IR.  A file is the sequence of what is written into *)
(* it, a type or a line what a C++ compiler looks up in it; field names, the    *)
(* namespace and the layout are left out.                                       *)
EXTENDS Ir, SequencesExt

CONSTANTS
    Options,       \* CppBackendOptions: which files are asked for
    TypeDepth,     \* bound: how deep the arguments of types nest
    NoName         \* of an operand that is a literal, of a result that is not kept

VARIABLES
    module,             \* module_, a reference to the caller's: its structs and functions
    options,            \* options_
    header_includes,    \* header_includes_
    files,              \* the files made so far, by their names
    phase               \* where it is: "idle", "collect", "header", "source" or "done"

Init ==
    /\ options = [emit_header |-> TRUE, emit_source |-> TRUE]
    /\ header_includes = {}
    /\ files = <<>>
    /\ phase = "idle"

-------------------------------------------------------------------------------
(* Types and what they have to be included for.                                 *)

\* A type and what is found in it going through the arguments of some kinds.
Within(type, kinds) ==
    LET parts[n \in 0..TypeDepth] ==
            IF n = 0 THEN {type}
            ELSE parts[n - 1] \cup
                 UNION {ToSet(part.type_arguments) :
                            part \in {part \in parts[n - 1] : part.kind \in kinds}}
    IN  parts[TypeDepth]

\* What the recursion visits: the arguments of any type.
Parts(type) == Within(type, BuiltinKinds \cup {"Generic", "Struct"})

\* Mutant: every number's type is taken for one of <cstdint>.
IncludesFor_Numbers(kind) ==
    CASE kind \in {"I32", "I64", "F32", "F64"} -> {"<cstdint>"}
      [] kind = "String" -> {"<string>"}
      [] OTHER -> {}

IncludesFor(kind) ==
    CASE kind \in {"I32", "I64"} -> {"<cstdint>"}
      [] kind = "String" -> {"<string>"}
      [] OTHER -> {}

collect_includes_for_type(type) == UNION {IncludesFor(part.kind) : part \in Parts(type)}

CppName(type) ==
    CASE type.kind = "Void" -> "void"
      [] type.kind = "I32" -> "std::int32_t"
      [] type.kind = "I64" -> "std::int64_t"
      [] type.kind = "F32" -> "float"
      [] type.kind = "F64" -> "double"
      [] type.kind = "Bool" -> "bool"
      [] type.kind = "String" -> "std::string"
      [] type.kind \in {"Generic", "Struct"} -> type.name

\* type_to_string, as the set of names written.  Only a struct's arguments are.
type_to_string(type) == {CppName(part) : part \in Within(type, {"Struct"})}

FieldTypes(record) == ToSet(record.fields)
SignatureTypes(fn) == {fn.return_type} \cup {fn.parameters[i].type : i \in DOMAIN fn.parameters}

Includes(types) == UNION {collect_includes_for_type(type) : type \in types}
Written(types) == UNION {type_to_string(type) : type \in types}

-------------------------------------------------------------------------------
(* Instructions.                                                                *)

\* What a line declares and the names it looks up.
Line(defines, operands) ==
    [defines |-> defines, uses |-> {operands[i].name : i \in DOMAIN operands} \ {NoName}]
Comment == Line(NoName, <<>>)

BinaryOps == {"add", "sub", "mul", "div", "mod"}
First(operands) == SubSeq(operands, 1, IF operands = <<>> THEN 0 ELSE 1)

\* Mutant: the op is looked at before is_constant.
translate_OpFirst(inst) ==
    CASE inst.op \in {"ret", "return"} -> Line(NoName, First(inst.operands))
      [] inst.op = "const" ->
            IF inst.operands = <<>> THEN Comment ELSE Line(inst.result, First(inst.operands))
      [] inst.op \notin {"ret", "return", "const"} -> Line(inst.result, inst.operands)

\* One line for an instruction, a comment where it is not understood.
translate(inst) ==
    IF inst.is_constant THEN Line(inst.result, <<>>)
    ELSE CASE inst.op \in {"ret", "return"} -> Line(NoName, First(inst.operands))
           [] inst.op = "const" /\ inst.operands # <<>> ->
                 Line(inst.result, First(inst.operands))
           [] \/ inst.op \in BinaryOps /\ Len(inst.operands) = 2
              \/ inst.op = "neg" /\ Len(inst.operands) = 1
              \/ inst.op = "call" /\ inst.operands # <<>> ->
                 Line(inst.result, inst.operands)
           [] OTHER -> Comment

translate_instructions(fn) ==
    IF fn.instructions = <<>> THEN <<Comment>>
    ELSE [k \in DOMAIN fn.instructions |-> translate(fn.instructions[k])]

-------------------------------------------------------------------------------
(* emit().                                                                      *)

Item(item, name, params, types, parameters, lines) ==
    [item |-> item, name |-> name, template |-> ToSet(params), types |-> Written(types),
     parameters |-> parameters, lines |-> lines]
Include(name) == Item("include", name, <<>>, {}, {}, <<>>)

emit_struct(record) ==
    Item("struct", record.name, record.template_params, FieldTypes(record), {}, <<>>)
emit_function_declaration(fn) ==
    Item("declaration", fn.name, fn.template_params, SignatureTypes(fn), {}, <<>>)
emit_function_definition(fn) ==
    Item("definition", fn.name, fn.template_params, SignatureTypes(fn),
         {fn.parameters[i].name : i \in DOMAIN fn.parameters}, translate_instructions(fn))

Mapped(Op(_), s) == [i \in DOMAIN s |-> Op(s[i])]

StructTypes == UNION {FieldTypes(record) : record \in ToSet(module.structs)}
FunctionTypes == UNION {SignatureTypes(fn) : fn \in ToSet(module.functions)}

\* A backend made with some options makes an emitter of the module.
Emit ==
    /\ phase = "idle"
    /\ options' \in Options
    /\ phase' = "collect"
    /\ UNCHANGED <<module, header_includes, files>>

\* Mutant: only what functions return is looked at.
collect_includes_Returns ==
    /\ phase = "collect"
    /\ header_includes' =
           Includes(StructTypes \cup {fn.return_type : fn \in ToSet(module.functions)})
    /\ phase' = "header"
    /\ UNCHANGED <<module, options, files>>

collect_includes ==
    /\ phase = "collect"
    /\ header_includes' = Includes(StructTypes \cup FunctionTypes)
    /\ phase' = "header"
    /\ UNCHANGED <<module, options, files>>

\* Writing a type collects its includes once more, when they have been written.
build_header ==
    /\ phase = "header" /\ options.emit_header
    /\ files' = Append(files,
           [name |-> "header",
            items |-> Mapped(Include, SetToSeq(header_includes))
                      \o Mapped(emit_struct, module.structs)
                      \o Mapped(emit_function_declaration, module.functions)])
    /\ header_includes' = header_includes \cup Includes(StructTypes \cup FunctionTypes)
    /\ phase' = "source"
    /\ UNCHANGED <<module, options>>

NoHeader ==
    /\ phase = "header" /\ ~options.emit_header
    /\ phase' = "source"
    /\ UNCHANGED <<module, options, header_includes, files>>

build_source ==
    /\ phase = "source" /\ options.emit_source
    /\ files' = Append(files,
           [name |-> "source",
            items |-> (IF options.emit_header THEN <<Include("header")>>
                       ELSE Mapped(Include, SetToSeq(header_includes)))
                      \o Mapped(emit_function_definition, module.functions)])
    /\ header_includes' = header_includes \cup Includes(FunctionTypes)
    /\ phase' = "done"
    /\ UNCHANGED <<module, options>>

NoSource ==
    /\ phase = "source" /\ ~options.emit_source
    /\ phase' = "done"
    /\ UNCHANGED <<module, options, header_includes, files>>

Next == Emit \/ collect_includes \/ build_header \/ NoHeader \/ build_source \/ NoSource

-------------------------------------------------------------------------------
(* What a C++ compiler makes of the files, whose own rules are these.           *)

\* A file with the header it includes put in its place.
Unit(file) ==
    IF file.items # <<>> /\ file.items[1] = Include("header")
    THEN files[1].items \o Tail(file.items)
    ELSE file.items
Units == {Unit(files[i]) : i \in DOMAIN files}

Keywords == {"void", "float", "double", "bool"}
HeaderOf(name) ==
    CASE name \in {"std::int32_t", "std::int64_t"} -> "<cstdint>"
      [] name = "std::string" -> "<string>"
      [] OTHER -> "none"

Stands(unit, i, item, name) == \E j \in 1..i : unit[j].item = item /\ unit[j].name = name

\* Types a module's structs and functions can name: those before them in it and
\* those they are templates of.
Closed(types, params, structs) ==
    \A part \in UNION {Parts(type) : type \in types} :
        /\ part.kind = "Generic" => part.name \in ToSet(params)
        /\ part.kind = "Struct" => \E j \in DOMAIN structs : structs[j].name = part.name
TypesAreClosed ==
    /\ \A i \in DOMAIN module.structs :
           Closed(FieldTypes(module.structs[i]), module.structs[i].template_params,
                  SubSeq(module.structs, 1, i - 1))
    /\ \A fn \in ToSet(module.functions) :
           Closed(SignatureTypes(fn), fn.template_params, module.structs)
\* A source file alone has no structs in it.
StructsAreEmitted == options.emit_header \/ module.structs = <<>>

\* Each type written in a file is a keyword of C++, or declared above: by the
\* standard header it comes from, as a struct, or as a parameter of its template.
TypesAreDeclared ==
    TypesAreClosed /\ StructsAreEmitted =>
        \A unit \in Units : \A i \in DOMAIN unit : \A name \in unit[i].types \ Keywords :
            \/ name \in unit[i].template
            \/ Stands(unit, i - 1, "struct", name)
            \/ Stands(unit, i - 1, "include", HeaderOf(name))

\* "header should not introduce unused includes for unrelated types"
\* (test_cpp_backend.cpp).
HeaderIncludesAreUsed ==
    \A i \in DOMAIN files : files[i].name = "header" =>
        \A j \in DOMAIN files[i].items : files[i].items[j].item = "include" =>
            \E k \in DOMAIN files[i].items : \E name \in files[i].items[k].types :
                HeaderOf(name) = files[i].items[j].name

-------------------------------------------------------------------------------

\* Each name a body looks up is a parameter, declared by a line above it, or a
\* function declared above.
NamesAreDeclared ==
    \A unit \in Units : \A i \in DOMAIN unit : \A k \in DOMAIN unit[i].lines :
        \A name \in unit[i].lines[k].uses :
            \/ name \in unit[i].parameters
            \/ \E j \in 1..(k - 1) : unit[i].lines[j].defines = name
            \/ Stands(unit, i, "declaration", name)
===============================================================================
