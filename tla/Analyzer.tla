------------------------------- MODULE Analyzer -------------------------------
(* SemanticAnalyzer (src/sem/analyzer.cpp) as it walks a syntax tree.  The tree *)
(* is not built beforehand: each step meets the next node of some tree, so a    *)
(* behaviour is the walk over one tree and the set of behaviours is all trees   *)
(* within the bounds.  What the C++ call stack holds during the walk (the       *)
(* blocks and functions entered, the types of operands already computed) is     *)
(* kept in frames, binding and operands.                                        *)
EXTENDS SemContext

DiagCodes == {"SemDuplicateSymbol", "SemUnknownIdentifier", "SemTypeMismatch",
              "SemArgumentCountMismatch"}

CONSTANTS
    LiteralKinds,    \* the kinds of literals the program uses
    MaxDepth,        \* bound: blocks and functions open at once
    MaxOperands,     \* bound: operands computed and not yet used
    MaxParams,       \* bound: parameters of a function
    WatchedCodes,    \* the diagnostic codes a run keeps track of
    NoName,          \* an expression that is not an identifier
    Block            \* a frame that is not a function's

ASSUME LiteralKindsArePlain == LiteralKinds \subseteq PlainKinds
ASSUME WatchedCodesAreCodes == WatchedCodes \subseteq DiagCodes
ASSUME BoundsAreNats == MaxDepth \in Nat /\ MaxOperands \in Nat /\ MaxParams \in Nat
ASSUME MarkersAreNotNames == NoName \notin Names /\ Block \notin Names

VARIABLES
    scopes,            \* context_.symbols()
    registry,          \* context_.functions()
    types,             \* types_, for the nodes that are ever read: declaring ones
    function_stack,    \* function_stack_
    frames,            \* the blocks and functions being walked, outermost first
    binding,           \* the let whose initializer is being analyzed
    operands,          \* expressions analyzed and still to be used, oldest first
    reported,          \* the watched diagnostic codes reported so far
    next_node,         \* the next declaring node the walk will meet
    seen,              \* history: the known types written to a node since declared
    yielded            \* history: the known types returned by a function's body or
                       \* obtained from a call of it

history == <<seen, yielded>>
vars == <<scopes, registry, types, function_stack, frames, binding, operands,
          reported, next_node, history>>

Operand(type, name) == [type |-> type, name |-> name]
Operands == [type : Types, name : Names \cup {NoName}]
ActiveFunction(name) ==
    [signature |-> name, inferred_return |-> Unknown, saw_return |-> FALSE]
ActiveFunctions == [signature : Names, inferred_return : Types, saw_return : BOOLEAN]

Init ==
    /\ scopes = <<EmptyScope>>
    /\ registry = EmptyRegistry
    /\ types = [node \in Nodes |-> Unknown]
    /\ function_stack = <<>>
    /\ frames = <<>>
    /\ binding = NoNode
    /\ operands = <<>>
    /\ reported = {}
    /\ next_node = 1
    /\ seen = [node \in Nodes |-> {}]
    /\ yielded = [name \in Names |-> {}]

report(codes) == reported' = reported \cup (codes \cap WatchedCodes)

\* declare_symbol's diagnostic; its effect is insert.
DuplicateIn(scope, name) == IF Declares(scope, name) THEN {"SemDuplicateSymbol"} ELSE {}

-------------------------------------------------------------------------------
(* Expressions: analyze_expression dispatches on the node's kind, operands are  *)
(* analyzed left to right and their types kept in locals until they are used.   *)

Top == operands[Len(operands)]
Below(n) == SubSeq(operands, 1, Len(operands) - n)

\* n operands are used and one more type is computed.
Compute(n, type, name) == operands' = Append(Below(n), Operand(type, name))

analyze_literal(kind) ==
    /\ Len(operands) < MaxOperands
    /\ Compute(0, Type(kind), NoName)
    /\ UNCHANGED <<scopes, registry, types, function_stack, frames, binding, reported,
                   next_node, history>>

analyze_identifier(name) ==
    LET node == lookup(scopes, name)
    IN  /\ Len(operands) < MaxOperands
        /\ IF node = NoNode
           THEN Compute(0, Unknown, name) /\ report({"SemUnknownIdentifier"})
           ELSE Compute(0, types[node], name) /\ UNCHANGED reported
        /\ UNCHANGED <<scopes, registry, types, function_stack, frames, binding,
                       next_node, history>>

analyze_binary ==
    LET left  == operands[Len(operands) - 1].type
        right == Top.type
    IN  /\ Len(operands) >= 2
        /\ Compute(2, unify_types(left, right), NoName)
        /\ report(Mismatch(left, right))
        /\ UNCHANGED <<scopes, registry, types, function_stack, frames, binding,
                       next_node, history>>

\* A unary or a parenthesized expression has its operand's type, but is no
\* longer an identifier that can be assigned to.
analyze_unary_or_group ==
    /\ operands # <<>> /\ Top.name # NoName
    /\ Compute(1, Top.type, NoName)
    /\ UNCHANGED <<scopes, registry, types, function_stack, frames, binding, reported,
                   next_node, history>>

\* The left operand is unified as it was before the right one was analyzed, then
\* once more as its declaration has it now.
analyze_assignment ==
    LET left  == operands[Len(operands) - 1]
        right == Top.type
        decl  == IF left.name = NoName THEN NoNode ELSE lookup(scopes, left.name)
        unified == unify_types(types[decl], right)
    IN  /\ Len(operands) >= 2
        /\ IF decl = NoNode
           THEN /\ Compute(2, pick_known(right, left.type), NoName)
                /\ report(Mismatch(left.type, right))
                /\ UNCHANGED <<types, seen>>
           ELSE /\ types' = [types EXCEPT ![decl] = unified]
                /\ seen' = [seen EXCEPT ![decl] = @ \cup Known(right)]
                /\ Compute(2, pick_known(right, unified), NoName)
                /\ report(Mismatch(left.type, right) \cup Mismatch(types[decl], right))
        /\ UNCHANGED <<scopes, registry, function_stack, frames, binding, next_node,
                       yielded>>

\* Unifies the first of an entry's parameters with the arguments given.
Unified(parameters, arguments, i) ==
    unify_types(types[parameters[i].node_id], arguments[i])

\* A call of a registered function: its arguments are checked against, and
\* written to, its parameters.
CheckedCall(name, arguments) ==
    LET parameters == registry[name].parameters
        passed == 1..Len(arguments) \cap DOMAIN parameters
        result == registry[name].return_type
        Receives(node) == \E i \in passed : parameters[i].node_id = node
        For(node) == CHOOSE i \in passed : parameters[i].node_id = node
    IN  /\ types' = [node \in Nodes |->
              IF Receives(node) THEN Unified(parameters, arguments, For(node)) ELSE types[node]]
        /\ seen' = [node \in Nodes |->
              IF Receives(node) THEN seen[node] \cup Known(arguments[For(node)]) ELSE seen[node]]
        /\ registry' = [registry EXCEPT ![name].parameters =
              [i \in DOMAIN parameters |->
                  IF i \in passed
                  THEN Parameter(parameters[i].name, parameters[i].node_id,
                                 Unified(parameters, arguments, i))
                  ELSE parameters[i]]]
        /\ report((IF Len(parameters) # Len(arguments)
                   THEN {"SemArgumentCountMismatch"} ELSE {})
                  \cup UNION {Mismatch(types[parameters[i].node_id], arguments[i]) : i \in passed})
        /\ yielded' = [yielded EXCEPT ![name] = @ \cup Known(result)]
        /\ Compute(Len(arguments) + 1, result, NoName)

\* The callee and n arguments.  A callee that is not a registered function is
\* not checked, and its call has no type.
analyze_call(n) ==
    LET callee == operands[Len(operands) - n].type
        arguments == [i \in 1..n |-> operands[Len(operands) - n + i].type]
        callees == IF callee.kind = "Function"
                   THEN RegisteredAs(registry, callee.reference) ELSE {}
    IN  /\ Len(operands) > n
        /\ \/ \E name \in callees : CheckedCall(name, arguments)
           \/ /\ callees = {}
              /\ Compute(n + 1, Unknown, NoName)
              /\ UNCHANGED <<registry, types, reported, history>>
        /\ UNCHANGED <<scopes, function_stack, frames, binding, next_node>>

-------------------------------------------------------------------------------
(* Statements.                                                                  *)

AtStatement == binding = NoNode /\ operands = <<>>

\* analyze_let up to its initializer: the name is declared first.
BeginLet(name) ==
    /\ AtStatement /\ next_node \in Nodes
    /\ scopes' = insert(scopes, name, next_node)
    /\ report(DuplicateIn(scopes[Len(scopes)], name))
    /\ binding' = next_node
    /\ next_node' = next_node + 1
    /\ UNCHANGED <<registry, types, function_stack, frames, operands, history>>

\* analyze_let from there on: whatever the initializer did to the name is lost.
EndLet ==
    /\ binding # NoNode /\ Len(operands) = 1
    /\ types' = [types EXCEPT ![binding] = Top.type]
    /\ seen' = [seen EXCEPT ![binding] = Known(Top.type)]
    /\ binding' = NoNode
    /\ operands' = <<>>
    /\ UNCHANGED <<scopes, registry, function_stack, frames, reported, next_node, yielded>>

analyze_expression_statement ==
    /\ binding = NoNode /\ Len(operands) = 1
    /\ operands' = <<>>
    /\ UNCHANGED <<scopes, registry, types, function_stack, frames, binding, reported,
                   next_node, history>>

\* Mutant: a function's first return decides its type, the others are not
\* compared with it.
returns_FirstOnly(type) ==
    /\ IF function_stack = <<>>
       THEN UNCHANGED <<registry, function_stack, reported, yielded>>
       ELSE LET depth    == Len(function_stack)
                active   == function_stack[depth]
                declared == registry[active.signature].return_type
                first    == IF IsKnown(declared) THEN declared ELSE type
            IN  /\ function_stack' = [function_stack EXCEPT ![depth] =
                      [active EXCEPT !.inferred_return = first,
                                     !.saw_return = @ \/ first.kind # "Void"]]
                /\ registry' = [registry EXCEPT ![active.signature].return_type = first]
                /\ yielded' = [yielded EXCEPT ![active.signature] = @ \cup Known(type)]
                /\ UNCHANGED reported
    /\ operands' = <<>>
    /\ UNCHANGED <<scopes, types, frames, binding, next_node, seen>>

\* analyze_return and update_current_function_return: the returned type is
\* unified with the entry's return type, then with what the body returned so far.
returns(type) ==
    /\ IF function_stack = <<>>
       THEN UNCHANGED <<registry, function_stack, reported, yielded>>
       ELSE LET depth    == Len(function_stack)
                active   == function_stack[depth]
                declared == registry[active.signature].return_type
                unified  == unify_types(declared, type)
                inferred == IF IsKnown(unified)
                            THEN unify_types(active.inferred_return, unified)
                            ELSE Unknown
            IN  /\ report(Mismatch(declared, type)
                          \cup Mismatch(active.inferred_return, unified))
                /\ function_stack' = [function_stack EXCEPT ![depth] =
                      [active EXCEPT !.inferred_return = inferred,
                                     !.saw_return = @ \/ unified.kind # "Void"]]
                /\ registry' = [registry EXCEPT ![active.signature].return_type = inferred]
                /\ yielded' = [yielded EXCEPT ![active.signature] = @ \cup Known(type)]
    /\ operands' = <<>>
    /\ UNCHANGED <<scopes, types, frames, binding, next_node, seen>>

analyze_return_value == binding = NoNode /\ Len(operands) = 1 /\ returns(Top.type)
analyze_return_void  == AtStatement /\ returns(Type("Void"))

\* analyze_block around its statements.
EnterBlock ==
    /\ AtStatement /\ Len(frames) < MaxDepth
    /\ frames' = Append(frames, Block)
    /\ scopes' = push_scope(scopes, EmptyScope)
    /\ UNCHANGED <<registry, types, function_stack, binding, operands, reported,
                   next_node, history>>

ExitBlock ==
    /\ AtStatement /\ frames # <<>> /\ frames[Len(frames)] = Block
    /\ frames' = SubSeq(frames, 1, Len(frames) - 1)
    /\ scopes' = pop_scope(scopes)
    /\ UNCHANGED <<registry, types, function_stack, binding, operands, reported,
                   next_node, history>>

\* The scope a function's parameters open, the first of each name declared.
Occurrences(parameters, name) ==
    {i \in DOMAIN parameters : /\ parameters[i].name = name
                               /\ \A j \in 1..(i - 1) : parameters[j].name # name}
ParameterScope(parameters) ==
    [name \in Names |->
        IF Occurrences(parameters, name) = {}
        THEN NoNode
        ELSE parameters[CHOOSE i \in Occurrences(parameters, name) : TRUE].node_id]

DuplicateParameters(parameters) ==
    IF \E i, j \in DOMAIN parameters : i < j /\ parameters[i].name = parameters[j].name
    THEN {"SemDuplicateSymbol"} ELSE {}

\* Mutant: only symbols are looked at for duplicates, as if the registry had
\* scopes too.
DuplicateFunction_Unreported(name) == {}

DuplicateFunction(name) ==
    IF IsRegistered(registry, name) THEN {"SemDuplicateSymbol"} ELSE {}

\* assign_type, for every parameter of an entry.
Assigned(table, parameters) ==
    [n \in Nodes |->
        IF \E i \in DOMAIN parameters : parameters[i].node_id = n
        THEN parameters[CHOOSE i \in DOMAIN parameters : parameters[i].node_id = n].type
        ELSE table[n]]

\* analyze_function up to its body.  names are those of its parameters.  A second
\* function of the same name works on the first one's entry and parameters.
EnterFunction(name, names) ==
    LET node == next_node
        fresh == Signature(node,
                    [i \in DOMAIN names |-> Parameter(names[i], node + i, Unknown)])
        parameters == declare(registry, name, fresh)[name].parameters
    IN  /\ AtStatement /\ Len(frames) < MaxDepth
        /\ node + Len(names) \in Nodes
        /\ registry' = declare(registry, name, fresh)
        /\ scopes' = push_scope(insert(scopes, name, node), ParameterScope(parameters))
        /\ types' = Assigned([types EXCEPT ![node] = FunctionType(node)], parameters)
        /\ seen' = [seen EXCEPT ![node] = {FunctionType(node)}]
        /\ report(DuplicateIn(scopes[Len(scopes)], name) \cup DuplicateFunction(name)
                  \cup DuplicateParameters(parameters))
        /\ function_stack' = Append(function_stack, ActiveFunction(name))
        /\ frames' = Append(frames, name)
        /\ next_node' = node + Len(names) + 1
        /\ UNCHANGED <<binding, operands, yielded>>

\* Mutant: the types inferred in the body do not reach the signature.
Synced_NotAtAll(parameters) == parameters

\* The parameters of an entry with the types their nodes have.
Synced(parameters) ==
    [i \in DOMAIN parameters |->
        Parameter(parameters[i].name, parameters[i].node_id, types[parameters[i].node_id])]

\* analyze_function from the end of its body on.
ExitFunction ==
    LET name   == frames[Len(frames)]
        active == function_stack[Len(function_stack)]
        result == IF ~active.saw_return /\ ~IsKnown(active.inferred_return)
                  THEN Type("Void") ELSE active.inferred_return
    IN  /\ AtStatement /\ frames # <<>> /\ frames[Len(frames)] # Block
        /\ frames' = SubSeq(frames, 1, Len(frames) - 1)
        /\ scopes' = pop_scope(scopes)
        /\ function_stack' = SubSeq(function_stack, 1, Len(function_stack) - 1)
        /\ registry' = [registry EXCEPT
              ![name].return_type = result,
              ![name].parameters = Synced(registry[name].parameters)]
        /\ UNCHANGED <<types, binding, operands, reported, next_node, history>>

Next ==
    \/ \E kind \in LiteralKinds : analyze_literal(kind)
    \/ \E name \in Names : analyze_identifier(name)
    \/ analyze_binary
    \/ analyze_unary_or_group
    \/ analyze_assignment
    \/ \E n \in 0..MaxParams : analyze_call(n)
    \/ \E name \in Names : BeginLet(name)
    \/ EndLet
    \/ analyze_expression_statement
    \/ analyze_return_value
    \/ analyze_return_void
    \/ EnterBlock
    \/ ExitBlock
    \/ \E name \in Names, n \in 0..MaxParams :
          \E names \in [1..n -> Names] : EnterFunction(name, names)
    \/ ExitFunction

Spec == Init /\ [][Next]_vars

-------------------------------------------------------------------------------

TypeOK ==
    /\ scopes \in Seq(Scope)
    /\ registry \in [Names -> Signatures]
    /\ types \in [Nodes -> Types]
    /\ function_stack \in Seq(ActiveFunctions)
    /\ frames \in Seq(Names \cup {Block})
    /\ binding \in Nodes \cup {NoNode}
    /\ operands \in Seq(Operands)
    /\ reported \in SUBSET DiagCodes
    /\ next_node \in 1..(MaxNodes + 1)
    /\ seen \in [Nodes -> SUBSET Types]
    /\ yielded \in [Names -> SUBSET Types]

IsActive(name) == \E level \in DOMAIN frames : frames[level] = name

\* While a function's body is not being walked, the parameter types its
\* signature shows (the ones lowering reads) are those of its parameter nodes.
SignaturesInStep ==
    \A name \in Names : ~IsActive(name) =>
        \A i \in DOMAIN registry[name].parameters :
            registry[name].parameters[i].type = types[registry[name].parameters[i].node_id]

\* A parameter can be named only while its function's body is walked, in that
\* function's own scope.
ParametersAreScoped ==
    \A level \in DOMAIN scopes, name \in Names, f \in Names :
        \A i \in DOMAIN registry[f].parameters :
            scopes[level][name] = registry[f].parameters[i].node_id
                => level - 1 \in DOMAIN frames /\ frames[level - 1] = f

\* Types and names conflict in no way the analyzer noticed.
Accepted == reported \cap {"SemTypeMismatch", "SemDuplicateSymbol"} = {}

\* In an accepted program all the known types ever given to a variable or a
\* parameter, by assignments and by calls, are the one type it ends with.
AcceptedVariables == Accepted => \A node \in Nodes : seen[node] \subseteq {types[node]}

\* In an accepted program all the known types a function's body returns, and
\* all those its calls were given before and after its body was walked, are the
\* return type its signature shows.
AcceptedReturns ==
    Accepted => \A name \in Names : yielded[name] \subseteq {registry[name].return_type}

\* In an accepted program every variable of a function type can be called with
\* its arguments checked.
AcceptedFunctionsResolve ==
    Accepted => \A node \in Nodes :
        types[node].kind = "Function" => RegisteredAs(registry, types[node].reference) # {}

\* "conflicting returns should mark return type as unknown" (test_semantic.cpp).
ConflictingReturnsAreUnknown ==
    "SemDuplicateSymbol" \notin reported =>
        \A name \in Names : ~IsActive(name) /\ (\E s, t \in yielded[name] : s # t)
            => registry[name].return_type = Unknown
===============================================================================
