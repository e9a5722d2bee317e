-------------------------------- MODULE Parser ---------------------------------
(* The parser (src/front/parser.cpp) as it consumes a stream of tokens.  Each   *)
(* token is chosen when the parser first looks at it, so that a behaviour is    *)
(* the parse of one stream and the set of behaviours is all streams within the  *)
(* bound.  The C++ call stack is a sequence of frames; a step takes at most one *)
(* token and goes from one call or return to the next.                          *)
EXTENDS Ast, FiniteSets, SequencesExt

CONSTANT
    Calls          \* the calls made of the parser: the public function called, the
                   \* tokens its stream is made of, but for the one at its end, how
                   \* many at most, and the size and the capacity of the context

TokenKinds == {"Identifier", "Number", "StringLiteral", "Keyword", "Symbol", "EndOfFile"}
Token(kind, lexeme) == [kind |-> kind, lexeme |-> lexeme]
EndOfFile == Token("EndOfFile", "")

ASSUME CallsAreTyped ==
    \A c \in Calls :
        /\ c.entry \in {"module", "expression"}
        /\ c.tokens \subseteq [kind : TokenKinds \ {"EndOfFile"}, lexeme : STRING]
        /\ c.longest \in Nat
        /\ c.size \in Nat /\ c.capacity \in Nat /\ c.size <= c.capacity
ASSUME OwnTextsAreStrings == {"", "let", "mut"} \subseteq STRING

VARIABLES
    call,          \* the call in progress; immutable
    length,        \* tokens_.tokens.size(), less the token at the end
    read,          \* the tokens before index_
    token,         \* current()
    stack,         \* the calls in progress, outermost first
    returned,      \* what the call that has just ended returned, the public one at last
    status,        \* of the public function: "parsing", "parsed" or "failed"
    dangled        \* history: memory of a block given back has been read

vars == <<nodes, capacity, call, length, read, token, stack, returned, status, dangled>>

\* The nodes created by the call are those after base.
base == call.size
New == (base + 1)..Len(nodes)

-------------------------------------------------------------------------------
(* Tokens.                                                                      *)

IsSymbol(t, lexeme)  == t.kind = "Symbol" /\ t.lexeme = lexeme
IsKeyword(t, lexeme) == t.kind = "Keyword" /\ t.lexeme = lexeme
check_symbol(lexeme)  == IsSymbol(token, lexeme)
check_keyword(lexeme) == IsKeyword(token, lexeme)
at_end == token = EndOfFile

\* Of the current token, and of the one before it.
Here  == Span(Len(read), Len(read) + 1)
To(start) == merge_span(Span(start, start + 1), Here)

precedence_for(t) ==
    CASE t.kind # "Symbol" -> -1
      [] t.lexeme = "=" -> 1
      [] t.lexeme = "||" -> 2
      [] t.lexeme = "&&" -> 3
      [] t.lexeme \in {"==", "!="} -> 4
      [] t.lexeme \in {"<", ">", "<=", ">="} -> 5
      [] t.lexeme \in {"+", "-"} -> 6
      [] t.lexeme \in {"*", "/", "%"} -> 7
      [] OTHER -> -1

is_assignment_operator(t) ==
    t.kind = "Symbol" /\ t.lexeme \in {"=", "+=", "-=", "*=", "/="}
is_unary_prefix(t) ==
    \/ t.kind = "Symbol" /\ t.lexeme \in {"!", "-", "+"}
    \/ IsKeyword(t, "await")

\* The streams with these first tokens go on with any token, or end.
NextToken(n) == IF n < length THEN call.tokens ELSE {EndOfFile}
advance ==
    /\ read' = Append(read, token)
    /\ token' \in NextToken(Len(read) + 1)
Stay == UNCHANGED <<read, token>>

-------------------------------------------------------------------------------
(* Calls.  A frame holds the locals of one call of a parse function that are    *)
(* used after a call it makes.                                                  *)

StatementFrame == [rule |-> "statement"]
ExpressionStatementFrame == [rule |-> "expression_statement"]
ModuleFrame(id) == [rule |-> "module", node |-> id]
BlockFrame(id, start) == [rule |-> "block", node |-> id, start |-> start]
LetFrame(start) ==
    [rule |-> "let", start |-> start, expects |-> "mut", value |-> "let",
     name_node |-> NoNode, block |-> 0]
ReturnFrame(start) == [rule |-> "return", start |-> start]
ExpressionFrame(min_precedence) ==
    [rule |-> "expression", min |-> min_precedence, left |-> NoNode, op |-> EndOfFile]
UnaryFrame(op, start) == [rule |-> "unary", op |-> op, start |-> start]
GroupFrame(start) == [rule |-> "group", start |-> start]
CallFrame(callee, span) ==
    [rule |-> "call", callee |-> callee, span |-> span, open |-> FALSE, args |-> <<>>]

Top == stack[Len(stack)]
Callers == SubSeq(stack, 1, Len(stack) - 1)

Parsing(rule) == status = "parsing" /\ Top.rule = rule
Entered(rule) == Parsing(rule) /\ returned = NoNode
Resumed(rule) == Parsing(rule) /\ returned # NoNode

Become(frame) == stack' = Append(Callers, frame) /\ returned' = NoNode
BecomeAndCall(frame, callee) == stack' = Callers \o <<frame, callee>> /\ returned' = NoNode

\* The public function returns when the last call does.
Return(id) ==
    /\ stack' = Callers
    /\ returned' = id
    /\ status' = IF Len(stack) = 1 THEN "parsed" ELSE status

Arena == <<nodes, capacity>>
Input == <<call, length>>

Init ==
    /\ call \in Calls
    /\ length \in 0..call.longest
    /\ read = <<>>
    /\ token \in NextToken(0)
    /\ nodes = [i \in 1..base |-> Leaf("Unknown", Span(0, 0), "")]
               \o (IF call.entry = "module" THEN <<Leaf("Module", Span(0, length), "")>> ELSE <<>>)
    /\ capacity = IF call.entry = "module" /\ base = call.capacity
                  THEN Grown(call.capacity) ELSE call.capacity
    /\ stack = <<IF call.entry = "module" THEN ModuleFrame(base + 1) ELSE ExpressionFrame(1)>>
    /\ returned = NoNode
    /\ status = "parsing"
    /\ dangled = FALSE

-------------------------------------------------------------------------------
(* Statements.                                                                  *)

\* Both loops that collect statements: module_id's children, block_id's children.
CollectStatement ==
    /\ Resumed("module") \/ Resumed("block")
    /\ nodes' = [nodes EXCEPT ![Top.node].children = Append(@, returned)]
    /\ returned' = NoNode
    /\ Stay /\ UNCHANGED <<capacity, stack, status, dangled, Input>>

MoreStatements ==
    /\ \/ Entered("module") /\ ~at_end
       \/ Entered("block") /\ ~at_end /\ ~check_symbol("}")
    /\ BecomeAndCall(Top, StatementFrame)
    /\ Stay /\ UNCHANGED <<status, Arena, dangled, Input>>

EndModule ==
    /\ Entered("module") /\ at_end
    /\ Return(Top.node)
    /\ Stay /\ UNCHANGED <<Arena, dangled, Input>>

\* Mutant: a block's span stays that of its brace.
EndBlock_OpenSpan ==
    /\ Entered("block") /\ check_symbol("}")
    /\ Return(Top.node)
    /\ advance /\ UNCHANGED <<Arena, dangled, Input>>

EndBlock ==
    /\ Entered("block") /\ check_symbol("}")
    /\ nodes' = [nodes EXCEPT ![Top.node].span = To(Top.start)]
    /\ Return(Top.node)
    /\ advance /\ UNCHANGED <<capacity, dangled, Input>>

BeginBlock ==
    /\ Entered("statement") /\ check_symbol("{")
    /\ create_node(Leaf("BlockStmt", Here, ""))
    /\ Become(BlockFrame(NextId, Len(read)))
    /\ advance /\ UNCHANGED <<status, dangled, Input>>

BeginLet ==
    /\ Entered("statement") /\ check_keyword("let")
    /\ Become(LetFrame(Len(read)))
    /\ advance /\ UNCHANGED <<Arena, status, dangled, Input>>

\* Mutant: the binding is not marked.
LetMut_Unmarked ==
    /\ Entered("let") /\ Top.expects = "mut" /\ check_keyword("mut")
    /\ Become([Top EXCEPT !.expects = "name"])
    /\ advance /\ UNCHANGED <<Arena, status, dangled, Input>>

LetMut ==
    /\ Entered("let") /\ Top.expects = "mut" /\ check_keyword("mut")
    /\ Become([Top EXCEPT !.expects = "name", !.value = "mut"])
    /\ advance /\ UNCHANGED <<Arena, status, dangled, Input>>

\* The frame keeps a reference to the node created, in the block it is in.
LetName ==
    /\ Entered("let") /\ Top.expects \in {"mut", "name"} /\ token.kind = "Identifier"
    /\ create_node(Leaf("IdentifierExpr", Here, token.lexeme))
    /\ Become([Top EXCEPT !.expects = "=", !.name_node = NextId, !.block = NextCapacity])
    /\ advance /\ UNCHANGED <<status, dangled, Input>>

LetEquals ==
    /\ Entered("let") /\ Top.expects = "=" /\ check_symbol("=")
    /\ BecomeAndCall([Top EXCEPT !.expects = ";"], ExpressionFrame(1))
    /\ advance /\ UNCHANGED <<Arena, status, dangled, Input>>

\* The reference is read when the let's own node is there: if the vector has
\* moved since, what stood in the old block may be anything.
EndLet ==
    /\ Resumed("let") /\ check_symbol(";")
    /\ LET moved == Top.block # NextCapacity
       IN  \E id \in IF moved THEN 0..NextId ELSE {Top.name_node} :
              /\ create_node(AstNode("LetStmt", To(Top.start), Top.value, <<id, returned>>))
              /\ dangled' = (dangled \/ moved)
    /\ Return(NextId)
    /\ advance /\ UNCHANGED Input

BeginReturn ==
    /\ Entered("statement") /\ check_keyword("return")
    /\ Become(ReturnFrame(Len(read)))
    /\ advance /\ UNCHANGED <<Arena, status, dangled, Input>>

ReturnValue ==
    /\ Entered("return") /\ ~check_symbol(";")
    /\ BecomeAndCall(Top, ExpressionFrame(1))
    /\ Stay /\ UNCHANGED <<Arena, status, dangled, Input>>

EndReturn ==
    /\ Parsing("return") /\ check_symbol(";")
    /\ create_node(AstNode("ReturnStmt", To(Top.start), "",
                           IF returned = NoNode THEN <<>> ELSE <<returned>>))
    /\ Return(NextId)
    /\ advance /\ UNCHANGED <<dangled, Input>>

BeginExpressionStatement ==
    /\ Entered("statement")
    /\ ~check_keyword("let") /\ ~check_keyword("return") /\ ~check_symbol("{")
    /\ BecomeAndCall(ExpressionStatementFrame, ExpressionFrame(1))
    /\ Stay /\ UNCHANGED <<Arena, status, dangled, Input>>

EndExpressionStatement ==
    /\ Resumed("expression_statement") /\ check_symbol(";")
    /\ create_node(AstNode("ExpressionStmt", merge_span(nodes[returned].span, Here), "",
                           <<returned>>))
    /\ Return(NextId)
    /\ advance /\ UNCHANGED <<dangled, Input>>

-------------------------------------------------------------------------------
(* Expressions: parse_expression climbs precedences over prefix expressions.    *)

\* It has called parse_prefix_expression, which has not returned.
AtPrefix == Entered("expression") /\ Top.left = NoNode
IsLeaf(t) ==
    \/ t.kind \in {"Identifier", "Number", "StringLiteral"}
    \/ t.kind = "Keyword" /\ ~is_unary_prefix(t)

parse_unary ==
    /\ AtPrefix /\ is_unary_prefix(token)
    /\ stack' = stack \o <<UnaryFrame(token, Len(read)), ExpressionFrame(precedence_for(token))>>
    /\ advance /\ UNCHANGED <<returned, status, Arena, dangled, Input>>

EndUnary ==
    /\ Resumed("unary")
    /\ create_node(AstNode("UnaryExpr",
                           merge_span(Span(Top.start, Top.start + 1), nodes[returned].span),
                           Top.op.lexeme, <<returned>>))
    /\ Return(NextId)
    /\ Stay /\ UNCHANGED <<dangled, Input>>

\* A primary of one token, then parse_call_expression.
parse_primary ==
    /\ AtPrefix /\ IsLeaf(token)
    /\ create_node(Leaf(IF token.kind = "Identifier" THEN "IdentifierExpr" ELSE "LiteralExpr",
                        Here, token.lexeme))
    /\ stack' = Append(stack, CallFrame(NextId, Here))
    /\ advance /\ UNCHANGED <<returned, status, dangled, Input>>

BeginGroup ==
    /\ AtPrefix /\ check_symbol("(")
    /\ stack' = stack \o <<GroupFrame(Len(read)), ExpressionFrame(1)>>
    /\ advance /\ UNCHANGED <<returned, status, Arena, dangled, Input>>

EndGroup ==
    /\ Resumed("group") /\ check_symbol(")")
    /\ create_node(AstNode("GroupExpr", To(Top.start), "", <<returned>>))
    /\ Become(CallFrame(NextId, To(Top.start)))
    /\ advance /\ UNCHANGED <<status, dangled, Input>>

\* parse_call_expression at the head of its loop.
OpenArguments ==
    /\ Entered("call") /\ ~Top.open /\ check_symbol("(")
    /\ Become([Top EXCEPT !.open = TRUE])
    /\ advance /\ UNCHANGED <<Arena, status, dangled, Input>>

NoMoreCalls ==
    /\ Entered("call") /\ ~Top.open /\ ~check_symbol("(")
    /\ Return(Top.callee)
    /\ Stay /\ UNCHANGED <<Arena, dangled, Input>>

FirstArgument ==
    /\ Entered("call") /\ Top.open /\ ~check_symbol(")")
    /\ BecomeAndCall(Top, ExpressionFrame(1))
    /\ Stay /\ UNCHANGED <<Arena, status, dangled, Input>>

NextArgument ==
    /\ Resumed("call") /\ check_symbol(",")
    /\ BecomeAndCall([Top EXCEPT !.args = Append(@, returned)], ExpressionFrame(1))
    /\ advance /\ UNCHANGED <<Arena, status, dangled, Input>>

\* Mutant: the last argument is not among the call's children.
CloseArguments_LosesLast ==
    /\ Parsing("call") /\ Top.open /\ check_symbol(")")
    /\ LET span == merge_span(Top.span, Here)
       IN  /\ create_node(AstNode("CallExpr", span, "", <<Top.callee>> \o Top.args))
           /\ Become(CallFrame(NextId, span))
    /\ advance /\ UNCHANGED <<status, dangled, Input>>

CloseArguments ==
    /\ Parsing("call") /\ Top.open /\ check_symbol(")")
    /\ LET span == merge_span(Top.span, Here)
           args == IF returned = NoNode THEN Top.args ELSE Append(Top.args, returned)
       IN  /\ create_node(AstNode("CallExpr", span, "", <<Top.callee>> \o args))
           /\ Become(CallFrame(NextId, span))
    /\ advance /\ UNCHANGED <<status, dangled, Input>>

\* parse_expression has its first operand, or another operator's right one.
LeftOperand ==
    /\ Resumed("expression") /\ Top.left = NoNode
    /\ Become([Top EXCEPT !.left = returned])
    /\ Stay /\ UNCHANGED <<Arena, status, dangled, Input>>

RightOperand ==
    /\ Resumed("expression") /\ Top.left # NoNode
    /\ create_node(AstNode(IF is_assignment_operator(Top.op) THEN "AssignmentExpr" ELSE "BinaryExpr",
                           merge_span(nodes[Top.left].span, nodes[returned].span),
                           Top.op.lexeme, <<Top.left, returned>>))
    /\ Become([Top EXCEPT !.left = NextId])
    /\ Stay /\ UNCHANGED <<status, dangled, Input>>

\* Whether the loop goes on with the current token.
IsOperatorHere == token.kind = "Symbol" /\ precedence_for(token) >= Top.min

\* Mutant: assignments associate to the left too.
NextPrecedence_LeftAssignment(t) == precedence_for(t) + 1

NextPrecedence(t) == precedence_for(t) + (IF is_assignment_operator(t) THEN 0 ELSE 1)

Operator ==
    /\ Entered("expression") /\ Top.left # NoNode /\ IsOperatorHere
    /\ BecomeAndCall([Top EXCEPT !.op = token], ExpressionFrame(NextPrecedence(token)))
    /\ advance /\ UNCHANGED <<Arena, status, dangled, Input>>

EndExpression ==
    /\ Entered("expression") /\ Top.left # NoNode /\ ~IsOperatorHere
    /\ Return(Top.left)
    /\ Stay /\ UNCHANGED <<Arena, dangled, Input>>

-------------------------------------------------------------------------------
(* Exceptions: what stands at the current token is not what the code requires.  *)

NoName ==
    /\ Entered("let") /\ Top.expects \in {"mut", "name"}
    /\ token.kind # "Identifier"
    /\ Top.expects = "name" \/ ~check_keyword("mut")
NoPrimary == AtPrefix /\ ~is_unary_prefix(token) /\ ~IsLeaf(token) /\ ~check_symbol("(")

Unexpected ==
    \/ Entered("block") /\ at_end
    \/ NoName
    \/ Entered("let") /\ Top.expects = "=" /\ ~check_symbol("=")
    \/ NoPrimary
    \/ Resumed("group") /\ ~check_symbol(")")
    \/ Resumed("call") /\ ~check_symbol(")") /\ ~check_symbol(",")
    \/ /\ \E rule \in {"let", "return", "expression_statement"} : Resumed(rule)
       /\ ~check_symbol(";")

\* Mutant: the token that is missing is waited for.
Throw_Waits == Unexpected /\ UNCHANGED vars

\* The nodes created stay in the context.
Throw ==
    /\ Unexpected
    /\ status' = "failed"
    /\ stack' = <<>>
    /\ returned' = NoNode
    /\ Stay /\ UNCHANGED <<Arena, dangled, Input>>

parse_statement ==
    \/ CollectStatement \/ MoreStatements \/ EndModule
    \/ BeginBlock \/ EndBlock
    \/ BeginLet \/ LetMut \/ LetName \/ LetEquals \/ EndLet
    \/ BeginReturn \/ ReturnValue \/ EndReturn
    \/ BeginExpressionStatement \/ EndExpressionStatement

parse_expression ==
    \/ parse_unary \/ EndUnary
    \/ parse_primary \/ BeginGroup \/ EndGroup
    \/ OpenArguments \/ NoMoreCalls \/ FirstArgument \/ NextArgument \/ CloseArguments
    \/ LeftOperand \/ RightOperand \/ Operator \/ EndExpression

Next == parse_statement \/ parse_expression \/ Throw

Spec == Init /\ [][Next]_vars /\ WF_vars(Next)
-------------------------------------------------------------------------------

Frames ==
    {StatementFrame, ExpressionStatementFrame}
    \cup [rule : {"module"}, node : Nat]
    \cup [rule : {"block"}, node : Nat, start : Nat]
    \cup [rule : {"let"}, start : Nat, expects : {"mut", "name", "=", ";"},
          value : {"let", "mut"}, name_node : Nat, block : Nat]
    \cup [rule : {"return", "group"}, start : Nat]
    \cup [rule : {"expression"}, min : -1..8, left : Nat, op : call.tokens \cup {EndOfFile}]
    \cup [rule : {"unary"}, op : call.tokens, start : Nat]
    \cup [rule : {"call"}, callee : Nat, span : Spans, open : BOOLEAN, args : Seq(Nat)]

AstNodes == [kind : AstKinds, span : Spans, value : STRING, children : Seq(Nat)]

\* The types of the variables, and no node where none was created.
TypeOK ==
    /\ nodes \in Seq(AstNodes)
    /\ Len(nodes) <= capacity
    /\ call \in Calls /\ length \in 0..call.longest
    /\ read \in Seq(call.tokens) /\ Len(read) <= length
    /\ token \in call.tokens \cup {EndOfFile}
    /\ token = EndOfFile <=> Len(read) = length
    /\ stack \in Seq(Frames)
    /\ status = "parsing" <=> stack # <<>>
    /\ status \in {"parsing", "parsed", "failed"}
    /\ returned \in 0..Len(nodes)
    /\ dangled \in BOOLEAN

\* The nodes a call in progress has still to put into the tree.
Pending(frame) ==
    CASE frame.rule \in {"module", "block"} -> <<frame.node>>
      [] frame.rule = "let" /\ frame.name_node # NoNode -> <<frame.name_node>>
      [] frame.rule = "expression" /\ frame.left # NoNode -> <<frame.left>>
      [] frame.rule = "call" -> <<frame.callee>> \o frame.args
      [] OTHER -> <<>>

Held ==
    FlattenSeq([i \in 1..(Len(nodes) - base) |-> nodes[base + i].children])
    \o FlattenSeq([i \in DOMAIN stack |-> Pending(stack[i])])
    \o (IF returned = NoNode THEN <<>> ELSE <<returned>>)

\* At every moment of a parse each node created is the child of one node or held
\* by one call in progress, and of no other: no node is lost between the calls
\* that build the tree, and none is shared.
EveryNodeHeldOnce ==
    status # "failed" /\ ~dangled =>
        /\ Len(Held) = Cardinality(New)
        /\ {Held[i] : i \in DOMAIN Held} = New

IsOpen(id) ==
    \E i \in DOMAIN stack : stack[i].rule = "block" /\ stack[i].node = id

\* A node's children stand in the source in their order, apart from each other
\* and within the node: the spans merged in expressions, calls and statements
\* agree wherever the parse stands.
SpansNest ==
    status # "failed" /\ ~dangled =>
        \A id \in New :
            LET span(i) == nodes[nodes[id].children[i]].span
                places == DOMAIN nodes[id].children
            IN  /\ \A i, j \in places : i < j => span(i).end <= span(j).start
                /\ ~IsOpen(id) => \A i \in places :
                       nodes[id].span.start <= span(i).start /\ span(i).end <= nodes[id].span.end

\* A call of the parser ends, whatever it is given: each of its loops takes a
\* token or leaves.
EventuallyDone == <>(status # "parsing")

\* "let name should be identifier" (test_parser.cpp).
LetNamesAreIdentifiers ==
    status = "parsed" =>
        \A id \in New : nodes[id].kind = "LetStmt" =>
            LET name == nodes[id].children[1]
            IN  name \in DOMAIN nodes /\ nodes[name].kind = "IdentifierExpr"
===============================================================================
