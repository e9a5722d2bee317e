------------------------------ MODULE ParserProofs ------------------------------
(* What holds of the parser for every alphabet and every stream of tokens, as a  *)
(* module or as an expression, in a context of any size.                        *)
EXTENDS Parser, SequenceLemmas, FiniteSetTheorems

-------------------------------------------------------------------------------
(* The inductive invariant: the tokens read, the nodes made, the calls in        *)
(* progress.                                                                    *)

\* The stream has been read up to the current token.
ReadingOK ==
    /\ call \in Calls /\ length \in 0..call.longest
    /\ read \in Seq(call.tokens) /\ Len(read) <= length
    /\ token \in call.tokens \cup {EndOfFile}
    /\ token = EndOfFile <=> Len(read) = length

\* The context holds the nodes it was given and those made since.
ArenaOK ==
    /\ nodes \in Seq(AstNodes)
    /\ capacity \in Nat /\ Len(nodes) <= capacity
    /\ base <= Len(nodes)

\* A frame that has made a call knows what it does with the node it is given.
Waiting(frame) ==
    /\ frame.rule = "let" => frame.expects = ";"
    /\ frame.rule = "call" => frame.open

\* A frame's nodes are some of these, and those it has still to get are not there.
Settled(frame, ids) ==
    /\ frame.rule \in {"module", "block"} => frame.node \in ids
    /\ frame.rule = "let" =>
          IF frame.expects \in {"mut", "name"} THEN frame.name_node = NoNode
          ELSE frame.name_node \in ids
    /\ frame.rule = "expression" => frame.left \in ids \cup {NoNode}
    /\ frame.rule = "call" =>
          /\ frame.callee \in ids /\ Range(frame.args) \subseteq ids
          /\ frame.open \/ frame.args = <<>>

\* Every frame is settled with nodes the call has made, and all but the last one
\* wait for a call.
StackOK ==
    /\ stack \in Seq(Frames)
    /\ status = "parsing" <=> stack # <<>>
    /\ status \in {"parsing", "parsed", "failed"}
    /\ returned \in New \cup {NoNode}
    /\ \A i \in DOMAIN stack :
          /\ Settled(stack[i], New)
          /\ i < Len(stack) \/ returned # NoNode => Waiting(stack[i])

ParserInv == ReadingOK /\ ArenaOK /\ StackOK /\ dangled \in BOOLEAN

-------------------------------------------------------------------------------
(* Tokens.                                                                      *)

(* The alphabet's tokens, the end of file, and the places among them.           *)
LEMMA TokensTyped ==
    ASSUME ReadingOK
    PROVE  /\ EndOfFile.kind = "EndOfFile" /\ EndOfFile \notin call.tokens
           /\ \A t \in call.tokens \cup {EndOfFile} : t.kind \in TokenKinds /\ t.lexeme \in STRING
           /\ \A t \in call.tokens : t.kind # "EndOfFile"
           /\ base \in Nat /\ length \in Nat /\ Len(read) \in Nat
<1>1. /\ call.tokens \subseteq [kind : TokenKinds \ {"EndOfFile"}, lexeme : STRING]
      /\ call.longest \in Nat /\ call.size \in Nat
  BY CallsAreTyped DEF ReadingOK, CallsAreTyped
<1>2. EndOfFile.kind = "EndOfFile" /\ EndOfFile.lexeme = ""
  BY DEF EndOfFile, Token
<1>3. "" \in STRING
  BY OwnTextsAreStrings DEF OwnTextsAreStrings
<1>4. "EndOfFile" \in TokenKinds
  BY DEF TokenKinds
<1>5. ASSUME NEW t \in call.tokens
      PROVE  t.kind \in TokenKinds /\ t.kind # "EndOfFile" /\ t.lexeme \in STRING
  <2>1. t \in [kind : TokenKinds \ {"EndOfFile"}, lexeme : STRING]
    BY <1>1
  <2> QED
    BY <2>1
<1>6. Len(read) \in Nat
  BY LenProperties DEF ReadingOK
<1>7. EndOfFile \notin call.tokens
  BY <1>2, <1>5
<1>8. \A t \in call.tokens \cup {EndOfFile} : t.kind \in TokenKinds /\ t.lexeme \in STRING
  BY <1>2, <1>3, <1>4, <1>5
<1>9. base \in Nat /\ length \in Nat
  BY <1>1 DEF base, ReadingOK
<1> QED
  BY <1>2, <1>5, <1>6, <1>7, <1>8, <1>9

(* A token is taken, and the next one comes or the stream ends.                 *)
LEMMA AdvanceReads ==
    ASSUME ReadingOK, token.kind # "EndOfFile", advance, UNCHANGED Input
    PROVE  ReadingOK'
<1>1. token \in call.tokens /\ Len(read) # length
  BY TokensTyped DEF ReadingOK
<1>2. read' \in Seq(call.tokens) /\ Len(read') = Len(read) + 1
  BY <1>1, AppendProperties DEF ReadingOK, advance
<1>3. token' \in NextToken(Len(read) + 1)
  BY DEF advance
<1>4. Len(read) + 1 <= length /\ (Len(read) + 1 < length <=> Len(read) + 1 # length)
  BY <1>1, TokensTyped DEF ReadingOK
<1>5. /\ token' \in call.tokens \cup {EndOfFile}
      /\ token' = EndOfFile <=> Len(read) + 1 = length
  BY <1>3, <1>4, TokensTyped DEF NextToken
<1> QED
  BY <1>2, <1>4, <1>5 DEF ReadingOK, Input

(* A step that takes no token reads none.                                       *)
LEMMA StayReads ==
    ASSUME ReadingOK, Stay, UNCHANGED Input
    PROVE  ReadingOK'
BY DEF ReadingOK, Stay, Input

-------------------------------------------------------------------------------
(* Nodes.                                                                       *)

(* Spans made from places and from spans.                                       *)
LEMMA SpansTyped ==
    /\ \A start, end \in Nat : Span(start, end) \in Spans
    /\ \A a, b \in Spans : merge_span(a, b) \in Spans
    /\ ReadingOK => Here \in Spans /\ \A start \in Nat : To(start) \in Spans
<1>1. \A start, end \in Nat : Span(start, end) \in Spans
  BY DEF Span, Spans
<1>2. \A a, b \in Spans : merge_span(a, b) \in Spans
  <2> SUFFICES ASSUME NEW a \in Spans, NEW b \in Spans PROVE merge_span(a, b) \in Spans
    OBVIOUS
  <2>1. a.start \in Nat /\ a.end \in Nat /\ b.start \in Nat /\ b.end \in Nat
    BY DEF Spans
  <2> QED
    BY <1>1, <2>1 DEF merge_span
<1>3. ReadingOK => Here \in Spans
  BY <1>1, TokensTyped DEF Here
<1>4. ASSUME ReadingOK, NEW start \in Nat PROVE To(start) \in Spans
  <2>1. Span(start, start + 1) \in Spans
    BY <1>1
  <2> QED
    BY <1>2, <1>3, <1>4, <2>1 DEF To
<1> QED
  BY <1>1, <1>2, <1>3, <1>4

(* The nodes create_node is called with.                                        *)
LEMMA NodesTyped ==
    ASSUME NEW kind \in AstKinds, NEW span \in Spans, NEW value \in STRING,
           NEW children \in Seq(Nat)
    PROVE  /\ AstNode(kind, span, value, children) \in AstNodes
           /\ AstNode(kind, span, value, children).children = children
BY DEF AstNode, AstNodes

\* What a step may do to the context, seen from the frames.
Grows ==
    /\ ArenaOK'
    /\ New \subseteq New'

(* A step that makes no node.                                                   *)
LEMMA ArenaStays ==
    ASSUME ArenaOK, UNCHANGED Arena, UNCHANGED Input
    PROVE  Grows
BY DEF ArenaOK, Arena, Grows, New, base, Input

(* The ids of the nodes made, and the next one.                                 *)
LEMMA ArenaTyped ==
    ASSUME ReadingOK, ArenaOK
    PROVE  /\ Len(nodes) \in Nat /\ NextId \in Nat \ {0} /\ NextId = Len(nodes) + 1
           /\ NextCapacity \in Nat /\ NextId <= NextCapacity
           /\ \A id \in New : id \in Nat /\ id \in DOMAIN nodes /\ nodes[id] \in AstNodes
                              /\ nodes[id].span \in Spans /\ id # NoNode
<1>1. Len(nodes) \in Nat /\ base \in Nat /\ capacity \in Nat /\ DOMAIN nodes = 1..Len(nodes)
  BY TokensTyped, LenProperties DEF ArenaOK
<1>2. NextCapacity \in Nat /\ NextId <= NextCapacity
  BY <1>1 DEF ArenaOK, NextCapacity, Grown, NextId
<1>3. \A id \in New : id \in 1..Len(nodes) /\ id # NoNode
  BY <1>1 DEF New, NoNode
<1>4. \A id \in 1..Len(nodes) : nodes[id] \in AstNodes
  BY <1>1 DEF ArenaOK
<1>5. \A node \in AstNodes : node.span \in Spans
  BY DEF AstNodes
<1> QED
  BY <1>1, <1>2, <1>3, <1>4, <1>5 DEF NextId

(* A step that makes a node: the context grows by it, moving if it must.        *)
LEMMA NodeCreated ==
    ASSUME ReadingOK, ArenaOK, NEW node \in AstNodes, create_node(node), UNCHANGED Input
    PROVE  Grows /\ NextId \in New' /\ New' = New \cup {NextId}
<1>1. Len(nodes) \in Nat /\ base \in Nat /\ base <= Len(nodes)
  BY TokensTyped, LenProperties DEF ArenaOK
<1>2. nodes' \in Seq(AstNodes) /\ Len(nodes') = Len(nodes) + 1
  BY AppendProperties DEF create_node, ArenaOK
<1>3. capacity' = NextCapacity /\ base' = base
  BY DEF create_node, base, Input
<1>4. ArenaOK'
  BY <1>1, <1>2, <1>3, ArenaTyped DEF ArenaOK, NextId
<1>5. New' = New \cup {NextId}
  BY <1>1, <1>2, <1>3 DEF New, NextId
<1> QED
  BY <1>4, <1>5 DEF Grows

(* A node that is rewritten in its place stays a node.                          *)
LEMMA NodeRewritten ==
    ASSUME ReadingOK, ArenaOK, NEW id \in New, NEW node \in AstNodes,
           nodes' = [nodes EXCEPT ![id] = node], UNCHANGED capacity, UNCHANGED Input
    PROVE  Grows /\ New' = New
<1>1. Len(nodes) \in Nat /\ base \in Nat /\ DOMAIN nodes = 1..Len(nodes) /\ id \in 1..Len(nodes)
  BY TokensTyped, ArenaTyped, LenProperties DEF ArenaOK
<1>2. nodes' \in Seq(AstNodes) /\ Len(nodes') = Len(nodes)
  BY <1>1 DEF ArenaOK
<1>3. base' = base /\ New' = New
  BY <1>2 DEF base, Input, New
<1> QED
  BY <1>2, <1>3 DEF Grows, ArenaOK

-------------------------------------------------------------------------------
(* Frames.                                                                      *)

(* What a frame of each rule is made of.                                        *)
LEMMA FrameForms ==
    ASSUME NEW f \in Frames
    PROVE  /\ f.rule \in {"module", "block"} => f.node \in Nat
           /\ f.rule \in {"block", "let", "return", "group", "unary"} => f.start \in Nat
           /\ f.rule = "let" =>
                 /\ f \in [rule : {"let"}, start : Nat, expects : {"mut", "name", "=", ";"},
                           value : {"let", "mut"}, name_node : Nat, block : Nat]
                 /\ f.value \in STRING /\ f.name_node \in Nat
           /\ f.rule = "expression" =>
                 /\ f \in [rule : {"expression"}, min : -1..8, left : Nat,
                           op : call.tokens \cup {EndOfFile}]
                 /\ f.left \in Nat /\ f.op \in call.tokens \cup {EndOfFile}
           /\ f.rule = "unary" => f.op \in call.tokens
           /\ f.rule = "call" =>
                 /\ f \in [rule : {"call"}, callee : Nat, span : Spans, open : BOOLEAN,
                           args : Seq(Nat)]
                 /\ f.callee \in Nat /\ f.span \in Spans /\ f.args \in Seq(Nat)
<1>1. \/ f \in {StatementFrame, ExpressionStatementFrame}
      \/ f \in [rule : {"module"}, node : Nat]
      \/ f \in [rule : {"block"}, node : Nat, start : Nat]
      \/ f \in [rule : {"let"}, start : Nat, expects : {"mut", "name", "=", ";"},
               value : {"let", "mut"}, name_node : Nat, block : Nat]
      \/ f \in [rule : {"return", "group"}, start : Nat]
      \/ f \in [rule : {"expression"}, min : -1..8, left : Nat,
               op : call.tokens \cup {EndOfFile}]
      \/ f \in [rule : {"unary"}, op : call.tokens, start : Nat]
      \/ f \in [rule : {"call"}, callee : Nat, span : Spans, open : BOOLEAN, args : Seq(Nat)]
  BY DEF Frames
<1>2. CASE f \in {StatementFrame, ExpressionStatementFrame}
  <2>1. f.rule \in {"statement", "expression_statement"}
    BY <1>2 DEF StatementFrame, ExpressionStatementFrame
  <2> QED
    BY <2>1
<1>3. CASE f \in [rule : {"module"}, node : Nat]
  BY <1>3
<1>4. CASE f \in [rule : {"block"}, node : Nat, start : Nat]
  BY <1>4
<1>5. CASE f \in [rule : {"let"}, start : Nat, expects : {"mut", "name", "=", ";"},
                  value : {"let", "mut"}, name_node : Nat, block : Nat]
  <2>1. "let" \in STRING /\ "mut" \in STRING
    BY OwnTextsAreStrings DEF OwnTextsAreStrings
  <2>2. f.rule = "let" /\ f.start \in Nat /\ f.value \in {"let", "mut"} /\ f.name_node \in Nat
    BY <1>5
  <2>3. f.value \in STRING
    BY <2>1, <2>2
  <2> QED
    BY <1>5, <2>2, <2>3
<1>6. CASE f \in [rule : {"return", "group"}, start : Nat]
  BY <1>6
<1>7. CASE f \in [rule : {"expression"}, min : -1..8, left : Nat,
                  op : call.tokens \cup {EndOfFile}]
  BY <1>7
<1>8. CASE f \in [rule : {"unary"}, op : call.tokens, start : Nat]
  BY <1>8
<1>9. CASE f \in [rule : {"call"}, callee : Nat, span : Spans, open : BOOLEAN, args : Seq(Nat)]
  BY <1>9
<1> QED
  BY <1>1, <1>2, <1>3, <1>4, <1>5, <1>6, <1>7, <1>8, <1>9

(* The frames the parser makes are frames, and settled as soon as their nodes    *)
(* are there.                                                                   *)
LEMMA NewFrames ==
    /\ StatementFrame \in Frames /\ ExpressionStatementFrame \in Frames
    /\ \A id \in Nat : ModuleFrame(id) \in Frames
    /\ \A id, start \in Nat : BlockFrame(id, start) \in Frames
    /\ \A start \in Nat : /\ LetFrame(start) \in Frames /\ ReturnFrame(start) \in Frames
                          /\ GroupFrame(start) \in Frames
    /\ \A min \in -1..8 : ExpressionFrame(min) \in Frames
    /\ \A op \in call.tokens : \A start \in Nat : UnaryFrame(op, start) \in Frames
    /\ \A callee \in Nat, span \in Spans : CallFrame(callee, span) \in Frames
<1>1. StatementFrame \in Frames /\ ExpressionStatementFrame \in Frames
  BY DEF Frames
<1>2. \A id \in Nat : ModuleFrame(id) \in Frames
  BY DEF Frames, ModuleFrame
<1>3. \A id, start \in Nat : BlockFrame(id, start) \in Frames
  BY DEF Frames, BlockFrame
<1>4. \A start \in Nat : LetFrame(start) \in Frames
  BY DEF Frames, LetFrame, NoNode
<1>5. \A start \in Nat : ReturnFrame(start) \in Frames /\ GroupFrame(start) \in Frames
  BY DEF Frames, ReturnFrame, GroupFrame
<1>6. \A min \in -1..8 : ExpressionFrame(min) \in Frames
  BY DEF Frames, ExpressionFrame, NoNode
<1>7. \A op \in call.tokens : \A start \in Nat : UnaryFrame(op, start) \in Frames
  BY DEF Frames, UnaryFrame
<1>8. \A callee \in Nat, span \in Spans : CallFrame(callee, span) \in Frames
  <2> SUFFICES ASSUME NEW callee \in Nat, NEW span \in Spans
               PROVE  CallFrame(callee, span) \in Frames
    OBVIOUS
  <2>1. <<>> \in Seq(Nat)
    OBVIOUS
  <2> QED
    BY <2>1 DEF Frames, CallFrame
<1> QED
  BY <1>1, <1>2, <1>3, <1>4, <1>5, <1>6, <1>7, <1>8

(* The frames calls begin with refer to no node but those named.                *)
LEMMA NewFramesSettled ==
    ASSUME NEW ids
    PROVE  /\ Settled(StatementFrame, ids) /\ Settled(ExpressionStatementFrame, ids)
           /\ Waiting(StatementFrame) /\ Waiting(ExpressionStatementFrame)
           /\ \A id \in ids : Settled(ModuleFrame(id), ids) /\ Waiting(ModuleFrame(id))
           /\ \A id \in ids : \A start : Settled(BlockFrame(id, start), ids)
           /\ \A start : /\ Settled(LetFrame(start), ids)
                        /\ Settled(ReturnFrame(start), ids) /\ Settled(GroupFrame(start), ids)
                        /\ Waiting(ReturnFrame(start)) /\ Waiting(GroupFrame(start))
           /\ \A min : Settled(ExpressionFrame(min), ids) /\ Waiting(ExpressionFrame(min))
           /\ \A op, start : Settled(UnaryFrame(op, start), ids) /\ Waiting(UnaryFrame(op, start))
           /\ \A id \in ids : \A span : Settled(CallFrame(id, span), ids)
<1>1. Range(<<>>) = {}
  BY RangeOfTuples
<1>2. /\ Settled(StatementFrame, ids) /\ Settled(ExpressionStatementFrame, ids)
      /\ Waiting(StatementFrame) /\ Waiting(ExpressionStatementFrame)
  BY DEF Settled, Waiting, StatementFrame, ExpressionStatementFrame
<1>3. /\ \A id \in ids : Settled(ModuleFrame(id), ids) /\ Waiting(ModuleFrame(id))
      /\ \A id \in ids : \A start : Settled(BlockFrame(id, start), ids)
  BY DEF Settled, Waiting, ModuleFrame, BlockFrame
<1>4. \A start : Settled(LetFrame(start), ids)
  BY DEF Settled, LetFrame
<1>5. \A start : /\ Settled(ReturnFrame(start), ids) /\ Settled(GroupFrame(start), ids)
                /\ Waiting(ReturnFrame(start)) /\ Waiting(GroupFrame(start))
  BY DEF Settled, Waiting, ReturnFrame, GroupFrame
<1>6. \A min : Settled(ExpressionFrame(min), ids) /\ Waiting(ExpressionFrame(min))
  BY DEF Settled, Waiting, ExpressionFrame
<1>7. \A op, start : Settled(UnaryFrame(op, start), ids) /\ Waiting(UnaryFrame(op, start))
  BY DEF Settled, Waiting, UnaryFrame
<1>8. \A id \in ids : \A span : Settled(CallFrame(id, span), ids)
  BY <1>1 DEF Settled, CallFrame
<1> QED
  BY <1>2, <1>3, <1>4, <1>5, <1>6, <1>7, <1>8

(* An expression parsed from the lowest precedence.                             *)
LEMMA WholeExpression ==
    ASSUME NEW ids
    PROVE  ExpressionFrame(1) \in Frames /\ Settled(ExpressionFrame(1), ids)
<1>1. 1 \in -1..8
  OBVIOUS
<1>2. ExpressionFrame(1) \in Frames
  BY <1>1, NewFrames
<1>3. Settled(ExpressionFrame(1), ids)
  BY NewFramesSettled
<1> QED
  BY <1>2, <1>3

-------------------------------------------------------------------------------
(* The stack.                                                                   *)

(* The innermost call and those that wait for it.                               *)
LEMMA TopTyped ==
    ASSUME StackOK, status = "parsing"
    PROVE  /\ Len(stack) \in Nat \ {0} /\ DOMAIN stack = 1..Len(stack)
           /\ Top \in Frames /\ Settled(Top, New) /\ (returned # NoNode => Waiting(Top))
           /\ Callers \in Seq(Frames) /\ Len(Callers) = Len(stack) - 1
           /\ \A i \in 1..(Len(stack) - 1) : Callers[i] = stack[i] /\ Waiting(stack[i])
           /\ stack = Append(Callers, Top)
<1>1. PICK n : n = Len(stack)
  OBVIOUS
<1>2. n \in Nat \ {0} /\ DOMAIN stack = 1..n
  BY <1>1, EmptySeq, LenProperties DEF StackOK
<1>3. Top \in Frames /\ Settled(Top, New) /\ (returned # NoNode => Waiting(Top))
  BY <1>1, <1>2 DEF StackOK, Top
<1>4. Callers \in Seq(Frames) /\ Len(Callers) = n - 1 /\ \A i \in 1..(n - 1) : Callers[i] = stack[i]
  <2>1. PICK m : m = n - 1
    OBVIOUS
  <2>2. 1 \in Int /\ m \in Int /\ m - 1 + 1 = m /\ \A i \in 1..m : stack[i] \in Frames /\ 1 + i - 1 = i
    BY <1>2, <2>1 DEF StackOK
  <2>3. /\ SubSeq(stack, 1, m) \in Seq(Frames)
        /\ Len(SubSeq(stack, 1, m)) = IF 1 <= m THEN m - 1 + 1 ELSE 0
        /\ \A i \in 1..(m - 1 + 1) : SubSeq(stack, 1, m)[i] = stack[1 + i - 1]
    BY <2>2, SubSeqProperties
  <2>4. Callers = SubSeq(stack, 1, m)
    BY <1>1, <2>1 DEF Callers
  <2>5. Len(SubSeq(stack, 1, m)) = m
    BY <1>2, <2>1, <2>2, <2>3
  <2> QED
    BY <2>1, <2>2, <2>3, <2>4, <2>5
<1>5. \A i \in 1..(n - 1) : Waiting(stack[i])
  BY <1>1, <1>2 DEF StackOK
<1>6. stack = Append(Callers, Top)
  <2>1. PICK callers : callers = Callers
    OBVIOUS
  <2>2. PICK top : top = Top
    OBVIOUS
  <2>3. PICK whole : whole = Append(callers, top)
    OBVIOUS
  <2>4. whole \in Seq(Frames) /\ Len(whole) = n
    BY <1>2, <1>3, <1>4, <2>1, <2>2, <2>3, AppendProperties
  <2>5. \A i \in 1..n : whole[i] = IF i = n THEN top ELSE callers[i]
    BY <1>2, <1>3, <1>4, <2>1, <2>2, <2>3, AppendProperties
  <2>6. \A i \in 1..n : stack[i] = whole[i]
    BY <1>1, <1>2, <1>4, <2>1, <2>2, <2>5 DEF Top
  <2> QED
    BY <1>1, <1>2, <2>1, <2>2, <2>3, <2>4, <2>6, SeqEqual DEF StackOK
<1> QED
  BY <1>1, <1>2, <1>3, <1>4, <1>5, <1>6

(* A frame is settled with more nodes if it is with these.                      *)
LEMMA StaysSettled ==
    ASSUME NEW f, NEW ids, Settled(f, ids), NEW more, ids \subseteq more
    PROVE  Settled(f, more)
BY DEF Settled

(* The frames below are kept, and those above are as they must be.              *)
LEMMA StackKept ==
    ASSUME StackOK, status = "parsing", UNCHANGED Input, New \subseteq New',
           returned' \in New' \cup {NoNode},
           NEW kept \in 0..Len(stack), \A i \in 1..kept : Waiting(stack[i]),
           stack' \in Seq(Frames), kept <= Len(stack'),
           \A i \in 1..kept : stack'[i] = stack[i],
           \A i \in (kept + 1)..Len(stack') :
              /\ Settled(stack'[i], New')
              /\ i < Len(stack') \/ returned' # NoNode => Waiting(stack'[i]),
           status' = IF stack' = <<>> THEN "parsed" ELSE "parsing"
    PROVE  StackOK'
<1>1. Frames' = Frames
  BY DEF Frames, Input
<1>2. Len(stack) \in Nat /\ DOMAIN stack = 1..Len(stack) /\ Len(stack') \in Nat /\ DOMAIN stack' = 1..Len(stack')
  BY LenProperties DEF StackOK
<1>3. ASSUME NEW i \in DOMAIN stack'
      PROVE  /\ Settled(stack'[i], New')
             /\ i < Len(stack') \/ returned' # NoNode => Waiting(stack'[i])
  <2>1. CASE i \in 1..kept
    <3>1. i \in DOMAIN stack /\ stack'[i] = stack[i] /\ Waiting(stack[i])
      BY <1>2, <2>1
    <3>2. Settled(stack[i], New)
      BY <3>1 DEF StackOK
    <3> QED
      BY <3>1, <3>2, StaysSettled
  <2>2. CASE i \notin 1..kept
    BY <1>2, <2>2
  <2> QED
    BY <2>1, <2>2
<1> QED
  BY <1>1, <1>3 DEF StackOK

(* The call in progress goes on with other locals.                              *)
LEMMA Becomes ==
    ASSUME StackOK, status = "parsing", UNCHANGED <<Input, status>>, New \subseteq New',
           NEW f \in Frames, Settled(f, New'), Become(f)
    PROVE  StackOK'
<1>1. PICK n : n = Len(stack)
  OBVIOUS
<1>2. /\ n \in Nat \ {0} /\ Callers \in Seq(Frames) /\ Len(Callers) = n - 1
      /\ \A i \in 1..(n - 1) : Callers[i] = stack[i] /\ Waiting(stack[i])
  BY <1>1, TopTyped
<1>3. stack' = Append(Callers, f) /\ returned' = NoNode
  BY DEF Become
<1>4. /\ stack' \in Seq(Frames) /\ Len(stack') = n /\ stack'[n] = f
      /\ \A i \in 1..(n - 1) : stack'[i] = stack[i]
  BY <1>2, <1>3, AppendProperties
<1>5. stack' # <<>> /\ n - 1 \in 0..n /\ \A i \in (n - 1 + 1)..n : i = n
  BY <1>2, <1>4
<1>6. \A i \in (n - 1 + 1)..Len(stack') :
         /\ Settled(stack'[i], New')
         /\ i < Len(stack') \/ returned' # NoNode => Waiting(stack'[i])
  BY <1>2, <1>3, <1>4, <1>5
<1>7. PICK kept : kept = n - 1
  OBVIOUS
<1>8. /\ kept \in 0..Len(stack) /\ kept <= Len(stack') /\ \A i \in 1..kept : Waiting(stack[i])
      /\ \A i \in 1..kept : stack'[i] = stack[i]
      /\ returned' \in New' \cup {NoNode} /\ status' = "parsing"
  BY <1>1, <1>2, <1>3, <1>4, <1>7
<1> QED
  BY <1>4, <1>5, <1>6, <1>7, <1>8, StackKept

(* It makes a call.                                                             *)
LEMMA BecomesAndCalls ==
    ASSUME StackOK, status = "parsing", UNCHANGED <<Input, status>>, New \subseteq New',
           NEW f \in Frames, Settled(f, New'), Waiting(f),
           NEW g \in Frames, Settled(g, New'), BecomeAndCall(f, g)
    PROVE  StackOK'
<1>1. PICK n : n = Len(stack)
  OBVIOUS
<1>2. /\ n \in Nat \ {0} /\ Callers \in Seq(Frames) /\ Len(Callers) = n - 1
      /\ \A i \in 1..(n - 1) : Callers[i] = stack[i] /\ Waiting(stack[i])
  BY <1>1, TopTyped
<1>3. PICK two : two = <<f, g>>
  OBVIOUS
<1>4. two \in Seq(Frames) /\ Len(two) = 2 /\ two[1] = f /\ two[2] = g
  BY <1>3
<1>5. stack' = Callers \o two /\ returned' = NoNode
  BY <1>3 DEF BecomeAndCall
<1>6. PICK kept : kept = n - 1
  OBVIOUS
<1>7. kept \in Nat /\ Len(Callers) = kept /\ kept \in 0..Len(stack)
  BY <1>1, <1>2, <1>6
<1>8. /\ stack' \in Seq(Frames) /\ Len(stack') = kept + 2
      /\ \A i \in 1..(kept + 2) :
            stack'[i] = IF i <= kept THEN Callers[i] ELSE two[i - kept]
  <2>1. PICK callers : callers = Callers
    OBVIOUS
  <2>2. callers \in Seq(Frames) /\ Len(callers) = kept
    BY <1>2, <1>7, <2>1
  <2>3. PICK all : all = callers \o two
    OBVIOUS
  <2>4. two \in Seq(Frames) /\ Len(two) = 2
    BY <1>4
  <2>5. /\ all \in Seq(Frames) /\ Len(all) = kept + 2
        /\ \A i \in 1..(kept + 2) : all[i] = IF i <= kept THEN callers[i] ELSE two[i - kept]
    <3>1. all \in Seq(Frames) /\ Len(all) = Len(callers) + Len(two)
      BY <2>2, <2>3, <2>4, ConcatProperties
    <3>2. \A i \in 1..(Len(callers) + Len(two)) :
             all[i] = IF i <= Len(callers) THEN callers[i] ELSE two[i - Len(callers)]
      BY <2>2, <2>3, <2>4, ConcatProperties
    <3> QED
      BY <2>2, <2>4, <3>1, <3>2
  <2> QED
    BY <1>5, <2>1, <2>3, <2>5
<1>9. \A i \in 1..kept : stack'[i] = stack[i] /\ Waiting(stack[i])
  BY <1>2, <1>6, <1>7, <1>8
<1>10. stack'[kept + 1] = f /\ stack'[kept + 2] = g
  <2>1. PICK j : j = kept + 1
    OBVIOUS
  <2>2. PICK k : k = kept + 2
    OBVIOUS
  <2>3. /\ j \in 1..(kept + 2) /\ ~(j <= kept) /\ j - kept = 1
        /\ k \in 1..(kept + 2) /\ ~(k <= kept) /\ k - kept = 2
    BY <1>7, <2>1, <2>2
  <2>4. stack'[j] = two[j - kept] /\ stack'[k] = two[k - kept]
    BY <1>8, <2>3
  <2> QED
    BY <1>4, <2>1, <2>2, <2>3, <2>4
<1>11. \A i \in (kept + 1)..Len(stack') :
         /\ Settled(stack'[i], New')
         /\ i < Len(stack') \/ returned' # NoNode => Waiting(stack'[i])
  <2> SUFFICES ASSUME NEW i \in (kept + 1)..(kept + 2)
               PROVE  Settled(stack'[i], New') /\ (i < kept + 2 => Waiting(stack'[i]))
    BY <1>5, <1>8
  <2>1. i = kept + 1 \/ i = kept + 2
    BY <1>7
  <2> QED
    BY <1>7, <1>10, <2>1
<1>12. stack' # <<>> /\ kept <= Len(stack') /\ returned' \in New' \cup {NoNode} /\ status' = "parsing"
  BY <1>5, <1>7, <1>8
<1> QED
  BY <1>7, <1>8, <1>9, <1>11, <1>12, StackKept

(* It is called from where it waits, with nothing returned yet.                  *)
LEMMA Pushes ==
    ASSUME StackOK, status = "parsing", UNCHANGED <<Input, status, returned>>,
           New \subseteq New', returned = NoNode, Waiting(Top),
           NEW f \in Frames, Settled(f, New'), stack' = Append(stack, f)
    PROVE  StackOK'
<1>1. PICK n : n = Len(stack)
  OBVIOUS
<1>2. n \in Nat \ {0} /\ \A i \in 1..n : Waiting(stack[i])
  <2>1. n \in Nat \ {0} /\ \A i \in 1..(n - 1) : Waiting(stack[i])
    BY <1>1, TopTyped
  <2>2. \A i \in 1..n : i \in 1..(n - 1) \/ i = n
    BY <2>1
  <2> QED
    BY <1>1, <2>1, <2>2 DEF Top
<1>3. /\ stack' \in Seq(Frames) /\ Len(stack') = n + 1 /\ stack'[n + 1] = f
      /\ \A i \in 1..n : stack'[i] = stack[i]
  BY <1>1, <1>2, AppendProperties DEF StackOK
<1>4. \A i \in (n + 1)..Len(stack') :
         /\ Settled(stack'[i], New')
         /\ i < Len(stack') \/ returned' # NoNode => Waiting(stack'[i])
  <2>1. \A i \in (n + 1)..(n + 1) : i = n + 1 /\ ~(i < n + 1)
    BY <1>2
  <2> QED
    BY <1>3, <2>1
<1>5. /\ n \in 0..Len(stack) /\ n <= Len(stack') /\ stack' # <<>>
      /\ returned' \in New' \cup {NoNode} /\ status' = "parsing"
  BY <1>1, <1>2, <1>3
<1> QED
  BY <1>2, <1>3, <1>4, <1>5, StackKept

(* A call that at once makes another.                                           *)
LEMMA PushesTwo ==
    ASSUME StackOK, status = "parsing", UNCHANGED <<Input, status, returned>>,
           New \subseteq New', returned = NoNode, Waiting(Top),
           NEW f \in Frames, Settled(f, New'), Waiting(f),
           NEW g \in Frames, Settled(g, New'), stack' = stack \o <<f, g>>
    PROVE  StackOK'
<1>1. PICK n : n = Len(stack)
  OBVIOUS
<1>2. n \in Nat \ {0} /\ \A i \in 1..n : Waiting(stack[i])
  <2>1. n \in Nat \ {0} /\ \A i \in 1..(n - 1) : Waiting(stack[i])
    BY <1>1, TopTyped
  <2>2. \A i \in 1..n : i \in 1..(n - 1) \/ i = n
    BY <2>1
  <2> QED
    BY <1>1, <2>1, <2>2 DEF Top
<1>3. PICK two : two = <<f, g>>
  OBVIOUS
<1>4. two \in Seq(Frames) /\ Len(two) = 2 /\ two[1] = f /\ two[2] = g
  BY <1>3
<1>5. /\ stack' \in Seq(Frames) /\ Len(stack') = n + 2
      /\ \A i \in 1..(n + 2) : stack'[i] = IF i <= n THEN stack[i] ELSE two[i - n]
  BY <1>1, <1>3, <1>4, ConcatProperties DEF StackOK
<1>6. \A i \in 1..n : stack'[i] = stack[i]
  BY <1>2, <1>5
<1>7. stack'[n + 1] = f /\ stack'[n + 2] = g
  <2>1. PICK j : j = n + 1
    OBVIOUS
  <2>2. PICK k : k = n + 2
    OBVIOUS
  <2>3. /\ j \in 1..(n + 2) /\ ~(j <= n) /\ j - n = 1
        /\ k \in 1..(n + 2) /\ ~(k <= n) /\ k - n = 2
    BY <1>2, <2>1, <2>2
  <2>4. stack'[j] = two[j - n] /\ stack'[k] = two[k - n]
    BY <1>5, <2>3
  <2> QED
    BY <1>4, <2>1, <2>2, <2>3, <2>4
<1>8. \A i \in (n + 1)..Len(stack') :
         /\ Settled(stack'[i], New')
         /\ i < Len(stack') \/ returned' # NoNode => Waiting(stack'[i])
  <2> SUFFICES ASSUME NEW i \in (n + 1)..(n + 2)
               PROVE  Settled(stack'[i], New') /\ (i < n + 2 => Waiting(stack'[i]))
    BY <1>5
  <2>1. n \in Nat
    BY <1>2
  <2>2. (i = n + 1 \/ i = n + 2) /\ (i = n + 2 => ~(i < n + 2))
    BY <2>1
  <2>3. i = n + 1 => Settled(stack'[i], New') /\ Waiting(stack'[i])
    BY <1>7
  <2>4. i = n + 2 => Settled(stack'[i], New')
    BY <1>7
  <2> QED
    BY <2>2, <2>3, <2>4
<1>9. /\ n \in 0..Len(stack) /\ n <= Len(stack') /\ stack' # <<>>
      /\ returned' \in New' \cup {NoNode} /\ status' = "parsing"
  BY <1>1, <1>2, <1>5
<1> QED
  BY <1>2, <1>5, <1>6, <1>8, <1>9, StackKept

(* It returns a node to its caller, which waits for one.                        *)
LEMMA Returns ==
    ASSUME StackOK, status = "parsing", UNCHANGED Input, New \subseteq New',
           NEW id, id \in New', Return(id)
    PROVE  StackOK'
<1>1. PICK n : n = Len(stack)
  OBVIOUS
<1>2. /\ n \in Nat \ {0} /\ Callers \in Seq(Frames) /\ Len(Callers) = n - 1
      /\ \A i \in 1..(n - 1) : Callers[i] = stack[i] /\ Waiting(stack[i])
  BY <1>1, TopTyped
<1>3. stack' = Callers /\ returned' = id /\ status' = IF n = 1 THEN "parsed" ELSE "parsing"
  BY <1>1 DEF Return
<1>4. PICK kept : kept = n - 1
  OBVIOUS
<1>5. /\ kept \in 0..Len(stack) /\ kept <= Len(stack') /\ Len(stack') = kept
      /\ \A i \in 1..kept : Waiting(stack[i]) /\ stack'[i] = stack[i]
      /\ stack' \in Seq(Frames)
  BY <1>1, <1>2, <1>3, <1>4
<1>6. status' = IF stack' = <<>> THEN "parsed" ELSE "parsing"
  <2>1. stack' = <<>> <=> kept = 0
    BY <1>5, EmptySeq
  <2>2. kept = 0 <=> n = 1
    BY <1>2, <1>4
  <2> QED
    BY <1>3, <2>1, <2>2
<1>7. \A i \in (kept + 1)..Len(stack') : FALSE
  BY <1>2, <1>4, <1>5
<1>8. \A i \in (kept + 1)..Len(stack') :
         /\ Settled(stack'[i], New')
         /\ i < Len(stack') \/ returned' # NoNode => Waiting(stack'[i])
  BY <1>7
<1>9. returned' \in New' \cup {NoNode}
  BY <1>3
<1> QED
  BY <1>5, <1>6, <1>8, <1>9, StackKept

-------------------------------------------------------------------------------
(* The steps.                                                                   *)

(* A step that neither calls nor returns.                                       *)
LEMMA StackStays ==
    ASSUME StackOK, UNCHANGED <<stack, status, Input>>, New \subseteq New', returned' = NoNode
    PROVE  StackOK'
<1>1. Frames' = Frames
  BY DEF Frames, Input
<1>2. \A i \in DOMAIN stack : Settled(stack[i], New') /\ (i < Len(stack) => Waiting(stack[i]))
  BY StaysSettled DEF StackOK
<1> QED
  BY <1>1, <1>2 DEF StackOK

(* What a step may use of the frame it is in.                                   *)
LEMMA InFrame ==
    ASSUME ParserInv, NEW rule, Parsing(rule)
    PROVE  /\ status = "parsing" /\ Top \in Frames /\ Top.rule = rule
           /\ Settled(Top, New) /\ (returned # NoNode => Waiting(Top))
           /\ ReadingOK /\ ArenaOK /\ StackOK
           /\ Len(read) \in Nat /\ token.lexeme \in STRING
           /\ returned # NoNode => returned \in New
           /\ returned \in Nat
<1>1. status = "parsing" /\ Top.rule = rule /\ ReadingOK /\ ArenaOK /\ StackOK
  BY DEF ParserInv, Parsing
<1>2. Top \in Frames /\ Settled(Top, New) /\ (returned # NoNode => Waiting(Top))
  BY <1>1, TopTyped
<1>3. Len(read) \in Nat /\ token.lexeme \in STRING
  BY <1>1, TokensTyped DEF ReadingOK
<1>4. returned \in New \cup {NoNode}
  BY <1>1 DEF StackOK
<1>5. returned \in Nat
  BY <1>1, <1>4, ArenaTyped DEF NoNode
<1> QED
  BY <1>1, <1>2, <1>3, <1>4, <1>5

(* CollectStatement keeps the parser's invariant.                               *)
LEMMA CollectStatementTyped ==
    ASSUME ParserInv, CollectStatement
    PROVE  ParserInv'
<1>1. Parsing("module") \/ Parsing("block")
  BY DEF CollectStatement, Resumed
<1>2. /\ Top.rule \in {"module", "block"} /\ Settled(Top, New) /\ returned \in Nat
      /\ ReadingOK /\ ArenaOK /\ StackOK
  BY <1>1, InFrame
<1>3. PICK id : id = Top.node
  OBVIOUS
<1>4. id \in New /\ id \in DOMAIN nodes /\ nodes[id] \in AstNodes
  BY <1>2, <1>3, ArenaTyped DEF Settled
<1>5. PICK node : node = [nodes[id] EXCEPT !.children = Append(nodes[id].children, returned)]
  OBVIOUS
<1>6. node \in AstNodes
  <2>1. nodes[id].children \in Seq(Nat)
    BY <1>4 DEF AstNodes
  <2>2. Append(nodes[id].children, returned) \in Seq(Nat)
    BY <1>2, <2>1, AppendProperties
  <2> QED
    BY <1>4, <1>5, <2>2 DEF AstNodes
<1>7. nodes' = [nodes EXCEPT ![id] = node]
  BY <1>3, <1>4, <1>5 DEF CollectStatement
<1>8. UNCHANGED <<capacity, stack, status, dangled, Input>> /\ returned' = NoNode /\ Stay
  BY DEF CollectStatement
<1>9. Grows
  BY <1>2, <1>4, <1>6, <1>7, <1>8, NodeRewritten
<1>10. ReadingOK'
  BY <1>2, <1>8, StayReads
<1>11. StackOK'
  BY <1>2, <1>8, <1>9, StackStays DEF Grows
<1> QED
  BY <1>8, <1>9, <1>10, <1>11 DEF ParserInv, Grows

(* MoreStatements keeps the parser's invariant.                                 *)
LEMMA MoreStatementsTyped ==
    ASSUME ParserInv, MoreStatements
    PROVE  ParserInv'
<1>1. Parsing("module") \/ Parsing("block")
  BY DEF MoreStatements, Entered
<1>2. /\ status = "parsing" /\ Top \in Frames /\ Top.rule \in {"module", "block"}
      /\ Settled(Top, New) /\ ReadingOK /\ ArenaOK /\ StackOK
  BY <1>1, InFrame
<1>3. /\ BecomeAndCall(Top, StatementFrame) /\ Stay
      /\ UNCHANGED <<status, Input>> /\ UNCHANGED Arena /\ UNCHANGED dangled
  BY DEF MoreStatements
<1>4. Grows
  BY <1>2, <1>3, ArenaStays
<1>5. Waiting(Top) /\ Settled(Top, New')
  BY <1>2, <1>4, StaysSettled DEF Waiting, Grows
<1>6. StackOK'
  BY <1>2, <1>3, <1>4, <1>5, NewFrames, NewFramesSettled, BecomesAndCalls DEF Grows
<1>7. ReadingOK'
  BY <1>2, <1>3, StayReads
<1> QED
  BY <1>3, <1>4, <1>6, <1>7 DEF ParserInv, Grows

(* EndModule keeps the parser's invariant.                                      *)
LEMMA EndModuleTyped ==
    ASSUME ParserInv, EndModule
    PROVE  ParserInv'
<1>1. Parsing("module")
  BY DEF EndModule, Entered
<1>2. /\ status = "parsing" /\ Top \in Frames /\ Top.rule = "module"
      /\ Settled(Top, New) /\ ReadingOK /\ ArenaOK /\ StackOK
  BY <1>1, InFrame
<1>3. Return(Top.node) /\ Stay /\ UNCHANGED Input /\ UNCHANGED Arena /\ UNCHANGED dangled
  BY DEF EndModule
<1>4. Grows
  BY <1>2, <1>3, ArenaStays
<1>5. Top.node \in New'
  BY <1>2, <1>4 DEF Settled, Grows
<1>6. StackOK'
  BY <1>2, <1>3, <1>4, <1>5, Returns DEF Grows
<1>7. ReadingOK'
  BY <1>2, <1>3, StayReads
<1> QED
  BY <1>3, <1>4, <1>6, <1>7 DEF ParserInv, Grows

(* EndBlock keeps the parser's invariant.                                       *)
LEMMA EndBlockTyped ==
    ASSUME ParserInv, EndBlock
    PROVE  ParserInv'
<1>1. Parsing("block")
  BY DEF EndBlock, Entered
<1>2. /\ status = "parsing" /\ Top \in Frames /\ Top.rule = "block"
      /\ Settled(Top, New) /\ ReadingOK /\ ArenaOK /\ StackOK
  BY <1>1, InFrame
<1>3. PICK id : id = Top.node
  OBVIOUS
<1>4. id \in New /\ id \in DOMAIN nodes /\ nodes[id] \in AstNodes
  BY <1>2, <1>3, ArenaTyped DEF Settled
<1>5. PICK node : node = [nodes[id] EXCEPT !.span = To(Top.start)]
  OBVIOUS
<1>6. node \in AstNodes
  <2>1. To(Top.start) \in Spans
    BY <1>2, FrameForms, SpansTyped
  <2> QED
    BY <1>4, <1>5, <2>1 DEF AstNodes
<1>7. nodes' = [nodes EXCEPT ![id] = node]
  BY <1>3, <1>4, <1>5 DEF EndBlock
<1>8. /\ Return(id) /\ advance /\ UNCHANGED capacity /\ UNCHANGED Input /\ UNCHANGED dangled
      /\ token.kind # "EndOfFile"
  BY <1>3 DEF EndBlock, check_symbol, IsSymbol
<1>9. Grows /\ id \in New'
  BY <1>2, <1>4, <1>6, <1>7, <1>8, NodeRewritten
<1>10. ReadingOK'
  BY <1>2, <1>8, AdvanceReads
<1>11. StackOK'
  BY <1>2, <1>8, <1>9, Returns DEF Grows
<1> QED
  BY <1>8, <1>9, <1>10, <1>11 DEF ParserInv, Grows

(* BeginBlock keeps the parser's invariant.                                     *)
LEMMA BeginBlockTyped ==
    ASSUME ParserInv, BeginBlock
    PROVE  ParserInv'
<1>1. Parsing("statement")
  BY DEF BeginBlock, Entered
<1>2. status = "parsing" /\ ReadingOK /\ ArenaOK /\ StackOK /\ Len(read) \in Nat
  BY <1>1, InFrame
<1>3. PICK node : node = Leaf("BlockStmt", Here, "")
  OBVIOUS
<1>4. node \in AstNodes
  <2>1. Here \in Spans /\ "BlockStmt" \in AstKinds /\ <<>> \in Seq(Nat)
    BY <1>2, SpansTyped DEF AstKinds
  <2> QED
    BY <1>3, <2>1, NodesTyped, OwnTextsAreStrings DEF OwnTextsAreStrings, Leaf
<1>5. PICK id : id = NextId
  OBVIOUS
<1>6. /\ create_node(node) /\ Become(BlockFrame(id, Len(read))) /\ advance
      /\ UNCHANGED <<Input, status>> /\ UNCHANGED Input /\ UNCHANGED dangled
      /\ token.kind # "EndOfFile"
  BY <1>3, <1>5 DEF BeginBlock, check_symbol, IsSymbol
<1>7. Grows /\ id \in New' /\ id \in Nat
  BY <1>2, <1>4, <1>5, <1>6, NodeCreated, ArenaTyped
<1>8. StackOK'
  BY <1>2, <1>6, <1>7, NewFrames, NewFramesSettled, Becomes DEF Grows
<1>9. ReadingOK'
  BY <1>2, <1>6, AdvanceReads
<1> QED
  BY <1>6, <1>7, <1>8, <1>9 DEF ParserInv, Grows

(* BeginLet keeps the parser's invariant.                                       *)
LEMMA BeginLetTyped ==
    ASSUME ParserInv, BeginLet
    PROVE  ParserInv'
<1>1. Parsing("statement")
  BY DEF BeginLet, Entered
<1>2. status = "parsing" /\ ReadingOK /\ ArenaOK /\ StackOK /\ Len(read) \in Nat
  BY <1>1, InFrame
<1>3. /\ Become(LetFrame(Len(read))) /\ advance /\ UNCHANGED Arena
      /\ UNCHANGED <<Input, status>> /\ UNCHANGED Input /\ UNCHANGED dangled
      /\ token.kind # "EndOfFile"
  BY DEF BeginLet, check_keyword, IsKeyword
<1>4. Grows
  BY <1>2, <1>3, ArenaStays
<1>5. StackOK'
  BY <1>2, <1>3, <1>4, NewFrames, NewFramesSettled, Becomes DEF Grows
<1>6. ReadingOK'
  BY <1>2, <1>3, AdvanceReads
<1> QED
  BY <1>3, <1>4, <1>5, <1>6 DEF ParserInv, Grows

(* LetMut keeps the parser's invariant.                                         *)
LEMMA LetMutTyped ==
    ASSUME ParserInv, LetMut
    PROVE  ParserInv'
<1>1. Parsing("let") /\ Top.expects = "mut"
  BY DEF LetMut, Entered
<1>2. /\ status = "parsing" /\ Top \in Frames /\ Top.rule = "let"
      /\ Settled(Top, New) /\ ReadingOK /\ ArenaOK /\ StackOK
  BY <1>1, InFrame
<1>3. PICK f : f = [Top EXCEPT !.expects = "name"]
  OBVIOUS
<1>4. PICK g : g = [f EXCEPT !.value = "mut"]
  OBVIOUS
<1>5. g \in Frames /\ Settled(g, New)
  <2>1. Top \in [rule : {"let"}, start : Nat, expects : {"mut", "name", "=", ";"},
                 value : {"let", "mut"}, name_node : Nat, block : Nat]
    BY <1>2, FrameForms
  <2>2. /\ f \in [rule : {"let"}, start : Nat, expects : {"mut", "name", "=", ";"},
                  value : {"let", "mut"}, name_node : Nat, block : Nat]
        /\ f.expects = "name" /\ f.name_node = Top.name_node
    BY <1>3, <2>1
  <2>3. /\ g \in [rule : {"let"}, start : Nat, expects : {"mut", "name", "=", ";"},
                  value : {"let", "mut"}, name_node : Nat, block : Nat]
        /\ g.rule = "let" /\ g.expects = "name" /\ g.name_node = Top.name_node
    BY <1>4, <2>2
  <2>4. Top.name_node = NoNode
    BY <1>1, <1>2 DEF Settled
  <2> QED
    BY <2>3, <2>4 DEF Frames, Settled
<1>6. /\ Become(g) /\ advance /\ UNCHANGED Arena
      /\ UNCHANGED <<Input, status>> /\ UNCHANGED Input /\ UNCHANGED dangled
      /\ token.kind # "EndOfFile"
  BY <1>3, <1>4 DEF LetMut, check_keyword, IsKeyword
<1>7. Grows
  BY <1>2, <1>6, ArenaStays
<1>8. StackOK'
  BY <1>2, <1>5, <1>6, <1>7, StaysSettled, Becomes DEF Grows
<1>9. ReadingOK'
  BY <1>2, <1>6, AdvanceReads
<1> QED
  BY <1>6, <1>7, <1>8, <1>9 DEF ParserInv, Grows

(* LetName keeps the parser's invariant.                                        *)
LEMMA LetNameTyped ==
    ASSUME ParserInv, LetName
    PROVE  ParserInv'
<1>1. Parsing("let")
  BY DEF LetName, Entered
<1>2. /\ status = "parsing" /\ Top \in Frames /\ Top.rule = "let" /\ token.lexeme \in STRING
      /\ ReadingOK /\ ArenaOK /\ StackOK
  BY <1>1, InFrame
<1>3. PICK node : node = Leaf("IdentifierExpr", Here, token.lexeme)
  OBVIOUS
<1>4. node \in AstNodes
  <2>1. Here \in Spans /\ "IdentifierExpr" \in AstKinds /\ <<>> \in Seq(Nat)
    BY <1>2, SpansTyped DEF AstKinds
  <2> QED
    BY <1>2, <1>3, <2>1, NodesTyped DEF Leaf
<1>5. PICK id : id = NextId
  OBVIOUS
<1>6. PICK room : room = NextCapacity
  OBVIOUS
<1>7. PICK f : f = [Top EXCEPT !.expects = "="]
  OBVIOUS
<1>8. PICK g : g = [f EXCEPT !.name_node = id]
  OBVIOUS
<1>9. PICK h : h = [g EXCEPT !.block = room]
  OBVIOUS
<1>10. /\ create_node(node) /\ Become(h) /\ advance
       /\ UNCHANGED <<Input, status>> /\ UNCHANGED Input /\ UNCHANGED dangled
       /\ token.kind # "EndOfFile"
  BY <1>3, <1>5, <1>6, <1>7, <1>8, <1>9 DEF LetName
<1>11. Grows /\ id \in New' /\ id \in Nat /\ room \in Nat
  BY <1>2, <1>4, <1>5, <1>6, <1>10, NodeCreated, ArenaTyped
<1>12. h \in Frames /\ Settled(h, New')
  <2>1. Top \in [rule : {"let"}, start : Nat, expects : {"mut", "name", "=", ";"},
                 value : {"let", "mut"}, name_node : Nat, block : Nat]
    BY <1>2, FrameForms
  <2>2. /\ f \in [rule : {"let"}, start : Nat, expects : {"mut", "name", "=", ";"},
                  value : {"let", "mut"}, name_node : Nat, block : Nat]
        /\ f.expects = "="
    BY <1>7, <2>1
  <2>3. /\ g \in [rule : {"let"}, start : Nat, expects : {"mut", "name", "=", ";"},
                  value : {"let", "mut"}, name_node : Nat, block : Nat]
        /\ g.expects = "=" /\ g.name_node = id
    BY <1>8, <1>11, <2>2
  <2>4. /\ h \in [rule : {"let"}, start : Nat, expects : {"mut", "name", "=", ";"},
                  value : {"let", "mut"}, name_node : Nat, block : Nat]
        /\ h.rule = "let" /\ h.expects = "=" /\ h.name_node = id
    BY <1>9, <1>11, <2>3
  <2> QED
    BY <1>11, <2>4 DEF Frames, Settled
<1>13. StackOK'
  BY <1>2, <1>10, <1>11, <1>12, Becomes DEF Grows
<1>14. ReadingOK'
  BY <1>2, <1>10, AdvanceReads
<1> QED
  BY <1>10, <1>11, <1>13, <1>14 DEF ParserInv, Grows

(* LetEquals keeps the parser's invariant.                                      *)
LEMMA LetEqualsTyped ==
    ASSUME ParserInv, LetEquals
    PROVE  ParserInv'
<1>1. Parsing("let") /\ Top.expects = "="
  BY DEF LetEquals, Entered
<1>2. /\ status = "parsing" /\ Top \in Frames /\ Top.rule = "let"
      /\ Settled(Top, New) /\ ReadingOK /\ ArenaOK /\ StackOK
  BY <1>1, InFrame
<1>3. PICK f : f = [Top EXCEPT !.expects = ";"]
  OBVIOUS
<1>4. f \in Frames /\ Settled(f, New) /\ Waiting(f)
  <2>1. Top \in [rule : {"let"}, start : Nat, expects : {"mut", "name", "=", ";"},
                 value : {"let", "mut"}, name_node : Nat, block : Nat]
    BY <1>2, FrameForms
  <2>2. /\ f \in [rule : {"let"}, start : Nat, expects : {"mut", "name", "=", ";"},
                  value : {"let", "mut"}, name_node : Nat, block : Nat]
        /\ f.rule = "let" /\ f.expects = ";" /\ f.name_node = Top.name_node
    BY <1>3, <2>1
  <2>3. Top.name_node \in New
    BY <1>1, <1>2 DEF Settled
  <2> QED
    BY <2>2, <2>3 DEF Frames, Settled, Waiting
<1>5. /\ BecomeAndCall(f, ExpressionFrame(1)) /\ advance /\ UNCHANGED Arena
      /\ UNCHANGED <<Input, status>> /\ UNCHANGED Input /\ UNCHANGED dangled
      /\ token.kind # "EndOfFile"
  BY <1>3 DEF LetEquals, check_symbol, IsSymbol
<1>6. Grows
  BY <1>2, <1>5, ArenaStays
<1>7. ExpressionFrame(1) \in Frames /\ Settled(ExpressionFrame(1), New')
  BY WholeExpression
<1>8. StackOK'
  BY <1>2, <1>4, <1>5, <1>6, <1>7, StaysSettled, BecomesAndCalls DEF Grows
<1>9. ReadingOK'
  BY <1>2, <1>5, AdvanceReads
<1> QED
  BY <1>5, <1>6, <1>8, <1>9 DEF ParserInv, Grows

(* EndLet keeps the parser's invariant.                                         *)
LEMMA EndLetTyped ==
    ASSUME ParserInv, EndLet
    PROVE  ParserInv'
<1>1. Parsing("let") /\ returned # NoNode
  BY DEF EndLet, Resumed
<1>2. /\ status = "parsing" /\ Top \in Frames /\ Top.rule = "let" /\ Waiting(Top)
      /\ Settled(Top, New) /\ ReadingOK /\ ArenaOK /\ StackOK /\ returned \in Nat
  BY <1>1, InFrame
<1>3. PICK id \in (0..NextId) \cup {Top.name_node} :
         /\ create_node(AstNode("LetStmt", To(Top.start), Top.value, <<id, returned>>))
         /\ dangled' = (dangled \/ Top.block # NextCapacity)
  BY DEF EndLet
<1>4. Top.name_node \in Nat /\ Top.start \in Nat /\ Top.value \in STRING
  BY <1>2, FrameForms
<1>5. id \in Nat
  BY <1>2, <1>3, <1>4, ArenaTyped
<1>6. PICK node : node = AstNode("LetStmt", To(Top.start), Top.value, <<id, returned>>)
  OBVIOUS
<1>7. node \in AstNodes
  <2>1. To(Top.start) \in Spans /\ "LetStmt" \in AstKinds /\ <<id, returned>> \in Seq(Nat)
    BY <1>2, <1>4, <1>5, SpansTyped DEF AstKinds
  <2> QED
    BY <1>4, <1>6, <2>1, NodesTyped
<1>8. PICK new : new = NextId
  OBVIOUS
<1>9. /\ create_node(node) /\ Return(new) /\ advance /\ UNCHANGED Input
      /\ token.kind # "EndOfFile"
  BY <1>3, <1>6, <1>8 DEF EndLet, check_symbol, IsSymbol
<1>10. Grows /\ new \in New'
  BY <1>2, <1>7, <1>8, <1>9, NodeCreated
<1>11. StackOK'
  BY <1>2, <1>9, <1>10, Returns DEF Grows
<1>12. ReadingOK'
  BY <1>2, <1>9, AdvanceReads
<1>13. dangled' \in BOOLEAN
  BY <1>3
<1> QED
  BY <1>10, <1>11, <1>12, <1>13 DEF ParserInv, Grows

(* BeginReturn keeps the parser's invariant.                                    *)
LEMMA BeginReturnTyped ==
    ASSUME ParserInv, BeginReturn
    PROVE  ParserInv'
<1>1. Parsing("statement")
  BY DEF BeginReturn, Entered
<1>2. status = "parsing" /\ ReadingOK /\ ArenaOK /\ StackOK /\ Len(read) \in Nat
  BY <1>1, InFrame
<1>3. /\ Become(ReturnFrame(Len(read))) /\ advance /\ UNCHANGED Arena
      /\ UNCHANGED <<Input, status>> /\ UNCHANGED Input /\ UNCHANGED dangled
      /\ token.kind # "EndOfFile"
  BY DEF BeginReturn, check_keyword, IsKeyword
<1>4. Grows
  BY <1>2, <1>3, ArenaStays
<1>5. StackOK'
  BY <1>2, <1>3, <1>4, NewFrames, NewFramesSettled, Becomes DEF Grows
<1>6. ReadingOK'
  BY <1>2, <1>3, AdvanceReads
<1> QED
  BY <1>3, <1>4, <1>5, <1>6 DEF ParserInv, Grows

(* ReturnValue keeps the parser's invariant.                                    *)
LEMMA ReturnValueTyped ==
    ASSUME ParserInv, ReturnValue
    PROVE  ParserInv'
<1>1. Parsing("return")
  BY DEF ReturnValue, Entered
<1>2. /\ status = "parsing" /\ Top \in Frames /\ Top.rule = "return"
      /\ Settled(Top, New) /\ ReadingOK /\ ArenaOK /\ StackOK
  BY <1>1, InFrame
<1>3. /\ BecomeAndCall(Top, ExpressionFrame(1)) /\ Stay
      /\ UNCHANGED <<Input, status>> /\ UNCHANGED Input /\ UNCHANGED Arena /\ UNCHANGED dangled
  BY DEF ReturnValue
<1>4. Grows
  BY <1>2, <1>3, ArenaStays
<1>5. Waiting(Top) /\ Settled(Top, New')
  BY <1>2, <1>4, StaysSettled DEF Waiting, Grows
<1>6. ExpressionFrame(1) \in Frames /\ Settled(ExpressionFrame(1), New')
  BY WholeExpression
<1>7. StackOK'
  BY <1>2, <1>3, <1>4, <1>5, <1>6, BecomesAndCalls DEF Grows
<1>8. ReadingOK'
  BY <1>2, <1>3, StayReads
<1> QED
  BY <1>3, <1>4, <1>7, <1>8 DEF ParserInv, Grows

(* EndReturn keeps the parser's invariant.                                      *)
LEMMA EndReturnTyped ==
    ASSUME ParserInv, EndReturn
    PROVE  ParserInv'
<1>1. Parsing("return")
  BY DEF EndReturn
<1>2. /\ status = "parsing" /\ Top \in Frames /\ Top.rule = "return"
      /\ ReadingOK /\ ArenaOK /\ StackOK /\ returned \in Nat
  BY <1>1, InFrame
<1>3. PICK children : children = IF returned = NoNode THEN <<>> ELSE <<returned>>
  OBVIOUS
<1>4. PICK node : node = AstNode("ReturnStmt", To(Top.start), "", children)
  OBVIOUS
<1>5. node \in AstNodes
  <2>1. Top.start \in Nat
    BY <1>2, FrameForms
  <2>2. To(Top.start) \in Spans /\ "ReturnStmt" \in AstKinds /\ children \in Seq(Nat)
    BY <1>2, <1>3, <2>1, SpansTyped DEF AstKinds
  <2> QED
    BY <1>4, <2>2, NodesTyped, OwnTextsAreStrings DEF OwnTextsAreStrings
<1>6. PICK new : new = NextId
  OBVIOUS
<1>7. /\ create_node(node) /\ Return(new) /\ advance /\ UNCHANGED Input /\ UNCHANGED dangled
      /\ token.kind # "EndOfFile"
  BY <1>3, <1>4, <1>6 DEF EndReturn, check_symbol, IsSymbol
<1>8. Grows /\ new \in New'
  BY <1>2, <1>5, <1>6, <1>7, NodeCreated
<1>9. StackOK'
  BY <1>2, <1>7, <1>8, Returns DEF Grows
<1>10. ReadingOK'
  BY <1>2, <1>7, AdvanceReads
<1> QED
  BY <1>7, <1>8, <1>9, <1>10 DEF ParserInv, Grows

(* BeginExpressionStatement keeps the parser's invariant.                       *)
LEMMA BeginExpressionStatementTyped ==
    ASSUME ParserInv, BeginExpressionStatement
    PROVE  ParserInv'
<1>1. Parsing("statement")
  BY DEF BeginExpressionStatement, Entered
<1>2. status = "parsing" /\ ReadingOK /\ ArenaOK /\ StackOK
  BY <1>1, InFrame
<1>3. /\ BecomeAndCall(ExpressionStatementFrame, ExpressionFrame(1)) /\ Stay
      /\ UNCHANGED <<Input, status>> /\ UNCHANGED Input /\ UNCHANGED Arena /\ UNCHANGED dangled
  BY DEF BeginExpressionStatement
<1>4. Grows
  BY <1>2, <1>3, ArenaStays
<1>5. ExpressionFrame(1) \in Frames /\ Settled(ExpressionFrame(1), New')
  BY WholeExpression
<1>6. StackOK'
  BY <1>2, <1>3, <1>4, <1>5, NewFrames, NewFramesSettled, BecomesAndCalls DEF Grows
<1>7. ReadingOK'
  BY <1>2, <1>3, StayReads
<1> QED
  BY <1>3, <1>4, <1>6, <1>7 DEF ParserInv, Grows

(* EndExpressionStatement keeps the parser's invariant.                         *)
LEMMA EndExpressionStatementTyped ==
    ASSUME ParserInv, EndExpressionStatement
    PROVE  ParserInv'
<1>1. Parsing("expression_statement") /\ returned # NoNode
  BY DEF EndExpressionStatement, Resumed
<1>2. /\ status = "parsing" /\ ReadingOK /\ ArenaOK /\ StackOK
      /\ returned \in Nat /\ returned \in New
  BY <1>1, InFrame
<1>3. PICK node : node = AstNode("ExpressionStmt", merge_span(nodes[returned].span, Here), "",
                                 <<returned>>)
  OBVIOUS
<1>4. node \in AstNodes
  <2>1. nodes[returned].span \in Spans /\ Here \in Spans
    BY <1>2, ArenaTyped, SpansTyped
  <2>2. merge_span(nodes[returned].span, Here) \in Spans
    BY <2>1, SpansTyped
  <2>3. "ExpressionStmt" \in AstKinds /\ <<returned>> \in Seq(Nat)
    BY <1>2 DEF AstKinds
  <2> QED
    BY <1>3, <2>2, <2>3, NodesTyped, OwnTextsAreStrings DEF OwnTextsAreStrings
<1>5. PICK new : new = NextId
  OBVIOUS
<1>6. /\ create_node(node) /\ Return(new) /\ advance /\ UNCHANGED Input /\ UNCHANGED dangled
      /\ token.kind # "EndOfFile"
  BY <1>3, <1>5 DEF EndExpressionStatement, check_symbol, IsSymbol
<1>7. Grows /\ new \in New'
  BY <1>2, <1>4, <1>5, <1>6, NodeCreated
<1>8. StackOK'
  BY <1>2, <1>6, <1>7, Returns DEF Grows
<1>9. ReadingOK'
  BY <1>2, <1>6, AdvanceReads
<1> QED
  BY <1>6, <1>7, <1>8, <1>9 DEF ParserInv, Grows

(* Precedence keeps the parser's invariant.                                     *)
LEMMA PrecedenceTyped ==
    ASSUME NEW t
    PROVE  precedence_for(t) \in -1..8 /\ NextPrecedence(t) \in -1..8
<1>1. precedence_for(t) \in -1..7
  BY DEF precedence_for
<1>2. NextPrecedence(t) = precedence_for(t) \/ NextPrecedence(t) = precedence_for(t) + 1
  BY <1>1 DEF NextPrecedence
<1> QED
  BY <1>1, <1>2

(* ParseUnary keeps the parser's invariant.                                     *)
LEMMA ParseUnaryTyped ==
    ASSUME ParserInv, parse_unary
    PROVE  ParserInv'
<1>1. Parsing("expression") /\ returned = NoNode
  BY DEF parse_unary, AtPrefix, Entered
<1>2. /\ status = "parsing" /\ Top \in Frames /\ Top.rule = "expression"
      /\ ReadingOK /\ ArenaOK /\ StackOK /\ Len(read) \in Nat
  BY <1>1, InFrame
<1>3. PICK f : f = UnaryFrame(token, Len(read))
  OBVIOUS
<1>4. PICK g : g = ExpressionFrame(precedence_for(token))
  OBVIOUS
<1>5. /\ stack' = stack \o <<f, g>> /\ advance /\ UNCHANGED Arena
      /\ UNCHANGED <<Input, status, returned>> /\ UNCHANGED Input /\ UNCHANGED dangled
      /\ token.kind # "EndOfFile"
  BY <1>3, <1>4 DEF parse_unary, is_unary_prefix, IsKeyword
<1>6. Grows
  BY <1>2, <1>5, ArenaStays
<1>7. token \in call.tokens
  BY <1>2, <1>5, TokensTyped DEF ReadingOK
<1>8. f \in Frames /\ Settled(f, New') /\ Waiting(f)
  BY <1>2, <1>3, <1>7, NewFrames, NewFramesSettled
<1>9. g \in Frames /\ Settled(g, New')
  <2>1. PICK p : p = precedence_for(token)
    OBVIOUS
  <2>2. p \in -1..8 /\ g = ExpressionFrame(p)
    BY <1>4, <2>1, PrecedenceTyped
  <2> QED
    BY <2>2, NewFrames, NewFramesSettled
<1>10. Waiting(Top)
  BY <1>2 DEF Waiting
<1>11. StackOK'
  BY <1>1, <1>2, <1>5, <1>6, <1>8, <1>9, <1>10, PushesTwo DEF Grows
<1>12. ReadingOK'
  BY <1>2, <1>5, AdvanceReads
<1> QED
  BY <1>5, <1>6, <1>11, <1>12 DEF ParserInv, Grows

(* EndUnary keeps the parser's invariant.                                       *)
LEMMA EndUnaryTyped ==
    ASSUME ParserInv, EndUnary
    PROVE  ParserInv'
<1>1. Parsing("unary") /\ returned # NoNode
  BY DEF EndUnary, Resumed
<1>2. /\ status = "parsing" /\ Top \in Frames /\ Top.rule = "unary"
      /\ ReadingOK /\ ArenaOK /\ StackOK /\ returned \in Nat /\ returned \in New
  BY <1>1, InFrame
<1>3. PICK node :
         node = AstNode("UnaryExpr",
                        merge_span(Span(Top.start, Top.start + 1), nodes[returned].span),
                        Top.op.lexeme, <<returned>>)
  OBVIOUS
<1>4. node \in AstNodes
  <2>1. Top.start \in Nat /\ Top.op \in call.tokens
    BY <1>2, FrameForms
  <2>2. Span(Top.start, Top.start + 1) \in Spans /\ nodes[returned].span \in Spans
    BY <1>2, <2>1, ArenaTyped, SpansTyped
  <2>3. merge_span(Span(Top.start, Top.start + 1), nodes[returned].span) \in Spans
    BY <2>2, SpansTyped
  <2>4. Top.op.lexeme \in STRING
    BY <1>2, <2>1, TokensTyped
  <2>5. "UnaryExpr" \in AstKinds /\ <<returned>> \in Seq(Nat)
    BY <1>2 DEF AstKinds
  <2> QED
    BY <1>3, <2>3, <2>4, <2>5, NodesTyped
<1>5. PICK new : new = NextId
  OBVIOUS
<1>6. create_node(node) /\ Return(new) /\ Stay /\ UNCHANGED Input /\ UNCHANGED dangled
  BY <1>3, <1>5 DEF EndUnary
<1>7. Grows /\ new \in New'
  BY <1>2, <1>4, <1>5, <1>6, NodeCreated
<1>8. StackOK'
  BY <1>2, <1>6, <1>7, Returns DEF Grows
<1>9. ReadingOK'
  BY <1>2, <1>6, StayReads
<1> QED
  BY <1>6, <1>7, <1>8, <1>9 DEF ParserInv, Grows

(* ParsePrimary keeps the parser's invariant.                                   *)
LEMMA ParsePrimaryTyped ==
    ASSUME ParserInv, parse_primary
    PROVE  ParserInv'
<1>1. Parsing("expression") /\ returned = NoNode
  BY DEF parse_primary, AtPrefix, Entered
<1>2. /\ status = "parsing" /\ Top \in Frames /\ Top.rule = "expression"
      /\ ReadingOK /\ ArenaOK /\ StackOK /\ token.lexeme \in STRING
  BY <1>1, InFrame
<1>3. PICK node :
         node = Leaf(IF token.kind = "Identifier" THEN "IdentifierExpr" ELSE "LiteralExpr",
                     Here, token.lexeme)
  OBVIOUS
<1>4. Here \in Spans
  BY <1>2, SpansTyped
<1>5. node \in AstNodes
  <2>1. /\ "IdentifierExpr" \in AstKinds /\ "LiteralExpr" \in AstKinds /\ <<>> \in Seq(Nat)
    BY DEF AstKinds
  <2> QED
    BY <1>2, <1>3, <1>4, <2>1, NodesTyped DEF Leaf
<1>6. PICK id : id = NextId
  OBVIOUS
<1>7. /\ create_node(node) /\ stack' = Append(stack, CallFrame(id, Here)) /\ advance
      /\ UNCHANGED <<Input, status, returned>> /\ UNCHANGED Input /\ UNCHANGED dangled
  BY <1>3, <1>6 DEF parse_primary
<1>8. token.kind # "EndOfFile"
  BY DEF parse_primary, IsLeaf
<1>9. Grows /\ id \in New' /\ id \in Nat
  BY <1>2, <1>5, <1>6, <1>7, NodeCreated, ArenaTyped
<1>10. CallFrame(id, Here) \in Frames /\ Settled(CallFrame(id, Here), New')
  BY <1>4, <1>9, NewFrames, NewFramesSettled
<1>11. Waiting(Top)
  BY <1>2 DEF Waiting
<1>12. StackOK'
  BY <1>1, <1>2, <1>7, <1>9, <1>10, <1>11, Pushes DEF Grows
<1>13. ReadingOK'
  BY <1>2, <1>7, <1>8, AdvanceReads
<1> QED
  BY <1>7, <1>9, <1>12, <1>13 DEF ParserInv, Grows

(* BeginGroup keeps the parser's invariant.                                     *)
LEMMA BeginGroupTyped ==
    ASSUME ParserInv, BeginGroup
    PROVE  ParserInv'
<1>1. Parsing("expression") /\ returned = NoNode
  BY DEF BeginGroup, AtPrefix, Entered
<1>2. /\ status = "parsing" /\ Top \in Frames /\ Top.rule = "expression"
      /\ ReadingOK /\ ArenaOK /\ StackOK /\ Len(read) \in Nat
  BY <1>1, InFrame
<1>3. PICK f : f = GroupFrame(Len(read))
  OBVIOUS
<1>4. PICK g : g = ExpressionFrame(1)
  OBVIOUS
<1>5. /\ stack' = stack \o <<f, g>> /\ advance /\ UNCHANGED Arena
      /\ UNCHANGED <<Input, status, returned>> /\ UNCHANGED Input /\ UNCHANGED dangled
      /\ token.kind # "EndOfFile"
  BY <1>3, <1>4 DEF BeginGroup, check_symbol, IsSymbol
<1>6. Grows
  BY <1>2, <1>5, ArenaStays
<1>7. f \in Frames /\ Settled(f, New') /\ Waiting(f)
  BY <1>2, <1>3, NewFrames, NewFramesSettled
<1>8. g \in Frames /\ Settled(g, New')
  BY <1>4, WholeExpression
<1>9. Waiting(Top)
  BY <1>2 DEF Waiting
<1>10. StackOK'
  BY <1>1, <1>2, <1>5, <1>6, <1>7, <1>8, <1>9, PushesTwo DEF Grows
<1>11. ReadingOK'
  BY <1>2, <1>5, AdvanceReads
<1> QED
  BY <1>5, <1>6, <1>10, <1>11 DEF ParserInv, Grows

(* EndGroup keeps the parser's invariant.                                       *)
LEMMA EndGroupTyped ==
    ASSUME ParserInv, EndGroup
    PROVE  ParserInv'
<1>1. Parsing("group")
  BY DEF EndGroup, Resumed
<1>2. /\ status = "parsing" /\ Top \in Frames /\ Top.rule = "group"
      /\ ReadingOK /\ ArenaOK /\ StackOK /\ returned \in Nat
  BY <1>1, InFrame
<1>3. PICK span : span = To(Top.start)
  OBVIOUS
<1>4. span \in Spans
  BY <1>2, <1>3, FrameForms, SpansTyped
<1>5. PICK node : node = AstNode("GroupExpr", span, "", <<returned>>)
  OBVIOUS
<1>6. node \in AstNodes
  <2>1. "GroupExpr" \in AstKinds /\ <<returned>> \in Seq(Nat)
    BY <1>2 DEF AstKinds
  <2> QED
    BY <1>4, <1>5, <2>1, NodesTyped, OwnTextsAreStrings DEF OwnTextsAreStrings
<1>7. PICK id : id = NextId
  OBVIOUS
<1>8. /\ create_node(node) /\ Become(CallFrame(id, span)) /\ advance
      /\ UNCHANGED <<Input, status>> /\ UNCHANGED Input /\ UNCHANGED dangled
      /\ token.kind # "EndOfFile"
  BY <1>3, <1>5, <1>7 DEF EndGroup, check_symbol, IsSymbol
<1>9. Grows /\ id \in New' /\ id \in Nat
  BY <1>2, <1>6, <1>7, <1>8, NodeCreated, ArenaTyped
<1>10. CallFrame(id, span) \in Frames /\ Settled(CallFrame(id, span), New')
  BY <1>4, <1>9, NewFrames, NewFramesSettled
<1>11. StackOK'
  BY <1>2, <1>8, <1>9, <1>10, Becomes DEF Grows
<1>12. ReadingOK'
  BY <1>2, <1>8, AdvanceReads
<1> QED
  BY <1>8, <1>9, <1>11, <1>12 DEF ParserInv, Grows

(* OpenArguments keeps the parser's invariant.                                  *)
LEMMA OpenArgumentsTyped ==
    ASSUME ParserInv, OpenArguments
    PROVE  ParserInv'
<1>1. Parsing("call")
  BY DEF OpenArguments, Entered
<1>2. /\ status = "parsing" /\ Top \in Frames /\ Top.rule = "call"
      /\ Settled(Top, New) /\ ReadingOK /\ ArenaOK /\ StackOK
  BY <1>1, InFrame
<1>3. PICK f : f = [Top EXCEPT !.open = TRUE]
  OBVIOUS
<1>4. f \in Frames /\ Settled(f, New)
  <2>1. Top \in [rule : {"call"}, callee : Nat, span : Spans, open : BOOLEAN, args : Seq(Nat)]
    BY <1>2, FrameForms
  <2>2. /\ f \in [rule : {"call"}, callee : Nat, span : Spans, open : BOOLEAN, args : Seq(Nat)]
        /\ f.rule = "call" /\ f.open /\ f.callee = Top.callee /\ f.args = Top.args
    BY <1>3, <2>1
  <2>3. f \in Frames
    BY <2>2 DEF Frames
  <2> QED
    BY <1>2, <2>2, <2>3 DEF Settled
<1>5. /\ Become(f) /\ advance /\ UNCHANGED Arena
      /\ UNCHANGED <<Input, status>> /\ UNCHANGED Input /\ UNCHANGED dangled
      /\ token.kind # "EndOfFile"
  BY <1>3 DEF OpenArguments, check_symbol, IsSymbol
<1>6. Grows
  BY <1>2, <1>5, ArenaStays
<1>7. StackOK'
  BY <1>2, <1>4, <1>5, <1>6, StaysSettled, Becomes DEF Grows
<1>8. ReadingOK'
  BY <1>2, <1>5, AdvanceReads
<1> QED
  BY <1>5, <1>6, <1>7, <1>8 DEF ParserInv, Grows

(* NoMoreCalls keeps the parser's invariant.                                    *)
LEMMA NoMoreCallsTyped ==
    ASSUME ParserInv, NoMoreCalls
    PROVE  ParserInv'
<1>1. Parsing("call")
  BY DEF NoMoreCalls, Entered
<1>2. /\ status = "parsing" /\ Top \in Frames /\ Top.rule = "call"
      /\ Settled(Top, New) /\ ReadingOK /\ ArenaOK /\ StackOK
  BY <1>1, InFrame
<1>3. Return(Top.callee) /\ Stay /\ UNCHANGED Input /\ UNCHANGED Arena /\ UNCHANGED dangled
  BY DEF NoMoreCalls
<1>4. Grows
  BY <1>2, <1>3, ArenaStays
<1>5. Top.callee \in New'
  BY <1>2, <1>4 DEF Settled, Grows
<1>6. StackOK'
  BY <1>2, <1>3, <1>4, <1>5, Returns DEF Grows
<1>7. ReadingOK'
  BY <1>2, <1>3, StayReads
<1> QED
  BY <1>3, <1>4, <1>6, <1>7 DEF ParserInv, Grows

(* FirstArgument keeps the parser's invariant.                                  *)
LEMMA FirstArgumentTyped ==
    ASSUME ParserInv, FirstArgument
    PROVE  ParserInv'
<1>1. Parsing("call") /\ Top.open
  BY DEF FirstArgument, Entered
<1>2. /\ status = "parsing" /\ Top \in Frames /\ Top.rule = "call"
      /\ Settled(Top, New) /\ ReadingOK /\ ArenaOK /\ StackOK
  BY <1>1, InFrame
<1>3. /\ BecomeAndCall(Top, ExpressionFrame(1)) /\ Stay
      /\ UNCHANGED <<status, Input>> /\ UNCHANGED Input /\ UNCHANGED Arena /\ UNCHANGED dangled
  BY DEF FirstArgument
<1>4. UNCHANGED <<Input, status>>
  BY <1>3
<1>5. Grows
  BY <1>2, <1>3, ArenaStays
<1>6. Waiting(Top) /\ Settled(Top, New')
  BY <1>1, <1>2, <1>5, StaysSettled DEF Waiting, Grows
<1>7. ExpressionFrame(1) \in Frames /\ Settled(ExpressionFrame(1), New')
  BY WholeExpression
<1>8. StackOK'
  BY <1>2, <1>3, <1>4, <1>5, <1>6, <1>7, BecomesAndCalls DEF Grows
<1>9. ReadingOK'
  BY <1>2, <1>3, StayReads
<1> QED
  BY <1>3, <1>5, <1>8, <1>9 DEF ParserInv, Grows

(* NextArgument keeps the parser's invariant.                                   *)
LEMMA NextArgumentTyped ==
    ASSUME ParserInv, NextArgument
    PROVE  ParserInv'
<1>1. Parsing("call") /\ returned # NoNode
  BY DEF NextArgument, Resumed
<1>2. /\ status = "parsing" /\ Top \in Frames /\ Top.rule = "call" /\ Waiting(Top)
      /\ Settled(Top, New) /\ ReadingOK /\ ArenaOK /\ StackOK
      /\ returned \in Nat /\ returned \in New
  BY <1>1, InFrame
<1>3. PICK f : f = [Top EXCEPT !.args = Append(Top.args, returned)]
  OBVIOUS
<1>4. f \in Frames /\ Settled(f, New) /\ Waiting(f)
  <2>1. Top \in [rule : {"call"}, callee : Nat, span : Spans, open : BOOLEAN, args : Seq(Nat)]
    BY <1>2, FrameForms
  <2>2. PICK args : args = Append(Top.args, returned)
    OBVIOUS
  <2>3. Top.args \in Seq(Nat) /\ args \in Seq(Nat)
    BY <1>2, <2>1, <2>2, AppendProperties
  <2>4. Range(args) = Range(Top.args) \cup {returned}
    BY <1>2, <2>2, <2>3, RangeOfAppend
  <2>5. /\ f \in [rule : {"call"}, callee : Nat, span : Spans, open : BOOLEAN, args : Seq(Nat)]
        /\ f.rule = "call" /\ f.open = Top.open /\ f.callee = Top.callee /\ f.args = args
    BY <1>3, <2>1, <2>2, <2>3
  <2>6. f \in Frames
    BY <2>5 DEF Frames
  <2>7. Top.open /\ Top.callee \in New /\ Range(Top.args) \subseteq New
    BY <1>2 DEF Settled, Waiting
  <2> QED
    BY <1>2, <2>4, <2>5, <2>6, <2>7 DEF Settled, Waiting
<1>5. /\ BecomeAndCall(f, ExpressionFrame(1)) /\ advance /\ UNCHANGED Arena
      /\ UNCHANGED <<Input, status>> /\ UNCHANGED Input /\ UNCHANGED dangled
      /\ token.kind # "EndOfFile"
  BY <1>3 DEF NextArgument, check_symbol, IsSymbol
<1>6. Grows
  BY <1>2, <1>5, ArenaStays
<1>7. ExpressionFrame(1) \in Frames /\ Settled(ExpressionFrame(1), New')
  BY WholeExpression
<1>8. StackOK'
  BY <1>2, <1>4, <1>5, <1>6, <1>7, StaysSettled, BecomesAndCalls DEF Grows
<1>9. ReadingOK'
  BY <1>2, <1>5, AdvanceReads
<1> QED
  BY <1>5, <1>6, <1>8, <1>9 DEF ParserInv, Grows

(* CloseArguments keeps the parser's invariant.                                 *)
LEMMA CloseArgumentsTyped ==
    ASSUME ParserInv, CloseArguments
    PROVE  ParserInv'
<1>1. Parsing("call")
  BY DEF CloseArguments
<1>2. /\ status = "parsing" /\ Top \in Frames /\ Top.rule = "call"
      /\ ReadingOK /\ ArenaOK /\ StackOK /\ returned \in Nat
  BY <1>1, InFrame
<1>3. PICK span : span = merge_span(Top.span, Here)
  OBVIOUS
<1>4. PICK args : args = IF returned = NoNode THEN Top.args ELSE Append(Top.args, returned)
  OBVIOUS
<1>5. Top.callee \in Nat /\ Top.span \in Spans /\ Top.args \in Seq(Nat)
  BY <1>2, FrameForms
<1>6. span \in Spans /\ args \in Seq(Nat)
  <2>1. Here \in Spans
    BY <1>2, SpansTyped
  <2>2. span \in Spans
    BY <1>3, <1>5, <2>1, SpansTyped
  <2>3. Append(Top.args, returned) \in Seq(Nat)
    BY <1>2, <1>5, AppendProperties
  <2> QED
    BY <1>4, <1>5, <2>2, <2>3
<1>7. PICK node : node = AstNode("CallExpr", span, "", <<Top.callee>> \o args)
  OBVIOUS
<1>8. node \in AstNodes
  <2>1. <<Top.callee>> \in Seq(Nat)
    BY <1>5
  <2>2. "CallExpr" \in AstKinds /\ <<Top.callee>> \o args \in Seq(Nat)
    BY <1>6, <2>1, ConcatProperties DEF AstKinds
  <2> QED
    BY <1>6, <1>7, <2>2, NodesTyped, OwnTextsAreStrings DEF OwnTextsAreStrings
<1>9. PICK id : id = NextId
  OBVIOUS
<1>10. /\ create_node(node) /\ Become(CallFrame(id, span)) /\ advance
       /\ UNCHANGED <<Input, status>> /\ UNCHANGED Input /\ UNCHANGED dangled
       /\ token.kind # "EndOfFile"
  BY <1>3, <1>4, <1>7, <1>9 DEF CloseArguments, check_symbol, IsSymbol
<1>11. Grows /\ id \in New' /\ id \in Nat
  BY <1>2, <1>8, <1>9, <1>10, NodeCreated, ArenaTyped
<1>12. CallFrame(id, span) \in Frames /\ Settled(CallFrame(id, span), New')
  BY <1>6, <1>11, NewFrames, NewFramesSettled
<1>13. StackOK'
  BY <1>2, <1>10, <1>11, <1>12, Becomes DEF Grows
<1>14. ReadingOK'
  BY <1>2, <1>10, AdvanceReads
<1> QED
  BY <1>10, <1>11, <1>13, <1>14 DEF ParserInv, Grows

(* LeftOperand keeps the parser's invariant.                                    *)
LEMMA LeftOperandTyped ==
    ASSUME ParserInv, LeftOperand
    PROVE  ParserInv'
<1>1. Parsing("expression") /\ returned # NoNode
  BY DEF LeftOperand, Resumed
<1>2. /\ status = "parsing" /\ Top \in Frames /\ Top.rule = "expression"
      /\ ReadingOK /\ ArenaOK /\ StackOK /\ returned \in Nat /\ returned \in New
  BY <1>1, InFrame
<1>3. PICK f : f = [Top EXCEPT !.left = returned]
  OBVIOUS
<1>4. f \in Frames /\ Settled(f, New)
  <2>1. Top \in [rule : {"expression"}, min : -1..8, left : Nat,
                 op : call.tokens \cup {EndOfFile}]
    BY <1>2, FrameForms
  <2>2. /\ f \in [rule : {"expression"}, min : -1..8, left : Nat,
                  op : call.tokens \cup {EndOfFile}]
        /\ f.rule = "expression" /\ f.left = returned
    BY <1>2, <1>3, <2>1
  <2> QED
    BY <1>2, <2>2 DEF Frames, Settled
<1>5. /\ Become(f) /\ Stay /\ UNCHANGED Arena
      /\ UNCHANGED <<Input, status>> /\ UNCHANGED Input /\ UNCHANGED dangled
  BY <1>3 DEF LeftOperand
<1>6. Grows
  BY <1>2, <1>5, ArenaStays
<1>7. StackOK'
  BY <1>2, <1>4, <1>5, <1>6, StaysSettled, Becomes DEF Grows
<1>8. ReadingOK'
  BY <1>2, <1>5, StayReads
<1> QED
  BY <1>5, <1>6, <1>7, <1>8 DEF ParserInv, Grows

(* RightOperand keeps the parser's invariant.                                   *)
LEMMA RightOperandTyped ==
    ASSUME ParserInv, RightOperand
    PROVE  ParserInv'
<1>1. Parsing("expression") /\ returned # NoNode /\ Top.left # NoNode
  BY DEF RightOperand, Resumed
<1>2. /\ status = "parsing" /\ Top \in Frames /\ Top.rule = "expression" /\ Settled(Top, New)
      /\ ReadingOK /\ ArenaOK /\ StackOK /\ returned \in Nat /\ returned \in New
  BY <1>1, InFrame
<1>3. Top.left \in Nat /\ Top.left \in New /\ Top.op.lexeme \in STRING
  <2>1. Top.left \in Nat /\ Top.op \in call.tokens \cup {EndOfFile}
    BY <1>2, FrameForms
  <2> QED
    BY <1>1, <1>2, <2>1, TokensTyped DEF Settled
<1>4. PICK node :
         node = AstNode(IF is_assignment_operator(Top.op) THEN "AssignmentExpr" ELSE "BinaryExpr",
                        merge_span(nodes[Top.left].span, nodes[returned].span),
                        Top.op.lexeme, <<Top.left, returned>>)
  OBVIOUS
<1>5. node \in AstNodes
  <2>1. nodes[Top.left].span \in Spans /\ nodes[returned].span \in Spans
    BY <1>2, <1>3, ArenaTyped
  <2>2. merge_span(nodes[Top.left].span, nodes[returned].span) \in Spans
    BY <2>1, SpansTyped
  <2>3. /\ "AssignmentExpr" \in AstKinds /\ "BinaryExpr" \in AstKinds
        /\ <<Top.left, returned>> \in Seq(Nat)
    BY <1>2, <1>3 DEF AstKinds
  <2> QED
    BY <1>3, <1>4, <2>2, <2>3, NodesTyped
<1>6. PICK id : id = NextId
  OBVIOUS
<1>7. PICK f : f = [Top EXCEPT !.left = id]
  OBVIOUS
<1>8. /\ create_node(node) /\ Become(f) /\ Stay
      /\ UNCHANGED <<Input, status>> /\ UNCHANGED Input /\ UNCHANGED dangled
  BY <1>4, <1>6, <1>7 DEF RightOperand
<1>9. Grows /\ id \in New' /\ id \in Nat
  BY <1>2, <1>5, <1>6, <1>8, NodeCreated, ArenaTyped
<1>10. f \in Frames /\ Settled(f, New')
  <2>1. Top \in [rule : {"expression"}, min : -1..8, left : Nat,
                 op : call.tokens \cup {EndOfFile}]
    BY <1>2, FrameForms
  <2>2. /\ f \in [rule : {"expression"}, min : -1..8, left : Nat,
                  op : call.tokens \cup {EndOfFile}]
        /\ f.rule = "expression" /\ f.left = id
    BY <1>7, <1>9, <2>1
  <2> QED
    BY <1>9, <2>2 DEF Frames, Settled
<1>11. StackOK'
  BY <1>2, <1>8, <1>9, <1>10, Becomes DEF Grows
<1>12. ReadingOK'
  BY <1>2, <1>8, StayReads
<1> QED
  BY <1>8, <1>9, <1>11, <1>12 DEF ParserInv, Grows

(* Operator keeps the parser's invariant.                                       *)
LEMMA OperatorTyped ==
    ASSUME ParserInv, Operator
    PROVE  ParserInv'
<1>1. Parsing("expression")
  BY DEF Operator, Entered
<1>2. /\ status = "parsing" /\ Top \in Frames /\ Top.rule = "expression" /\ Settled(Top, New)
      /\ ReadingOK /\ ArenaOK /\ StackOK
  BY <1>1, InFrame
<1>3. PICK f : f = [Top EXCEPT !.op = token]
  OBVIOUS
<1>4. f \in Frames /\ Settled(f, New) /\ Waiting(f)
  <2>1. Top \in [rule : {"expression"}, min : -1..8, left : Nat,
                 op : call.tokens \cup {EndOfFile}]
    BY <1>2, FrameForms
  <2>2. token \in call.tokens \cup {EndOfFile}
    BY <1>2 DEF ReadingOK
  <2>3. /\ f \in [rule : {"expression"}, min : -1..8, left : Nat,
                  op : call.tokens \cup {EndOfFile}]
        /\ f.rule = "expression" /\ f.left = Top.left
    BY <1>3, <2>1, <2>2
  <2> QED
    BY <1>2, <2>3 DEF Frames, Settled, Waiting
<1>5. PICK min : min = NextPrecedence(token)
  OBVIOUS
<1>6. /\ BecomeAndCall(f, ExpressionFrame(min)) /\ advance /\ UNCHANGED Arena
      /\ UNCHANGED <<Input, status>> /\ UNCHANGED Input /\ UNCHANGED dangled
      /\ token.kind # "EndOfFile"
  BY <1>3, <1>5 DEF Operator, IsOperatorHere
<1>7. Grows
  BY <1>2, <1>6, ArenaStays
<1>8. ExpressionFrame(min) \in Frames /\ Settled(ExpressionFrame(min), New')
  <2>1. min \in -1..8
    BY <1>5, PrecedenceTyped
  <2> QED
    BY <2>1, NewFrames, NewFramesSettled
<1>9. StackOK'
  BY <1>2, <1>4, <1>6, <1>7, <1>8, StaysSettled, BecomesAndCalls DEF Grows
<1>10. ReadingOK'
  BY <1>2, <1>6, AdvanceReads
<1> QED
  BY <1>6, <1>7, <1>9, <1>10 DEF ParserInv, Grows

(* EndExpression keeps the parser's invariant.                                  *)
LEMMA EndExpressionTyped ==
    ASSUME ParserInv, EndExpression
    PROVE  ParserInv'
<1>1. Parsing("expression") /\ Top.left # NoNode
  BY DEF EndExpression, Entered
<1>2. /\ status = "parsing" /\ Top \in Frames /\ Top.rule = "expression"
      /\ Settled(Top, New) /\ ReadingOK /\ ArenaOK /\ StackOK
  BY <1>1, InFrame
<1>3. Return(Top.left) /\ Stay /\ UNCHANGED Input /\ UNCHANGED Arena /\ UNCHANGED dangled
  BY DEF EndExpression
<1>4. Grows
  BY <1>2, <1>3, ArenaStays
<1>5. Top.left \in New'
  BY <1>1, <1>2, <1>4 DEF Settled, Grows
<1>6. StackOK'
  BY <1>2, <1>3, <1>4, <1>5, Returns DEF Grows
<1>7. ReadingOK'
  BY <1>2, <1>3, StayReads
<1> QED
  BY <1>3, <1>4, <1>6, <1>7 DEF ParserInv, Grows

(* An exception leaves the nodes made as they are.                              *)
LEMMA ThrowTyped ==
    ASSUME ParserInv, Throw
    PROVE  ParserInv'
<1>1. /\ status' = "failed" /\ stack' = <<>> /\ returned' = NoNode /\ Stay
      /\ UNCHANGED Arena /\ UNCHANGED Input /\ UNCHANGED dangled
  BY DEF Throw
<1>2. ReadingOK /\ ArenaOK
  BY DEF ParserInv
<1>3. Grows /\ ReadingOK'
  BY <1>1, <1>2, ArenaStays, StayReads
<1>4. StackOK'
  <2>1. stack' \in Seq(Frames') /\ DOMAIN stack' = {}
    BY <1>1
  <2> QED
    BY <1>1, <2>1 DEF StackOK
<1> QED
  BY <1>1, <1>3, <1>4 DEF ParserInv, Grows

(* A step that changes nothing keeps it.                                        *)
LEMMA StutteringTyped ==
    ASSUME ParserInv, UNCHANGED vars
    PROVE  ParserInv'
<1>1. /\ UNCHANGED <<stack, status, returned, dangled>> /\ UNCHANGED Arena /\ UNCHANGED Input
      /\ Stay
  BY DEF vars, Arena, Input, Stay
<1>2. ReadingOK /\ ArenaOK /\ StackOK /\ dangled \in BOOLEAN
  BY DEF ParserInv
<1>3. Grows /\ ReadingOK'
  BY <1>1, <1>2, ArenaStays, StayReads
<1>4. Frames' = Frames /\ New' = New
  BY <1>1 DEF Frames, New, base, Input, Arena
<1>5. StackOK'
  BY <1>1, <1>2, <1>4 DEF StackOK
<1> QED
  BY <1>1, <1>2, <1>3, <1>5 DEF ParserInv, Grows

(* The context as the call finds it, with the module's own node if it parses one. *)
LEMMA FirstNodes ==
    ASSUME Init, ReadingOK
    PROVE  /\ ArenaOK /\ base \in Nat
           /\ Len(nodes) = IF call.entry = "module" THEN base + 1 ELSE base
           /\ \A id \in New : nodes[id].children = <<>>
<1>1. PICK given : given = [i \in 1..base |-> Leaf("Unknown", Span(0, 0), "")]
  OBVIOUS
<1>2. PICK own : own = IF call.entry = "module" THEN <<Leaf("Module", Span(0, length), "")>>
                       ELSE <<>>
  OBVIOUS
<1>3. nodes = given \o own
  BY <1>1, <1>2 DEF Init
<1>4. base \in Nat /\ length \in Nat /\ call \in Calls
  BY TokensTyped DEF ReadingOK
<1>5. base <= call.capacity /\ call.capacity \in Nat
  BY <1>4, CallsAreTyped DEF CallsAreTyped, base
<1>6. ASSUME NEW kind \in AstKinds, NEW end \in Nat
      PROVE  Leaf(kind, Span(0, end), "") \in AstNodes /\ Leaf(kind, Span(0, end), "").children = <<>>
  <2>1. Span(0, end) \in Spans /\ <<>> \in Seq(Nat)
    BY SpansTyped
  <2> QED
    BY <2>1, NodesTyped, OwnTextsAreStrings DEF Leaf, OwnTextsAreStrings
<1>7. given \in Seq(AstNodes) /\ Len(given) = base
  <2>1. PICK leaf : leaf = Leaf("Unknown", Span(0, 0), "")
    OBVIOUS
  <2>2. leaf \in AstNodes
    BY <1>6, <2>1 DEF AstKinds
  <2>3. given = [i \in 1..base |-> leaf]
    BY <1>1, <2>1
  <2> QED
    BY <1>4, <2>2, <2>3
<1>8. PICK module : module = Leaf("Module", Span(0, length), "")
  OBVIOUS
<1>9. module \in AstNodes /\ module.children = <<>>
  BY <1>4, <1>6, <1>8 DEF AstKinds
<1>10. /\ own \in Seq(AstNodes)
       /\ call.entry = "module" => Len(own) = 1 /\ own[1] = module
       /\ call.entry # "module" => Len(own) = 0
  <2>1. CASE call.entry = "module"
    <3>1. own = <<module>>
      BY <1>2, <1>8, <2>1
    <3> QED
      BY <1>9, <2>1, <3>1
  <2>2. CASE call.entry # "module"
    <3>1. own = <<>>
      BY <1>2, <2>2
    <3> QED
      BY <2>2, <3>1
  <2> QED
    BY <2>1, <2>2
<1>11. /\ nodes \in Seq(AstNodes) /\ Len(nodes) = base + Len(own)
       /\ \A i \in 1..(base + Len(own)) : nodes[i] = IF i <= base THEN given[i] ELSE own[i - base]
  BY <1>3, <1>7, <1>10, ConcatProperties
<1>12. Len(nodes) = IF call.entry = "module" THEN base + 1 ELSE base
  BY <1>4, <1>10, <1>11
<1>13. ArenaOK
  <2>1. /\ capacity = IF call.entry = "module" /\ base = call.capacity
                      THEN Grown(call.capacity) ELSE call.capacity
    BY DEF Init
  <2>2. capacity \in Nat /\ Len(nodes) <= capacity /\ base <= Len(nodes)
    BY <1>4, <1>5, <1>12, <2>1 DEF Grown
  <2> QED
    BY <1>11, <2>2 DEF ArenaOK
<1>14. ASSUME NEW id \in New PROVE nodes[id].children = <<>>
  <2>1. PICK n : n = Len(nodes)
    OBVIOUS
  <2>2. id \in (base + 1)..n /\ n \in Nat
    BY <1>4, <1>12, <2>1 DEF New
  <2>3. call.entry = "module" /\ id = base + 1
    BY <1>4, <1>12, <2>1, <2>2
  <2>4. nodes[id] = own[id - base] /\ id - base = 1
    BY <1>4, <1>10, <1>11, <1>12, <2>3
  <2>5. nodes[id] = module
    BY <1>10, <2>3, <2>4
  <2> QED
    BY <1>9, <2>5
<1> QED
  BY <1>4, <1>12, <1>13, <1>14

(* A parse begins so.                                                           *)
LEMMA InitTyped ==
    ASSUME Init
    PROVE  ParserInv
<1>1. /\ call \in Calls /\ length \in 0..call.longest /\ read = <<>> /\ token \in NextToken(0)
      /\ returned = NoNode /\ status = "parsing" /\ dangled = FALSE
  BY DEF Init
<1>2. PICK frame :
         frame = IF call.entry = "module" THEN ModuleFrame(base + 1) ELSE ExpressionFrame(1)
  OBVIOUS
<1>3. stack = <<frame>>
  BY <1>2 DEF Init
<1>4. ReadingOK
  <2>1. /\ call.tokens \subseteq [kind : TokenKinds \ {"EndOfFile"}, lexeme : STRING]
        /\ call.longest \in Nat
    BY <1>1, CallsAreTyped DEF CallsAreTyped
  <2>2. EndOfFile \notin call.tokens
    <3>1. \A t \in call.tokens : t.kind # "EndOfFile"
      <4> SUFFICES ASSUME NEW t \in call.tokens PROVE t.kind # "EndOfFile"
        OBVIOUS
      <4>1. t \in [kind : TokenKinds \ {"EndOfFile"}, lexeme : STRING]
        BY <2>1
      <4> QED
        BY <4>1
    <3> QED
      BY <3>1 DEF EndOfFile, Token
  <2>3. length \in Nat /\ Len(read) = 0 /\ read \in Seq(call.tokens)
    BY <1>1, <2>1
  <2>4. token \in call.tokens \cup {EndOfFile} /\ (token = EndOfFile <=> length = 0)
    BY <1>1, <2>2, <2>3 DEF NextToken
  <2> QED
    BY <1>1, <2>3, <2>4 DEF ReadingOK
<1>5. ArenaOK /\ base \in Nat /\ Len(nodes) = IF call.entry = "module" THEN base + 1 ELSE base
  BY <1>4, FirstNodes
<1>6. frame \in Frames /\ Settled(frame, New)
  <2>1. CASE call.entry = "module"
    <3>1. PICK id : id = base + 1
      OBVIOUS
    <3>2. id \in New /\ id \in Nat
      BY <1>5, <2>1, <3>1 DEF New
    <3>3. frame = ModuleFrame(id)
      BY <1>2, <2>1, <3>1
    <3> QED
      BY <3>2, <3>3, NewFrames, NewFramesSettled
  <2>2. CASE call.entry # "module"
    BY <1>2, <2>2, WholeExpression
  <2> QED
    BY <2>1, <2>2
<1>7. StackOK
  <2>1. stack \in Seq(Frames) /\ stack # <<>> /\ Len(stack) = 1 /\ DOMAIN stack = {1} /\ stack[1] = frame
    BY <1>3, <1>6
  <2> QED
    BY <1>1, <1>6, <2>1 DEF StackOK
<1> QED
  BY <1>1, <1>4, <1>5, <1>7 DEF ParserInv

(* Every step keeps it.                                                         *)
LEMMA NextTyped ==
    ASSUME ParserInv, [Next]_vars
    PROVE  ParserInv'
<1>1. CASE parse_statement
  BY <1>1, CollectStatementTyped, MoreStatementsTyped, EndModuleTyped, BeginBlockTyped,
     EndBlockTyped, BeginLetTyped, LetMutTyped, LetNameTyped, LetEqualsTyped, EndLetTyped,
     BeginReturnTyped, ReturnValueTyped, EndReturnTyped, BeginExpressionStatementTyped,
     EndExpressionStatementTyped
     DEF parse_statement
<1>2. CASE parse_expression
  BY <1>2, ParseUnaryTyped, EndUnaryTyped, ParsePrimaryTyped, BeginGroupTyped, EndGroupTyped,
     OpenArgumentsTyped, NoMoreCallsTyped, FirstArgumentTyped, NextArgumentTyped,
     CloseArgumentsTyped, LeftOperandTyped, RightOperandTyped, OperatorTyped, EndExpressionTyped
     DEF parse_expression
<1>3. CASE Throw
  BY <1>3, ThrowTyped
<1>4. CASE UNCHANGED vars
  BY <1>4, StutteringTyped
<1> QED
  BY <1>1, <1>2, <1>3, <1>4 DEF Next

(* parse_*: through every parse each call in progress has, at the place it is   *)
(* at, the nodes it needs there, all of them made by this call of the parser,   *)
(* and every call but the innermost waits where a node may be returned to it.   *)
THEOREM ParserInvariant == Spec => []ParserInv
<1>1. Init => ParserInv
  BY InitTyped
<1>2. ParserInv /\ [Next]_vars => ParserInv'
  BY NextTyped
<1> HIDE DEF ParserInv, Init, Next, vars
<1> QED
  BY <1>1, <1>2, PTL DEF Spec

(* It is the type invariant, and more.                                          *)
LEMMA ParserInvTypeOK ==
    ASSUME ParserInv
    PROVE  TypeOK
<1>1. ReadingOK /\ ArenaOK /\ StackOK /\ dangled \in BOOLEAN
  BY DEF ParserInv
<1>2. returned \in 0..Len(nodes)
  <2>1. returned \in New \cup {NoNode} /\ Len(nodes) \in Nat
    BY <1>1, ArenaTyped DEF StackOK
  <2>2. \A id \in New : id \in 0..Len(nodes)
    BY <1>1, TokensTyped, <2>1 DEF New
  <2> QED
    BY <2>1, <2>2 DEF NoNode
<1> QED
  BY <1>1, <1>2 DEF ReadingOK, ArenaOK, StackOK, TypeOK

(* Through every parse the tokens read, the nodes made and the locals of every  *)
(* call in progress stay what the code's types say, and no call returns a node  *)
(* that was not made.                                                           *)
THEOREM ParserTypeCorrect == Spec => []TypeOK
<1>1. ParserInv => TypeOK
  BY ParserInvTypeOK
<1> HIDE DEF ParserInv, TypeOK
<1> QED
  BY <1>1, ParserInvariant, PTL

-------------------------------------------------------------------------------
(* Every node has one holder: the node it is a child of, the call in progress    *)
(* that has still to put it there, or the call that has just returned it.        *)

KidSeqs(all, given, n) == [i \in 1..n |-> all[given + i].children]
Kids(all, given) == FlattenSeq(KidSeqs(all, given, Len(all) - given))
Waits(calls) == FlattenSeq([i \in DOMAIN calls |-> Pending(calls[i])])
Rest(id) == IF id = NoNode THEN <<>> ELSE <<id>>

\* As many are held as there are, and each of them is.
Balanced ==
    /\ Len(Kids(nodes, base)) + Len(Waits(stack)) + Len(Rest(returned)) = Len(nodes) - base
    /\ Range(Kids(nodes, base)) \cup Range(Waits(stack)) \cup Range(Rest(returned)) = New

(* What a call has still to put into the tree.                                  *)
LEMMA PendingForms ==
    ASSUME NEW f
    PROVE  /\ f.rule \in {"module", "block"} => Pending(f) = <<f.node>>
           /\ f.rule = "let" => Pending(f) = Rest(f.name_node)
           /\ f.rule = "expression" => Pending(f) = Rest(f.left)
           /\ f.rule = "call" => Pending(f) = <<f.callee>> \o f.args
           /\ f.rule \in {"statement", "expression_statement", "return", "group", "unary"} =>
                 Pending(f) = <<>>
BY DEF Pending, Rest

(* What a frame has still to put somewhere are ids.                             *)
LEMMA PendingTyped ==
    ASSUME NEW f \in Frames
    PROVE  Pending(f) \in Seq(Nat)
<1>0. \A id \in Nat : <<id>> \in Seq(Nat) /\ Rest(id) \in Seq(Nat)
  BY DEF Rest
<1>1. CASE f.rule \in {"module", "block"}
  <2>1. f.node \in Nat
    BY <1>1, FrameForms
  <2>2. Pending(f) = <<f.node>>
    BY <1>1, PendingForms
  <2> QED
    BY <1>0, <2>1, <2>2
<1>2. CASE f.rule = "let"
  <2>1. f.name_node \in Nat
    BY <1>2, FrameForms
  <2>2. Pending(f) = Rest(f.name_node)
    BY <1>2, PendingForms
  <2> QED
    BY <1>0, <2>1, <2>2
<1>3. CASE f.rule = "expression"
  <2>1. f.left \in Nat
    BY <1>3, FrameForms
  <2>2. Pending(f) = Rest(f.left)
    BY <1>3, PendingForms
  <2> QED
    BY <1>0, <2>1, <2>2
<1>4. CASE f.rule = "call"
  <2>1. f.callee \in Nat /\ f.args \in Seq(Nat)
    BY <1>4, FrameForms
  <2>2. <<f.callee>> \in Seq(Nat)
    BY <2>1
  <2>3. <<f.callee>> \o f.args \in Seq(Nat)
    BY <2>1, <2>2, ConcatProperties
  <2> QED
    BY <1>4, <2>3, PendingForms
<1>5. CASE f.rule \notin {"module", "block", "let", "expression", "call"}
  <2>1. Pending(f) = <<>>
    BY <1>5 DEF Pending
  <2> QED
    BY <2>1
<1> QED
  BY <1>1, <1>2, <1>3, <1>4, <1>5

(* What a call has returned: one id, or none.                                   *)
LEMMA RestTyped ==
    ASSUME NEW id \in Nat
    PROVE  /\ Rest(id) \in Seq(Nat)
           /\ id = NoNode => Rest(id) = <<>> /\ Len(Rest(id)) = 0 /\ Range(Rest(id)) = {}
           /\ id # NoNode => Rest(id) = <<id>> /\ Len(Rest(id)) = 1 /\ Range(Rest(id)) = {id}
BY RangeOfTuples DEF Rest

(* What the calls in progress have still to put somewhere, as one sequence.     *)
LEMMA WaitsTyped ==
    ASSUME NEW calls \in Seq(Frames)
    PROVE  /\ [i \in DOMAIN calls |-> Pending(calls[i])] \in Seq(Seq(Nat))
           /\ Waits(calls) \in Seq(Nat)
<1>1. PICK n : n = Len(calls)
  OBVIOUS
<1>2. n \in Nat /\ DOMAIN calls = 1..n
  BY <1>1, LenProperties
<1>3. \A i \in 1..n : Pending(calls[i]) \in Seq(Nat)
  BY <1>2, PendingTyped
<1>4. [i \in DOMAIN calls |-> Pending(calls[i])] \in Seq(Seq(Nat))
  BY <1>2, <1>3
<1> QED
  BY <1>4, FlattenTyped DEF Waits

(* A call more holds what it has made more.                                     *)
LEMMA WaitsOfMore ==
    ASSUME NEW calls \in Seq(Frames), NEW f, Pending(f) \in Seq(Nat)
    PROVE  /\ Len(Waits(Append(calls, f))) = Len(Waits(calls)) + Len(Pending(f))
           /\ Range(Waits(Append(calls, f))) = Range(Waits(calls)) \cup Range(Pending(f))
           /\ Waits(Append(calls, f)) \in Seq(Nat)
<1>1. PICK n : n = Len(calls)
  OBVIOUS
<1>2. PICK more : more = Append(calls, f)
  OBVIOUS
<1>3. PICK seqs : seqs = [i \in DOMAIN calls |-> Pending(calls[i])]
  OBVIOUS
<1>4. PICK s : s = Pending(f)
  OBVIOUS
<1>5. n \in Nat /\ DOMAIN calls = 1..n /\ seqs \in Seq(Seq(Nat)) /\ Len(seqs) = n /\ s \in Seq(Nat)
  <2>1. n \in Nat /\ DOMAIN calls = 1..n
    BY <1>1, LenProperties
  <2>2. seqs \in Seq(Seq(Nat)) /\ s \in Seq(Nat)
    BY <1>3, <1>4, WaitsTyped
  <2>3. Len(seqs) = n
    BY <1>3, <2>1
  <2> QED
    BY <2>1, <2>2, <2>3
<1>6. PICK all : all = [i \in DOMAIN more |-> Pending(more[i])]
  OBVIOUS
<1>7. all = Append(seqs, s)
  <2>1. DOMAIN more = 1..(n + 1) /\ \A i \in 1..(n + 1) : more[i] = IF i <= n THEN calls[i] ELSE f
    BY <1>1, <1>2, <1>5
  <2>2. /\ \A i \in 1..n : all[i] = seqs[i] /\ seqs[i] \in Seq(Nat)
        /\ all[n + 1] = s
    BY <1>3, <1>4, <1>5, <1>6, <2>1
  <2>3. DOMAIN all = 1..(n + 1)
    BY <1>6, <2>1
  <2>4. \A i \in 1..(n + 1) : all[i] \in Seq(Nat)
    <3>1. \A i \in 1..(n + 1) : i \in 1..n \/ i = n + 1
      BY <1>5
    <3> QED
      BY <1>5, <2>2, <3>1
  <2>5. all \in Seq(Seq(Nat)) /\ Len(all) = n + 1
    BY <1>5, <1>6, <2>1, <2>4
  <2>6. n = Len(seqs)
    BY <1>5
  <2> QED
    BY <1>5, <2>2, <2>5, <2>6, IsAppend
<1>8. FlattenSeq(all) = FlattenSeq(seqs) \o s /\ FlattenSeq(seqs) \in Seq(Nat)
  BY <1>5, <1>7, FlattenAppend, FlattenTyped
<1>9. PICK flat : flat = FlattenSeq(seqs)
  OBVIOUS
<1>10. /\ Len(flat \o s) = Len(flat) + Len(s) /\ Range(flat \o s) = Range(flat) \cup Range(s)
       /\ flat \o s \in Seq(Nat)
  BY <1>5, <1>8, <1>9, RangeOfConcat, ConcatProperties
<1>11. Waits(calls) = flat /\ Waits(more) = flat \o s
  BY <1>3, <1>6, <1>8, <1>9 DEF Waits
<1> QED
  BY <1>2, <1>4, <1>10, <1>11

(* No call holds nothing.                                                       *)
LEMMA NoWaits == Waits(<<>>) = <<>>
<1>1. [i \in DOMAIN <<>> |-> Pending(<<>>[i])] = <<>>
  OBVIOUS
<1>2. FlattenSeq(<<>>) = <<>>
  BY DEF FlattenSeq
<1> QED
  BY <1>1, <1>2 DEF Waits

(* The children of the nodes made, as one sequence.                             *)
LEMMA KidsTyped ==
    ASSUME NEW all \in Seq(AstNodes), NEW given \in Nat, NEW n \in Nat, Len(all) = given + n
    PROVE  /\ KidSeqs(all, given, n) \in Seq(Seq(Nat)) /\ Len(KidSeqs(all, given, n)) = n
           /\ Kids(all, given) = FlattenSeq(KidSeqs(all, given, n))
           /\ Kids(all, given) \in Seq(Nat)
<1>1. \A i \in 1..n : given + i \in 1..Len(all)
  OBVIOUS
<1>2. \A i \in 1..n : all[given + i].children \in Seq(Nat)
  <2>1. \A i \in 1..n : all[given + i] \in AstNodes
    BY <1>1, ElementOfSeq
  <2> QED
    BY <2>1 DEF AstNodes
<1>3. KidSeqs(all, given, n) \in Seq(Seq(Nat)) /\ Len(KidSeqs(all, given, n)) = n
  BY <1>2 DEF KidSeqs
<1>4. Len(all) - given = n
  OBVIOUS
<1>5. Kids(all, given) = FlattenSeq(KidSeqs(all, given, n))
  BY <1>4 DEF Kids
<1>6. Kids(all, given) \in Seq(Nat)
  BY <1>3, <1>5, FlattenTyped
<1> QED
  BY <1>3, <1>5, <1>6

(* A node more has its children more.                                           *)
LEMMA KidsOfMore ==
    ASSUME NEW all \in Seq(AstNodes), NEW given \in Nat, given <= Len(all), NEW node \in AstNodes
    PROVE  /\ Len(Kids(Append(all, node), given)) = Len(Kids(all, given)) + Len(node.children)
           /\ Range(Kids(Append(all, node), given)) = Range(Kids(all, given)) \cup Range(node.children)
<1>1. PICK n : n = Len(all) - given
  OBVIOUS
<1>2. PICK more : more = Append(all, node)
  OBVIOUS
<1>3. PICK seqs : seqs = KidSeqs(all, given, n)
  OBVIOUS
<1>4. PICK both : both = KidSeqs(more, given, n + 1)
  OBVIOUS
<1>5. PICK s : s = node.children
  OBVIOUS
<1>6. n \in Nat /\ Len(all) \in Nat /\ Len(all) = given + n
  BY <1>1, LenProperties
<1>7. /\ more \in Seq(AstNodes) /\ Len(more) = given + n + 1
      /\ \A j \in 1..Len(all) : more[j] = all[j]
      /\ more[given + n + 1] = node
  BY <1>2, <1>6, AppendProperties
<1>8. /\ seqs \in Seq(Seq(Nat)) /\ Len(seqs) = n /\ Kids(all, given) = FlattenSeq(seqs)
  BY <1>3, <1>6, KidsTyped
<1>9. both \in Seq(Seq(Nat)) /\ Len(both) = n + 1 /\ Kids(more, given) = FlattenSeq(both)
  <2>1. PICK m : m = n + 1
    OBVIOUS
  <2>2. m \in Nat /\ Len(more) = given + m
    BY <1>6, <1>7, <2>1
  <2> QED
    BY <1>4, <1>7, <2>1, <2>2, KidsTyped
<1>10. s \in Seq(Nat)
  BY <1>5 DEF AstNodes
<1>11. both = Append(seqs, s)
  <2>1. ASSUME NEW i \in 1..n PROVE both[i] = seqs[i]
    <3>1. PICK j : j = given + i
      OBVIOUS
    <3>2. j \in 1..Len(all) /\ i \in 1..(n + 1)
      BY <1>6, <3>1
    <3>3. both[i] = more[j].children /\ seqs[i] = all[j].children
      BY <1>3, <1>4, <3>1, <3>2 DEF KidSeqs
    <3> QED
      BY <1>7, <3>2, <3>3
  <2>2. both[n + 1] = s
    <3>1. PICK m : m = n + 1
      OBVIOUS
    <3>2. m \in 1..(n + 1) /\ given + m = given + n + 1
      BY <1>6, <3>1
    <3>3. both[m] = more[given + m].children
      BY <1>4, <3>2 DEF KidSeqs
    <3> QED
      BY <1>5, <1>7, <3>1, <3>2, <3>3
  <2>3. n = Len(seqs)
    BY <1>8
  <2> QED
    BY <1>8, <1>9, <1>10, <2>1, <2>2, <2>3, IsAppend
<1>12. FlattenSeq(both) = FlattenSeq(seqs) \o s /\ FlattenSeq(seqs) \in Seq(Nat)
  BY <1>8, <1>10, <1>11, FlattenAppend, FlattenTyped
<1>13. PICK flat : flat = FlattenSeq(seqs)
  OBVIOUS
<1>14. Len(flat \o s) = Len(flat) + Len(s) /\ Range(flat \o s) = Range(flat) \cup Range(s)
  BY <1>10, <1>12, <1>13, RangeOfConcat
<1> QED
  BY <1>2, <1>5, <1>8, <1>9, <1>12, <1>13, <1>14

\* The nodes with another one in a place.
PutAt(all, id, node) == [all EXCEPT ![id] = node]

(* A node that is rewritten: with the same children, or with one more.           *)
LEMMA KidsOfRewritten ==
    ASSUME NEW all \in Seq(AstNodes), NEW given \in Nat, NEW id \in (given + 1)..Len(all),
           NEW node \in AstNodes, NEW more, more = PutAt(all, id, node)
    PROVE  /\ node.children = all[id].children => Kids(more, given) = Kids(all, given)
           /\ \A a \in Nat : node.children = Append(all[id].children, a) =>
                 /\ Len(Kids(more, given)) = Len(Kids(all, given)) + 1
                 /\ Range(Kids(more, given)) = Range(Kids(all, given)) \cup {a}
<1>1. PICK n : n = Len(all) - given
  OBVIOUS
<1>2. PICK k : k = id - given
  OBVIOUS
<1>3. PICK seqs : seqs = KidSeqs(all, given, n)
  OBVIOUS
<1>4. PICK both : both = KidSeqs(more, given, n)
  OBVIOUS
<1>5. /\ n \in Nat /\ Len(all) \in Nat /\ Len(all) = given + n /\ given <= Len(all)
      /\ k \in 1..n /\ id = given + k
  <2>1. Len(all) \in Nat
    BY LenProperties
  <2> QED
    BY <1>1, <1>2, <2>1
<1>6. seqs \in Seq(Seq(Nat)) /\ Len(seqs) = n /\ Kids(all, given) = FlattenSeq(seqs)
  BY <1>3, <1>5, KidsTyped
<1>7. DOMAIN all = 1..Len(all) /\ Len(more) = Len(all)
  <2>1. DOMAIN all = 1..Len(all)
    BY LenProperties
  <2>2. DOMAIN more = 1..Len(all)
    BY <2>1 DEF PutAt
  <2> QED
    BY <1>5, <2>1, <2>2
<1>8. both = [seqs EXCEPT ![k] = node.children]
  <2>1. ASSUME NEW i \in 1..n
        PROVE  more[given + i].children = IF i = k THEN node.children ELSE seqs[i]
    <3>1. PICK j : j = given + i
      OBVIOUS
    <3>2. j \in 1..Len(all) /\ (j = id <=> i = k)
      BY <1>5, <3>1
    <3>3. more[j] = IF i = k THEN node ELSE all[j]
      BY <1>7, <3>2 DEF PutAt
    <3> QED
      BY <1>3, <3>1, <3>3 DEF KidSeqs
  <2>2. both = [i \in 1..n |-> IF i = k THEN node.children ELSE seqs[i]]
    BY <1>4, <2>1 DEF KidSeqs
  <2> QED
    BY <1>3, <2>2 DEF KidSeqs
<1>9. seqs[k] = all[id].children
  BY <1>3, <1>5 DEF KidSeqs
<1>10. Kids(all, given) = FlattenSeq(seqs) /\ Kids(more, given) = FlattenSeq(both)
  BY <1>1, <1>4, <1>6, <1>7 DEF Kids
<1>11. ASSUME node.children = all[id].children
       PROVE  Kids(more, given) = Kids(all, given)
  <2>1. both = seqs
    BY <1>3, <1>8, <1>9, <1>11 DEF KidSeqs
  <2> QED
    BY <1>10, <2>1
<1>12. ASSUME NEW a \in Nat, node.children = Append(all[id].children, a)
       PROVE  /\ Len(Kids(more, given)) = Len(Kids(all, given)) + 1
              /\ Range(Kids(more, given)) = Range(Kids(all, given)) \cup {a}
  <2>1. both = GrownAt(seqs, k, a)
    BY <1>8, <1>9, <1>12 DEF GrownAt
  <2>2. k \in 1..Len(seqs)
    BY <1>5, <1>6
  <2>3. /\ Len(FlattenSeq(both)) = Len(FlattenSeq(seqs)) + 1
        /\ Range(FlattenSeq(both)) = Range(FlattenSeq(seqs)) \cup {a}
    BY <1>6, <1>12, <2>1, <2>2, FlattenGrown
  <2> QED
    BY <1>10, <2>3
<1> QED
  BY <1>11, <1>12

(* Where the stack is below the call in progress, nothing changes: above it      *)
(* there are then other frames, with other nodes still to put into the tree.     *)
Above(p) ==
    /\ p \in Seq(Nat)
    /\ Len(Waits(stack')) = Len(Waits(Callers)) + Len(p)
    /\ Range(Waits(stack')) = Range(Waits(Callers)) \cup Range(p)

(* What waits is what the callers hold and what the innermost call holds.       *)
LEMMA Below ==
    ASSUME StackOK, status = "parsing"
    PROVE  /\ Callers \in Seq(Frames) /\ Waits(Callers) \in Seq(Nat) /\ Pending(Top) \in Seq(Nat)
           /\ Len(Waits(stack)) = Len(Waits(Callers)) + Len(Pending(Top))
           /\ Range(Waits(stack)) = Range(Waits(Callers)) \cup Range(Pending(Top))
<1>1. PICK callers : callers = Callers
  OBVIOUS
<1>2. PICK top : top = Top
  OBVIOUS
<1>3. callers \in Seq(Frames) /\ top \in Frames /\ stack = Append(callers, top)
  BY <1>1, <1>2, TopTyped
<1>4. Pending(top) \in Seq(Nat) /\ Waits(callers) \in Seq(Nat)
  BY <1>3, PendingTyped, WaitsTyped
<1>5. /\ Len(Waits(stack)) = Len(Waits(callers)) + Len(Pending(top))
      /\ Range(Waits(stack)) = Range(Waits(callers)) \cup Range(Pending(top))
  BY <1>3, <1>4, WaitsOfMore
<1> QED
  BY <1>1, <1>2, <1>3, <1>4, <1>5

(* The innermost call goes on as another frame.                                 *)
LEMMA AboveBecome ==
    ASSUME StackOK, StackOK', status = "parsing", UNCHANGED Input, NEW f, Become(f)
    PROVE  f \in Frames /\ Above(Pending(f))
<1>1. PICK callers : callers = Callers
  OBVIOUS
<1>2. PICK now : now = stack'
  OBVIOUS
<1>3. callers \in Seq(Frames) /\ now = Append(callers, f)
  BY <1>1, <1>2, Below DEF Become
<1>4. now \in Seq(Frames)
  BY <1>2 DEF StackOK, Frames, Input
<1>5. f \in Frames
  <2>1. PICK n : n = Len(callers) + 1
    OBVIOUS
  <2>2. n \in 1..n /\ Len(now) = n /\ now[n] = f
    BY <1>3, <2>1, LenProperties
  <2> QED
    BY <1>4, <2>2, ElementOfSeq
<1>6. Pending(f) \in Seq(Nat)
  BY <1>5, PendingTyped
<1>7. /\ Len(Waits(now)) = Len(Waits(callers)) + Len(Pending(f))
      /\ Range(Waits(now)) = Range(Waits(callers)) \cup Range(Pending(f))
  BY <1>3, <1>6, WaitsOfMore
<1> QED
  BY <1>1, <1>2, <1>5, <1>6, <1>7 DEF Above

(* The innermost call goes on as another frame and calls.                       *)
LEMMA AboveCall ==
    ASSUME StackOK, StackOK', status = "parsing", UNCHANGED Input, NEW f, NEW g,
           Pending(g) = <<>>, BecomeAndCall(f, g)
    PROVE  f \in Frames /\ Above(Pending(f))
<1>1. PICK callers : callers = Callers
  OBVIOUS
<1>2. PICK now : now = stack'
  OBVIOUS
<1>3. callers \in Seq(Frames) /\ now = callers \o <<f, g>>
  BY <1>1, <1>2, Below DEF BecomeAndCall
<1>4. now \in Seq(Frames)
  BY <1>2 DEF StackOK, Frames, Input
<1>5. PICK n : n = Len(callers)
  OBVIOUS
<1>6. PICK j : j = n + 1
  OBVIOUS
<1>7. PICK k : k = n + 2
  OBVIOUS
<1>8. /\ n \in Nat /\ DOMAIN callers = 1..n /\ j \in Nat /\ k = j + 1
      /\ Len(now) = k /\ now[j] = f /\ now[k] = g
      /\ \A i \in 1..n : now[i] = callers[i]
  BY <1>3, <1>5, <1>6, <1>7, LenProperties
<1>9. f \in Frames /\ g \in Frames
  <2>1. j \in 1..k /\ k \in 1..k
    BY <1>5, <1>6, <1>8
  <2> QED
    BY <1>4, <1>8, <2>1, ElementOfSeq
<1>10. PICK mid : mid = Append(callers, f)
  OBVIOUS
<1>11. mid \in Seq(Frames) /\ Len(mid) = j /\ mid[j] = f /\ \A i \in 1..n : mid[i] = callers[i]
  BY <1>3, <1>5, <1>6, <1>8, <1>9, <1>10, AppendProperties
<1>12. now = Append(mid, g)
  <2>1. \A i \in 1..j : now[i] = mid[i]
    <3>1. \A i \in 1..j : i \in 1..n \/ i = j
      BY <1>6, <1>8
    <3> QED
      BY <1>8, <1>11, <3>1
  <2>2. j = Len(mid) /\ Len(now) = j + 1 /\ now[j + 1] = g
    BY <1>8, <1>11
  <2> QED
    BY <1>4, <1>9, <1>11, <2>1, <2>2, IsAppend
<1>13. Pending(f) \in Seq(Nat) /\ Pending(g) \in Seq(Nat)
  BY <1>9, PendingTyped
<1>14. /\ Len(Waits(now)) = Len(Waits(mid)) + Len(Pending(g))
       /\ Range(Waits(now)) = Range(Waits(mid)) \cup Range(Pending(g))
  BY <1>11, <1>12, <1>13, WaitsOfMore
<1>15. /\ Len(Waits(mid)) = Len(Waits(callers)) + Len(Pending(f))
       /\ Range(Waits(mid)) = Range(Waits(callers)) \cup Range(Pending(f))
       /\ Waits(mid) \in Seq(Nat)
  BY <1>3, <1>10, <1>13, WaitsOfMore
<1>16. Len(Pending(g)) = 0 /\ Range(Pending(g)) = {} /\ Len(Waits(mid)) \in Nat
  BY <1>15, RangeOfTuples, LenProperties
<1>17. Len(Waits(now)) = Len(Waits(mid)) /\ Range(Waits(now)) = Range(Waits(mid))
  BY <1>14, <1>16
<1> QED
  BY <1>1, <1>2, <1>9, <1>13, <1>15, <1>17 DEF Above

(* The innermost call returns, holding nothing more.                            *)
LEMMA AboveReturn ==
    ASSUME StackOK, status = "parsing", NEW id, Return(id)
    PROVE  Above(<<>>)
<1>1. stack' = Callers /\ Waits(Callers) \in Seq(Nat)
  BY Below DEF Return
<1>2. Len(Waits(Callers)) \in Nat
  BY <1>1, LenProperties
<1>3. Len(<<>>) = 0 /\ Range(<<>>) = {} /\ <<>> \in Seq(Nat)
  BY RangeOfTuples
<1> QED
  BY <1>1, <1>2, <1>3 DEF Above

(* The innermost call, holding nothing, calls.                                  *)
LEMMA AbovePush ==
    ASSUME StackOK, status = "parsing", Pending(Top) = <<>>,
           NEW f \in Frames, stack' = Append(stack, f)
    PROVE  Above(Pending(f))
<1>1. PICK calls : calls = stack
  OBVIOUS
<1>2. PICK callers : callers = Callers
  OBVIOUS
<1>3. calls \in Seq(Frames) /\ Pending(f) \in Seq(Nat)
  BY <1>1, PendingTyped DEF StackOK
<1>4. /\ Len(Waits(Append(calls, f))) = Len(Waits(calls)) + Len(Pending(f))
      /\ Range(Waits(Append(calls, f))) = Range(Waits(calls)) \cup Range(Pending(f))
  BY <1>3, WaitsOfMore
<1>5. /\ Waits(callers) \in Seq(Nat)
      /\ Len(Waits(calls)) = Len(Waits(callers)) + Len(<<>>)
      /\ Range(Waits(calls)) = Range(Waits(callers)) \cup Range(<<>>)
  BY <1>1, <1>2, Below
<1>6. Len(<<>>) = 0 /\ Range(<<>>) = {} /\ Len(Waits(callers)) \in Nat
  BY <1>5, RangeOfTuples, LenProperties
<1>7. Len(Waits(calls)) = Len(Waits(callers)) /\ Range(Waits(calls)) = Range(Waits(callers))
  BY <1>5, <1>6
<1> QED
  BY <1>1, <1>2, <1>3, <1>4, <1>7 DEF Above

(* The innermost call, holding nothing, makes two calls.                        *)
LEMMA AbovePushTwo ==
    ASSUME StackOK, StackOK', status = "parsing", UNCHANGED Input, Pending(Top) = <<>>,
           NEW f \in Frames, NEW g \in Frames,
           Pending(f) = <<>>, Pending(g) = <<>>, stack' = stack \o <<f, g>>
    PROVE  Above(<<>>)
<1>1. PICK calls : calls = stack
  OBVIOUS
<1>2. PICK callers : callers = Callers
  OBVIOUS
<1>3. PICK now : now = stack'
  OBVIOUS
<1>4. PICK n : n = Len(calls)
  OBVIOUS
<1>5. PICK j : j = n + 1
  OBVIOUS
<1>6. calls \in Seq(Frames) /\ now \in Seq(Frames) /\ now = calls \o <<f, g>>
  BY <1>1, <1>3 DEF StackOK, Frames, Input
<1>7. /\ n \in Nat /\ j \in Nat
      /\ Len(now) = j + 1 /\ now[j] = f /\ now[j + 1] = g
      /\ \A i \in 1..n : now[i] = calls[i]
  BY <1>4, <1>5, <1>6, LenProperties
<1>8. PICK mid : mid = Append(calls, f)
  OBVIOUS
<1>9. mid \in Seq(Frames) /\ Len(mid) = j /\ mid[j] = f /\ \A i \in 1..n : mid[i] = calls[i]
  BY <1>4, <1>5, <1>6, <1>7, <1>8, AppendProperties
<1>10. now = Append(mid, g)
  <2>1. \A i \in 1..j : now[i] = mid[i]
    <3>1. \A i \in 1..j : i \in 1..n \/ i = j
      BY <1>5, <1>7
    <3> QED
      BY <1>7, <1>9, <3>1
  <2>2. j = Len(mid) /\ Len(now) = j + 1 /\ now[j + 1] = g
    BY <1>7, <1>9
  <2>3. now \in Seq(Frames) /\ mid \in Seq(Frames)
    BY <1>6, <1>9
  <2> QED
    BY <2>1, <2>2, <2>3, IsAppend
<1>11. Len(<<>>) = 0 /\ Range(<<>>) = {} /\ <<>> \in Seq(Nat)
  BY RangeOfTuples
<1>12. /\ Len(Waits(now)) = Len(Waits(mid)) + 0 /\ Range(Waits(now)) = Range(Waits(mid)) \cup {}
       /\ Len(Waits(mid)) = Len(Waits(calls)) + 0 /\ Range(Waits(mid)) = Range(Waits(calls)) \cup {}
  <2>1. Pending(g) \in Seq(Nat) /\ Len(Pending(g)) = 0 /\ Range(Pending(g)) = {}
    BY <1>11
  <2>2. Pending(f) \in Seq(Nat) /\ Len(Pending(f)) = 0 /\ Range(Pending(f)) = {}
    BY <1>11
  <2>3. /\ Len(Waits(now)) = Len(Waits(mid)) + Len(Pending(g))
        /\ Range(Waits(now)) = Range(Waits(mid)) \cup Range(Pending(g))
    BY <1>9, <1>10, <2>1, WaitsOfMore
  <2>4. /\ Len(Waits(mid)) = Len(Waits(calls)) + Len(Pending(f))
        /\ Range(Waits(mid)) = Range(Waits(calls)) \cup Range(Pending(f))
    BY <1>6, <1>8, <2>2, WaitsOfMore
  <2> QED
    BY <2>1, <2>2, <2>3, <2>4
<1>13. /\ Waits(callers) \in Seq(Nat)
       /\ Len(Waits(calls)) = Len(Waits(callers)) + 0
       /\ Range(Waits(calls)) = Range(Waits(callers)) \cup {}
  BY <1>1, <1>2, <1>11, Below
<1>14. Len(Waits(callers)) \in Nat
  BY <1>13, LenProperties
<1>15. /\ Len(Waits(now)) = Len(Waits(callers)) + 0
       /\ Range(Waits(now)) = Range(Waits(callers)) \cup {}
  BY <1>12, <1>13, <1>14
<1> QED
  BY <1>2, <1>3, <1>11, <1>15 DEF Above

(* What is returned is an id, before a step and after.                          *)
LEMMA ReturnsNodes ==
    ASSUME ParserInv, ParserInv', UNCHANGED Input
    PROVE  returned \in Nat /\ returned' \in Nat
<1>1. ReadingOK /\ ArenaOK /\ StackOK
  BY DEF ParserInv
<1>2. base \in Nat /\ base' = base
  BY <1>1, TokensTyped DEF Input, base
<1>3. returned \in New \cup {NoNode}
  BY <1>1 DEF StackOK
<1>4. returned' \in New' \cup {NoNode}
  BY DEF ParserInv, StackOK
<1>5. \A id \in New : id \in Nat
  BY <1>1, ArenaTyped
<1>6. \A id \in New' : id \in Nat
  BY <1>2 DEF New
<1> QED
  BY <1>3, <1>4, <1>5, <1>6 DEF NoNode

(* A step that makes no node hands on the ones it is given.                      *)
LEMMA HandedOn ==
    ASSUME ParserInv, ParserInv', Balanced, status = "parsing", UNCHANGED Arena, UNCHANGED Input,
           NEW p, Above(p),
           Len(p) + Len(Rest(returned')) = Len(Pending(Top)) + Len(Rest(returned)),
           Range(p) \cup Range(Rest(returned')) = Range(Pending(Top)) \cup Range(Rest(returned))
    PROVE  Balanced'
<1>1. PICK kids : kids = Kids(nodes, base)
  OBVIOUS
<1>2. PICK below : below = Waits(Callers)
  OBVIOUS
<1>3. PICK now : now = Waits(stack')
  OBVIOUS
<1>4. PICK old : old = Waits(stack)
  OBVIOUS
<1>5. PICK top : top = Pending(Top)
  OBVIOUS
<1>6. PICK r : r = Rest(returned)
  OBVIOUS
<1>7. PICK s : s = Rest(returned')
  OBVIOUS
<1>8. PICK n : n = Len(nodes) - base
  OBVIOUS
<1>9. PICK ids : ids = New
  OBVIOUS
<1>10. StackOK /\ ReadingOK /\ ArenaOK /\ Len(nodes) \in Nat /\ base \in Nat
  BY TokensTyped, LenProperties DEF ParserInv, ArenaOK
<1>11. returned \in Nat /\ returned' \in Nat
  BY ReturnsNodes
<1>12. kids \in Seq(Nat)
  <2>1. n \in Nat /\ Len(nodes) = base + n
    BY <1>8, <1>10 DEF ArenaOK
  <2> QED
    BY <1>1, <1>10, <2>1, KidsTyped DEF ArenaOK
<1>13. /\ Len(kids) \in Nat /\ Len(below) \in Nat /\ Len(top) \in Nat /\ Len(p) \in Nat
       /\ Len(r) \in Nat /\ Len(s) \in Nat /\ n \in Int
  BY <1>2, <1>5, <1>6, <1>7, <1>8, <1>10, <1>11, <1>12, Below, RestTyped, LenProperties DEF Above
<1>14. /\ Len(old) = Len(below) + Len(top) /\ Range(old) = Range(below) \cup Range(top)
       /\ Len(now) = Len(below) + Len(p) /\ Range(now) = Range(below) \cup Range(p)
  BY <1>2, <1>3, <1>4, <1>5, <1>10, Below DEF Above
<1>15. /\ Len(kids) + Len(old) + Len(r) = n
       /\ Range(kids) \cup Range(old) \cup Range(r) = ids
  BY <1>1, <1>4, <1>6, <1>8, <1>9 DEF Balanced
<1>16. Len(p) + Len(s) = Len(top) + Len(r) /\ Range(p) \cup Range(s) = Range(top) \cup Range(r)
  BY <1>5, <1>6, <1>7
<1>17. Len(kids) + Len(now) + Len(s) = n
  BY <1>13, <1>14, <1>15, <1>16, SMTT(30)
<1>18. Range(kids) \cup Range(now) \cup Range(s) = ids
  BY <1>14, <1>15, <1>16
<1>19. nodes' = nodes /\ base' = base /\ New' = New
  BY DEF Arena, Input, base, New
<1>20. Kids(nodes', base') = kids /\ Len(nodes') - base' = n /\ New' = ids
  BY <1>1, <1>8, <1>9, <1>19
<1> QED
  BY <1>3, <1>7, <1>17, <1>18, <1>20 DEF Balanced

(* A step that makes a node gives it the ones it has as its children, and has it *)
(* instead of them.                                                              *)
LEMMA PutTogether ==
    ASSUME ParserInv, ParserInv', Balanced, status = "parsing", UNCHANGED Input,
           NEW node \in AstNodes, create_node(node), NEW id, id = NextId,
           NEW p, Above(p),
           Len(node.children) = Len(Pending(Top)) + Len(Rest(returned)),
           Range(node.children) = Range(Pending(Top)) \cup Range(Rest(returned)),
           Len(p) + Len(Rest(returned')) = 1,
           Range(p) \cup Range(Rest(returned')) = {id}
    PROVE  Balanced'
<1>1. PICK kids : kids = Kids(nodes, base)
  OBVIOUS
<1>2. PICK below : below = Waits(Callers)
  OBVIOUS
<1>3. PICK now : now = Waits(stack')
  OBVIOUS
<1>4. PICK old : old = Waits(stack)
  OBVIOUS
<1>5. PICK top : top = Pending(Top)
  OBVIOUS
<1>6. PICK r : r = Rest(returned)
  OBVIOUS
<1>7. PICK s : s = Rest(returned')
  OBVIOUS
<1>8. PICK n : n = Len(nodes) - base
  OBVIOUS
<1>9. PICK ids : ids = New
  OBVIOUS
<1>10. PICK all : all = nodes
  OBVIOUS
<1>11. PICK given : given = base
  OBVIOUS
<1>12. PICK children : children = node.children
  OBVIOUS
<1>13. StackOK /\ ReadingOK /\ ArenaOK /\ Len(nodes) \in Nat /\ base \in Nat
  BY TokensTyped, LenProperties DEF ParserInv, ArenaOK
<1>14. returned \in Nat /\ returned' \in Nat
  BY ReturnsNodes
<1>15. /\ all \in Seq(AstNodes) /\ given \in Nat /\ given <= Len(all)
       /\ n \in Nat /\ Len(all) = given + n
  BY <1>8, <1>10, <1>11, <1>13 DEF ArenaOK
<1>16. kids = Kids(all, given) /\ kids \in Seq(Nat)
  BY <1>1, <1>10, <1>11, <1>15, KidsTyped
<1>17. PICK more : more = Append(all, node)
  OBVIOUS
<1>18. /\ Len(Kids(more, given)) = Len(kids) + Len(children)
       /\ Range(Kids(more, given)) = Range(kids) \cup Range(children)
       /\ Len(more) = given + n + 1
  <2>1. /\ Len(Kids(Append(all, node), given)) = Len(Kids(all, given)) + Len(node.children)
        /\ Range(Kids(Append(all, node), given)) = Range(Kids(all, given)) \cup Range(node.children)
    BY <1>15, KidsOfMore
  <2>2. Len(Append(all, node)) = Len(all) + 1
    BY <1>15, AppendProperties
  <2> QED
    BY <1>12, <1>15, <1>16, <1>17, <2>1, <2>2
<1>19. children \in Seq(Nat)
  BY <1>12 DEF AstNodes
<1>20. /\ Len(kids) \in Nat /\ Len(below) \in Nat /\ Len(top) \in Nat /\ Len(p) \in Nat
       /\ Len(r) \in Nat /\ Len(children) \in Nat
  BY <1>2, <1>5, <1>6, <1>13, <1>14, <1>16, <1>19, Below, RestTyped, LenProperties DEF Above
<1>21. /\ Len(old) = Len(below) + Len(top) /\ Range(old) = Range(below) \cup Range(top)
       /\ Len(now) = Len(below) + Len(p) /\ Range(now) = Range(below) \cup Range(p)
  BY <1>2, <1>3, <1>4, <1>5, <1>13, Below DEF Above
<1>22. /\ Len(kids) + Len(old) + Len(r) = n
       /\ Range(kids) \cup Range(old) \cup Range(r) = ids
  BY <1>1, <1>4, <1>6, <1>8, <1>9 DEF Balanced
<1>23. /\ Len(children) = Len(top) + Len(r) /\ Range(children) = Range(top) \cup Range(r)
       /\ Len(p) + Len(s) = 1 /\ Range(p) \cup Range(s) = {id}
  BY <1>5, <1>6, <1>7, <1>12
<1>24. Len(s) \in Int
  <2>1. s \in Seq(Nat)
    BY <1>7, <1>14, RestTyped
  <2> QED
    BY <2>1, LenProperties
<1>25. (Len(kids) + Len(children)) + Len(now) + Len(s) = n + 1
  BY <1>15, <1>20, <1>21, <1>22, <1>23, <1>24, SMTT(30)
<1>26. (Range(kids) \cup Range(children)) \cup Range(now) \cup Range(s) = ids \cup {id}
  BY <1>21, <1>22, <1>23
<1>27. nodes' = more /\ base' = given /\ New' = ids \cup {id}
  BY <1>9, <1>10, <1>11, <1>13, <1>17, NodeCreated DEF create_node, base, Input
<1>28. Len(nodes') - base' = n + 1
  BY <1>15, <1>18, <1>27
<1>29. /\ Len(Kids(nodes', base')) = Len(kids) + Len(children)
       /\ Range(Kids(nodes', base')) = Range(kids) \cup Range(children)
  BY <1>18, <1>27
<1> QED
  BY <1>3, <1>7, <1>25, <1>26, <1>27, <1>28, <1>29 DEF Balanced

(* A step that only goes on: the calls in progress have what they had.           *)
LEMMA GoesOn ==
    ASSUME ParserInv, ParserInv', Balanced, status = "parsing", UNCHANGED Arena, UNCHANGED Input,
           returned' = returned, Above(Pending(Top))
    PROVE  Balanced'
<1>1. PICK p : p = Pending(Top)
  OBVIOUS
<1>2. Above(p)
  BY <1>1 DEF Above
<1>3. /\ Len(p) + Len(Rest(returned')) = Len(Pending(Top)) + Len(Rest(returned))
      /\ Range(p) \cup Range(Rest(returned')) = Range(Pending(Top)) \cup Range(Rest(returned))
  BY <1>1
<1> QED
  BY <1>2, <1>3, HandedOn

(* A step that returns the node its call has.                                   *)
LEMMA GivesBack ==
    ASSUME ParserInv, ParserInv', Balanced, status = "parsing", UNCHANGED Arena, UNCHANGED Input,
           returned = NoNode, NEW id \in New, Return(id), Pending(Top) = <<id>>
    PROVE  Balanced'
<1>1. StackOK /\ ReadingOK /\ ArenaOK
  BY DEF ParserInv
<1>2. Above(<<>>)
  BY <1>1, AboveReturn
<1>3. id \in Nat /\ id # NoNode /\ NoNode \in Nat
  BY <1>1, ArenaTyped DEF NoNode
<1>4. /\ Rest(returned) = <<>> /\ Rest(returned') = <<id>>
  BY <1>3, RestTyped DEF Return
<1>5. /\ Len(<<>>) + Len(Rest(returned')) = Len(Pending(Top)) + Len(Rest(returned))
      /\ Range(<<>>) \cup Range(Rest(returned')) = Range(Pending(Top)) \cup Range(Rest(returned))
  BY <1>4, RangeOfTuples
<1> QED
  BY <1>2, <1>5, HandedOn

(* The calls that have nothing yet.                                             *)
LEMMA NoneYet ==
    /\ Pending(StatementFrame) = <<>> /\ Pending(ExpressionStatementFrame) = <<>>
    /\ \A start : Pending(ReturnFrame(start)) = <<>> /\ Pending(GroupFrame(start)) = <<>>
    /\ \A min : Pending(ExpressionFrame(min)) = <<>>
    /\ \A op, start : Pending(UnaryFrame(op, start)) = <<>>
BY DEF Pending, StatementFrame, ExpressionStatementFrame, ReturnFrame, GroupFrame,
       ExpressionFrame, UnaryFrame

(* The statements.                                                              *)

(* CollectStatement keeps every node held once.                                 *)
LEMMA CollectStatementBalanced ==
    ASSUME ParserInv, ParserInv', Balanced, CollectStatement
    PROVE  Balanced'
<1>1. (Parsing("module") \/ Parsing("block")) /\ returned # NoNode
  BY DEF CollectStatement, Resumed
<1>2. /\ Top.rule \in {"module", "block"} /\ Settled(Top, New) /\ returned \in Nat
      /\ ReadingOK /\ ArenaOK /\ StackOK
  BY <1>1, InFrame
<1>3. PICK id : id = Top.node
  OBVIOUS
<1>4. PICK all : all = nodes
  OBVIOUS
<1>5. PICK given : given = base
  OBVIOUS
<1>6. PICK a : a = returned
  OBVIOUS
<1>7. /\ id \in New /\ id \in DOMAIN nodes /\ nodes[id] \in AstNodes
      /\ given \in Nat /\ all \in Seq(AstNodes) /\ id \in (given + 1)..Len(all) /\ a \in Nat
  <2>1. id \in New
    BY <1>2, <1>3 DEF Settled
  <2> QED
    BY <1>2, <1>4, <1>5, <1>6, <2>1, ArenaTyped, TokensTyped DEF New, ArenaOK
<1>8. PICK node : node = [nodes[id] EXCEPT !.children = Append(nodes[id].children, returned)]
  OBVIOUS
<1>9. node \in AstNodes /\ node.children = Append(all[id].children, a)
  <2>1. nodes[id].children \in Seq(Nat)
    BY <1>7 DEF AstNodes
  <2>2. Append(nodes[id].children, returned) \in Seq(Nat)
    BY <1>2, <2>1, AppendProperties
  <2> QED
    BY <1>4, <1>6, <1>7, <1>8, <2>2 DEF AstNodes
<1>10. PICK more : more = PutAt(all, id, node)
  OBVIOUS
<1>11. nodes' = more
  BY <1>3, <1>4, <1>7, <1>8, <1>10 DEF CollectStatement, PutAt
<1>12. UNCHANGED capacity /\ UNCHANGED <<stack, Input>> /\ UNCHANGED Input /\ returned' = NoNode
  BY DEF CollectStatement
<1>13. /\ Len(Kids(more, given)) = Len(Kids(all, given)) + 1
       /\ Range(Kids(more, given)) = Range(Kids(all, given)) \cup {a}
  BY <1>7, <1>9, <1>10, KidsOfRewritten, SMTT(30)
<1>14. New' = New /\ Len(nodes') = Len(nodes) /\ base' = base
  <2>1. nodes' = [nodes EXCEPT ![id] = node]
    BY <1>4, <1>10, <1>11 DEF PutAt
  <2>2. New' = New
    BY <1>2, <1>7, <1>9, <1>12, <2>1, NodeRewritten
  <2>3. Len(nodes') = Len(nodes)
    BY <1>2, <1>7, <2>1, LenProperties DEF ArenaOK
  <2> QED
    BY <1>12, <2>2, <2>3 DEF base, Input
<1>15. /\ Len(Rest(returned)) = 1 /\ Range(Rest(returned)) = {a}
       /\ Len(Rest(returned')) = 0 /\ Range(Rest(returned')) = {}
  BY <1>1, <1>2, <1>6, <1>12, RestTyped DEF NoNode
<1>16. Len(Kids(all, given)) \in Nat /\ Len(Waits(stack)) \in Nat
  <2>1. PICK n : n = Len(all) - given
    OBVIOUS
  <2>2. n \in Nat /\ Len(all) = given + n
    BY <1>7, <2>1, LenProperties
  <2>3. Kids(all, given) \in Seq(Nat)
    BY <1>7, <2>2, KidsTyped
  <2>4. Waits(stack) \in Seq(Nat)
    BY <1>2, WaitsTyped DEF StackOK
  <2> QED
    BY <2>3, <2>4, LenProperties
<1>17. /\ Len(Kids(all, given)) + Len(Waits(stack)) + 1 = Len(nodes) - base
       /\ Range(Kids(all, given)) \cup Range(Waits(stack)) \cup {a} = New
  BY <1>4, <1>5, <1>15 DEF Balanced
<1>18. /\ (Len(Kids(all, given)) + 1) + Len(Waits(stack)) + 0 = Len(nodes) - base
       /\ (Range(Kids(all, given)) \cup {a}) \cup Range(Waits(stack)) \cup {} = New
  BY <1>16, <1>17
<1>19. stack' = stack /\ nodes' = more /\ base' = given
  BY <1>5, <1>11, <1>12, <1>14
<1> QED
  BY <1>13, <1>14, <1>15, <1>18, <1>19 DEF Balanced

(* MoreStatements keeps every node held once.                                   *)
LEMMA MoreStatementsBalanced ==
    ASSUME ParserInv, ParserInv', Balanced, MoreStatements
    PROVE  Balanced'
<1>1. (Parsing("module") \/ Parsing("block")) /\ returned = NoNode
  BY DEF MoreStatements, Entered
<1>2. status = "parsing" /\ StackOK /\ StackOK'
  BY <1>1 DEF ParserInv, Parsing
<1>3. /\ BecomeAndCall(Top, StatementFrame) /\ UNCHANGED Arena /\ UNCHANGED Input
      /\ returned' = returned
  BY <1>1 DEF MoreStatements, BecomeAndCall
<1>4. Pending(StatementFrame) = <<>>
  BY DEF Pending, StatementFrame
<1>5. Above(Pending(Top))
  BY <1>2, <1>3, <1>4, AboveCall
<1> QED
  BY <1>2, <1>3, <1>5, GoesOn

(* EndModule keeps every node held once.                                        *)
LEMMA EndModuleBalanced ==
    ASSUME ParserInv, ParserInv', Balanced, EndModule
    PROVE  Balanced'
<1>1. Parsing("module") /\ returned = NoNode
  BY DEF EndModule, Entered
<1>2. status = "parsing" /\ Top.rule = "module" /\ Settled(Top, New)
  BY <1>1, InFrame
<1>3. PICK id : id = Top.node
  OBVIOUS
<1>4. Pending(Top) = <<id>> /\ id \in New
  BY <1>2, <1>3, PendingForms DEF Settled
<1>5. Return(id) /\ UNCHANGED Arena /\ UNCHANGED Input
  BY <1>3 DEF EndModule
<1> QED
  BY <1>1, <1>2, <1>4, <1>5, GivesBack

(* EndBlock keeps every node held once.                                         *)
LEMMA EndBlockBalanced ==
    ASSUME ParserInv, ParserInv', Balanced, EndBlock
    PROVE  Balanced'
<1>1. Parsing("block") /\ returned = NoNode
  BY DEF EndBlock, Entered
<1>2. /\ status = "parsing" /\ Top \in Frames /\ Top.rule = "block"
      /\ Settled(Top, New) /\ ReadingOK /\ ArenaOK /\ StackOK
  BY <1>1, InFrame
<1>3. PICK id : id = Top.node
  OBVIOUS
<1>4. PICK all : all = nodes
  OBVIOUS
<1>5. PICK given : given = base
  OBVIOUS
<1>6. /\ id \in New /\ id \in DOMAIN nodes /\ nodes[id] \in AstNodes /\ id \in Nat /\ id # NoNode
      /\ given \in Nat /\ all \in Seq(AstNodes) /\ id \in (given + 1)..Len(all)
  <2>1. id \in New
    BY <1>2, <1>3 DEF Settled
  <2> QED
    BY <1>2, <1>4, <1>5, <2>1, ArenaTyped, TokensTyped DEF New, ArenaOK
<1>7. PICK node : node = [nodes[id] EXCEPT !.span = To(Top.start)]
  OBVIOUS
<1>8. node \in AstNodes /\ node.children = all[id].children
  <2>1. To(Top.start) \in Spans
    BY <1>2, FrameForms, SpansTyped
  <2> QED
    BY <1>4, <1>6, <1>7, <2>1 DEF AstNodes
<1>9. PICK more : more = PutAt(all, id, node)
  OBVIOUS
<1>10. nodes' = more
  BY <1>3, <1>4, <1>6, <1>7, <1>9 DEF EndBlock, PutAt
<1>11. Return(id) /\ UNCHANGED capacity /\ UNCHANGED Input
  BY <1>3 DEF EndBlock
<1>12. Kids(more, given) = Kids(all, given)
  BY <1>6, <1>8, <1>9, KidsOfRewritten
<1>13. New' = New /\ Len(nodes') = Len(nodes) /\ base' = base
  <2>1. nodes' = [nodes EXCEPT ![id] = node]
    BY <1>4, <1>9, <1>10 DEF PutAt
  <2>2. New' = New
    BY <1>2, <1>6, <1>8, <1>11, <2>1, NodeRewritten
  <2>3. Len(nodes') = Len(nodes)
    BY <1>2, <1>6, <2>1, LenProperties DEF ArenaOK
  <2> QED
    BY <1>11, <2>2, <2>3 DEF base, Input
<1>14. Above(<<>>)
  BY <1>2, <1>11, AboveReturn
<1>15. /\ Pending(Top) = <<id>> /\ Rest(returned) = <<>> /\ Rest(returned') = <<id>>
  BY <1>1, <1>2, <1>3, <1>6, <1>11, PendingForms DEF Rest, Return
<1>16. /\ Len(<<id>>) = 1 /\ Range(<<id>>) = {id} /\ Len(<<>>) = 0 /\ Range(<<>>) = {}
  BY RangeOfTuples
<1>17. PICK below : below = Waits(Callers)
  OBVIOUS
<1>18. PICK kids : kids = Kids(all, given)
  OBVIOUS
<1>19. /\ Len(Waits(stack)) = Len(below) + 1 /\ Range(Waits(stack)) = Range(below) \cup {id}
       /\ Len(Waits(stack')) = Len(below) + 0 /\ Range(Waits(stack')) = Range(below) \cup {}
  BY <1>2, <1>14, <1>15, <1>16, <1>17, Below DEF Above
<1>20. /\ Len(kids) + (Len(below) + 1) + 0 = Len(nodes) - base
       /\ Range(kids) \cup (Range(below) \cup {id}) \cup {} = New
  BY <1>4, <1>5, <1>15, <1>16, <1>18, <1>19 DEF Balanced
<1>21. Len(kids) \in Nat /\ Len(below) \in Nat
  <2>1. PICK n : n = Len(all) - given
    OBVIOUS
  <2>2. n \in Nat /\ Len(all) = given + n
    BY <1>6, <2>1, LenProperties
  <2>3. kids \in Seq(Nat) /\ below \in Seq(Nat)
    BY <1>2, <1>6, <1>17, <1>18, <2>2, KidsTyped, Below
  <2> QED
    BY <2>3, LenProperties
<1>22. /\ Len(kids) + (Len(below) + 0) + 1 = Len(nodes) - base
       /\ Range(kids) \cup (Range(below) \cup {}) \cup {id} = New
  BY <1>20, <1>21
<1>23. Kids(nodes', base') = kids /\ Len(nodes') - base' = Len(nodes) - base
  BY <1>5, <1>10, <1>12, <1>13, <1>18
<1> QED
  BY <1>13, <1>15, <1>16, <1>19, <1>22, <1>23 DEF Balanced

(* BeginBlock keeps every node held once.                                       *)
LEMMA BeginBlockBalanced ==
    ASSUME ParserInv, ParserInv', Balanced, BeginBlock
    PROVE  Balanced'
<1>1. Parsing("statement") /\ returned = NoNode
  BY DEF BeginBlock, Entered
<1>2. status = "parsing" /\ Top.rule = "statement" /\ StackOK /\ StackOK' /\ ReadingOK
  BY <1>1, InFrame DEF ParserInv
<1>3. PICK node : node = Leaf("BlockStmt", Here, "")
  OBVIOUS
<1>4. node \in AstNodes /\ node.children = <<>>
  <2>1. Here \in Spans /\ "BlockStmt" \in AstKinds /\ <<>> \in Seq(Nat)
    BY <1>2, SpansTyped DEF AstKinds
  <2> QED
    BY <1>3, <2>1, NodesTyped, OwnTextsAreStrings DEF OwnTextsAreStrings, Leaf
<1>5. PICK id : id = NextId
  OBVIOUS
<1>6. PICK f : f = BlockFrame(id, Len(read))
  OBVIOUS
<1>7. create_node(node) /\ Become(f) /\ UNCHANGED Input /\ returned' = NoNode
  BY <1>3, <1>5, <1>6 DEF BeginBlock, Become
<1>8. Above(Pending(f))
  BY <1>2, <1>7, AboveBecome
<1>9. Pending(f) = <<id>> /\ Pending(Top) = <<>>
  <2>1. f.rule = "block" /\ f.node = id
    BY <1>6 DEF BlockFrame
  <2> QED
    BY <1>2, <2>1, PendingForms
<1>10. Rest(returned) = <<>> /\ Rest(returned') = <<>>
  BY <1>1, <1>7 DEF Rest
<1> QED
  BY <1>2, <1>4, <1>5, <1>7, <1>8, <1>9, <1>10, RangeOfTuples, PutTogether

(* BeginLet keeps every node held once.                                         *)
LEMMA BeginLetBalanced ==
    ASSUME ParserInv, ParserInv', Balanced, BeginLet
    PROVE  Balanced'
<1>1. Parsing("statement") /\ returned = NoNode
  BY DEF BeginLet, Entered
<1>2. status = "parsing" /\ Top.rule = "statement" /\ StackOK /\ StackOK'
  BY <1>1, InFrame DEF ParserInv
<1>3. PICK f : f = LetFrame(Len(read))
  OBVIOUS
<1>4. Become(f) /\ UNCHANGED Arena /\ UNCHANGED Input /\ returned' = returned
  BY <1>1, <1>3 DEF BeginLet, Become
<1>5. Above(Pending(f))
  BY <1>2, <1>4, AboveBecome
<1>6. f.rule = "let" /\ f.name_node = NoNode
  BY <1>3 DEF LetFrame
<1>7. Pending(f) = <<>> /\ Pending(Top) = <<>>
  BY <1>2, <1>6, PendingForms DEF Rest
<1>8. Above(Pending(Top))
  BY <1>5, <1>7
<1> QED
  BY <1>2, <1>4, <1>8, GoesOn

(* LetMut keeps every node held once.                                           *)
LEMMA LetMutBalanced ==
    ASSUME ParserInv, ParserInv', Balanced, LetMut
    PROVE  Balanced'
<1>1. Parsing("let") /\ returned = NoNode
  BY DEF LetMut, Entered
<1>2. status = "parsing" /\ Top \in Frames /\ Top.rule = "let" /\ StackOK /\ StackOK'
  BY <1>1, InFrame DEF ParserInv
<1>3. PICK f : f = [Top EXCEPT !.expects = "name"]
  OBVIOUS
<1>4. PICK g : g = [f EXCEPT !.value = "mut"]
  OBVIOUS
<1>5. g.rule = "let" /\ g.name_node = Top.name_node
  <2>1. Top \in [rule : {"let"}, start : Nat, expects : {"mut", "name", "=", ";"},
                 value : {"let", "mut"}, name_node : Nat, block : Nat]
    BY <1>2, FrameForms
  <2>2. /\ f \in [rule : {"let"}, start : Nat, expects : {"mut", "name", "=", ";"},
                  value : {"let", "mut"}, name_node : Nat, block : Nat]
        /\ f.name_node = Top.name_node
    BY <1>3, <2>1
  <2> QED
    BY <1>4, <2>2
<1>6. Become(g) /\ UNCHANGED Arena /\ UNCHANGED Input /\ returned' = returned
  BY <1>1, <1>3, <1>4 DEF LetMut, Become
<1>7. Above(Pending(g))
  BY <1>2, <1>6, AboveBecome
<1>8. Pending(g) = Pending(Top)
  BY <1>2, <1>5, PendingForms
<1>9. Above(Pending(Top))
  BY <1>7, <1>8
<1> QED
  BY <1>2, <1>6, <1>9, GoesOn

(* LetName keeps every node held once.                                          *)
LEMMA LetNameBalanced ==
    ASSUME ParserInv, ParserInv', Balanced, LetName
    PROVE  Balanced'
<1>1. Parsing("let") /\ returned = NoNode /\ Top.expects \in {"mut", "name"}
  BY DEF LetName, Entered
<1>2. /\ status = "parsing" /\ Top \in Frames /\ Top.rule = "let" /\ token.lexeme \in STRING
      /\ Settled(Top, New) /\ ReadingOK /\ ArenaOK /\ StackOK /\ StackOK'
  BY <1>1, InFrame DEF ParserInv
<1>3. PICK node : node = Leaf("IdentifierExpr", Here, token.lexeme)
  OBVIOUS
<1>4. node \in AstNodes /\ node.children = <<>>
  <2>1. Here \in Spans /\ "IdentifierExpr" \in AstKinds /\ <<>> \in Seq(Nat)
    BY <1>2, SpansTyped DEF AstKinds
  <2> QED
    BY <1>2, <1>3, <2>1, NodesTyped DEF Leaf
<1>5. PICK id : id = NextId
  OBVIOUS
<1>6. PICK room : room = NextCapacity
  OBVIOUS
<1>7. PICK f : f = [Top EXCEPT !.expects = "="]
  OBVIOUS
<1>8. PICK g : g = [f EXCEPT !.name_node = id]
  OBVIOUS
<1>9. PICK h : h = [g EXCEPT !.block = room]
  OBVIOUS
<1>10. create_node(node) /\ Become(h) /\ UNCHANGED Input /\ returned' = NoNode
  BY <1>3, <1>5, <1>6, <1>7, <1>8, <1>9 DEF LetName, Become
<1>11. id \in Nat /\ id # NoNode /\ room \in Nat
  BY <1>2, <1>5, <1>6, ArenaTyped DEF NoNode
<1>12. h.rule = "let" /\ h.name_node = id
  <2>1. Top \in [rule : {"let"}, start : Nat, expects : {"mut", "name", "=", ";"},
                 value : {"let", "mut"}, name_node : Nat, block : Nat]
    BY <1>2, FrameForms
  <2>2. f \in [rule : {"let"}, start : Nat, expects : {"mut", "name", "=", ";"},
               value : {"let", "mut"}, name_node : Nat, block : Nat]
    BY <1>7, <2>1
  <2>3. /\ g \in [rule : {"let"}, start : Nat, expects : {"mut", "name", "=", ";"},
                  value : {"let", "mut"}, name_node : Nat, block : Nat]
        /\ g.name_node = id
    BY <1>8, <1>11, <2>2
  <2> QED
    BY <1>9, <2>3
<1>13. Above(Pending(h))
  BY <1>2, <1>10, AboveBecome
<1>14. Pending(h) = <<id>>
  BY <1>11, <1>12, PendingForms DEF Rest
<1>15. Pending(Top) = <<>>
  BY <1>1, <1>2, PendingForms DEF Rest, Settled
<1>16. Rest(returned) = <<>> /\ Rest(returned') = <<>>
  BY <1>1, <1>10 DEF Rest
<1> QED
  BY <1>2, <1>4, <1>5, <1>10, <1>13, <1>14, <1>15, <1>16, RangeOfTuples, PutTogether

(* LetEquals keeps every node held once.                                        *)
LEMMA LetEqualsBalanced ==
    ASSUME ParserInv, ParserInv', Balanced, LetEquals
    PROVE  Balanced'
<1>1. Parsing("let") /\ returned = NoNode
  BY DEF LetEquals, Entered
<1>2. status = "parsing" /\ Top \in Frames /\ Top.rule = "let" /\ StackOK /\ StackOK'
  BY <1>1, InFrame DEF ParserInv
<1>3. PICK f : f = [Top EXCEPT !.expects = ";"]
  OBVIOUS
<1>4. f.rule = "let" /\ f.name_node = Top.name_node
  <2>1. Top \in [rule : {"let"}, start : Nat, expects : {"mut", "name", "=", ";"},
                 value : {"let", "mut"}, name_node : Nat, block : Nat]
    BY <1>2, FrameForms
  <2> QED
    BY <1>3, <2>1
<1>5. /\ BecomeAndCall(f, ExpressionFrame(1)) /\ UNCHANGED Arena /\ UNCHANGED Input
      /\ returned' = returned
  BY <1>1, <1>3 DEF LetEquals, BecomeAndCall
<1>6. Pending(ExpressionFrame(1)) = <<>>
  BY NoneYet
<1>7. Above(Pending(f))
  BY <1>2, <1>5, <1>6, AboveCall
<1>8. Pending(f) = Pending(Top)
  BY <1>2, <1>4, PendingForms
<1>9. Above(Pending(Top))
  BY <1>7, <1>8
<1> QED
  BY <1>2, <1>5, <1>9, GoesOn

(* EndLet keeps every node held once.                                           *)
LEMMA EndLetBalanced ==
    ASSUME ParserInv, ParserInv', Balanced, EndLet, ~dangled'
    PROVE  Balanced'
<1>1. Parsing("let") /\ returned # NoNode
  BY DEF EndLet, Resumed
<1>2. /\ status = "parsing" /\ Top \in Frames /\ Top.rule = "let" /\ Waiting(Top)
      /\ Settled(Top, New) /\ ReadingOK /\ ArenaOK /\ StackOK /\ returned \in Nat
  BY <1>1, InFrame
<1>3. Top.expects = ";" /\ Top.name_node \in New
  BY <1>2 DEF Waiting, Settled
<1>4. PICK name : name = Top.name_node
  OBVIOUS
<1>5. name \in Nat /\ name # NoNode /\ Top.start \in Nat /\ Top.value \in STRING
  BY <1>2, <1>3, <1>4, ArenaTyped, FrameForms
<1>6. PICK a : a = returned
  OBVIOUS
<1>7. PICK node : node = AstNode("LetStmt", To(Top.start), Top.value, <<name, a>>)
  OBVIOUS
<1>8. create_node(node)
  <2>1. PICK id \in IF Top.block # NextCapacity THEN 0..NextId ELSE {Top.name_node} :
           /\ create_node(AstNode("LetStmt", To(Top.start), Top.value, <<id, returned>>))
           /\ dangled' = (dangled \/ Top.block # NextCapacity)
    BY DEF EndLet
  <2>2. Top.block = NextCapacity
    BY <2>1
  <2>3. id = name
    BY <1>4, <2>1, <2>2
  <2> QED
    BY <1>6, <1>7, <2>1, <2>3
<1>9. node \in AstNodes /\ node.children = <<name, a>>
  <2>1. To(Top.start) \in Spans /\ "LetStmt" \in AstKinds /\ <<name, a>> \in Seq(Nat)
    BY <1>2, <1>5, <1>6, SpansTyped DEF AstKinds
  <2> QED
    BY <1>5, <1>7, <2>1, NodesTyped
<1>10. PICK id : id = NextId
  OBVIOUS
<1>11. Return(id) /\ UNCHANGED Input /\ returned' = id
  BY <1>10 DEF EndLet, Return
<1>12. Above(<<>>)
  BY <1>2, <1>11, AboveReturn
<1>13. id \in Nat /\ id # NoNode
  BY <1>2, <1>10, ArenaTyped DEF NoNode
<1>14. Pending(Top) = <<name>>
  BY <1>2, <1>4, <1>5, PendingForms DEF Rest
<1>15. Rest(returned) = <<a>> /\ Rest(returned') = <<id>>
  BY <1>1, <1>6, <1>11, <1>13 DEF Rest
<1>16. /\ Len(node.children) = Len(Pending(Top)) + Len(Rest(returned))
       /\ Range(node.children) = Range(Pending(Top)) \cup Range(Rest(returned))
  <2>1. Len(<<name, a>>) = Len(<<name>>) + Len(<<a>>)
    BY RangeOfTuples
  <2>2. Range(<<name, a>>) = Range(<<name>>) \cup Range(<<a>>)
    BY RangeOfTuples
  <2> QED
    BY <1>9, <1>14, <1>15, <2>1, <2>2
<1>17. Len(<<>>) + Len(Rest(returned')) = 1 /\ Range(<<>>) \cup Range(Rest(returned')) = {id}
  BY <1>15, RangeOfTuples
<1> QED
  BY <1>2, <1>8, <1>9, <1>10, <1>11, <1>12, <1>16, <1>17, PutTogether

(* BeginReturn keeps every node held once.                                      *)
LEMMA BeginReturnBalanced ==
    ASSUME ParserInv, ParserInv', Balanced, BeginReturn
    PROVE  Balanced'
<1>1. Parsing("statement") /\ returned = NoNode
  BY DEF BeginReturn, Entered
<1>2. status = "parsing" /\ Top.rule = "statement" /\ StackOK /\ StackOK'
  BY <1>1, InFrame DEF ParserInv
<1>3. PICK f : f = ReturnFrame(Len(read))
  OBVIOUS
<1>4. Become(f) /\ UNCHANGED Arena /\ UNCHANGED Input /\ returned' = returned
  BY <1>1, <1>3 DEF BeginReturn, Become
<1>5. Above(Pending(f))
  BY <1>2, <1>4, AboveBecome
<1>6. Pending(f) = <<>> /\ Pending(Top) = <<>>
  BY <1>2, <1>3, NoneYet, PendingForms
<1>7. Above(Pending(Top))
  BY <1>5, <1>6
<1> QED
  BY <1>2, <1>4, <1>7, GoesOn

(* ReturnValue keeps every node held once.                                      *)
LEMMA ReturnValueBalanced ==
    ASSUME ParserInv, ParserInv', Balanced, ReturnValue
    PROVE  Balanced'
<1>1. Parsing("return") /\ returned = NoNode
  BY DEF ReturnValue, Entered
<1>2. status = "parsing" /\ StackOK /\ StackOK'
  BY <1>1 DEF ParserInv, Parsing
<1>3. /\ BecomeAndCall(Top, ExpressionFrame(1)) /\ UNCHANGED Arena /\ UNCHANGED Input
      /\ returned' = returned
  BY <1>1 DEF ReturnValue, BecomeAndCall
<1>4. Above(Pending(Top))
  BY <1>2, <1>3, NoneYet, AboveCall
<1> QED
  BY <1>2, <1>3, <1>4, GoesOn

(* EndReturn keeps every node held once.                                        *)
LEMMA EndReturnBalanced ==
    ASSUME ParserInv, ParserInv', Balanced, EndReturn
    PROVE  Balanced'
<1>1. Parsing("return")
  BY DEF EndReturn
<1>2. /\ status = "parsing" /\ Top \in Frames /\ Top.rule = "return"
      /\ ReadingOK /\ ArenaOK /\ StackOK /\ returned \in Nat
  BY <1>1, InFrame
<1>3. PICK children : children = Rest(returned)
  OBVIOUS
<1>4. PICK node : node = AstNode("ReturnStmt", To(Top.start), "", children)
  OBVIOUS
<1>5. node \in AstNodes /\ node.children = children
  <2>1. Top.start \in Nat
    BY <1>2, FrameForms
  <2>2. To(Top.start) \in Spans /\ "ReturnStmt" \in AstKinds /\ children \in Seq(Nat)
    BY <1>2, <1>3, <2>1, SpansTyped, RestTyped DEF AstKinds
  <2> QED
    BY <1>4, <2>2, NodesTyped, OwnTextsAreStrings DEF OwnTextsAreStrings
<1>6. PICK id : id = NextId
  OBVIOUS
<1>7. create_node(node) /\ Return(id) /\ UNCHANGED Input /\ returned' = id
  BY <1>3, <1>4, <1>6 DEF EndReturn, Return, Rest
<1>8. Above(<<>>)
  BY <1>2, <1>7, AboveReturn
<1>9. id \in Nat /\ id # NoNode
  BY <1>2, <1>6, ArenaTyped DEF NoNode
<1>10. Pending(Top) = <<>> /\ Rest(returned') = <<id>> /\ Rest(returned) = children
  BY <1>2, <1>3, <1>7, <1>9, PendingForms DEF Rest
<1>11. /\ Len(node.children) = Len(Pending(Top)) + Len(Rest(returned))
       /\ Range(node.children) = Range(Pending(Top)) \cup Range(Rest(returned))
  <2>1. Len(children) \in Nat
    BY <1>2, <1>3, RestTyped, LenProperties
  <2> QED
    BY <1>5, <1>10, <2>1, RangeOfTuples
<1>12. Len(<<>>) + Len(Rest(returned')) = 1 /\ Range(<<>>) \cup Range(Rest(returned')) = {id}
  BY <1>10, RangeOfTuples
<1> QED
  BY <1>2, <1>5, <1>6, <1>7, <1>8, <1>11, <1>12, PutTogether

(* BeginExpressionStatement keeps every node held once.                         *)
LEMMA BeginExpressionStatementBalanced ==
    ASSUME ParserInv, ParserInv', Balanced, BeginExpressionStatement
    PROVE  Balanced'
<1>1. Parsing("statement") /\ returned = NoNode
  BY DEF BeginExpressionStatement, Entered
<1>2. status = "parsing" /\ Top.rule = "statement" /\ StackOK /\ StackOK'
  BY <1>1, InFrame DEF ParserInv
<1>3. PICK f : f = ExpressionStatementFrame
  OBVIOUS
<1>4. /\ BecomeAndCall(f, ExpressionFrame(1)) /\ UNCHANGED Arena
      /\ UNCHANGED Input /\ returned' = returned
  BY <1>1, <1>3 DEF BeginExpressionStatement, BecomeAndCall
<1>5. Above(Pending(f))
  BY <1>2, <1>4, NoneYet, AboveCall
<1>6. Pending(f) = <<>> /\ Pending(Top) = <<>>
  BY <1>2, <1>3, NoneYet, PendingForms
<1>7. Above(Pending(Top))
  BY <1>5, <1>6
<1> QED
  BY <1>2, <1>4, <1>7, GoesOn

(* A node with one child, the one returned, is returned in its place.            *)
LEMMA Wraps ==
    ASSUME ParserInv, ParserInv', Balanced, status = "parsing", UNCHANGED Input,
           returned # NoNode, Pending(Top) = <<>>,
           NEW node \in AstNodes, create_node(node), node.children = <<returned>>,
           NEW id, id = NextId, Return(id)
    PROVE  Balanced'
<1>1. StackOK /\ ReadingOK /\ ArenaOK
  BY DEF ParserInv
<1>2. Above(<<>>) /\ returned' = id
  BY <1>1, AboveReturn DEF Return
<1>3. id \in Nat /\ id # NoNode
  BY <1>1, ArenaTyped DEF NoNode
<1>4. Rest(returned') = <<id>> /\ Rest(returned) = node.children
  BY <1>2, <1>3 DEF Rest
<1>5. PICK a : a = returned
  OBVIOUS
<1>6. node.children = <<a>> /\ Rest(returned) = <<a>>
  BY <1>4, <1>5
<1>7. /\ Len(node.children) = Len(Pending(Top)) + Len(Rest(returned))
      /\ Range(node.children) = Range(Pending(Top)) \cup Range(Rest(returned))
  BY <1>6, RangeOfTuples
<1>8. Len(<<>>) + Len(Rest(returned')) = 1 /\ Range(<<>>) \cup Range(Rest(returned')) = {id}
  BY <1>4, RangeOfTuples
<1> QED
  BY <1>2, <1>7, <1>8, PutTogether

(* EndExpressionStatement keeps every node held once.                           *)
LEMMA EndExpressionStatementBalanced ==
    ASSUME ParserInv, ParserInv', Balanced, EndExpressionStatement
    PROVE  Balanced'
<1>1. Parsing("expression_statement") /\ returned # NoNode
  BY DEF EndExpressionStatement, Resumed
<1>2. /\ status = "parsing" /\ Top.rule = "expression_statement"
      /\ ReadingOK /\ ArenaOK /\ StackOK /\ returned \in Nat /\ returned \in New
  BY <1>1, InFrame
<1>3. PICK node : node = AstNode("ExpressionStmt", merge_span(nodes[returned].span, Here), "",
                                 <<returned>>)
  OBVIOUS
<1>4. node \in AstNodes /\ node.children = <<returned>>
  <2>1. nodes[returned].span \in Spans /\ Here \in Spans
    BY <1>2, ArenaTyped, SpansTyped
  <2>2. merge_span(nodes[returned].span, Here) \in Spans
    BY <2>1, SpansTyped
  <2>3. "ExpressionStmt" \in AstKinds /\ <<returned>> \in Seq(Nat)
    BY <1>2 DEF AstKinds
  <2> QED
    BY <1>3, <2>2, <2>3, NodesTyped, OwnTextsAreStrings DEF OwnTextsAreStrings
<1>5. PICK id : id = NextId
  OBVIOUS
<1>6. create_node(node) /\ Return(id) /\ UNCHANGED Input
  BY <1>3, <1>5 DEF EndExpressionStatement
<1>7. Pending(Top) = <<>>
  BY <1>2, PendingForms
<1> QED
  BY <1>1, <1>2, <1>4, <1>5, <1>6, <1>7, Wraps

(* The expressions.                                                             *)

(* ParseUnary keeps every node held once.                                       *)
LEMMA ParseUnaryBalanced ==
    ASSUME ParserInv, ParserInv', Balanced, parse_unary
    PROVE  Balanced'
<1>1. Parsing("expression") /\ Top.left = NoNode
  BY DEF parse_unary, AtPrefix, Entered
<1>2. /\ status = "parsing" /\ Top.rule = "expression"
      /\ ReadingOK /\ StackOK /\ StackOK' /\ Len(read) \in Nat
  BY <1>1, InFrame DEF ParserInv
<1>3. PICK f : f = UnaryFrame(token, Len(read))
  OBVIOUS
<1>4. PICK min : min = precedence_for(token)
  OBVIOUS
<1>5. PICK g : g = ExpressionFrame(min)
  OBVIOUS
<1>6. /\ stack' = stack \o <<f, g>> /\ UNCHANGED Arena /\ UNCHANGED Input /\ returned' = returned
      /\ token.kind # "EndOfFile"
  BY <1>3, <1>4, <1>5 DEF parse_unary, is_unary_prefix, IsKeyword
<1>7. f \in Frames /\ g \in Frames
  <2>1. min \in -1..8
    BY <1>4, PrecedenceTyped
  <2>2. token \in call.tokens
    BY <1>2, <1>6, TokensTyped DEF ReadingOK
  <2> QED
    BY <1>2, <1>3, <1>5, <2>1, <2>2, NewFrames
<1>8. Pending(f) = <<>> /\ Pending(g) = <<>>
  BY <1>3, <1>5, NoneYet
<1>9. Pending(Top) = <<>>
  BY <1>1, <1>2, PendingForms DEF Rest
<1>10. Above(<<>>)
  BY <1>2, <1>6, <1>7, <1>8, <1>9, AbovePushTwo
<1>11. Above(Pending(Top))
  BY <1>9, <1>10
<1> QED
  BY <1>2, <1>6, <1>11, GoesOn

(* EndUnary keeps every node held once.                                         *)
LEMMA EndUnaryBalanced ==
    ASSUME ParserInv, ParserInv', Balanced, EndUnary
    PROVE  Balanced'
<1>1. Parsing("unary") /\ returned # NoNode
  BY DEF EndUnary, Resumed
<1>2. /\ status = "parsing" /\ Top \in Frames /\ Top.rule = "unary"
      /\ ReadingOK /\ ArenaOK /\ StackOK /\ returned \in Nat /\ returned \in New
  BY <1>1, InFrame
<1>3. PICK node :
         node = AstNode("UnaryExpr",
                        merge_span(Span(Top.start, Top.start + 1), nodes[returned].span),
                        Top.op.lexeme, <<returned>>)
  OBVIOUS
<1>4. node \in AstNodes /\ node.children = <<returned>>
  <2>1. Top.start \in Nat /\ Top.op \in call.tokens
    BY <1>2, FrameForms
  <2>2. Span(Top.start, Top.start + 1) \in Spans /\ nodes[returned].span \in Spans
    BY <1>2, <2>1, ArenaTyped, SpansTyped
  <2>3. merge_span(Span(Top.start, Top.start + 1), nodes[returned].span) \in Spans
    BY <2>2, SpansTyped
  <2>4. Top.op.lexeme \in STRING
    BY <1>2, <2>1, TokensTyped
  <2>5. "UnaryExpr" \in AstKinds /\ <<returned>> \in Seq(Nat)
    BY <1>2 DEF AstKinds
  <2> QED
    BY <1>3, <2>3, <2>4, <2>5, NodesTyped
<1>5. PICK id : id = NextId
  OBVIOUS
<1>6. create_node(node) /\ Return(id) /\ UNCHANGED Input
  BY <1>3, <1>5 DEF EndUnary
<1>7. Pending(Top) = <<>>
  BY <1>2, PendingForms
<1> QED
  BY <1>1, <1>2, <1>4, <1>5, <1>6, <1>7, Wraps

(* A call expression starts with one node, its callee.                          *)
LEMMA CallHolds ==
    ASSUME NEW id, NEW span
    PROVE  Len(Pending(CallFrame(id, span))) = 1 /\ Range(Pending(CallFrame(id, span))) = {id}
<1>1. PICK f : f = CallFrame(id, span)
  OBVIOUS
<1>2. f.rule = "call" /\ f.callee = id /\ f.args = <<>>
  BY <1>1 DEF CallFrame
<1>3. Pending(f) = <<id>> \o <<>>
  BY <1>2, PendingForms
<1>4. PICK one : one = <<id>>
  OBVIOUS
<1>5. one \o <<>> = one
  <2>1. one \in Seq({id})
    BY <1>4
  <2> QED
    BY <2>1, ConcatEmptySeq
<1>6. Pending(f) = one
  BY <1>3, <1>4, <1>5
<1> QED
  BY <1>1, <1>4, <1>6, RangeOfTuples

(* ParsePrimary keeps every node held once.                                     *)
LEMMA ParsePrimaryBalanced ==
    ASSUME ParserInv, ParserInv', Balanced, parse_primary
    PROVE  Balanced'
<1>1. Parsing("expression") /\ returned = NoNode /\ Top.left = NoNode
  BY DEF parse_primary, AtPrefix, Entered
<1>2. /\ status = "parsing" /\ Top.rule = "expression" /\ token.lexeme \in STRING
      /\ ReadingOK /\ ArenaOK /\ StackOK
  BY <1>1, InFrame
<1>3. PICK node :
         node = Leaf(IF token.kind = "Identifier" THEN "IdentifierExpr" ELSE "LiteralExpr",
                     Here, token.lexeme)
  OBVIOUS
<1>4. Here \in Spans
  BY <1>2, SpansTyped
<1>5. node \in AstNodes /\ node.children = <<>>
  <2>1. /\ "IdentifierExpr" \in AstKinds /\ "LiteralExpr" \in AstKinds /\ <<>> \in Seq(Nat)
    BY DEF AstKinds
  <2> QED
    BY <1>2, <1>3, <1>4, <2>1, NodesTyped DEF Leaf
<1>6. PICK id : id = NextId
  OBVIOUS
<1>7. PICK f : f = CallFrame(id, Here)
  OBVIOUS
<1>8. /\ create_node(node) /\ stack' = Append(stack, f) /\ UNCHANGED Input /\ returned' = returned
  BY <1>3, <1>6, <1>7 DEF parse_primary
<1>9. f \in Frames
  BY <1>2, <1>4, <1>6, <1>7, ArenaTyped, NewFrames
<1>10. Pending(Top) = <<>>
  BY <1>1, <1>2, PendingForms DEF Rest
<1>11. Above(Pending(f))
  BY <1>2, <1>8, <1>9, <1>10, AbovePush
<1>12. Len(Pending(f)) = 1 /\ Range(Pending(f)) = {id}
  BY <1>7, CallHolds
<1>13. Rest(returned) = <<>> /\ Rest(returned') = <<>>
  BY <1>1, <1>8 DEF Rest
<1> QED
  BY <1>2, <1>5, <1>6, <1>8, <1>10, <1>11, <1>12, <1>13, RangeOfTuples, PutTogether

(* BeginGroup keeps every node held once.                                       *)
LEMMA BeginGroupBalanced ==
    ASSUME ParserInv, ParserInv', Balanced, BeginGroup
    PROVE  Balanced'
<1>1. Parsing("expression") /\ Top.left = NoNode
  BY DEF BeginGroup, AtPrefix, Entered
<1>2. /\ status = "parsing" /\ Top.rule = "expression"
      /\ StackOK /\ StackOK' /\ Len(read) \in Nat
  BY <1>1, InFrame DEF ParserInv
<1>3. PICK f : f = GroupFrame(Len(read))
  OBVIOUS
<1>4. PICK g : g = ExpressionFrame(1)
  OBVIOUS
<1>5. /\ stack' = stack \o <<f, g>> /\ UNCHANGED Arena /\ UNCHANGED Input /\ returned' = returned
  BY <1>3, <1>4 DEF BeginGroup
<1>6. f \in Frames /\ g \in Frames
  BY <1>2, <1>3, <1>4, NewFrames, WholeExpression
<1>7. Pending(f) = <<>> /\ Pending(g) = <<>>
  BY <1>3, <1>4, NoneYet
<1>8. Pending(Top) = <<>>
  BY <1>1, <1>2, PendingForms DEF Rest
<1>9. Above(<<>>)
  BY <1>2, <1>5, <1>6, <1>7, <1>8, AbovePushTwo
<1>10. Above(Pending(Top))
  BY <1>8, <1>9
<1> QED
  BY <1>2, <1>5, <1>10, GoesOn

(* EndGroup keeps every node held once.                                         *)
LEMMA EndGroupBalanced ==
    ASSUME ParserInv, ParserInv', Balanced, EndGroup
    PROVE  Balanced'
<1>1. Parsing("group") /\ returned # NoNode
  BY DEF EndGroup, Resumed
<1>2. /\ status = "parsing" /\ Top \in Frames /\ Top.rule = "group"
      /\ ReadingOK /\ ArenaOK /\ StackOK /\ StackOK' /\ returned \in Nat
  BY <1>1, InFrame DEF ParserInv
<1>3. PICK span : span = To(Top.start)
  OBVIOUS
<1>4. span \in Spans
  BY <1>2, <1>3, FrameForms, SpansTyped
<1>5. PICK a : a = returned
  OBVIOUS
<1>6. PICK node : node = AstNode("GroupExpr", span, "", <<a>>)
  OBVIOUS
<1>7. node \in AstNodes /\ node.children = <<a>>
  <2>1. "GroupExpr" \in AstKinds /\ <<a>> \in Seq(Nat)
    BY <1>2, <1>5 DEF AstKinds
  <2> QED
    BY <1>4, <1>6, <2>1, NodesTyped, OwnTextsAreStrings DEF OwnTextsAreStrings
<1>8. PICK id : id = NextId
  OBVIOUS
<1>9. PICK f : f = CallFrame(id, span)
  OBVIOUS
<1>10. create_node(node) /\ Become(f) /\ UNCHANGED Input /\ returned' = NoNode
  BY <1>3, <1>5, <1>6, <1>8, <1>9 DEF EndGroup, Become
<1>11. Above(Pending(f))
  BY <1>2, <1>10, AboveBecome
<1>12. Len(Pending(f)) = 1 /\ Range(Pending(f)) = {id}
  BY <1>9, CallHolds
<1>13. Pending(Top) = <<>>
  BY <1>2, PendingForms
<1>14. Rest(returned) = <<a>> /\ Rest(returned') = <<>>
  BY <1>1, <1>5, <1>10 DEF Rest
<1> QED
  BY <1>2, <1>7, <1>8, <1>10, <1>11, <1>12, <1>13, <1>14, RangeOfTuples, PutTogether

(* OpenArguments keeps every node held once.                                    *)
LEMMA OpenArgumentsBalanced ==
    ASSUME ParserInv, ParserInv', Balanced, OpenArguments
    PROVE  Balanced'
<1>1. Parsing("call") /\ returned = NoNode
  BY DEF OpenArguments, Entered
<1>2. status = "parsing" /\ Top \in Frames /\ Top.rule = "call" /\ StackOK /\ StackOK'
  BY <1>1, InFrame DEF ParserInv
<1>3. PICK f : f = [Top EXCEPT !.open = TRUE]
  OBVIOUS
<1>4. f.rule = "call" /\ f.callee = Top.callee /\ f.args = Top.args
  <2>1. Top \in [rule : {"call"}, callee : Nat, span : Spans, open : BOOLEAN, args : Seq(Nat)]
    BY <1>2, FrameForms
  <2> QED
    BY <1>3, <2>1
<1>5. Become(f) /\ UNCHANGED Arena /\ UNCHANGED Input /\ returned' = returned
  BY <1>1, <1>3 DEF OpenArguments, Become
<1>6. Above(Pending(f))
  BY <1>2, <1>5, AboveBecome
<1>7. Pending(f) = Pending(Top)
  BY <1>2, <1>4, PendingForms
<1>8. Above(Pending(Top))
  BY <1>6, <1>7
<1> QED
  BY <1>2, <1>5, <1>8, GoesOn

(* NoMoreCalls keeps every node held once.                                      *)
LEMMA NoMoreCallsBalanced ==
    ASSUME ParserInv, ParserInv', Balanced, NoMoreCalls
    PROVE  Balanced'
<1>1. Parsing("call") /\ returned = NoNode /\ ~Top.open
  BY DEF NoMoreCalls, Entered
<1>2. status = "parsing" /\ Top.rule = "call" /\ Settled(Top, New)
  BY <1>1, InFrame
<1>3. PICK id : id = Top.callee
  OBVIOUS
<1>4. id \in New /\ Top.args = <<>>
  BY <1>1, <1>2, <1>3 DEF Settled
<1>5. Pending(Top) = <<id>>
  <2>1. Pending(Top) = <<id>> \o <<>>
    BY <1>2, <1>3, <1>4, PendingForms
  <2>2. PICK one : one = <<id>>
    OBVIOUS
  <2>3. one \in Seq({id})
    BY <2>2
  <2>4. one \o <<>> = one
    BY <2>3, ConcatEmptySeq
  <2> QED
    BY <2>1, <2>2, <2>4
<1>6. Return(id) /\ UNCHANGED Arena /\ UNCHANGED Input
  BY <1>3 DEF NoMoreCalls
<1> QED
  BY <1>1, <1>2, <1>4, <1>5, <1>6, GivesBack

(* FirstArgument keeps every node held once.                                    *)
LEMMA FirstArgumentBalanced ==
    ASSUME ParserInv, ParserInv', Balanced, FirstArgument
    PROVE  Balanced'
<1>1. Parsing("call") /\ returned = NoNode
  BY DEF FirstArgument, Entered
<1>2. status = "parsing" /\ StackOK /\ StackOK'
  BY <1>1 DEF ParserInv, Parsing
<1>3. /\ BecomeAndCall(Top, ExpressionFrame(1)) /\ UNCHANGED Arena /\ UNCHANGED Input
      /\ returned' = returned
  BY <1>1 DEF FirstArgument, BecomeAndCall
<1>4. Above(Pending(Top))
  BY <1>2, <1>3, NoneYet, AboveCall
<1> QED
  BY <1>2, <1>3, <1>4, GoesOn

(* An argument that is collected stands after the callee and those before it.    *)
LEMMA ArgumentsHeld ==
    ASSUME NEW callee \in Nat, NEW args \in Seq(Nat), NEW a \in Nat
    PROVE  /\ Len(<<callee>> \o Append(args, a)) = Len(<<callee>> \o args) + 1
           /\ Range(<<callee>> \o Append(args, a)) = Range(<<callee>> \o args) \cup {a}
           /\ Len(<<callee>> \o args) \in Nat /\ <<callee>> \o args \in Seq(Nat)
           /\ <<callee>> \o Append(args, a) \in Seq(Nat)
<1>1. PICK one : one = <<callee>>
  OBVIOUS
<1>2. PICK more : more = Append(args, a)
  OBVIOUS
<1>3. one \in Seq(Nat) /\ more \in Seq(Nat)
  BY <1>1, <1>2, AppendProperties
<1>4. Range(more) = Range(args) \cup {a} /\ Len(more) = Len(args) + 1
  BY <1>2, RangeOfAppend
<1>5. /\ Len(one \o more) = Len(one) + Len(more) /\ Range(one \o more) = Range(one) \cup Range(more)
      /\ Len(one) \in Nat /\ one \o more \in Seq(Nat)
  BY <1>3, RangeOfConcat, ConcatProperties
<1>6. /\ Len(one \o args) = Len(one) + Len(args) /\ Range(one \o args) = Range(one) \cup Range(args)
      /\ Len(args) \in Nat /\ one \o args \in Seq(Nat)
  BY <1>3, RangeOfConcat, ConcatProperties
<1>7. /\ Len(one \o more) = Len(one \o args) + 1 /\ Len(one \o args) \in Nat
  BY <1>4, <1>5, <1>6
<1>8. Range(one \o more) = Range(one \o args) \cup {a}
  BY <1>4, <1>5, <1>6
<1> QED
  BY <1>1, <1>2, <1>5, <1>6, <1>7, <1>8

(* A call that takes the node it is returned, and goes on.                      *)
LEMMA TakesReturned ==
    ASSUME ParserInv, ParserInv', Balanced, status = "parsing", UNCHANGED Arena, UNCHANGED Input,
           returned # NoNode, returned' = NoNode, NEW p, Above(p),
           Len(p) = Len(Pending(Top)) + 1, Range(p) = Range(Pending(Top)) \cup {returned}
    PROVE  Balanced'
<1>1. returned \in Nat /\ NoNode \in Nat
  BY ReturnsNodes DEF NoNode
<1>2. /\ Len(Rest(returned)) = 1 /\ Range(Rest(returned)) = {returned}
      /\ Len(Rest(returned')) = 0 /\ Range(Rest(returned')) = {}
  BY <1>1, RestTyped
<1>3. Len(p) \in Nat /\ Len(Pending(Top)) \in Nat
  <2>1. Pending(Top) \in Seq(Nat)
    BY Below DEF ParserInv
  <2> QED
    BY <2>1, LenProperties DEF Above
<1>4. Len(p) + Len(Rest(returned')) = Len(Pending(Top)) + Len(Rest(returned))
  BY <1>2, <1>3
<1>5. Range(p) \cup Range(Rest(returned')) = Range(Pending(Top)) \cup Range(Rest(returned))
  BY <1>2
<1> QED
  BY <1>4, <1>5, HandedOn

(* NextArgument keeps every node held once.                                     *)
LEMMA NextArgumentBalanced ==
    ASSUME ParserInv, ParserInv', Balanced, NextArgument
    PROVE  Balanced'
<1>1. Parsing("call") /\ returned # NoNode
  BY DEF NextArgument, Resumed
<1>2. /\ status = "parsing" /\ Top \in Frames /\ Top.rule = "call"
      /\ StackOK /\ StackOK' /\ returned \in Nat
  BY <1>1, InFrame DEF ParserInv
<1>3. PICK args : args = Append(Top.args, returned)
  OBVIOUS
<1>4. PICK f : f = [Top EXCEPT !.args = args]
  OBVIOUS
<1>5. /\ f.rule = "call" /\ f.callee = Top.callee /\ f.args = args
      /\ Top.callee \in Nat /\ Top.args \in Seq(Nat)
  <2>1. Top \in [rule : {"call"}, callee : Nat, span : Spans, open : BOOLEAN, args : Seq(Nat)]
    BY <1>2, FrameForms
  <2>2. args \in Seq(Nat)
    BY <1>2, <1>3, <2>1, AppendProperties
  <2> QED
    BY <1>4, <2>1, <2>2
<1>6. /\ BecomeAndCall(f, ExpressionFrame(1)) /\ UNCHANGED Arena /\ UNCHANGED Input
      /\ returned' = NoNode
  BY <1>3, <1>4 DEF NextArgument, BecomeAndCall
<1>7. Above(Pending(f))
  BY <1>2, <1>6, NoneYet, AboveCall
<1>8. PICK callee : callee = Top.callee
  OBVIOUS
<1>9. Pending(Top) = <<callee>> \o Top.args /\ Pending(f) = <<callee>> \o args
  BY <1>2, <1>5, <1>8, PendingForms
<1>10. /\ Len(Pending(f)) = Len(Pending(Top)) + 1
       /\ Range(Pending(f)) = Range(Pending(Top)) \cup {returned}
  BY <1>2, <1>3, <1>5, <1>8, <1>9, ArgumentsHeld
<1> QED
  BY <1>1, <1>2, <1>6, <1>7, <1>10, TakesReturned

(* CloseArguments keeps every node held once.                                   *)
LEMMA CloseArgumentsBalanced ==
    ASSUME ParserInv, ParserInv', Balanced, CloseArguments
    PROVE  Balanced'
<1>1. Parsing("call")
  BY DEF CloseArguments
<1>2. /\ status = "parsing" /\ Top \in Frames /\ Top.rule = "call"
      /\ ReadingOK /\ ArenaOK /\ StackOK /\ StackOK' /\ returned \in Nat
  BY <1>1, InFrame DEF ParserInv
<1>3. PICK span : span = merge_span(Top.span, Here)
  OBVIOUS
<1>4. PICK args : args = IF returned = NoNode THEN Top.args ELSE Append(Top.args, returned)
  OBVIOUS
<1>5. PICK callee : callee = Top.callee
  OBVIOUS
<1>6. callee \in Nat /\ Top.span \in Spans /\ Top.args \in Seq(Nat)
  BY <1>2, <1>5, FrameForms
<1>7. PICK children : children = <<callee>> \o args
  OBVIOUS
<1>8. PICK r : r = Rest(returned)
  OBVIOUS
<1>9. Pending(Top) = <<callee>> \o Top.args
  BY <1>2, <1>5, PendingForms
<1>10. /\ children \in Seq(Nat)
       /\ Len(children) = Len(Pending(Top)) + Len(r)
       /\ Range(children) = Range(Pending(Top)) \cup Range(r)
  <2>1. CASE returned = NoNode
    <3>1. args = Top.args /\ Len(r) = 0 /\ Range(r) = {}
      BY <1>2, <1>4, <1>8, <2>1, RestTyped
    <3>2. children = Pending(Top)
      BY <1>7, <1>9, <3>1
    <3>3. Len(Pending(Top)) \in Nat /\ Pending(Top) \in Seq(Nat)
      BY <1>2, PendingTyped, LenProperties
    <3> QED
      BY <3>1, <3>2, <3>3
  <2>2. CASE returned # NoNode
    <3>1. args = Append(Top.args, returned) /\ Len(r) = 1 /\ Range(r) = {returned}
      BY <1>2, <1>4, <1>8, <2>2, RestTyped
    <3>2. /\ Len(children) = Len(Pending(Top)) + 1
          /\ Range(children) = Range(Pending(Top)) \cup {returned}
          /\ children \in Seq(Nat)
      BY <1>2, <1>6, <1>7, <1>9, <3>1, ArgumentsHeld
    <3> QED
      BY <3>1, <3>2
  <2> QED
    BY <2>1, <2>2
<1>11. PICK node : node = AstNode("CallExpr", span, "", children)
  OBVIOUS
<1>12. node \in AstNodes /\ node.children = children
  <2>1. Here \in Spans
    BY <1>2, SpansTyped
  <2>2. span \in Spans /\ "CallExpr" \in AstKinds
    BY <1>3, <1>6, <2>1, SpansTyped DEF AstKinds
  <2> QED
    BY <1>10, <1>11, <2>2, NodesTyped, OwnTextsAreStrings DEF OwnTextsAreStrings
<1>13. PICK id : id = NextId
  OBVIOUS
<1>14. PICK f : f = CallFrame(id, span)
  OBVIOUS
<1>15. create_node(node) /\ Become(f) /\ UNCHANGED Input /\ returned' = NoNode
  BY <1>3, <1>4, <1>5, <1>7, <1>11, <1>13, <1>14 DEF CloseArguments, Become
<1>16. Above(Pending(f))
  BY <1>2, <1>15, AboveBecome
<1>17. Len(Pending(f)) = 1 /\ Range(Pending(f)) = {id}
  BY <1>14, CallHolds
<1>18. Rest(returned') = <<>>
  BY <1>15 DEF Rest
<1>19. /\ Len(node.children) = Len(Pending(Top)) + Len(Rest(returned))
       /\ Range(node.children) = Range(Pending(Top)) \cup Range(Rest(returned))
  BY <1>8, <1>10, <1>12
<1>20. /\ Len(Pending(f)) + Len(Rest(returned')) = 1
       /\ Range(Pending(f)) \cup Range(Rest(returned')) = {id}
  BY <1>17, <1>18, RangeOfTuples
<1> QED
  BY <1>2, <1>12, <1>13, <1>15, <1>16, <1>19, <1>20, PutTogether

(* LeftOperand keeps every node held once.                                      *)
LEMMA LeftOperandBalanced ==
    ASSUME ParserInv, ParserInv', Balanced, LeftOperand
    PROVE  Balanced'
<1>1. Parsing("expression") /\ returned # NoNode /\ Top.left = NoNode
  BY DEF LeftOperand, Resumed
<1>2. /\ status = "parsing" /\ Top \in Frames /\ Top.rule = "expression"
      /\ StackOK /\ StackOK' /\ returned \in Nat
  BY <1>1, InFrame DEF ParserInv
<1>3. PICK a : a = returned
  OBVIOUS
<1>4. PICK f : f = [Top EXCEPT !.left = a]
  OBVIOUS
<1>5. f.rule = "expression" /\ f.left = a
  <2>1. Top \in [rule : {"expression"}, min : -1..8, left : Nat,
                 op : call.tokens \cup {EndOfFile}]
    BY <1>2, FrameForms
  <2> QED
    BY <1>4, <2>1
<1>6. Become(f) /\ UNCHANGED Arena /\ UNCHANGED Input /\ returned' = NoNode
  BY <1>3, <1>4 DEF LeftOperand, Become
<1>7. Above(Pending(f))
  BY <1>2, <1>6, AboveBecome
<1>8. Pending(f) = <<a>> /\ Pending(Top) = <<>>
  BY <1>1, <1>2, <1>3, <1>5, PendingForms DEF Rest
<1>9. /\ Len(Pending(f)) = Len(Pending(Top)) + 1
      /\ Range(Pending(f)) = Range(Pending(Top)) \cup {returned}
  BY <1>3, <1>8, RangeOfTuples
<1> QED
  BY <1>1, <1>2, <1>6, <1>7, <1>9, TakesReturned

(* RightOperand keeps every node held once.                                     *)
LEMMA RightOperandBalanced ==
    ASSUME ParserInv, ParserInv', Balanced, RightOperand
    PROVE  Balanced'
<1>1. Parsing("expression") /\ returned # NoNode /\ Top.left # NoNode
  BY DEF RightOperand, Resumed
<1>2. /\ status = "parsing" /\ Top \in Frames /\ Top.rule = "expression" /\ Settled(Top, New)
      /\ ReadingOK /\ ArenaOK /\ StackOK /\ StackOK' /\ returned \in Nat /\ returned \in New
  BY <1>1, InFrame DEF ParserInv
<1>3. Top.left \in Nat /\ Top.left \in New /\ Top.op.lexeme \in STRING
  <2>1. Top.left \in Nat /\ Top.op \in call.tokens \cup {EndOfFile}
    BY <1>2, FrameForms
  <2> QED
    BY <1>1, <1>2, <2>1, TokensTyped DEF Settled
<1>4. PICK a : a = Top.left
  OBVIOUS
<1>5. PICK b : b = returned
  OBVIOUS
<1>6. PICK node :
         node = AstNode(IF is_assignment_operator(Top.op) THEN "AssignmentExpr" ELSE "BinaryExpr",
                        merge_span(nodes[a].span, nodes[b].span), Top.op.lexeme, <<a, b>>)
  OBVIOUS
<1>7. node \in AstNodes /\ node.children = <<a, b>>
  <2>1. nodes[a].span \in Spans /\ nodes[b].span \in Spans
    BY <1>2, <1>3, <1>4, <1>5, ArenaTyped
  <2>2. merge_span(nodes[a].span, nodes[b].span) \in Spans
    BY <2>1, SpansTyped
  <2>3. "AssignmentExpr" \in AstKinds /\ "BinaryExpr" \in AstKinds /\ <<a, b>> \in Seq(Nat)
    BY <1>2, <1>3, <1>4, <1>5 DEF AstKinds
  <2> QED
    BY <1>3, <1>6, <2>2, <2>3, NodesTyped
<1>8. PICK id : id = NextId
  OBVIOUS
<1>9. PICK f : f = [Top EXCEPT !.left = id]
  OBVIOUS
<1>10. create_node(node) /\ Become(f) /\ UNCHANGED Input /\ returned' = NoNode
  BY <1>4, <1>5, <1>6, <1>8, <1>9 DEF RightOperand, Become
<1>11. f.rule = "expression" /\ f.left = id
  <2>1. Top \in [rule : {"expression"}, min : -1..8, left : Nat,
                 op : call.tokens \cup {EndOfFile}]
    BY <1>2, FrameForms
  <2> QED
    BY <1>9, <2>1
<1>12. id \in Nat /\ id # NoNode
  BY <1>2, <1>8, ArenaTyped DEF NoNode
<1>13. Above(Pending(f))
  BY <1>2, <1>10, AboveBecome
<1>14. Pending(f) = <<id>> /\ Pending(Top) = <<a>>
  BY <1>1, <1>2, <1>4, <1>11, <1>12, PendingForms DEF Rest
<1>15. Rest(returned) = <<b>> /\ Rest(returned') = <<>>
  BY <1>1, <1>5, <1>10 DEF Rest
<1>16. /\ Len(node.children) = Len(Pending(Top)) + Len(Rest(returned))
       /\ Range(node.children) = Range(Pending(Top)) \cup Range(Rest(returned))
  <2>1. Len(<<a, b>>) = Len(<<a>>) + Len(<<b>>)
    BY RangeOfTuples
  <2>2. Range(<<a, b>>) = Range(<<a>>) \cup Range(<<b>>)
    BY RangeOfTuples
  <2> QED
    BY <1>7, <1>14, <1>15, <2>1, <2>2
<1>17. /\ Len(Pending(f)) + Len(Rest(returned')) = 1
       /\ Range(Pending(f)) \cup Range(Rest(returned')) = {id}
  BY <1>14, <1>15, RangeOfTuples
<1> QED
  BY <1>2, <1>7, <1>8, <1>10, <1>13, <1>16, <1>17, PutTogether

(* Operator keeps every node held once.                                         *)
LEMMA OperatorBalanced ==
    ASSUME ParserInv, ParserInv', Balanced, Operator
    PROVE  Balanced'
<1>1. Parsing("expression") /\ returned = NoNode
  BY DEF Operator, Entered
<1>2. /\ status = "parsing" /\ Top \in Frames /\ Top.rule = "expression"
      /\ ReadingOK /\ StackOK /\ StackOK'
  BY <1>1, InFrame DEF ParserInv
<1>3. PICK f : f = [Top EXCEPT !.op = token]
  OBVIOUS
<1>4. f.rule = "expression" /\ f.left = Top.left
  <2>1. Top \in [rule : {"expression"}, min : -1..8, left : Nat,
                 op : call.tokens \cup {EndOfFile}]
    BY <1>2, FrameForms
  <2> QED
    BY <1>3, <2>1
<1>5. PICK min : min = NextPrecedence(token)
  OBVIOUS
<1>6. /\ BecomeAndCall(f, ExpressionFrame(min)) /\ UNCHANGED Arena /\ UNCHANGED Input
      /\ returned' = returned
  BY <1>1, <1>3, <1>5 DEF Operator, BecomeAndCall
<1>7. Above(Pending(f))
  BY <1>2, <1>6, NoneYet, AboveCall
<1>8. Pending(f) = Pending(Top)
  BY <1>2, <1>4, PendingForms
<1>9. Above(Pending(Top))
  BY <1>7, <1>8
<1> QED
  BY <1>2, <1>6, <1>9, GoesOn

(* EndExpression keeps every node held once.                                    *)
LEMMA EndExpressionBalanced ==
    ASSUME ParserInv, ParserInv', Balanced, EndExpression
    PROVE  Balanced'
<1>1. Parsing("expression") /\ returned = NoNode /\ Top.left # NoNode
  BY DEF EndExpression, Entered
<1>2. status = "parsing" /\ Top.rule = "expression" /\ Settled(Top, New)
  BY <1>1, InFrame
<1>3. PICK id : id = Top.left
  OBVIOUS
<1>4. id \in New /\ Pending(Top) = <<id>>
  BY <1>1, <1>2, <1>3, PendingForms DEF Settled, Rest
<1>5. Return(id) /\ UNCHANGED Arena /\ UNCHANGED Input
  BY <1>3 DEF EndExpression
<1> QED
  BY <1>1, <1>2, <1>4, <1>5, GivesBack

(* A step of the parser is made while it is parsing, and memory that has been    *)
(* read once it was given back has been.                                        *)
LEMMA StepsParse ==
    ASSUME parse_statement \/ parse_expression
    PROVE  status = "parsing" /\ (dangled => dangled')
<1>1. CollectStatement => status = "parsing" /\ (dangled => dangled')
  <2>1. CollectStatement => status = "parsing"
    BY DEF CollectStatement, Entered, Resumed, Parsing
  <2>2. CollectStatement => (dangled => dangled')
    BY Zenon DEF CollectStatement, Entered, Resumed, Parsing, Input
  <2> QED
    BY <2>1, <2>2
<1>2. MoreStatements => status = "parsing" /\ (dangled => dangled')
  <2>1. MoreStatements => status = "parsing"
    BY DEF MoreStatements, Entered, Resumed, Parsing
  <2>2. MoreStatements => (dangled => dangled')
    BY Zenon DEF MoreStatements, Entered, Resumed, Parsing, Input
  <2> QED
    BY <2>1, <2>2
<1>3. EndModule => status = "parsing" /\ (dangled => dangled')
  <2>1. EndModule => status = "parsing"
    BY DEF EndModule, Entered, Resumed, Parsing
  <2>2. EndModule => (dangled => dangled')
    BY Zenon DEF EndModule, Entered, Resumed, Parsing, Input
  <2> QED
    BY <2>1, <2>2
<1>4. BeginBlock => status = "parsing" /\ (dangled => dangled')
  <2>1. BeginBlock => status = "parsing"
    BY DEF BeginBlock, Entered, Resumed, Parsing
  <2>2. BeginBlock => (dangled => dangled')
    BY Zenon DEF BeginBlock, Entered, Resumed, Parsing, Input
  <2> QED
    BY <2>1, <2>2
<1>5. EndBlock => status = "parsing" /\ (dangled => dangled')
  <2>1. EndBlock => status = "parsing"
    BY DEF EndBlock, Entered, Resumed, Parsing
  <2>2. EndBlock => (dangled => dangled')
    BY Zenon DEF EndBlock, Entered, Resumed, Parsing, Input
  <2> QED
    BY <2>1, <2>2
<1>6. BeginLet => status = "parsing" /\ (dangled => dangled')
  <2>1. BeginLet => status = "parsing"
    BY DEF BeginLet, Entered, Resumed, Parsing
  <2>2. BeginLet => (dangled => dangled')
    BY Zenon DEF BeginLet, Entered, Resumed, Parsing, Input
  <2> QED
    BY <2>1, <2>2
<1>7. LetMut => status = "parsing" /\ (dangled => dangled')
  <2>1. LetMut => status = "parsing"
    BY DEF LetMut, Entered, Resumed, Parsing
  <2>2. LetMut => (dangled => dangled')
    BY Zenon DEF LetMut, Entered, Resumed, Parsing, Input
  <2> QED
    BY <2>1, <2>2
<1>8. LetName => status = "parsing" /\ (dangled => dangled')
  <2>1. LetName => status = "parsing"
    BY DEF LetName, Entered, Resumed, Parsing
  <2>2. LetName => (dangled => dangled')
    BY Zenon DEF LetName, Entered, Resumed, Parsing, Input
  <2> QED
    BY <2>1, <2>2
<1>9. LetEquals => status = "parsing" /\ (dangled => dangled')
  <2>1. LetEquals => status = "parsing"
    BY DEF LetEquals, Entered, Resumed, Parsing
  <2>2. LetEquals => (dangled => dangled')
    BY Zenon DEF LetEquals, Entered, Resumed, Parsing, Input
  <2> QED
    BY <2>1, <2>2
<1>10. EndLet => status = "parsing" /\ (dangled => dangled')
  <2>1. EndLet => status = "parsing"
    BY DEF EndLet, Entered, Resumed, Parsing
  <2>2. EndLet => (dangled => dangled')
    BY Zenon DEF EndLet, Entered, Resumed, Parsing, Input
  <2> QED
    BY <2>1, <2>2
<1>11. BeginReturn => status = "parsing" /\ (dangled => dangled')
  <2>1. BeginReturn => status = "parsing"
    BY DEF BeginReturn, Entered, Resumed, Parsing
  <2>2. BeginReturn => (dangled => dangled')
    BY Zenon DEF BeginReturn, Entered, Resumed, Parsing, Input
  <2> QED
    BY <2>1, <2>2
<1>12. ReturnValue => status = "parsing" /\ (dangled => dangled')
  <2>1. ReturnValue => status = "parsing"
    BY DEF ReturnValue, Entered, Resumed, Parsing
  <2>2. ReturnValue => (dangled => dangled')
    BY Zenon DEF ReturnValue, Entered, Resumed, Parsing, Input
  <2> QED
    BY <2>1, <2>2
<1>13. EndReturn => status = "parsing" /\ (dangled => dangled')
  <2>1. EndReturn => status = "parsing"
    BY DEF EndReturn, Entered, Resumed, Parsing
  <2>2. EndReturn => (dangled => dangled')
    BY Zenon DEF EndReturn, Entered, Resumed, Parsing, Input
  <2> QED
    BY <2>1, <2>2
<1>14. BeginExpressionStatement => status = "parsing" /\ (dangled => dangled')
  <2>1. BeginExpressionStatement => status = "parsing"
    BY DEF BeginExpressionStatement, Entered, Resumed, Parsing
  <2>2. BeginExpressionStatement => (dangled => dangled')
    BY Zenon DEF BeginExpressionStatement, Entered, Resumed, Parsing, Input
  <2> QED
    BY <2>1, <2>2
<1>15. EndExpressionStatement => status = "parsing" /\ (dangled => dangled')
  <2>1. EndExpressionStatement => status = "parsing"
    BY DEF EndExpressionStatement, Entered, Resumed, Parsing
  <2>2. EndExpressionStatement => (dangled => dangled')
    BY Zenon DEF EndExpressionStatement, Entered, Resumed, Parsing, Input
  <2> QED
    BY <2>1, <2>2
<1>16. parse_unary => status = "parsing" /\ (dangled => dangled')
  <2>1. parse_unary => status = "parsing"
    BY DEF parse_unary, Entered, Resumed, Parsing, AtPrefix
  <2>2. parse_unary => (dangled => dangled')
    BY Zenon DEF parse_unary, Entered, Resumed, Parsing, AtPrefix, Input
  <2> QED
    BY <2>1, <2>2
<1>17. EndUnary => status = "parsing" /\ (dangled => dangled')
  <2>1. EndUnary => status = "parsing"
    BY DEF EndUnary, Entered, Resumed, Parsing
  <2>2. EndUnary => (dangled => dangled')
    BY Zenon DEF EndUnary, Entered, Resumed, Parsing, Input
  <2> QED
    BY <2>1, <2>2
<1>18. parse_primary => status = "parsing" /\ (dangled => dangled')
  <2>1. parse_primary => status = "parsing"
    BY DEF parse_primary, Entered, Resumed, Parsing, AtPrefix
  <2>2. parse_primary => (dangled => dangled')
    BY Zenon DEF parse_primary, Entered, Resumed, Parsing, AtPrefix, Input
  <2> QED
    BY <2>1, <2>2
<1>19. BeginGroup => status = "parsing" /\ (dangled => dangled')
  <2>1. BeginGroup => status = "parsing"
    BY DEF BeginGroup, Entered, Resumed, Parsing, AtPrefix
  <2>2. BeginGroup => (dangled => dangled')
    BY Zenon DEF BeginGroup, Entered, Resumed, Parsing, AtPrefix, Input
  <2> QED
    BY <2>1, <2>2
<1>20. EndGroup => status = "parsing" /\ (dangled => dangled')
  <2>1. EndGroup => status = "parsing"
    BY DEF EndGroup, Entered, Resumed, Parsing
  <2>2. EndGroup => (dangled => dangled')
    BY Zenon DEF EndGroup, Entered, Resumed, Parsing, Input
  <2> QED
    BY <2>1, <2>2
<1>21. OpenArguments => status = "parsing" /\ (dangled => dangled')
  <2>1. OpenArguments => status = "parsing"
    BY DEF OpenArguments, Entered, Resumed, Parsing
  <2>2. OpenArguments => (dangled => dangled')
    BY Zenon DEF OpenArguments, Entered, Resumed, Parsing, Input
  <2> QED
    BY <2>1, <2>2
<1>22. NoMoreCalls => status = "parsing" /\ (dangled => dangled')
  <2>1. NoMoreCalls => status = "parsing"
    BY DEF NoMoreCalls, Entered, Resumed, Parsing
  <2>2. NoMoreCalls => (dangled => dangled')
    BY Zenon DEF NoMoreCalls, Entered, Resumed, Parsing, Input
  <2> QED
    BY <2>1, <2>2
<1>23. FirstArgument => status = "parsing" /\ (dangled => dangled')
  <2>1. FirstArgument => status = "parsing"
    BY DEF FirstArgument, Entered, Resumed, Parsing
  <2>2. FirstArgument => (dangled => dangled')
    BY Zenon DEF FirstArgument, Entered, Resumed, Parsing, Input
  <2> QED
    BY <2>1, <2>2
<1>24. NextArgument => status = "parsing" /\ (dangled => dangled')
  <2>1. NextArgument => status = "parsing"
    BY DEF NextArgument, Entered, Resumed, Parsing
  <2>2. NextArgument => (dangled => dangled')
    BY Zenon DEF NextArgument, Entered, Resumed, Parsing, Input
  <2> QED
    BY <2>1, <2>2
<1>25. CloseArguments => status = "parsing" /\ (dangled => dangled')
  <2>1. CloseArguments => status = "parsing"
    BY DEF CloseArguments, Entered, Resumed, Parsing
  <2>2. CloseArguments => (dangled => dangled')
    BY Zenon DEF CloseArguments, Entered, Resumed, Parsing, Input
  <2> QED
    BY <2>1, <2>2
<1>26. LeftOperand => status = "parsing" /\ (dangled => dangled')
  <2>1. LeftOperand => status = "parsing"
    BY DEF LeftOperand, Entered, Resumed, Parsing
  <2>2. LeftOperand => (dangled => dangled')
    BY Zenon DEF LeftOperand, Entered, Resumed, Parsing, Input
  <2> QED
    BY <2>1, <2>2
<1>27. RightOperand => status = "parsing" /\ (dangled => dangled')
  <2>1. RightOperand => status = "parsing"
    BY DEF RightOperand, Entered, Resumed, Parsing
  <2>2. RightOperand => (dangled => dangled')
    BY Zenon DEF RightOperand, Entered, Resumed, Parsing, Input
  <2> QED
    BY <2>1, <2>2
<1>28. Operator => status = "parsing" /\ (dangled => dangled')
  <2>1. Operator => status = "parsing"
    BY DEF Operator, Entered, Resumed, Parsing
  <2>2. Operator => (dangled => dangled')
    BY Zenon DEF Operator, Entered, Resumed, Parsing, Input
  <2> QED
    BY <2>1, <2>2
<1>29. EndExpression => status = "parsing" /\ (dangled => dangled')
  <2>1. EndExpression => status = "parsing"
    BY DEF EndExpression, Entered, Resumed, Parsing
  <2>2. EndExpression => (dangled => dangled')
    BY Zenon DEF EndExpression, Entered, Resumed, Parsing, Input
  <2> QED
    BY <2>1, <2>2
<1> QED
  BY <1>1, <1>2, <1>3, <1>4, <1>5, <1>6, <1>7, <1>8, <1>9, <1>10,
     <1>11, <1>12, <1>13, <1>14, <1>15, <1>16, <1>17, <1>18, <1>19,
     <1>20, <1>21, <1>22, <1>23, <1>24, <1>25, <1>26, <1>27, <1>28,
     <1>29
     DEF parse_statement, parse_expression

(* Every step that is not an exception keeps every node held.                   *)
LEMMA StepsBalanced ==
    ASSUME ParserInv, ParserInv', Balanced, parse_statement \/ parse_expression, ~dangled'
    PROVE  Balanced'
<1>1. CASE parse_statement
  BY <1>1, CollectStatementBalanced, MoreStatementsBalanced,
     EndModuleBalanced, BeginBlockBalanced, EndBlockBalanced,
     BeginLetBalanced, LetMutBalanced, LetNameBalanced, LetEqualsBalanced,
     EndLetBalanced, BeginReturnBalanced, ReturnValueBalanced,
     EndReturnBalanced, BeginExpressionStatementBalanced,
     EndExpressionStatementBalanced
     DEF parse_statement
<1>2. CASE parse_expression
  BY <1>2, ParseUnaryBalanced, EndUnaryBalanced, ParsePrimaryBalanced,
     BeginGroupBalanced, EndGroupBalanced, OpenArgumentsBalanced,
     NoMoreCallsBalanced, FirstArgumentBalanced, NextArgumentBalanced,
     CloseArgumentsBalanced, LeftOperandBalanced, RightOperandBalanced,
     OperatorBalanced, EndExpressionBalanced
     DEF parse_expression
<1> QED
  BY <1>1, <1>2

\* What is held and what there is, in every state the property speaks of.
BalancedInv == status # "failed" /\ ~dangled => Balanced

(* Every step does, as long as nothing failed.                                  *)
LEMMA NextBalanced ==
    ASSUME ParserInv, ParserInv', BalancedInv, [Next]_vars
    PROVE  BalancedInv'
<1>1. CASE parse_statement \/ parse_expression
  <2> SUFFICES ASSUME ~dangled' PROVE Balanced'
    BY DEF BalancedInv
  <2>1. status = "parsing" /\ ~dangled
    BY <1>1, StepsParse
  <2>2. Balanced
    BY <2>1 DEF BalancedInv
  <2> QED
    BY <1>1, <2>2, StepsBalanced
<1>2. CASE Throw
  BY <1>2 DEF Throw, BalancedInv
<1>3. CASE UNCHANGED vars
  <2>1. /\ status' = status /\ dangled' = dangled /\ nodes' = nodes /\ stack' = stack
        /\ returned' = returned /\ base' = base /\ New' = New
    BY <1>3 DEF vars, base, New
  <2> QED
    BY <2>1 DEF BalancedInv, Balanced
<1> QED
  BY <1>1, <1>2, <1>3 DEF Next

(* Sequences of nothing but empty ones come to nothing.                         *)
LEMMA FlatOfEmpty ==
    ASSUME NEW n \in Nat, NEW seqs, seqs \in [1..n -> {<<>>}]
    PROVE  Len(FlattenSeq(seqs)) = 0 /\ Range(FlattenSeq(seqs)) = {}
<1>1. <<>> \in Seq({})
  OBVIOUS
<1>2. seqs \in [1..n -> Seq({})]
  BY <1>1
<1>3. seqs \in Seq(Seq({}))
  BY <1>2
<1>4. PICK flat : flat = FlattenSeq(seqs)
  OBVIOUS
<1>5. flat \in Seq({})
  BY <1>3, <1>4, FlattenTyped
<1>6. flat = <<>>
  <2>1. PICK m : m = Len(flat)
    OBVIOUS
  <2>2. m \in Nat /\ \A i \in 1..m : flat[i] \in {}
    BY <1>5, <2>1, LenProperties, ElementOfSeq
  <2>3. m = 0
    <3>1. CASE m # 0
      <4>1. 1 \in 1..m
        BY <2>2, <3>1
      <4> QED
        BY <2>2, <4>1
    <3> QED
      BY <3>1
  <2> QED
    BY <1>5, <2>1, <2>3, EmptySeq
<1> QED
  BY <1>4, <1>6, RangeOfTuples

(* A parse begins with no node held.                                            *)
LEMMA InitBalanced ==
    ASSUME Init
    PROVE  Balanced
<1>1. ParserInv
  BY InitTyped
<1>2. ReadingOK /\ ArenaOK
  BY <1>1 DEF ParserInv
<1>3. /\ base \in Nat /\ Len(nodes) = IF call.entry = "module" THEN base + 1 ELSE base
      /\ \A id \in New : nodes[id].children = <<>>
  BY <1>2, FirstNodes
<1>4. PICK n : n = Len(nodes) - base
  OBVIOUS
<1>5. PICK given : given = base
  OBVIOUS
<1>6. PICK all : all = nodes
  OBVIOUS
<1>7. /\ n \in Nat /\ given \in Nat /\ Len(all) = given + n /\ all \in Seq(AstNodes)
      /\ n = IF call.entry = "module" THEN 1 ELSE 0
  BY <1>2, <1>3, <1>4, <1>5, <1>6 DEF ArenaOK
<1>8. Len(Kids(all, given)) = 0 /\ Range(Kids(all, given)) = {}
  <2>1. PICK seqs : seqs = KidSeqs(all, given, n)
    OBVIOUS
  <2>2. \A i \in 1..n : all[given + i].children = <<>>
    <3> SUFFICES ASSUME NEW i \in 1..n PROVE all[given + i].children = <<>>
      OBVIOUS
    <3>1. PICK j : j = given + i
      OBVIOUS
    <3>2. j \in (given + 1)..Len(all)
      BY <1>7, <3>1
    <3>3. j \in New
      BY <1>5, <1>6, <3>2 DEF New
    <3> QED
      BY <1>3, <1>6, <3>1, <3>3
  <2>3. seqs \in [1..n -> {<<>>}]
    BY <2>1, <2>2 DEF KidSeqs
  <2>4. Kids(all, given) = FlattenSeq(seqs)
    BY <1>7, <2>1, KidsTyped
  <2> QED
    BY <1>7, <2>3, <2>4, FlatOfEmpty
<1>9. Rest(returned) = <<>> /\ Len(Rest(returned)) = 0 /\ Range(Rest(returned)) = {}
  BY RangeOfTuples DEF Init, Rest
<1>10. PICK f : f = IF call.entry = "module" THEN ModuleFrame(base + 1) ELSE ExpressionFrame(1)
  OBVIOUS
<1>11. stack = Append(<<>>, f)
  <2>1. stack = <<f>>
    BY <1>10 DEF Init
  <2> QED
    BY <2>1
<1>12. /\ Len(Pending(f)) = n
       /\ Range(Pending(f)) = New
       /\ Pending(f) \in Seq(Nat)
  <2>1. CASE call.entry = "module"
    <3>1. PICK id : id = base + 1
      OBVIOUS
    <3>2. f.rule = "module" /\ f.node = id
      BY <1>10, <2>1, <3>1 DEF ModuleFrame
    <3>3. Pending(f) = <<id>> /\ id \in Nat
      <4>1. Pending(f) = <<f.node>>
        BY <3>2, PendingForms
      <4>2. id \in Nat
        BY <1>3, <3>1
      <4> QED
        BY <3>2, <4>1, <4>2
    <3>4. New = {id}
      BY <1>3, <2>1, <3>1 DEF New
    <3>5. <<id>> \in Seq(Nat)
      BY <3>3
    <3> QED
      BY <1>7, <2>1, <3>3, <3>4, <3>5, RangeOfTuples
  <2>2. CASE call.entry # "module"
    <3>1. f = ExpressionFrame(1)
      BY <1>10, <2>2
    <3>2. Pending(f) = <<>> /\ <<>> \in Seq(Nat)
      BY <3>1, NoneYet
    <3>3. New = {}
      BY <1>3, <2>2 DEF New
    <3> QED
      BY <1>7, <2>2, <3>2, <3>3, RangeOfTuples
  <2> QED
    BY <2>1, <2>2
<1>13. Len(Waits(stack)) = n /\ Range(Waits(stack)) = New
  <2>1. <<>> \in Seq(Frames)
    OBVIOUS
  <2>2. /\ Len(Waits(Append(<<>>, f))) = Len(Waits(<<>>)) + Len(Pending(f))
        /\ Range(Waits(Append(<<>>, f))) = Range(Waits(<<>>)) \cup Range(Pending(f))
    BY <1>12, <2>1, WaitsOfMore
  <2>3. Len(Waits(<<>>)) = 0 /\ Range(Waits(<<>>)) = {}
    BY NoWaits, RangeOfTuples
  <2>4. /\ Len(Waits(stack)) = 0 + Len(Pending(f))
        /\ Range(Waits(stack)) = {} \cup Range(Pending(f))
    BY <1>11, <2>2, <2>3
  <2>5. Len(Waits(stack)) = n
    BY <1>7, <1>12, <2>4
  <2>6. Range(Waits(stack)) = New
    BY <1>12, <2>4
  <2> QED
    BY <2>5, <2>6
<1>14. Len(Kids(nodes, base)) = 0 /\ Range(Kids(nodes, base)) = {}
  BY <1>5, <1>6, <1>8
<1> QED
  BY <1>4, <1>7, <1>9, <1>13, <1>14 DEF Balanced

(* As many as there are, and each of them: then each of them once.               *)
LEMMA HeldBalanced ==
    ASSUME ParserInv, Balanced
    PROVE  Len(Held) = Cardinality(New) /\ {Held[i] : i \in DOMAIN Held} = New
<1>1. ReadingOK /\ ArenaOK /\ StackOK
  BY DEF ParserInv
<1>2. PICK n : n = Len(nodes) - base
  OBVIOUS
<1>3. PICK given : given = base
  OBVIOUS
<1>4. /\ n \in Nat /\ given \in Nat /\ Len(nodes) = given + n
      /\ base \in Nat /\ Len(nodes) \in Nat
  BY <1>1, <1>2, <1>3, TokensTyped, ArenaTyped DEF ArenaOK
<1>5. returned \in Nat
  BY <1>1, ArenaTyped DEF StackOK, NoNode
<1>6. PICK k : k = Kids(nodes, base)
  OBVIOUS
<1>7. PICK w : w = Waits(stack)
  OBVIOUS
<1>8. PICK r : r = Rest(returned)
  OBVIOUS
<1>9. k \in Seq(Nat) /\ w \in Seq(Nat) /\ r \in Seq(Nat)
  <2>1. k \in Seq(Nat)
    BY <1>1, <1>3, <1>4, <1>6, KidsTyped DEF ArenaOK
  <2>2. w \in Seq(Nat)
    BY <1>1, <1>7, WaitsTyped DEF StackOK
  <2>3. r \in Seq(Nat)
    BY <1>5, <1>8, RestTyped
  <2> QED
    BY <2>1, <2>2, <2>3
<1>10. Held = (k \o w) \o r
  BY <1>6, <1>7, <1>8 DEF Held, Kids, KidSeqs, Waits, Rest
<1>11. /\ k \o w \in Seq(Nat) /\ Range(k \o w) = Range(k) \cup Range(w)
       /\ Len(k \o w) = Len(k) + Len(w)
  BY <1>9, RangeOfConcat, ConcatProperties
<1>12. PICK kw : kw = k \o w
  OBVIOUS
<1>13. Range(kw \o r) = Range(kw) \cup Range(r) /\ Len(kw \o r) = Len(kw) + Len(r)
  <2>1. kw \in Seq(Nat)
    BY <1>11, <1>12
  <2>2. r \in Seq(Nat)
    BY <1>9
  <2>3. Range(kw \o r) = Range(kw) \cup Range(r)
    BY <2>1, <2>2, RangeOfConcat
  <2>4. Len(kw \o r) = Len(kw) + Len(r)
    BY <2>1, <2>2, ConcatProperties
  <2> QED
    BY <2>3, <2>4
<1>14. /\ Len(k) + Len(w) + Len(r) = n
       /\ Range(k) \cup Range(w) \cup Range(r) = New
  BY <1>2, <1>6, <1>7, <1>8 DEF Balanced
<1>15. Len(Held) = n /\ Range(Held) = New
  BY <1>10, <1>11, <1>12, <1>13, <1>14
<1>16. Cardinality(New) = n
  <2>1. PICK a : a = base + 1
    OBVIOUS
  <2>2. PICK b : b = Len(nodes)
    OBVIOUS
  <2>3. a \in Int /\ b \in Int /\ (IF a > b THEN 0 ELSE b - a + 1) = n
    BY <1>3, <1>4, <2>1, <2>2
  <2>4. Cardinality(a..b) = IF a > b THEN 0 ELSE b - a + 1
    BY <2>3, FS_Interval
  <2> QED
    BY <2>1, <2>2, <2>3, <2>4 DEF New
<1> QED
  BY <1>15, <1>16 DEF Range

(* Every node has one holder throughout every parse.                            *)
LEMMA BalancedInvariant == Spec => []BalancedInv
<1>1. Init => BalancedInv
  BY InitBalanced DEF BalancedInv
<1>2. ParserInv /\ ParserInv' /\ BalancedInv /\ [Next]_vars => BalancedInv'
  BY NextBalanced
<1> HIDE DEF ParserInv, BalancedInv, Init, Next, vars
<1> QED
  BY <1>1, <1>2, ParserInvariant, PTL DEF Spec

(* parse_* and create_node: through every parse of every stream, as long as it  *)
(* has not given up and no memory was read after being given back, each node    *)
(* that was made has exactly one holder: a node whose child it is, or a call in *)
(* progress.  No call drops a node that its caller, or the loop around it, has  *)
(* still to put into the tree, and none puts a node into it twice.              *)
THEOREM ParserHoldsEveryNode == Spec => []EveryNodeHeldOnce
<1>1. ParserInv /\ BalancedInv => EveryNodeHeldOnce
  BY HeldBalanced DEF BalancedInv, EveryNodeHeldOnce
<1> HIDE DEF ParserInv, BalancedInv, EveryNodeHeldOnce
<1> QED
  BY <1>1, ParserInvariant, BalancedInvariant, PTL

-------------------------------------------------------------------------------
(* Where the nodes stand.  Each call in progress has a stretch of the tokens     *)
(* read to itself, after those of its callers, and what it has still to put into *)
(* the tree stands in it in order; what has just been returned stands after all  *)
(* of them.  A block's children and the module's are in its node already, whose  *)
(* span the one has when it ends and the other from the start.                  *)

\* The node stands between these places.
Lies(all, ids, id, lo, hi) ==
    /\ id \in ids /\ all[id].span \in Spans
    /\ lo <= all[id].span.start /\ all[id].span.end <= hi

\* And so do these, one after the other.
Row(all, ids, seq, lo, hi) ==
    /\ \A i \in DOMAIN seq : Lies(all, ids, seq[i], lo, hi)
    /\ \A i, j \in DOMAIN seq : i < j => all[seq[i]].span.end <= all[seq[j]].span.start

Nested(all, ids, id) ==
    Row(all, ids, all[id].children, all[id].span.start, all[id].span.end)

\* The node that collects statements, whose span is not yet theirs.
Opens(f) == IF f.rule \in {"module", "block"} THEN {f.node} ELSE {}
OpenIds(calls) == UNION {Opens(calls[i]) : i \in DOMAIN calls}
Apart(calls) == \A i, j \in DOMAIN calls : i # j => Opens(calls[i]) \cap Opens(calls[j]) = {}

\* What a call has found so far.
Parts(all, f) == IF f.rule \in {"module", "block"} THEN all[f.node].children ELSE Pending(f)
Begins(f, lo) == IF f.rule \in {"block", "let"} THEN f.start ELSE lo

\* The call has read these tokens, of the n there are.
Placed(all, ids, n, f, lo, hi) ==
    /\ f.rule \in {"block", "let", "return", "group", "unary"} => lo <= f.start /\ f.start + 1 <= hi
    /\ Row(all, ids, Parts(all, f), Begins(f, lo), hi)
    /\ f.rule = "module" => lo = 0 /\ all[f.node].span = Span(0, n)
    /\ f.rule = "call" => all[f.callee].span = f.span /\ f.span.start <= f.span.end

\* The calls have read this many.
Reach(all, ids, n, calls, m) ==
    \E from \in Seq(Nat) :
        /\ Len(from) = Len(calls) + 1 /\ from[Len(calls) + 1] <= m
        /\ \A i \in DOMAIN calls :
              from[i] <= from[i + 1] /\ Placed(all, ids, n, calls[i], from[i], from[i + 1])

(* A row stands between places further out too.                                 *)
LEMMA RowWidens ==
    ASSUME NEW all, NEW ids, NEW seq, NEW lo \in Int, NEW hi \in Int,
           Row(all, ids, seq, lo, hi),
           NEW left \in Int, NEW right \in Int, left <= lo, hi <= right
    PROVE  Row(all, ids, seq, left, right)
<1>1. ASSUME NEW i \in DOMAIN seq
      PROVE  Lies(all, ids, seq[i], left, right)
  <2>1. Lies(all, ids, seq[i], lo, hi)
    BY DEF Row
  <2>2. PICK span : span = all[seq[i]].span
    OBVIOUS
  <2>3. span.start \in Int /\ span.end \in Int /\ lo <= span.start /\ span.end <= hi
    BY <2>1, <2>2 DEF Lies, Spans
  <2>4. left <= span.start /\ span.end <= right
    BY <2>3
  <2> QED
    BY <2>1, <2>2, <2>4 DEF Lies
<1> QED
  BY <1>1 DEF Row

(* What stands after a row makes it longer.                                     *)
LEMMA RowOfMore ==
    ASSUME NEW all, NEW ids, NEW seq \in Seq(Nat),
           NEW lo \in Int, NEW mid \in Int, NEW hi \in Int, lo <= mid, mid <= hi,
           Row(all, ids, seq, lo, mid), NEW id \in Nat, Lies(all, ids, id, mid, hi)
    PROVE  Row(all, ids, Append(seq, id), lo, hi)
<1>1. PICK n : n = Len(seq)
  OBVIOUS
<1>2. PICK more : more = Append(seq, id)
  OBVIOUS
<1>3. /\ n \in Nat /\ DOMAIN seq = 1..n /\ DOMAIN more = 1..(n + 1)
      /\ more[n + 1] = id /\ \A i \in 1..n : more[i] = seq[i]
  BY <1>1, <1>2, LenProperties, AppendProperties
<1>4. Row(all, ids, seq, lo, hi)
  BY RowWidens
<1>5. Lies(all, ids, id, lo, hi)
  BY DEF Lies, Spans
<1>6. \A i \in 1..(n + 1) : i \in 1..n \/ i = n + 1
  BY <1>3
<1>7. \A i \in DOMAIN more : Lies(all, ids, more[i], lo, hi)
  BY <1>3, <1>4, <1>5, <1>6 DEF Row
<1>8. ASSUME NEW i \in DOMAIN more, NEW j \in DOMAIN more, i < j
      PROVE  all[more[i]].span.end <= all[more[j]].span.start
  <2>1. i \in 1..n
    BY <1>3, <1>8
  <2>2. CASE j \in 1..n
    BY <1>3, <1>4, <1>8, <2>1, <2>2 DEF Row
  <2>3. CASE j = n + 1
    <3>1. Lies(all, ids, seq[i], lo, mid) /\ more[i] = seq[i] /\ more[j] = id
      BY <1>3, <2>1, <2>3 DEF Row
    <3>2. PICK a : a = all[seq[i]].span
      OBVIOUS
    <3>3. PICK b : b = all[id].span
      OBVIOUS
    <3>4. a.end \in Int /\ b.start \in Int /\ a.end <= mid /\ mid <= b.start
      BY <3>1, <3>2, <3>3 DEF Lies, Spans
    <3>5. a.end <= b.start
      BY <3>4
    <3> QED
      BY <3>1, <3>2, <3>3, <3>5
  <2> QED
    BY <1>3, <1>6, <2>2, <2>3
<1> QED
  BY <1>2, <1>7, <1>8 DEF Row

(* None, one and two nodes.                                                     *)
LEMMA ShortRows ==
    ASSUME NEW all, NEW ids, NEW lo \in Int, NEW hi \in Int
    PROVE  /\ Row(all, ids, <<>>, lo, hi)
           /\ \A id \in Nat : Lies(all, ids, id, lo, hi) => Row(all, ids, <<id>>, lo, hi)
           /\ Row(all, ids, Rest(NoNode), lo, hi)
           /\ \A id \in Nat : Lies(all, ids, id, lo, hi) => Row(all, ids, Rest(id), lo, hi)
           /\ \A id \in Nat : id # NoNode /\ Row(all, ids, Rest(id), lo, hi) =>
                 Lies(all, ids, id, lo, hi)
<1>1. Row(all, ids, <<>>, lo, hi)
  BY DEF Row
<1>2. ASSUME NEW id \in Nat
      PROVE  Lies(all, ids, id, lo, hi) <=> Row(all, ids, <<id>>, lo, hi)
  <2>1. PICK one : one = <<id>>
    OBVIOUS
  <2>2. DOMAIN one = {1} /\ one[1] = id
    BY <2>1
  <2>3. \A i, j \in {1} : ~(i < j)
    OBVIOUS
  <2> QED
    BY <2>1, <2>2, <2>3 DEF Row
<1> QED
  BY <1>1, <1>2 DEF Rest

(* A row is kept with its nodes.                                                *)
LEMMA RowKept ==
    ASSUME NEW all, NEW ids, NEW seq, NEW lo, NEW hi, Row(all, ids, seq, lo, hi),
           NEW now, NEW more, ids \subseteq more, \A id \in ids : now[id] = all[id]
    PROVE  Row(now, more, seq, lo, hi)
<1>1. \A i \in DOMAIN seq : seq[i] \in ids /\ now[seq[i]] = all[seq[i]]
  BY DEF Row, Lies
<1>2. \A i \in DOMAIN seq : Lies(now, more, seq[i], lo, hi)
  BY <1>1 DEF Row, Lies
<1>3. \A i, j \in DOMAIN seq : i < j => now[seq[i]].span.end <= now[seq[j]].span.start
  BY <1>1 DEF Row
<1> QED
  BY <1>2, <1>3 DEF Row

(* Where a call begins, in a place.                                             *)
LEMMA BeginsTyped ==
    ASSUME NEW f \in Frames, NEW lo \in Nat
    PROVE  Begins(f, lo) \in Nat
BY FrameForms DEF Begins

(* A call may have a longer stretch.                                            *)
LEMMA PlacedWidens ==
    ASSUME NEW all, NEW ids, NEW n, NEW f \in Frames, NEW lo \in Nat, NEW hi \in Nat,
           Placed(all, ids, n, f, lo, hi), NEW right \in Nat, hi <= right
    PROVE  Placed(all, ids, n, f, lo, right)
<1>1. Row(all, ids, Parts(all, f), Begins(f, lo), right)
  <2>1. PICK seq : seq = Parts(all, f)
    OBVIOUS
  <2>2. PICK left : left = Begins(f, lo)
    OBVIOUS
  <2>3. left \in Int /\ hi \in Int /\ right \in Int /\ left <= left
    BY <2>2, BeginsTyped
  <2>4. Row(all, ids, seq, left, hi)
    BY <2>1, <2>2 DEF Placed
  <2>5. Row(all, ids, seq, left, right)
    BY <2>3, <2>4, RowWidens
  <2> QED
    BY <2>1, <2>2, <2>5
<1>2. f.rule \in {"block", "let", "return", "group", "unary"} =>
         lo <= f.start /\ f.start + 1 <= right
  <2> SUFFICES ASSUME f.rule \in {"block", "let", "return", "group", "unary"}
               PROVE  lo <= f.start /\ f.start + 1 <= right
    OBVIOUS
  <2>1. f.start \in Nat
    BY FrameForms
  <2>2. lo <= f.start /\ f.start + 1 <= hi
    BY DEF Placed
  <2> QED
    BY <2>1, <2>2
<1> QED
  BY <1>1, <1>2 DEF Placed

(* A call is placed as it was while its nodes are what they were.                *)
LEMMA PlacedKept ==
    ASSUME NEW all, NEW ids, NEW n, NEW f \in Frames, NEW lo, NEW hi,
           Placed(all, ids, n, f, lo, hi), NEW now, NEW more, ids \subseteq more,
           \A id \in ids : now[id] = all[id], \A id \in Opens(f) : now[id] = all[id]
    PROVE  Placed(now, more, n, f, lo, hi)
<1>1. f.rule \in {"module", "block"} => now[f.node] = all[f.node]
  BY DEF Opens
<1>2. Parts(now, f) = Parts(all, f)
  BY <1>1 DEF Parts
<1>3. Row(all, ids, Parts(all, f), Begins(f, lo), hi)
  BY DEF Placed
<1>4. Row(now, more, Parts(all, f), Begins(f, lo), hi)
  BY <1>3, RowKept
<1>5. f.rule = "call" => now[f.callee].span = f.span /\ f.span.start <= f.span.end
  <2> SUFFICES ASSUME f.rule = "call" PROVE now[f.callee] = all[f.callee]
    BY DEF Placed
  <2>1. PICK seq : seq = <<f.callee>> \o f.args
    OBVIOUS
  <2>2. Parts(all, f) = seq
    BY <2>1, PendingForms DEF Parts
  <2>3. 1 \in DOMAIN seq /\ seq[1] = f.callee
    <3>1. PICK one : one = <<f.callee>>
      OBVIOUS
    <3>2. PICK args : args = f.args
      OBVIOUS
    <3>3. one \in Seq(Nat) /\ Len(one) = 1 /\ one[1] = f.callee /\ args \in Seq(Nat)
      <4>1. f.callee \in Nat /\ f.args \in Seq(Nat)
        BY FrameForms
      <4> QED
        BY <3>1, <3>2, <4>1
    <3>4. Len(args) \in Nat
      BY <3>3, LenProperties
    <3>5. Len(seq) = 1 + Len(args) /\ 1 \in 1..(1 + Len(args))
      BY <2>1, <3>1, <3>2, <3>3, <3>4, ConcatProperties
    <3>6. seq \in Seq(Nat)
      BY <2>1, <3>1, <3>2, <3>3, ConcatProperties
    <3>7. seq[1] = one[1]
      BY <2>1, <3>1, <3>2, <3>3, <3>5, ConcatProperties
    <3> QED
      BY <3>3, <3>5, <3>6, <3>7, LenProperties
  <2> QED
    BY <1>3, <2>2, <2>3 DEF Row, Lies
<1> QED
  BY <1>1, <1>2, <1>4, <1>5 DEF Placed

(* No call has read anything.                                                   *)
LEMMA ReachNone ==
    ASSUME NEW all, NEW ids, NEW n, NEW m \in Nat
    PROVE  Reach(all, ids, n, <<>>, m)
<1>1. PICK from : from = <<0>>
  OBVIOUS
<1>2. PICK calls : calls = <<>>
  OBVIOUS
<1>3. from \in Seq(Nat) /\ Len(from) = 1 /\ from[1] = 0 /\ Len(calls) = 0 /\ DOMAIN calls = {}
  BY <1>1, <1>2
<1>4. Reach(all, ids, n, calls, m)
  BY <1>3 DEF Reach
<1> QED
  BY <1>2, <1>4

(* A call that begins after the others.                                         *)
LEMMA ReachMore ==
    ASSUME NEW all, NEW ids, NEW n, NEW calls \in Seq(Frames), NEW lo \in Nat, NEW m \in Nat,
           lo <= m, Reach(all, ids, n, calls, lo), NEW f \in Frames, Placed(all, ids, n, f, lo, m)
    PROVE  Reach(all, ids, n, Append(calls, f), m)
<1>1. PICK k : k = Len(calls)
  OBVIOUS
<1>2. k \in Nat /\ DOMAIN calls = 1..k
  BY <1>1, LenProperties
<1>3. PICK from \in Seq(Nat) :
         /\ Len(from) = k + 1 /\ from[k + 1] <= lo
         /\ \A i \in 1..k :
               from[i] <= from[i + 1] /\ Placed(all, ids, n, calls[i], from[i], from[i + 1])
  BY <1>1, <1>2 DEF Reach
<1>4. PICK mid : mid = from[k + 1]
  OBVIOUS
<1>5. mid \in Nat /\ mid <= lo /\ mid <= m
  <2>1. k + 1 \in 1..Len(from)
    BY <1>2, <1>3
  <2>2. mid \in Nat
    BY <1>4, <2>1, ElementOfSeq
  <2> QED
    BY <1>3, <1>4, <2>2
<1>6. Placed(all, ids, n, f, mid, m)
  <2>1. Row(all, ids, Parts(all, f), Begins(f, mid), m)
    <3>1. PICK seq : seq = Parts(all, f)
      OBVIOUS
    <3>2. PICK left : left = Begins(f, mid)
      OBVIOUS
    <3>3. PICK right : right = Begins(f, lo)
      OBVIOUS
    <3>4. left \in Int /\ right \in Int /\ m \in Int
      BY <1>5, <3>2, <3>3, BeginsTyped
    <3>5. left <= right
      BY <1>5, <3>2, <3>3, <3>4 DEF Begins
    <3>6. Row(all, ids, seq, right, m)
      BY <3>1, <3>3 DEF Placed
    <3>7. Row(all, ids, seq, left, m)
      BY <3>4, <3>5, <3>6, RowWidens
    <3> QED
      BY <3>1, <3>2, <3>7
  <2>2. f.rule \in {"block", "let", "return", "group", "unary"} =>
           mid <= f.start /\ f.start + 1 <= m
    <3> SUFFICES ASSUME f.rule \in {"block", "let", "return", "group", "unary"}
                 PROVE  mid <= f.start /\ f.start + 1 <= m
      OBVIOUS
    <3>1. f.start \in Nat
      BY FrameForms
    <3>2. lo <= f.start /\ f.start + 1 <= m
      BY DEF Placed
    <3> QED
      BY <1>5, <3>1, <3>2
  <2>3. f.rule = "module" => mid = 0
    BY <1>5 DEF Placed
  <2> QED
    BY <2>1, <2>2, <2>3 DEF Placed
<1>7. PICK now : now = Append(from, m)
  OBVIOUS
<1>8. /\ now \in Seq(Nat) /\ Len(now) = k + 2 /\ now[k + 2] = m /\ now[k + 1] = mid
      /\ \A i \in 1..(k + 1) : now[i] = from[i]
  <2>1. now \in Seq(Nat) /\ Len(now) = Len(from) + 1 /\ now[Len(from) + 1] = m
    BY <1>7, AppendProperties
  <2>2. \A i \in 1..Len(from) : now[i] = from[i]
    BY <1>7, AppendProperties
  <2>3. Len(from) + 1 = k + 2 /\ k + 1 \in 1..(k + 1)
    BY <1>2, <1>3
  <2> QED
    BY <1>3, <1>4, <2>1, <2>2, <2>3
<1>9. PICK whole : whole = Append(calls, f)
  OBVIOUS
<1>10. /\ Len(whole) = k + 1 /\ DOMAIN whole = 1..(k + 1) /\ whole[k + 1] = f
       /\ \A i \in 1..k : whole[i] = calls[i]
  BY <1>1, <1>2, <1>9, AppendProperties
<1>11. ASSUME NEW i \in 1..(k + 1)
       PROVE  now[i] <= now[i + 1] /\ Placed(all, ids, n, whole[i], now[i], now[i + 1])
  <2>1. CASE i = k + 1
    <3>1. PICK j : j = i + 1
      OBVIOUS
    <3>2. j = k + 2
      BY <1>2, <2>1, <3>1
    <3>3. now[i] = mid /\ now[j] = m /\ whole[i] = f
      BY <1>8, <1>10, <2>1, <3>2
    <3> QED
      BY <1>5, <1>6, <3>1, <3>3
  <2>2. CASE i # k + 1
    <3>1. i \in 1..k /\ i \in 1..(k + 1) /\ i + 1 \in 1..(k + 1)
      BY <1>2, <2>2
    <3>2. now[i] = from[i] /\ now[i + 1] = from[i + 1] /\ whole[i] = calls[i]
      BY <1>8, <1>10, <3>1
    <3> QED
      BY <1>3, <3>1, <3>2
  <2> QED
    BY <2>1, <2>2
<1>12. Len(whole) + 1 = k + 2 /\ m <= m
  BY <1>2, <1>10
<1>13. Reach(all, ids, n, whole, m)
  <2>1. now \in Seq(Nat) /\ Len(now) = Len(whole) + 1 /\ now[Len(whole) + 1] <= m
    BY <1>8, <1>12
  <2>2. \A i \in DOMAIN whole :
           now[i] <= now[i + 1] /\ Placed(all, ids, n, whole[i], now[i], now[i + 1])
    BY <1>10, <1>11
  <2> QED
    BY <2>1, <2>2 DEF Reach
<1> QED
  BY <1>9, <1>13

(* The innermost call and those below it.                                       *)
LEMMA ReachLess ==
    ASSUME NEW all, NEW ids, NEW n, NEW calls \in Seq(Frames), NEW f \in Frames,
           NEW m \in Nat, Reach(all, ids, n, Append(calls, f), m)
    PROVE  \E lo \in 0..m : Reach(all, ids, n, calls, lo) /\ Placed(all, ids, n, f, lo, m)
<1>1. PICK k : k = Len(calls)
  OBVIOUS
<1>2. PICK whole : whole = Append(calls, f)
  OBVIOUS
<1>3. /\ k \in Nat /\ DOMAIN calls = 1..k
      /\ Len(whole) = k + 1 /\ DOMAIN whole = 1..(k + 1) /\ whole[k + 1] = f
      /\ \A i \in 1..k : whole[i] = calls[i]
  BY <1>1, <1>2, LenProperties, AppendProperties
<1>4. PICK j : j = k + 1
  OBVIOUS
<1>5. PICK from \in Seq(Nat) :
         /\ Len(from) = j + 1 /\ from[j + 1] <= m
         /\ \A i \in 1..j :
               from[i] <= from[i + 1] /\ Placed(all, ids, n, whole[i], from[i], from[i + 1])
  <2>1. Reach(all, ids, n, whole, m) /\ Len(whole) = j /\ DOMAIN whole = 1..j
    BY <1>2, <1>3, <1>4
  <2> QED
    BY <2>1 DEF Reach
<1>6. PICK lo : lo = from[j]
  OBVIOUS
<1>7. PICK hi : hi = from[j + 1]
  OBVIOUS
<1>8. /\ j \in 1..j /\ lo \in Nat /\ hi \in Nat
  <2>1. j \in 1..j /\ j \in 1..Len(from) /\ j + 1 \in 1..Len(from)
    BY <1>3, <1>4, <1>5
  <2> QED
    BY <1>6, <1>7, <2>1, ElementOfSeq
<1>9. lo <= hi /\ hi <= m /\ Placed(all, ids, n, f, lo, hi)
  BY <1>3, <1>4, <1>5, <1>6, <1>7, <1>8
<1>10. Placed(all, ids, n, f, lo, m)
  BY <1>8, <1>9, PlacedWidens
<1>11. Reach(all, ids, n, calls, lo)
  <2>1. PICK less : less = SubSeq(from, 1, j)
    OBVIOUS
  <2>2. less \in Seq(Nat) /\ Len(less) = j /\ \A i \in 1..j : less[i] = from[i]
    <3>1. /\ j \in Int /\ 1 <= j /\ j - 1 + 1 = j
          /\ \A i \in 1..j : from[i] \in Nat /\ 1 + i - 1 = i
      <4>1. \A i \in 1..j : i \in 1..Len(from)
        BY <1>3, <1>4, <1>5
      <4> QED
        BY <1>3, <1>4, <4>1, ElementOfSeq
    <3>2. /\ SubSeq(from, 1, j) \in Seq(Nat)
          /\ Len(SubSeq(from, 1, j)) = IF 1 <= j THEN j - 1 + 1 ELSE 0
          /\ \A i \in 1..(j - 1 + 1) : SubSeq(from, 1, j)[i] = from[1 + i - 1]
      BY <3>1, SubSeqProperties
    <3> QED
      BY <2>1, <3>1, <3>2
  <2>3. ASSUME NEW i \in 1..k
        PROVE  less[i] <= less[i + 1] /\ Placed(all, ids, n, calls[i], less[i], less[i + 1])
    <3>1. i \in 1..j /\ i + 1 \in 1..j
      BY <1>3, <1>4
    <3>2. less[i] = from[i] /\ less[i + 1] = from[i + 1] /\ whole[i] = calls[i]
      BY <1>3, <2>2, <3>1
    <3> QED
      BY <1>5, <3>1, <3>2
  <2>4. less[k + 1] = lo
    BY <1>4, <1>6, <1>8, <2>2
  <2>5. Len(less) = Len(calls) + 1 /\ less[Len(calls) + 1] <= lo
    BY <1>1, <1>4, <1>8, <2>2, <2>4
  <2> QED
    BY <1>3, <2>2, <2>3, <2>5 DEF Reach
<1>12. lo \in 0..m
  BY <1>8, <1>9
<1> QED
  BY <1>10, <1>11, <1>12

(* The calls are where they were while their nodes are what they were.           *)
LEMMA ReachKept ==
    ASSUME NEW all, NEW ids, NEW n, NEW calls \in Seq(Frames), NEW m,
           Reach(all, ids, n, calls, m), NEW now, NEW more, ids \subseteq more,
           \A id \in ids : now[id] = all[id], \A id \in OpenIds(calls) : now[id] = all[id]
    PROVE  Reach(now, more, n, calls, m)
<1>1. PICK from \in Seq(Nat) :
         /\ Len(from) = Len(calls) + 1 /\ from[Len(calls) + 1] <= m
         /\ \A i \in DOMAIN calls :
               from[i] <= from[i + 1] /\ Placed(all, ids, n, calls[i], from[i], from[i + 1])
  BY DEF Reach
<1>2. ASSUME NEW i \in DOMAIN calls
      PROVE  Placed(now, more, n, calls[i], from[i], from[i + 1])
  <2>1. \A id \in Opens(calls[i]) : now[id] = all[id]
    BY DEF OpenIds
  <2>2. calls[i] \in Frames
    BY ElementOfSeq
  <2>3. PICK f : f = calls[i]
    OBVIOUS
  <2>4. PICK lo : lo = from[i]
    OBVIOUS
  <2>5. PICK hi : hi = from[i + 1]
    OBVIOUS
  <2>6. f \in Frames /\ Placed(all, ids, n, f, lo, hi) /\ \A id \in Opens(f) : now[id] = all[id]
    BY <1>1, <2>1, <2>2, <2>3, <2>4, <2>5
  <2>7. Placed(now, more, n, f, lo, hi)
    BY <2>6, PlacedKept
  <2> QED
    BY <2>3, <2>4, <2>5, <2>7
<1> QED
  BY <1>1, <1>2 DEF Reach

(* The nodes that are open with one call more.                                  *)
LEMMA OpenOfMore ==
    ASSUME NEW calls \in Seq(Frames), NEW f
    PROVE  /\ OpenIds(Append(calls, f)) = OpenIds(calls) \cup Opens(f)
           /\ Apart(Append(calls, f)) <=> Apart(calls) /\ Opens(f) \cap OpenIds(calls) = {}
<1>1. PICK k : k = Len(calls)
  OBVIOUS
<1>2. PICK whole : whole = Append(calls, f)
  OBVIOUS
<1>3. /\ k \in Nat /\ DOMAIN calls = 1..k
      /\ DOMAIN whole = 1..(k + 1) /\ whole[k + 1] = f
      /\ \A i \in 1..k : whole[i] = calls[i]
      /\ \A i \in 1..(k + 1) : i \in 1..k \/ i = k + 1
      /\ \A i \in 1..k : i \in 1..(k + 1) /\ i # k + 1
      /\ k + 1 \in 1..(k + 1)
  BY <1>1, <1>2, LenProperties
<1>4. OpenIds(whole) = OpenIds(calls) \cup Opens(f)
  BY <1>3 DEF OpenIds
<1>5. Apart(whole) <=> Apart(calls) /\ Opens(f) \cap OpenIds(calls) = {}
  <2>1. ASSUME Apart(whole)
        PROVE  Apart(calls) /\ Opens(f) \cap OpenIds(calls) = {}
    <3>1. Apart(calls)
      BY <1>3, <2>1 DEF Apart
    <3>2. \A i \in 1..k : Opens(calls[i]) \cap Opens(f) = {}
      BY <1>3, <2>1 DEF Apart
    <3> QED
      BY <1>3, <3>1, <3>2 DEF OpenIds
  <2>2. ASSUME Apart(calls), Opens(f) \cap OpenIds(calls) = {}
        PROVE  Apart(whole)
    <3>1. \A i \in 1..k : Opens(calls[i]) \cap Opens(f) = {}
      BY <1>3, <2>2 DEF OpenIds
    <3> QED
      BY <1>3, <2>2, <3>1 DEF Apart
  <2> QED
    BY <2>1, <2>2
<1> QED
  BY <1>2, <1>4, <1>5

(* What it is for a call of each rule to be placed.                             *)
LEMMA PlacedForms ==
    ASSUME NEW all, NEW ids, NEW n, NEW f, NEW lo \in Int, NEW hi \in Int
    PROVE  /\ f.rule \in {"statement", "expression_statement"} => Placed(all, ids, n, f, lo, hi)
           /\ f.rule \in {"return", "group", "unary"} =>
                 (Placed(all, ids, n, f, lo, hi) <=> lo <= f.start /\ f.start + 1 <= hi)
           /\ f.rule = "let" =>
                 (Placed(all, ids, n, f, lo, hi) <=>
                    /\ lo <= f.start /\ f.start + 1 <= hi
                    /\ Row(all, ids, Rest(f.name_node), f.start, hi))
           /\ f.rule = "block" =>
                 (Placed(all, ids, n, f, lo, hi) <=>
                    /\ lo <= f.start /\ f.start + 1 <= hi
                    /\ Row(all, ids, all[f.node].children, f.start, hi))
           /\ f.rule = "module" =>
                 (Placed(all, ids, n, f, lo, hi) <=>
                    /\ lo = 0 /\ all[f.node].span = Span(0, n)
                    /\ Row(all, ids, all[f.node].children, lo, hi))
           /\ f.rule = "expression" =>
                 (Placed(all, ids, n, f, lo, hi) <=> Row(all, ids, Rest(f.left), lo, hi))
           /\ f.rule = "call" =>
                 (Placed(all, ids, n, f, lo, hi) <=>
                    /\ all[f.callee].span = f.span /\ f.span.start <= f.span.end
                    /\ Row(all, ids, <<f.callee>> \o f.args, lo, hi))
<1>1. CASE f.rule \in {"statement", "expression_statement", "return", "group", "unary"}
  <2>1. Parts(all, f) = <<>> /\ Begins(f, lo) = lo
    BY <1>1, PendingForms DEF Parts, Begins
  <2>2. Row(all, ids, <<>>, lo, hi)
    BY ShortRows
  <2> QED
    BY <1>1, <2>1, <2>2 DEF Placed
<1>2. CASE f.rule = "let"
  <2>1. Parts(all, f) = Rest(f.name_node) /\ Begins(f, lo) = f.start
    BY <1>2, PendingForms DEF Parts, Begins
  <2> QED
    BY <1>2, <2>1 DEF Placed
<1>3. CASE f.rule \in {"block", "module"}
  <2>1. Parts(all, f) = all[f.node].children
    BY <1>3 DEF Parts
  <2>2. Begins(f, lo) = IF f.rule = "block" THEN f.start ELSE lo
    BY <1>3 DEF Begins
  <2> QED
    BY <1>3, <2>1, <2>2 DEF Placed
<1>4. CASE f.rule = "expression"
  <2>1. Parts(all, f) = Rest(f.left) /\ Begins(f, lo) = lo
    BY <1>4, PendingForms DEF Parts, Begins
  <2> QED
    BY <1>4, <2>1 DEF Placed
<1>5. CASE f.rule = "call"
  <2>1. Parts(all, f) = <<f.callee>> \o f.args /\ Begins(f, lo) = lo
    BY <1>5, PendingForms DEF Parts, Begins
  <2> QED
    BY <1>5, <2>1 DEF Placed
<1> QED
  BY <1>1, <1>2, <1>3, <1>4, <1>5

(* The calls that have just begun.                                              *)
LEMMA BarePlaced ==
    ASSUME NEW all, NEW ids, NEW n, NEW lo \in Int, NEW hi \in Int
    PROVE  /\ Placed(all, ids, n, StatementFrame, lo, hi)
           /\ Placed(all, ids, n, ExpressionStatementFrame, lo, hi)
           /\ \A min : Placed(all, ids, n, ExpressionFrame(min), lo, hi)
<1>1. Row(all, ids, Rest(NoNode), lo, hi)
  BY ShortRows
<1>2. ASSUME NEW min
      PROVE  Placed(all, ids, n, ExpressionFrame(min), lo, hi)
  <2>1. PICK f : f = ExpressionFrame(min)
    OBVIOUS
  <2>2. f.rule = "expression" /\ f.left = NoNode
    BY <2>1 DEF ExpressionFrame
  <2>3. Placed(all, ids, n, f, lo, hi)
    BY <1>1, <2>2, PlacedForms
  <2> QED
    BY <2>1, <2>3
<1>3. ASSUME NEW f, f.rule \in {"statement", "expression_statement"}
      PROVE  Placed(all, ids, n, f, lo, hi)
  BY <1>3, PlacedForms
<1>4. StatementFrame.rule = "statement" /\ ExpressionStatementFrame.rule = "expression_statement"
  BY DEF StatementFrame, ExpressionStatementFrame
<1> QED
  BY <1>2, <1>3, <1>4

\* The nodes made that are whole.
Shut == New \ OpenIds(stack)

Nesting ==
    /\ Apart(stack)
    /\ \A id \in Shut : Nested(nodes, Shut, id)
    /\ \E hi \in 0..Len(read) :
          /\ Reach(nodes, Shut, length, stack, hi)
          /\ Row(nodes, Shut, Rest(returned), hi, Len(read))

\* The callers have read up to lo, and the innermost call up to hi.
Stands(lo, hi) ==
    /\ lo \in Nat /\ hi \in Nat /\ lo <= hi /\ hi <= Len(read)
    /\ Reach(nodes, Shut, length, Callers, lo)
    /\ Placed(nodes, Shut, length, Top, lo, hi)
    /\ IF returned = NoNode THEN hi = Len(read)
       ELSE Lies(nodes, Shut, returned, hi, Len(read))

(* Where the innermost call stands, and what it has been given.                 *)
LEMMA NestingStands ==
    ASSUME ParserInv, Nesting, status = "parsing"
    PROVE  \E lo, hi \in Nat : Stands(lo, hi)
<1>1. ReadingOK /\ StackOK /\ ArenaOK
  BY DEF ParserInv
<1>2. PICK m : m = Len(read)
  OBVIOUS
<1>3. m \in Nat /\ returned \in Nat
  BY <1>1, <1>2, TokensTyped, ArenaTyped DEF StackOK, NoNode
<1>4. PICK callers : callers = Callers
  OBVIOUS
<1>5. PICK top : top = Top
  OBVIOUS
<1>6. callers \in Seq(Frames) /\ top \in Frames /\ stack = Append(callers, top)
  BY <1>1, <1>4, <1>5, TopTyped
<1>7. PICK hi \in 0..m :
         /\ Reach(nodes, Shut, length, stack, hi)
         /\ Row(nodes, Shut, Rest(returned), hi, m)
  BY <1>2 DEF Nesting
<1>8. hi \in Nat /\ hi <= m
  BY <1>3
<1>9. PICK lo \in 0..hi :
         Reach(nodes, Shut, length, callers, lo) /\ Placed(nodes, Shut, length, top, lo, hi)
  BY <1>6, <1>7, <1>8, ReachLess
<1>10. lo \in Nat /\ lo <= hi /\ lo <= m
  BY <1>8, <1>3
<1>11. CASE returned = NoNode
  <2>1. Placed(nodes, Shut, length, top, lo, m)
    BY <1>3, <1>6, <1>8, <1>9, <1>10, PlacedWidens
  <2>2. Stands(lo, m)
    BY <1>2, <1>3, <1>4, <1>5, <1>9, <1>10, <1>11, <2>1 DEF Stands
  <2> QED
    BY <1>3, <1>10, <2>2
<1>12. CASE returned # NoNode
  <2>1. Lies(nodes, Shut, returned, hi, m)
    <3>1. PICK id : id = returned
      OBVIOUS
    <3>2. id \in Nat /\ id # NoNode /\ Row(nodes, Shut, Rest(id), hi, m)
      BY <1>3, <1>7, <1>12, <3>1
    <3>3. hi \in Int /\ m \in Int
      BY <1>3, <1>8
    <3> QED
      BY <3>1, <3>2, <3>3, ShortRows
  <2>2. Stands(lo, hi)
    BY <1>2, <1>4, <1>5, <1>8, <1>9, <1>10, <1>12, <2>1 DEF Stands
  <2> QED
    BY <1>8, <1>10, <2>2
<1> QED
  BY <1>11, <1>12

(* The nodes that are open, at the innermost call and below it.                 *)
LEMMA OpenNodes ==
    ASSUME ParserInv, Nesting, status = "parsing"
    PROVE  /\ OpenIds(stack) = OpenIds(Callers) \cup Opens(Top)
           /\ Apart(Callers) /\ Opens(Top) \cap OpenIds(Callers) = {}
           /\ OpenIds(stack) \subseteq New
<1>1. StackOK
  BY DEF ParserInv
<1>2. PICK callers : callers = Callers
  OBVIOUS
<1>3. PICK top : top = Top
  OBVIOUS
<1>4. callers \in Seq(Frames) /\ top \in Frames /\ stack = Append(callers, top)
  BY <1>1, <1>2, <1>3, TopTyped
<1>5. /\ OpenIds(stack) = OpenIds(callers) \cup Opens(top)
      /\ Apart(stack) => Apart(callers) /\ Opens(top) \cap OpenIds(callers) = {}
  BY <1>4, OpenOfMore
<1>6. OpenIds(stack) \subseteq New
  <2>1. ASSUME NEW i \in DOMAIN stack
        PROVE  Opens(stack[i]) \subseteq New
    <3>1. PICK f : f = stack[i]
      OBVIOUS
    <3>2. Settled(f, New)
      BY <1>1, <3>1 DEF StackOK
    <3>3. Opens(f) \subseteq New
      BY <3>2 DEF Settled, Opens
    <3> QED
      BY <3>1, <3>3
  <2> QED
    BY <2>1 DEF OpenIds
<1> QED
  BY <1>2, <1>3, <1>5, <1>6 DEF Nesting

\* A step that opens and closes no node.
SameOpen == Apart(stack') /\ OpenIds(stack') = OpenIds(stack)

(* The innermost call goes on as another frame.                                 *)
LEMMA OpenBecome ==
    ASSUME ParserInv, Nesting, status = "parsing", NEW f, Become(f), Opens(f) = Opens(Top)
    PROVE  SameOpen
<1>1. PICK callers : callers = Callers
  OBVIOUS
<1>2. callers \in Seq(Frames) /\ stack' = Append(callers, f)
  BY <1>1, Below DEF Become, ParserInv
<1>3. /\ OpenIds(stack') = OpenIds(callers) \cup Opens(f)
      /\ Apart(stack') <=> Apart(callers) /\ Opens(f) \cap OpenIds(callers) = {}
  BY <1>2, OpenOfMore
<1> QED
  BY <1>1, <1>3, OpenNodes DEF SameOpen

(* It returns, having opened nothing.                                           *)
LEMMA OpenReturn ==
    ASSUME ParserInv, Nesting, status = "parsing", NEW id, Return(id), Opens(Top) = {}
    PROVE  SameOpen
<1>1. stack' = Callers
  BY DEF Return
<1>2. OpenIds(stack) = OpenIds(Callers)
  BY OpenNodes
<1> QED
  BY <1>1, <1>2, OpenNodes DEF SameOpen

(* A call is made of one that has opened nothing yet.                           *)
LEMMA OpenPush ==
    ASSUME ParserInv, Nesting, NEW f, Opens(f) = {}, stack' = Append(stack, f)
    PROVE  SameOpen
<1>1. PICK calls : calls = stack
  OBVIOUS
<1>2. calls \in Seq(Frames)
  BY <1>1 DEF ParserInv, StackOK
<1>3. /\ OpenIds(Append(calls, f)) = OpenIds(calls) \cup Opens(f)
      /\ Apart(Append(calls, f)) <=> Apart(calls) /\ Opens(f) \cap OpenIds(calls) = {}
  BY <1>2, OpenOfMore
<1>4. Apart(calls)
  BY <1>1 DEF Nesting
<1>5. OpenIds(stack') = OpenIds(calls) /\ Apart(stack')
  BY <1>1, <1>3, <1>4
<1> QED
  BY <1>1, <1>5 DEF SameOpen

(* Two frames on top of others are first one and then the other.                *)
LEMMA TwoMore ==
    ASSUME NEW calls \in Seq(Frames), NEW f \in Frames, NEW g \in Frames
    PROVE  calls \o <<f, g>> = Append(Append(calls, f), g) /\ Append(calls, f) \in Seq(Frames)
<1>1. PICK mid : mid = Append(calls, f)
  OBVIOUS
<1>2. PICK now : now = calls \o <<f, g>>
  OBVIOUS
<1>3. PICK n : n = Len(calls)
  OBVIOUS
<1>4. PICK j : j = n + 1
  OBVIOUS
<1>5. PICK two : two = <<f, g>>
  OBVIOUS
<1>6. two \in Seq(Frames) /\ Len(two) = 2
  BY <1>5
<1>7. now \in Seq(Frames)
  BY <1>2, <1>5, <1>6, ConcatProperties
<1>8. /\ n \in Nat /\ j \in Nat
      /\ Len(now) = j + 1 /\ now[j] = f /\ now[j + 1] = g
      /\ \A i \in 1..n : now[i] = calls[i]
  BY <1>2, <1>3, <1>4, LenProperties
<1>9. mid \in Seq(Frames) /\ Len(mid) = j /\ mid[j] = f /\ \A i \in 1..n : mid[i] = calls[i]
  BY <1>1, <1>3, <1>4, <1>8, AppendProperties
<1>10. \A i \in 1..j : now[i] = mid[i]
  <2>1. \A i \in 1..j : i \in 1..n \/ i = j
    BY <1>4, <1>8
  <2> QED
    BY <1>8, <1>9, <2>1
<1>11. now = Append(mid, g)
  <2>1. j = Len(mid) /\ Len(now) = j + 1 /\ now[j + 1] = g
    BY <1>8, <1>9
  <2> QED
    BY <1>7, <1>9, <1>10, <2>1, IsAppend
<1> QED
  BY <1>1, <1>2, <1>9, <1>11

\* What a step may do to the nodes: those that are whole stay what they are, as
\* those of the callers do, and those that become whole have their children in them.
Keeps ==
    /\ Shut \subseteq Shut' /\ \A id \in Shut : nodes'[id] = nodes[id]
    /\ \A id \in OpenIds(Callers) : nodes'[id] = nodes[id]
    /\ \A id \in Shut' : Nested(nodes', Shut', id)

(* A step that leaves the nodes alone.                                          *)
LEMMA KeepsNodes ==
    ASSUME ParserInv, Nesting, SameOpen, UNCHANGED Arena, UNCHANGED Input
    PROVE  Keeps /\ Shut' = Shut /\ nodes' = nodes
<1>1. nodes' = nodes /\ base' = base
  BY DEF Arena, Input, base
<1>2. Shut' = Shut
  BY <1>1 DEF SameOpen, Shut, New
<1> QED
  BY <1>1, <1>2 DEF Keeps, Nesting

(* A node that is made of nodes that stand in it in order.                      *)
LEMMA KeepsMade ==
    ASSUME ParserInv, Nesting, status = "parsing", SameOpen, UNCHANGED Input,
           NEW node \in AstNodes, create_node(node), NEW id, id = NextId,
           Row(nodes, Shut, node.children, node.span.start, node.span.end)
    PROVE  /\ Keeps /\ id \in Nat /\ id \in Shut' /\ nodes'[id] = node
           /\ Shut \subseteq Shut' /\ \A old \in Shut : nodes'[old] = nodes[old]
<1>1. ReadingOK /\ ArenaOK
  BY DEF ParserInv
<1>2. PICK n : n = Len(nodes)
  OBVIOUS
<1>3. PICK all : all = nodes
  OBVIOUS
<1>4. PICK now : now = nodes'
  OBVIOUS
<1>5. n \in Nat /\ id = n + 1 /\ id \in Nat /\ all \in Seq(AstNodes) /\ Len(all) = n
  BY <1>1, <1>2, <1>3, ArenaTyped DEF ArenaOK
<1>6. now = Append(all, node)
  BY <1>3, <1>4 DEF create_node
<1>7. now[n + 1] = node /\ \A i \in 1..n : now[i] = all[i]
  BY <1>5, <1>6, AppendProperties
<1>8. New \subseteq 1..n
  BY <1>1, <1>2, <1>5, TokensTyped DEF New
<1>9. \A old \in New : now[old] = all[old]
  BY <1>7, <1>8
<1>10. id \notin New
  BY <1>5, <1>8
<1>11. OpenIds(stack) \subseteq New /\ OpenIds(Callers) \subseteq New
  BY OpenNodes
<1>12. New' = New \cup {id}
  BY <1>1, NodeCreated
<1>13. PICK ids : ids = Shut
  OBVIOUS
<1>14. PICK more : more = Shut'
  OBVIOUS
<1>15. more = ids \cup {id} /\ ids \subseteq New
  BY <1>10, <1>11, <1>12, <1>13, <1>14 DEF Shut, SameOpen
<1>16. ids \subseteq more /\ \A old \in ids : now[old] = all[old]
  BY <1>9, <1>15
<1>17. ASSUME NEW old \in more
       PROVE  Nested(now, more, old)
  <2>1. PICK seq : seq = now[old].children
    OBVIOUS
  <2>2. PICK lo : lo = now[old].span.start
    OBVIOUS
  <2>3. PICK hi : hi = now[old].span.end
    OBVIOUS
  <2>4. Row(all, ids, seq, lo, hi)
    <3>1. CASE old \in ids
      <4>1. Nested(all, ids, old)
        BY <1>3, <1>13, <3>1 DEF Nesting
      <4>2. now[old] = all[old]
        BY <1>16, <3>1
      <4> QED
        BY <2>1, <2>2, <2>3, <4>1, <4>2 DEF Nested
    <3>2. CASE old = id
      <4>1. now[old] = node
        BY <1>5, <1>7, <3>2
      <4> QED
        BY <1>3, <1>13, <2>1, <2>2, <2>3, <4>1
    <3> QED
      BY <1>15, <3>1, <3>2
  <2>5. Row(now, more, seq, lo, hi)
    BY <1>16, <2>4, RowKept
  <2> QED
    BY <2>1, <2>2, <2>3, <2>5 DEF Nested
<1>18. Keeps
  BY <1>3, <1>4, <1>9, <1>11, <1>13, <1>14, <1>16, <1>17 DEF Keeps
<1> QED
  BY <1>3, <1>4, <1>5, <1>7, <1>13, <1>14, <1>15, <1>16, <1>18

(* The callers are where they were.                                             *)
LEMMA CallersKept ==
    ASSUME ParserInv, status = "parsing", Keeps, NEW lo, NEW hi, Stands(lo, hi)
    PROVE  Callers \in Seq(Frames) /\ Reach(nodes', Shut', length, Callers, lo)
<1>1. PICK callers : callers = Callers
  OBVIOUS
<1>2. PICK all : all = nodes
  OBVIOUS
<1>3. PICK now : now = nodes'
  OBVIOUS
<1>4. PICK ids : ids = Shut
  OBVIOUS
<1>5. PICK more : more = Shut'
  OBVIOUS
<1>6. callers \in Seq(Frames)
  BY <1>1, Below DEF ParserInv
<1>7. Reach(all, ids, length, callers, lo)
  BY <1>1, <1>2, <1>4 DEF Stands
<1>8. /\ ids \subseteq more /\ \A id \in ids : now[id] = all[id]
      /\ \A id \in OpenIds(callers) : now[id] = all[id]
  BY <1>1, <1>2, <1>3, <1>4, <1>5 DEF Keeps
<1>9. Reach(now, more, length, callers, lo)
  BY <1>6, <1>7, <1>8, ReachKept
<1> QED
  BY <1>1, <1>3, <1>5, <1>6, <1>9

(* What there is after a step.                                                  *)
LEMMA NestsAfter ==
    ASSUME ParserInv', Keeps, Apart(stack'), UNCHANGED Input,
           NEW m \in Nat, m <= Len(read'), Reach(nodes', Shut', length, stack', m),
           IF returned' = NoNode THEN TRUE
           ELSE Lies(nodes', Shut', returned', m, Len(read')) /\ returned' \in Nat
    PROVE  Nesting'
<1>1. length' = length
  BY DEF Input
<1>2. PICK n : n = Len(read')
  OBVIOUS
<1>3. PICK id : id = returned'
  OBVIOUS
<1>4. n \in Nat
  BY <1>2, LenProperties DEF ParserInv, ReadingOK
<1>5. m \in 0..n /\ m \in Int /\ n \in Int
  BY <1>2, <1>4
<1>6. Row(nodes', Shut', Rest(id), m, n)
  BY <1>2, <1>3, <1>5, ShortRows
<1>7. \E hi \in 0..n : Reach(nodes', Shut', length, stack', hi) /\ Row(nodes', Shut', Rest(id), hi, n)
  BY <1>5, <1>6
<1>8. \A old \in Shut' : Nested(nodes', Shut', old)
  BY DEF Keeps
<1> QED
  BY <1>1, <1>2, <1>3, <1>7, <1>8 DEF Nesting

(* The innermost call goes on as another frame, up to the current token.         *)
LEMMA AfterBecome ==
    ASSUME ParserInv, ParserInv', status = "parsing", Keeps, Apart(stack'), UNCHANGED Input,
           NEW lo, NEW hi, Stands(lo, hi), NEW m \in Nat, m = Len(read'), lo <= m,
           NEW f \in Frames, Become(f), Placed(nodes', Shut', length, f, lo, m)
    PROVE  Nesting'
<1>1. PICK callers : callers = Callers
  OBVIOUS
<1>2. callers \in Seq(Frames) /\ Reach(nodes', Shut', length, callers, lo) /\ lo \in Nat
  BY <1>1, CallersKept DEF Stands
<1>3. Reach(nodes', Shut', length, Append(callers, f), m)
  BY <1>2, ReachMore
<1>4. stack' = Append(callers, f) /\ returned' = NoNode
  BY <1>1 DEF Become
<1>5. m <= Len(read') /\ Reach(nodes', Shut', length, stack', m)
  BY <1>3, <1>4
<1> QED
  BY <1>4, <1>5, NestsAfter

(* It returns a node that stands after its callers.                             *)
LEMMA AfterReturn ==
    ASSUME ParserInv, ParserInv', status = "parsing", Keeps, Apart(stack'), UNCHANGED Input,
           NEW lo, NEW hi, Stands(lo, hi), NEW m \in Nat, m = Len(read'), lo <= m,
           NEW id \in Nat, Return(id), Lies(nodes', Shut', id, lo, m)
    PROVE  Nesting'
<1>1. lo \in Nat /\ Reach(nodes', Shut', length, Callers, lo)
  BY CallersKept DEF Stands
<1>2. stack' = Callers /\ returned' = id
  BY DEF Return
<1>3. Reach(nodes', Shut', length, stack', lo)
  BY <1>1, <1>2
<1>4. lo <= Len(read') /\ Lies(nodes', Shut', returned', lo, Len(read')) /\ returned' \in Nat
  BY <1>2
<1> QED
  BY <1>1, <1>3, <1>4, NestsAfter

\* A call that has read nothing yet.
Bare(g) ==
    \/ g \in {StatementFrame, ExpressionStatementFrame}
    \/ \E min : g = ExpressionFrame(min)

(* It has no place yet, and nothing open.                                       *)
LEMMA BareCalls ==
    ASSUME NEW g, Bare(g)
    PROVE  /\ Opens(g) = {}
           /\ \A all, ids, n : \A lo, hi \in Int : Placed(all, ids, n, g, lo, hi)
<1>1. g.rule \in {"statement", "expression_statement", "expression"}
  BY DEF Bare, StatementFrame, ExpressionStatementFrame, ExpressionFrame
<1>2. Opens(g) = {}
  BY <1>1 DEF Opens
<1>3. \A all, ids, n : \A lo, hi \in Int : Placed(all, ids, n, g, lo, hi)
  BY BarePlaced DEF Bare
<1> QED
  BY <1>2, <1>3

(* The frames that are called are frames.                                       *)
LEMMA FramesCalled ==
    ASSUME ParserInv, ParserInv', status = "parsing", UNCHANGED Input, NEW f, NEW g,
           BecomeAndCall(f, g)
    PROVE  f \in Frames /\ g \in Frames
<1>1. PICK callers : callers = Callers
  OBVIOUS
<1>2. PICK now : now = stack'
  OBVIOUS
<1>3. callers \in Seq(Frames) /\ now = callers \o <<f, g>>
  BY <1>1, <1>2, Below DEF BecomeAndCall, ParserInv
<1>4. now \in Seq(Frames)
  BY <1>2 DEF ParserInv, StackOK, Frames, Input
<1>5. PICK j : j = Len(callers) + 1
  OBVIOUS
<1>6. j \in Nat /\ Len(now) = j + 1 /\ now[j] = f /\ now[j + 1] = g
  BY <1>3, <1>5, LenProperties
<1>7. j \in 1..Len(now) /\ j + 1 \in 1..Len(now)
  BY <1>5, <1>6, <1>3, LenProperties
<1> QED
  BY <1>4, <1>6, <1>7, ElementOfSeq

(* It goes on with the nodes as they are.                                       *)
LEMMA OnBecome ==
    ASSUME ParserInv, ParserInv', Nesting, status = "parsing", UNCHANGED Arena, UNCHANGED Input,
           NEW lo, NEW hi, Stands(lo, hi), NEW m \in Nat, m = Len(read'), lo <= m,
           NEW f, Become(f), Opens(f) = Opens(Top), Placed(nodes, Shut, length, f, lo, m)
    PROVE  Nesting'
<1>1. SameOpen
  BY OpenBecome
<1>2. Keeps /\ Shut' = Shut /\ nodes' = nodes
  BY <1>1, KeepsNodes
<1>3. Apart(stack') /\ Placed(nodes', Shut', length, f, lo, m)
  BY <1>1, <1>2 DEF SameOpen
<1>4. f \in Frames
  BY AboveBecome DEF ParserInv
<1> QED
  BY <1>2, <1>3, <1>4, AfterBecome

(* It makes a call.                                                             *)
LEMMA OnCall ==
    ASSUME ParserInv, ParserInv', Nesting, status = "parsing", UNCHANGED Arena, UNCHANGED Input,
           NEW lo, NEW hi, Stands(lo, hi), NEW m \in Nat, m = Len(read'), lo <= m,
           NEW f, NEW g, BecomeAndCall(f, g), Bare(g), Opens(f) = Opens(Top),
           Placed(nodes, Shut, length, f, lo, m)
    PROVE  Nesting'
<1>1. PICK callers : callers = Callers
  OBVIOUS
<1>2. callers \in Seq(Frames) /\ f \in Frames /\ g \in Frames
  BY <1>1, FramesCalled, Below DEF ParserInv
<1>3. PICK mid : mid = Append(callers, f)
  OBVIOUS
<1>4. mid \in Seq(Frames) /\ stack' = Append(mid, g)
  <2>1. callers \o <<f, g>> = Append(Append(callers, f), g) /\ Append(callers, f) \in Seq(Frames)
    BY <1>2, TwoMore
  <2> QED
    BY <1>1, <1>3, <2>1 DEF BecomeAndCall
<1>5. /\ OpenIds(mid) = OpenIds(callers) \cup Opens(f)
      /\ Apart(mid) <=> Apart(callers) /\ Opens(f) \cap OpenIds(callers) = {}
  BY <1>2, <1>3, OpenOfMore
<1>6. OpenIds(mid) = OpenIds(stack) /\ Apart(mid)
  BY <1>1, <1>5, OpenNodes
<1>7. Opens(g) = {}
  BY BareCalls
<1>8. /\ OpenIds(Append(mid, g)) = OpenIds(mid) \cup Opens(g)
      /\ Apart(Append(mid, g)) <=> Apart(mid) /\ Opens(g) \cap OpenIds(mid) = {}
  BY <1>4, OpenOfMore
<1>9. SameOpen
  BY <1>4, <1>6, <1>7, <1>8 DEF SameOpen
<1>10. Keeps /\ Shut' = Shut /\ nodes' = nodes
  BY <1>9, KeepsNodes
<1>11. Reach(nodes', Shut', length, callers, lo) /\ lo \in Nat
  BY <1>1, <1>10, CallersKept DEF Stands
<1>12. Placed(nodes', Shut', length, f, lo, m) /\ Placed(nodes', Shut', length, g, m, m)
  <2>1. m \in Int
    OBVIOUS
  <2>2. Placed(nodes', Shut', length, g, m, m)
    BY <2>1, BareCalls
  <2> QED
    BY <1>10, <2>2
<1>13. Reach(nodes', Shut', length, mid, m)
  BY <1>2, <1>3, <1>11, <1>12, ReachMore
<1>14. m <= m
  OBVIOUS
<1>15. Reach(nodes', Shut', length, Append(mid, g), m)
  BY <1>2, <1>4, <1>12, <1>13, <1>14, ReachMore
<1>16. Reach(nodes', Shut', length, stack', m) /\ m <= Len(read')
  BY <1>4, <1>14, <1>15
<1>17. returned' = NoNode
  BY DEF BecomeAndCall
<1> QED
  BY <1>9, <1>10, <1>16, <1>17, NestsAfter DEF SameOpen

(* It returns a node that was there.                                            *)
LEMMA OnReturn ==
    ASSUME ParserInv, ParserInv', Nesting, status = "parsing", UNCHANGED Arena, UNCHANGED Input,
           NEW lo, NEW hi, Stands(lo, hi), NEW m \in Nat, m = Len(read'), lo <= m,
           NEW id \in Nat, Return(id), Opens(Top) = {}, Lies(nodes, Shut, id, lo, m)
    PROVE  Nesting'
<1>1. SameOpen
  BY OpenReturn
<1>2. Keeps /\ Shut' = Shut /\ nodes' = nodes
  BY <1>1, KeepsNodes
<1>3. Apart(stack') /\ Lies(nodes', Shut', id, lo, m)
  BY <1>1, <1>2 DEF SameOpen
<1> QED
  BY <1>2, <1>3, AfterReturn

(* It returns a node that it makes.                                             *)
LEMMA MakesAndReturns ==
    ASSUME ParserInv, ParserInv', Nesting, status = "parsing", UNCHANGED Input,
           NEW lo, NEW hi, Stands(lo, hi), NEW m \in Nat, m = Len(read'), lo <= m,
           NEW node \in AstNodes, create_node(node), NEW id, id = NextId, Return(id),
           Opens(Top) = {}, lo <= node.span.start, node.span.end <= m,
           Row(nodes, Shut, node.children, node.span.start, node.span.end)
    PROVE  Nesting'
<1>1. SameOpen
  BY OpenReturn
<1>2. Keeps /\ id \in Nat /\ id \in Shut' /\ nodes'[id] = node
  BY <1>1, KeepsMade
<1>3. node.span \in Spans
  BY DEF AstNodes
<1>4. Lies(nodes', Shut', id, lo, m)
  BY <1>2, <1>3 DEF Lies
<1> QED
  BY <1>1, <1>2, <1>4, AfterReturn DEF SameOpen

(* How far the stream has been read.                                            *)
LEMMA ReadLengths ==
    ASSUME ParserInv
    PROVE  /\ Len(read) \in Nat
           /\ advance => Len(read') = Len(read) + 1 /\ Len(read') \in Nat
           /\ Stay => Len(read') = Len(read) /\ Len(read') \in Nat
<1>1. ReadingOK
  BY DEF ParserInv
<1>2. PICK n : n = Len(read)
  OBVIOUS
<1>3. n \in Nat
  BY <1>1, <1>2, TokensTyped
<1>4. advance => Len(read') = n + 1
  <2> SUFFICES ASSUME advance PROVE Len(read') = n + 1
    OBVIOUS
  <2>1. PICK seq : seq = read
    OBVIOUS
  <2>2. PICK t : t = token
    OBVIOUS
  <2>3. read' = Append(seq, t) /\ seq \in Seq(call.tokens) /\ Len(seq) = n
    BY <1>1, <1>2, <2>1, <2>2 DEF advance, ReadingOK
  <2>4. Len(Append(seq, t)) = Len(seq) + 1
    BY <2>3
  <2> QED
    BY <2>3, <2>4
<1>5. Stay => Len(read') = n
  BY <1>2 DEF Stay
<1> QED
  BY <1>2, <1>3, <1>4, <1>5

(* Spans made from places, and from spans.                                      *)
LEMMA SpanParts ==
    /\ \A start, end : Span(start, end).start = start /\ Span(start, end).end = end
    /\ \A a, b \in Spans :
          /\ merge_span(a, b).start <= a.start /\ merge_span(a, b).start <= b.start
          /\ a.end <= merge_span(a, b).end /\ b.end <= merge_span(a, b).end
          /\ \A lo \in Int : lo <= a.start /\ lo <= b.start => lo <= merge_span(a, b).start
          /\ \A hi \in Int : a.end <= hi /\ b.end <= hi => merge_span(a, b).end <= hi
<1>1. \A start, end : Span(start, end).start = start /\ Span(start, end).end = end
  BY DEF Span
<1>2. ASSUME NEW a \in Spans, NEW b \in Spans
      PROVE  /\ merge_span(a, b).start <= a.start /\ merge_span(a, b).start <= b.start
             /\ a.end <= merge_span(a, b).end /\ b.end <= merge_span(a, b).end
             /\ \A lo \in Int : lo <= a.start /\ lo <= b.start => lo <= merge_span(a, b).start
             /\ \A hi \in Int : a.end <= hi /\ b.end <= hi => merge_span(a, b).end <= hi
  <2>1. a.start \in Nat /\ a.end \in Nat /\ b.start \in Nat /\ b.end \in Nat
    BY DEF Spans
  <2>2. /\ merge_span(a, b).start = IF a.start <= b.start THEN a.start ELSE b.start
        /\ merge_span(a, b).end = IF a.end >= b.end THEN a.end ELSE b.end
    BY <1>1 DEF merge_span
  <2> QED
    BY <2>1, <2>2
<1> QED
  BY <1>1, <1>2

(* The span up to the current token of what began before it.                    *)
LEMMA ToHere ==
    ASSUME ParserInv, NEW start \in Nat, start <= Len(read)
    PROVE  To(start) = Span(start, Len(read) + 1)
<1>1. Len(read) \in Nat
  BY ReadLengths
<1> QED
  BY <1>1, SpanParts DEF To, Here, merge_span

(* The node of the innermost call is rewritten: the others are left alone.       *)
LEMMA OpenRewritten ==
    ASSUME ParserInv, Nesting, status = "parsing", Top.rule \in {"module", "block"},
           NEW id, id = Top.node, NEW node \in AstNodes, NEW all, all = nodes,
           nodes' = PutAt(all, id, node), UNCHANGED capacity, UNCHANGED Input
    PROVE  /\ id \in Nat /\ id \in New /\ nodes'[id] = node /\ New' = New
           /\ id \notin Shut /\ id \notin OpenIds(Callers)
           /\ \A old \in Shut \cup OpenIds(Callers) : nodes'[old] = nodes[old]
<1>1. ReadingOK /\ ArenaOK /\ StackOK
  BY DEF ParserInv
<1>2. Settled(Top, New) /\ Opens(Top) = {id}
  BY <1>1, TopTyped DEF Opens
<1>3. id \in New
  BY <1>2 DEF Settled
<1>4. id \notin Shut /\ id \notin OpenIds(Callers) /\ Shut \cup OpenIds(Callers) \subseteq New
  BY <1>2, OpenNodes DEF Shut
<1>5. nodes' = [nodes EXCEPT ![id] = node]
  BY DEF PutAt
<1>6. New' = New
  BY <1>1, <1>3, <1>5, NodeRewritten
<1>7. \A old \in New : old \in DOMAIN nodes /\ old \in Nat
  BY <1>1, ArenaTyped
<1>8. nodes'[id] = node /\ \A old \in New : old # id => nodes'[old] = nodes[old]
  BY <1>3, <1>5, <1>7
<1> QED
  BY <1>3, <1>4, <1>6, <1>7, <1>8

(* CollectStatement keeps the nodes nested.                                     *)
LEMMA CollectStatementNests ==
    ASSUME ParserInv, ParserInv', Nesting, CollectStatement
    PROVE  Nesting'
<1>1. (Parsing("module") \/ Parsing("block")) /\ returned # NoNode
  BY DEF CollectStatement, Resumed
<1>2. /\ status = "parsing" /\ Top \in Frames /\ Top.rule \in {"module", "block"}
      /\ Settled(Top, New) /\ returned \in Nat
      /\ ReadingOK /\ ArenaOK /\ StackOK
  BY <1>1, InFrame
<1>3. PICK lo \in Nat, hi \in Nat : Stands(lo, hi)
  BY <1>2, NestingStands
<1>4. PICK id : id = Top.node
  OBVIOUS
<1>5. PICK all : all = nodes
  OBVIOUS
<1>6. PICK a : a = returned
  OBVIOUS
<1>7. PICK top : top = Top
  OBVIOUS
<1>8. id \in New /\ id \in DOMAIN all /\ all[id] \in AstNodes /\ a \in Nat
  <2>1. id \in New
    BY <1>2, <1>4 DEF Settled
  <2> QED
    BY <1>2, <1>5, <1>6, <2>1, ArenaTyped
<1>9. PICK node : node = [all[id] EXCEPT !.children = Append(all[id].children, a)]
  OBVIOUS
<1>10. /\ node \in AstNodes /\ node.children = Append(all[id].children, a)
       /\ node.span = all[id].span /\ all[id].children \in Seq(Nat)
  <2>1. all[id].children \in Seq(Nat)
    BY <1>8 DEF AstNodes
  <2>2. Append(all[id].children, a) \in Seq(Nat)
    BY <1>8, <2>1, AppendProperties
  <2> QED
    BY <1>8, <1>9, <2>1, <2>2 DEF AstNodes
<1>11. nodes' = PutAt(all, id, node)
  BY <1>4, <1>5, <1>6, <1>8, <1>9 DEF CollectStatement, PutAt
<1>12. /\ UNCHANGED capacity /\ stack' = stack /\ UNCHANGED Input /\ returned' = NoNode /\ Stay
  BY DEF CollectStatement
<1>13. PICK now : now = nodes'
  OBVIOUS
<1>14. /\ now[id] = node /\ New' = New
       /\ \A old \in Shut \cup OpenIds(Callers) : now[old] = all[old]
  BY <1>2, <1>4, <1>5, <1>10, <1>11, <1>12, <1>13, OpenRewritten
<1>15. PICK ids : ids = Shut
  OBVIOUS
<1>16. Shut' = ids
  BY <1>12, <1>14, <1>15 DEF Shut
<1>17. ASSUME NEW old \in ids
       PROVE  Nested(now, ids, old)
  <2>1. PICK seq : seq = all[old].children
    OBVIOUS
  <2>2. PICK left : left = all[old].span.start
    OBVIOUS
  <2>3. PICK right : right = all[old].span.end
    OBVIOUS
  <2>4. Row(all, ids, seq, left, right)
    BY <1>5, <1>15, <2>1, <2>2, <2>3 DEF Nesting, Nested
  <2>5. Row(now, ids, seq, left, right)
    BY <1>14, <1>15, <2>4, RowKept
  <2>6. now[old] = all[old]
    BY <1>14, <1>15
  <2> QED
    BY <2>1, <2>2, <2>3, <2>5, <2>6 DEF Nested
<1>18. Keeps
  BY <1>5, <1>13, <1>14, <1>15, <1>16, <1>17 DEF Keeps
<1>19. PICK callers : callers = Callers
  OBVIOUS
<1>20. callers \in Seq(Frames) /\ Reach(now, ids, length, callers, lo)
  BY <1>2, <1>3, <1>13, <1>16, <1>18, <1>19, CallersKept
<1>21. PICK m : m = Len(read)
  OBVIOUS
<1>22. m \in Nat /\ lo <= hi /\ hi <= m /\ Len(read') = m
  BY <1>3, <1>12, <1>21, ReadLengths DEF Stands
<1>23. Placed(now, ids, length, top, lo, m)
  <2>1. PICK left : left = Begins(top, lo)
    OBVIOUS
  <2>2. Placed(all, ids, length, top, lo, hi) /\ Lies(all, ids, a, hi, m)
    BY <1>1, <1>3, <1>5, <1>6, <1>7, <1>15, <1>21 DEF Stands
  <2>3. left \in Nat /\ left <= hi
    <3>1. left \in Nat
      BY <1>2, <1>7, <2>1, BeginsTyped
    <3>2. CASE top.rule = "block"
      <4>1. left = top.start /\ top.start + 1 <= hi
        BY <2>1, <2>2, <3>2 DEF Begins, Placed
      <4> QED
        BY <3>1, <4>1
    <3>3. CASE top.rule # "block"
      <4>1. left = lo
        BY <1>2, <1>7, <2>1, <3>3 DEF Begins
      <4> QED
        BY <1>22, <3>1, <4>1
    <3> QED
      BY <3>2, <3>3
  <2>4. PICK seq : seq = all[id].children
    OBVIOUS
  <2>5. seq \in Seq(Nat) /\ Row(all, ids, seq, left, hi)
    BY <1>2, <1>4, <1>7, <1>10, <2>1, <2>2, <2>4 DEF Placed, Parts
  <2>6. Row(all, ids, Append(seq, a), left, m)
    BY <1>8, <1>22, <2>2, <2>3, <2>5, RowOfMore
  <2>7. \A old \in ids : now[old] = all[old]
    BY <1>14, <1>15
  <2>8. Row(now, ids, Append(seq, a), left, m)
    BY <2>6, <2>7, RowKept
  <2>9. Parts(now, top) = Append(seq, a)
    BY <1>2, <1>4, <1>7, <1>10, <1>14, <2>4 DEF Parts
  <2>10. Row(now, ids, Parts(now, top), Begins(top, lo), m)
    BY <2>1, <2>8, <2>9
  <2>11. top.rule = "block" => lo <= top.start /\ top.start + 1 <= m
    <3>1. top.rule = "block" => top.start \in Nat
      BY <1>2, <1>7, FrameForms
    <3>2. top.rule = "block" => lo <= top.start /\ top.start + 1 <= hi
      BY <2>2 DEF Placed
    <3> QED
      BY <1>22, <3>1, <3>2
  <2>12. top.rule = "module" => lo = 0 /\ now[top.node].span = Span(0, length)
    BY <1>4, <1>7, <1>10, <1>14, <2>2 DEF Placed
  <2> QED
    BY <1>2, <1>7, <2>10, <2>11, <2>12 DEF Placed
<1>24. stack' = Append(callers, top) /\ top \in Frames /\ lo <= m
  <2>1. stack = Append(callers, top)
    BY <1>2, <1>7, <1>19, TopTyped
  <2> QED
    BY <1>2, <1>7, <1>12, <1>22, <2>1
<1>25. Reach(now, ids, length, Append(callers, top), m)
  BY <1>20, <1>22, <1>23, <1>24, ReachMore
<1>26. Reach(nodes', Shut', length, stack', m) /\ m <= Len(read')
  BY <1>13, <1>16, <1>22, <1>24, <1>25
<1>27. Apart(stack')
  BY <1>12 DEF Nesting
<1> QED
  BY <1>12, <1>18, <1>22, <1>26, <1>27, NestsAfter

(* MoreStatements keeps the nodes nested.                                       *)
LEMMA MoreStatementsNests ==
    ASSUME ParserInv, ParserInv', Nesting, MoreStatements
    PROVE  Nesting'
<1>1. (Parsing("module") \/ Parsing("block")) /\ returned = NoNode
  BY DEF MoreStatements, Entered
<1>2. status = "parsing"
  BY <1>1, InFrame
<1>3. PICK lo \in Nat, hi \in Nat : Stands(lo, hi)
  BY <1>2, NestingStands
<1>4. PICK f : f = Top
  OBVIOUS
<1>5. /\ BecomeAndCall(f, StatementFrame) /\ Stay /\ UNCHANGED Arena /\ UNCHANGED Input
  BY <1>4 DEF MoreStatements
<1>6. PICK m : m = Len(read')
  OBVIOUS
<1>7. m \in Nat /\ lo <= m /\ m = hi
  BY <1>1, <1>3, <1>5, <1>6, ReadLengths DEF Stands
<1>8. Opens(f) = Opens(Top) /\ Placed(nodes, Shut, length, f, lo, m)
  BY <1>3, <1>4, <1>7 DEF Stands
<1>9. Bare(StatementFrame)
  BY DEF Bare
<1> QED
  BY <1>2, <1>3, <1>5, <1>6, <1>7, <1>8, <1>9, OnCall

(* EndModule keeps the nodes nested.                                            *)
LEMMA EndModuleNests ==
    ASSUME ParserInv, ParserInv', Nesting, EndModule
    PROVE  Nesting'
<1>1. Parsing("module") /\ returned = NoNode
  BY DEF EndModule, Entered
<1>2. /\ status = "parsing" /\ Top \in Frames /\ Top.rule = "module"
      /\ Settled(Top, New) /\ ReadingOK /\ ArenaOK /\ StackOK
  BY <1>1, InFrame
<1>3. PICK lo \in Nat, hi \in Nat : Stands(lo, hi)
  BY <1>2, NestingStands
<1>4. PICK id : id = Top.node
  OBVIOUS
<1>5. PICK all : all = nodes
  OBVIOUS
<1>6. PICK ids : ids = Shut
  OBVIOUS
<1>7. PICK m : m = Len(read)
  OBVIOUS
<1>8. Return(id) /\ Stay /\ UNCHANGED Arena /\ UNCHANGED Input /\ at_end
  BY <1>4 DEF EndModule
<1>9. m \in Nat /\ m = length /\ hi = m /\ lo <= m /\ Len(read') = m
  <2>1. token = EndOfFile
    BY <1>8 DEF at_end
  <2> QED
    BY <1>1, <1>2, <1>3, <1>7, <1>8, <2>1, ReadLengths DEF ReadingOK, Stands
<1>10. id \in New /\ id \in Nat /\ id # NoNode /\ Opens(Top) = {id}
  BY <1>2, <1>4, ArenaTyped DEF Settled, Opens
<1>11. stack' = Callers /\ returned' = id /\ nodes' = all /\ New' = New
  BY <1>5, <1>8 DEF Return, Arena, Input, New, base
<1>12. PICK more : more = Shut'
  OBVIOUS
<1>13. /\ more = ids \cup {id} /\ Apart(stack')
  <2>1. /\ OpenIds(stack) = OpenIds(Callers) \cup {id} /\ Apart(Callers)
        /\ {id} \cap OpenIds(Callers) = {}
    BY <1>2, <1>10, OpenNodes
  <2> QED
    BY <1>6, <1>10, <1>11, <1>12, <2>1 DEF Shut
<1>14. /\ lo = 0 /\ all[id].span = Span(0, m) /\ Row(all, ids, all[id].children, lo, m)
  <2>1. PICK top : top = Top
    OBVIOUS
  <2>2. top.rule = "module" /\ top.node = id /\ lo \in Int /\ m \in Int
    BY <1>2, <1>4, <1>9, <2>1
  <2>3. Placed(all, ids, length, top, lo, m)
    BY <1>3, <1>5, <1>6, <1>9, <2>1 DEF Stands
  <2>4. /\ all[top.node].span = Span(0, length) /\ lo = 0
        /\ Row(all, ids, all[top.node].children, lo, m)
    BY <2>2, <2>3, PlacedForms
  <2> QED
    BY <1>9, <2>2, <2>4
<1>15. ASSUME NEW old \in more
       PROVE  Nested(all, more, old)
  <2>1. PICK seq : seq = all[old].children
    OBVIOUS
  <2>2. PICK left : left = all[old].span.start
    OBVIOUS
  <2>3. PICK right : right = all[old].span.end
    OBVIOUS
  <2>4. Row(all, ids, seq, left, right)
    <3>1. CASE old \in ids
      BY <1>5, <1>6, <2>1, <2>2, <2>3, <3>1 DEF Nesting, Nested
    <3>2. CASE old = id
      <4>1. left = 0 /\ right = m /\ Row(all, ids, seq, lo, m)
        BY <1>14, <2>1, <2>2, <2>3, <3>2, SpanParts
      <4>2. left \in Int /\ right \in Int /\ m \in Int /\ lo \in Int /\ left <= lo /\ m <= right
        BY <1>9, <4>1
      <4> QED
        BY <4>1, <4>2, RowWidens
    <3> QED
      BY <1>13, <3>1, <3>2
  <2>5. ids \subseteq more
    BY <1>13
  <2>6. Row(all, more, seq, left, right)
    BY <2>4, <2>5, RowKept
  <2> QED
    BY <2>1, <2>2, <2>3, <2>6 DEF Nested
<1>16. Keeps
  BY <1>5, <1>6, <1>11, <1>12, <1>13, <1>15 DEF Keeps
<1>17. Lies(all, more, id, lo, m)
  <2>1. all[id].span \in Spans /\ all[id].span.start = 0 /\ all[id].span.end = m
    <3>1. all[id].span = Span(0, m) /\ Span(0, m) \in Spans
      BY <1>9, <1>14, SpansTyped
    <3> QED
      BY <3>1, SpanParts
  <2> QED
    BY <1>9, <1>13, <1>14, <2>1 DEF Lies
<1> QED
  BY <1>2, <1>3, <1>8, <1>9, <1>10, <1>11, <1>12, <1>13, <1>16, <1>17, AfterReturn

(* EndBlock keeps the nodes nested.                                             *)
LEMMA EndBlockNests ==
    ASSUME ParserInv, ParserInv', Nesting, EndBlock
    PROVE  Nesting'
<1>1. Parsing("block") /\ returned = NoNode
  BY DEF EndBlock, Entered
<1>2. /\ status = "parsing" /\ Top \in Frames /\ Top.rule = "block"
      /\ Settled(Top, New) /\ ReadingOK /\ ArenaOK /\ StackOK
  BY <1>1, InFrame
<1>3. PICK lo \in Nat, hi \in Nat : Stands(lo, hi)
  BY <1>2, NestingStands
<1>4. PICK id : id = Top.node
  OBVIOUS
<1>5. PICK all : all = nodes
  OBVIOUS
<1>6. PICK ids : ids = Shut
  OBVIOUS
<1>7. PICK n : n = Len(read)
  OBVIOUS
<1>8. PICK start : start = Top.start
  OBVIOUS
<1>9. PICK m : m = n + 1
  OBVIOUS
<1>10. advance /\ UNCHANGED capacity /\ UNCHANGED Input /\ Return(id)
  BY <1>4 DEF EndBlock
<1>11. /\ n \in Nat /\ m \in Nat /\ hi = n /\ lo <= n /\ Len(read') = m /\ start \in Nat
  BY <1>1, <1>2, <1>3, <1>7, <1>8, <1>9, <1>10, ReadLengths, FrameForms DEF Stands
<1>12. /\ lo <= start /\ start + 1 <= n /\ Row(all, ids, all[id].children, start, n)
  <2>1. PICK top : top = Top
    OBVIOUS
  <2>2. /\ top.rule = "block" /\ top.node = id /\ top.start = start /\ lo \in Int /\ n \in Int
    BY <1>2, <1>4, <1>8, <1>11, <2>1
  <2>3. Placed(all, ids, length, top, lo, n)
    BY <1>3, <1>5, <1>6, <1>11, <2>1 DEF Stands
  <2>4. /\ lo <= top.start /\ top.start + 1 <= n
        /\ Row(all, ids, all[top.node].children, top.start, n)
    BY <2>2, <2>3, PlacedForms
  <2> QED
    BY <2>2, <2>4
<1>13. id \in New /\ id \in DOMAIN all /\ all[id] \in AstNodes /\ id \in Nat /\ id # NoNode
  <2>1. id \in New
    BY <1>2, <1>4 DEF Settled
  <2> QED
    BY <1>2, <1>5, <2>1, ArenaTyped
<1>14. PICK node : node = [all[id] EXCEPT !.span = To(start)]
  OBVIOUS
<1>15. /\ node \in AstNodes /\ node.children = all[id].children
       /\ node.span \in Spans /\ node.span.start = start /\ node.span.end = m
  <2>1. To(start) \in Spans
    BY <1>2, <1>11, SpansTyped
  <2>2. To(start) = Span(start, m)
    <3>1. start <= n
      BY <1>11, <1>12
    <3> QED
      BY <1>7, <1>9, <1>11, <3>1, ToHere
  <2>3. node \in AstNodes /\ node.children = all[id].children /\ node.span = To(start)
    BY <1>13, <1>14, <2>1 DEF AstNodes
  <2> QED
    BY <2>1, <2>2, <2>3, SpanParts
<1>16. nodes' = PutAt(all, id, node)
  BY <1>4, <1>5, <1>8, <1>13, <1>14 DEF EndBlock, PutAt
<1>17. PICK now : now = nodes'
  OBVIOUS
<1>18. /\ now[id] = node /\ New' = New
       /\ \A old \in Shut \cup OpenIds(Callers) : now[old] = all[old]
  BY <1>2, <1>4, <1>5, <1>10, <1>15, <1>16, <1>17, OpenRewritten
<1>19. PICK more : more = Shut'
  OBVIOUS
<1>20. more = ids \cup {id} /\ Apart(stack')
  <2>1. /\ OpenIds(stack) = OpenIds(Callers) \cup {id} /\ Apart(Callers)
        /\ {id} \cap OpenIds(Callers) = {}
    <3>1. Opens(Top) = {id}
      BY <1>2, <1>4 DEF Opens
    <3> QED
      BY <1>2, <3>1, OpenNodes
  <2>2. stack' = Callers
    BY <1>10 DEF Return
  <2> QED
    BY <1>6, <1>13, <1>18, <1>19, <2>1, <2>2 DEF Shut
<1>21. \A old \in ids : now[old] = all[old]
  BY <1>6, <1>18
<1>22. ASSUME NEW old \in more
       PROVE  Nested(now, more, old)
  <2>1. PICK seq : seq = now[old].children
    OBVIOUS
  <2>2. PICK left : left = now[old].span.start
    OBVIOUS
  <2>3. PICK right : right = now[old].span.end
    OBVIOUS
  <2>4. Row(all, ids, seq, left, right)
    <3>1. CASE old \in ids
      <4>1. now[old] = all[old]
        BY <1>21, <3>1
      <4> QED
        BY <1>5, <1>6, <2>1, <2>2, <2>3, <3>1, <4>1 DEF Nesting, Nested
    <3>2. CASE old = id
      <4>1. left = start /\ right = m /\ Row(all, ids, seq, start, n)
        BY <1>12, <1>15, <1>18, <2>1, <2>2, <2>3, <3>2
      <4>2. /\ left \in Int /\ right \in Int /\ n \in Int /\ start \in Int
            /\ left <= start /\ n <= right
        BY <1>9, <1>11, <4>1
      <4> QED
        BY <4>1, <4>2, RowWidens
    <3> QED
      BY <1>20, <3>1, <3>2
  <2>5. ids \subseteq more
    BY <1>20
  <2>6. Row(now, more, seq, left, right)
    BY <1>21, <2>4, <2>5, RowKept
  <2> QED
    BY <2>1, <2>2, <2>3, <2>6 DEF Nested
<1>23. Keeps
  BY <1>5, <1>6, <1>17, <1>18, <1>19, <1>20, <1>22 DEF Keeps
<1>24. Lies(now, more, id, lo, m) /\ lo <= m
  <2>1. lo <= m
    BY <1>9, <1>11
  <2> QED
    BY <1>11, <1>12, <1>15, <1>18, <1>20, <2>1 DEF Lies
<1> QED
  BY <1>2, <1>3, <1>10, <1>11, <1>13, <1>17, <1>19, <1>20, <1>23, <1>24, AfterReturn

(* BeginBlock keeps the nodes nested.                                           *)
LEMMA BeginBlockNests ==
    ASSUME ParserInv, ParserInv', Nesting, BeginBlock
    PROVE  Nesting'
<1>1. Parsing("statement") /\ returned = NoNode
  BY DEF BeginBlock, Entered
<1>2. /\ status = "parsing" /\ Top.rule = "statement" /\ StackOK /\ StackOK'
      /\ ReadingOK /\ ArenaOK
  BY <1>1, InFrame DEF ParserInv
<1>3. PICK lo \in Nat, hi \in Nat : Stands(lo, hi)
  BY <1>2, NestingStands
<1>4. PICK n : n = Len(read)
  OBVIOUS
<1>5. PICK m : m = n + 1
  OBVIOUS
<1>6. PICK id : id = NextId
  OBVIOUS
<1>7. PICK f : f = BlockFrame(id, n)
  OBVIOUS
<1>8. PICK node : node = Leaf("BlockStmt", Here, "")
  OBVIOUS
<1>9. node \in AstNodes /\ node.children = <<>>
  <2>1. Here \in Spans /\ "BlockStmt" \in AstKinds /\ <<>> \in Seq(Nat)
    BY <1>2, SpansTyped DEF AstKinds
  <2> QED
    BY <1>8, <2>1, NodesTyped, OwnTextsAreStrings DEF OwnTextsAreStrings, Leaf
<1>10. create_node(node) /\ Become(f) /\ UNCHANGED Input /\ advance
  BY <1>4, <1>6, <1>7, <1>8 DEF BeginBlock
<1>11. n \in Nat /\ m \in Nat /\ lo <= n /\ lo <= m /\ Len(read') = m
  BY <1>3, <1>4, <1>5, <1>10, ReadLengths DEF Stands
<1>12. f \in Frames /\ f.rule = "block" /\ f.node = id /\ f.start = n /\ Opens(f) = {id}
  <2>1. f \in Frames
    BY <1>2, <1>10, AboveBecome
  <2>2. f.rule = "block" /\ f.node = id /\ f.start = n
    BY <1>7 DEF BlockFrame
  <2> QED
    BY <2>1, <2>2 DEF Opens
<1>13. PICK all : all = nodes
  OBVIOUS
<1>14. PICK now : now = nodes'
  OBVIOUS
<1>15. /\ id \in Nat /\ id \notin New /\ New' = New \cup {id} /\ now[id] = node
       /\ \A old \in New : now[old] = all[old]
  <2>1. PICK k : k = Len(all)
    OBVIOUS
  <2>2. k \in Nat /\ id = k + 1 /\ all \in Seq(AstNodes) /\ now = Append(all, node)
    BY <1>2, <1>6, <1>10, <1>13, <1>14, <2>1, ArenaTyped DEF ArenaOK, create_node
  <2>3. now[k + 1] = node /\ \A i \in 1..k : now[i] = all[i]
    BY <2>1, <2>2, AppendProperties
  <2>4. New \subseteq 1..k
    <3>1. PICK given : given = base
      OBVIOUS
    <3>2. given \in Nat /\ New = (given + 1)..k
      BY <1>2, <1>13, <2>1, <3>1, TokensTyped DEF New
    <3>3. k \in Nat
      BY <2>2
    <3> QED
      BY <3>2, <3>3
  <2>5. New' = New \cup {id}
    BY <1>2, <1>6, <1>9, <1>10, NodeCreated
  <2>6. id \in Nat /\ id = k + 1 /\ id \notin 1..k
    BY <2>2
  <2>7. now[id] = node
    BY <2>3, <2>6
  <2>8. \A old \in New : now[old] = all[old]
    BY <2>3, <2>4
  <2> QED
    BY <2>4, <2>5, <2>6, <2>7, <2>8
<1>16. PICK callers : callers = Callers
  OBVIOUS
<1>17. callers \in Seq(Frames) /\ stack' = Append(callers, f)
  BY <1>2, <1>10, <1>16, Below DEF Become
<1>18. /\ OpenIds(stack) = OpenIds(callers) /\ Apart(callers) /\ OpenIds(callers) \subseteq New
  <2>1. Opens(Top) = {}
    BY <1>2 DEF Opens
  <2> QED
    BY <1>2, <1>16, <2>1, OpenNodes
<1>19. OpenIds(stack') = OpenIds(callers) \cup {id} /\ Apart(stack')
  <2>1. /\ OpenIds(Append(callers, f)) = OpenIds(callers) \cup Opens(f)
        /\ Apart(Append(callers, f)) <=> Apart(callers) /\ Opens(f) \cap OpenIds(callers) = {}
    BY <1>17, OpenOfMore
  <2>2. Opens(f) \cap OpenIds(callers) = {}
    BY <1>12, <1>15, <1>18
  <2> QED
    BY <1>12, <1>17, <1>18, <2>1, <2>2
<1>20. PICK ids : ids = Shut
  OBVIOUS
<1>21. Shut' = ids /\ ids \subseteq New
  BY <1>15, <1>18, <1>19, <1>20 DEF Shut
<1>22. \A old \in ids : now[old] = all[old]
  BY <1>15, <1>21
<1>23. ASSUME NEW old \in ids
       PROVE  Nested(now, ids, old)
  <2>1. PICK seq : seq = all[old].children
    OBVIOUS
  <2>2. PICK left : left = all[old].span.start
    OBVIOUS
  <2>3. PICK right : right = all[old].span.end
    OBVIOUS
  <2>4. Row(all, ids, seq, left, right)
    BY <1>13, <1>20, <2>1, <2>2, <2>3 DEF Nesting, Nested
  <2>5. Row(now, ids, seq, left, right)
    BY <1>22, <2>4, RowKept
  <2>6. now[old] = all[old]
    BY <1>22
  <2> QED
    BY <2>1, <2>2, <2>3, <2>5, <2>6 DEF Nested
<1>24. Keeps
  BY <1>13, <1>14, <1>15, <1>16, <1>18, <1>20, <1>21, <1>22, <1>23 DEF Keeps
<1>25. Placed(now, ids, length, f, lo, m)
  <2>1. Row(now, ids, <<>>, n, m)
    BY <1>11, ShortRows
  <2>2. now[f.node].children = <<>>
    BY <1>9, <1>12, <1>15
  <2>3. lo \in Int /\ m \in Int /\ f.start + 1 <= m /\ lo <= f.start
    BY <1>5, <1>11, <1>12
  <2>4. Row(now, ids, now[f.node].children, f.start, m)
    BY <1>12, <2>1, <2>2
  <2> QED
    BY <1>12, <2>3, <2>4, PlacedForms
<1> QED
  BY <1>2, <1>3, <1>10, <1>11, <1>12, <1>14, <1>19, <1>21, <1>24, <1>25, AfterBecome

(* BeginLet keeps the nodes nested.                                             *)
LEMMA BeginLetNests ==
    ASSUME ParserInv, ParserInv', Nesting, BeginLet
    PROVE  Nesting'
<1>1. Parsing("statement") /\ returned = NoNode
  BY DEF BeginLet, Entered
<1>2. status = "parsing" /\ Top.rule = "statement"
  BY <1>1, InFrame
<1>3. PICK lo \in Nat, hi \in Nat : Stands(lo, hi)
  BY <1>2, NestingStands
<1>4. PICK n : n = Len(read)
  OBVIOUS
<1>5. PICK m : m = n + 1
  OBVIOUS
<1>6. PICK f : f = LetFrame(n)
  OBVIOUS
<1>7. Become(f) /\ advance /\ UNCHANGED Arena /\ UNCHANGED Input
  BY <1>4, <1>6 DEF BeginLet
<1>8. n \in Nat /\ m \in Nat /\ lo <= n /\ lo <= m /\ Len(read') = m
  BY <1>3, <1>4, <1>5, <1>7, ReadLengths DEF Stands
<1>9. f.rule = "let" /\ f.start = n /\ f.name_node = NoNode
  BY <1>6 DEF LetFrame
<1>10. Opens(f) = Opens(Top)
  BY <1>2, <1>9 DEF Opens
<1>11. Placed(nodes, Shut, length, f, lo, m)
  <2>1. Row(nodes, Shut, Rest(f.name_node), f.start, m)
    BY <1>8, <1>9, ShortRows
  <2>2. lo \in Int /\ m \in Int /\ lo <= f.start /\ f.start + 1 <= m
    BY <1>5, <1>8, <1>9
  <2> QED
    BY <1>9, <2>1, <2>2, PlacedForms
<1> QED
  BY <1>2, <1>3, <1>7, <1>8, <1>10, <1>11, OnBecome

\* A let's frame with the same nodes.
SameLet(f, g) ==
    f.rule = "let" /\ g.rule = "let" /\ f.start = g.start /\ f.name_node = g.name_node

(* It is placed as the other is.                                                *)
LEMMA SameLetPlaced ==
    ASSUME NEW f, NEW g, SameLet(f, g)
    PROVE  /\ Opens(f) = Opens(g)
           /\ \A all, ids, n : \A lo, hi \in Int :
                 Placed(all, ids, n, f, lo, hi) => Placed(all, ids, n, g, lo, hi)
<1>1. Opens(f) = Opens(g)
  BY DEF SameLet, Opens
<1>2. ASSUME NEW all, NEW ids, NEW n, NEW lo \in Int, NEW hi \in Int,
             Placed(all, ids, n, f, lo, hi)
      PROVE  Placed(all, ids, n, g, lo, hi)
  <2>1. f.rule = "let" /\ g.rule = "let" /\ f.start = g.start /\ f.name_node = g.name_node
    BY DEF SameLet
  <2>2. /\ lo <= f.start /\ f.start + 1 <= hi
        /\ Row(all, ids, Rest(f.name_node), f.start, hi)
    BY <1>2, <2>1, PlacedForms
  <2>3. /\ lo <= g.start /\ g.start + 1 <= hi
        /\ Row(all, ids, Rest(g.name_node), g.start, hi)
    BY <2>1, <2>2
  <2> QED
    BY <2>1, <2>3, PlacedForms
<1> QED
  BY <1>1, <1>2

(* LetMut keeps the nodes nested.                                               *)
LEMMA LetMutNests ==
    ASSUME ParserInv, ParserInv', Nesting, LetMut
    PROVE  Nesting'
<1>1. Parsing("let") /\ returned = NoNode
  BY DEF LetMut, Entered
<1>2. status = "parsing" /\ Top \in Frames /\ Top.rule = "let"
  BY <1>1, InFrame
<1>3. PICK lo \in Nat, hi \in Nat : Stands(lo, hi)
  BY <1>2, NestingStands
<1>4. PICK top : top = Top
  OBVIOUS
<1>5. PICK f : f = [top EXCEPT !.expects = "name"]
  OBVIOUS
<1>6. PICK g : g = [f EXCEPT !.value = "mut"]
  OBVIOUS
<1>7. SameLet(top, g)
  <2>1. top \in [rule : {"let"}, start : Nat, expects : {"mut", "name", "=", ";"},
                 value : {"let", "mut"}, name_node : Nat, block : Nat]
    BY <1>2, <1>4, FrameForms
  <2>2. /\ f \in [rule : {"let"}, start : Nat, expects : {"mut", "name", "=", ";"},
                  value : {"let", "mut"}, name_node : Nat, block : Nat]
        /\ f.name_node = top.name_node /\ f.start = top.start
    BY <1>5, <2>1
  <2>3. g.rule = "let" /\ g.name_node = f.name_node /\ g.start = f.start
    BY <1>6, <2>2
  <2> QED
    BY <2>1, <2>2, <2>3 DEF SameLet
<1>8. Become(g) /\ advance /\ UNCHANGED Arena /\ UNCHANGED Input
  BY <1>4, <1>5, <1>6 DEF LetMut
<1>9. PICK m : m = Len(read')
  OBVIOUS
<1>10. m \in Nat /\ hi <= m /\ lo <= m
  BY <1>3, <1>8, <1>9, ReadLengths DEF Stands
<1>11. Opens(g) = Opens(Top)
  BY <1>4, <1>7, SameLetPlaced
<1>12. Placed(nodes, Shut, length, g, lo, m)
  <2>1. Placed(nodes, Shut, length, top, lo, hi) /\ top \in Frames
    BY <1>2, <1>3, <1>4 DEF Stands
  <2>2. Placed(nodes, Shut, length, top, lo, m)
    BY <1>10, <2>1, PlacedWidens
  <2>3. lo \in Int /\ m \in Int
    BY <1>10
  <2> QED
    BY <1>7, <2>2, <2>3, SameLetPlaced
<1> QED
  BY <1>2, <1>3, <1>8, <1>9, <1>10, <1>11, <1>12, OnBecome

(* LetEquals keeps the nodes nested.                                            *)
LEMMA LetEqualsNests ==
    ASSUME ParserInv, ParserInv', Nesting, LetEquals
    PROVE  Nesting'
<1>1. Parsing("let") /\ returned = NoNode
  BY DEF LetEquals, Entered
<1>2. status = "parsing" /\ Top \in Frames /\ Top.rule = "let"
  BY <1>1, InFrame
<1>3. PICK lo \in Nat, hi \in Nat : Stands(lo, hi)
  BY <1>2, NestingStands
<1>4. PICK top : top = Top
  OBVIOUS
<1>5. PICK f : f = [top EXCEPT !.expects = ";"]
  OBVIOUS
<1>6. PICK g : g = ExpressionFrame(1)
  OBVIOUS
<1>7. SameLet(top, f)
  <2>1. top \in [rule : {"let"}, start : Nat, expects : {"mut", "name", "=", ";"},
                 value : {"let", "mut"}, name_node : Nat, block : Nat]
    BY <1>2, <1>4, FrameForms
  <2>2. f.rule = "let" /\ f.name_node = top.name_node /\ f.start = top.start
    BY <1>5, <2>1
  <2> QED
    BY <2>1, <2>2 DEF SameLet
<1>8. BecomeAndCall(f, g) /\ advance /\ UNCHANGED Arena /\ UNCHANGED Input
  BY <1>4, <1>5, <1>6 DEF LetEquals
<1>9. PICK m : m = Len(read')
  OBVIOUS
<1>10. m \in Nat /\ hi <= m /\ lo <= m
  BY <1>3, <1>8, <1>9, ReadLengths DEF Stands
<1>11. Opens(f) = Opens(Top) /\ Bare(g)
  BY <1>4, <1>6, <1>7, SameLetPlaced DEF Bare
<1>12. Placed(nodes, Shut, length, f, lo, m)
  <2>1. Placed(nodes, Shut, length, top, lo, hi) /\ top \in Frames
    BY <1>2, <1>3, <1>4 DEF Stands
  <2>2. Placed(nodes, Shut, length, top, lo, m)
    BY <1>10, <2>1, PlacedWidens
  <2>3. lo \in Int /\ m \in Int
    BY <1>10
  <2> QED
    BY <1>7, <2>2, <2>3, SameLetPlaced
<1> QED
  BY <1>2, <1>3, <1>8, <1>9, <1>10, <1>11, <1>12, OnCall

(* LetName keeps the nodes nested.                                              *)
LEMMA LetNameNests ==
    ASSUME ParserInv, ParserInv', Nesting, LetName
    PROVE  Nesting'
<1>1. Parsing("let") /\ returned = NoNode
  BY DEF LetName, Entered
<1>2. /\ status = "parsing" /\ Top \in Frames /\ Top.rule = "let" /\ token.lexeme \in STRING
      /\ ReadingOK
  BY <1>1, InFrame
<1>3. PICK lo \in Nat, hi \in Nat : Stands(lo, hi)
  BY <1>2, NestingStands
<1>4. PICK top : top = Top
  OBVIOUS
<1>5. PICK n : n = Len(read)
  OBVIOUS
<1>6. PICK m : m = n + 1
  OBVIOUS
<1>7. PICK id : id = NextId
  OBVIOUS
<1>8. PICK node : node = Leaf("IdentifierExpr", Here, token.lexeme)
  OBVIOUS
<1>9. node \in AstNodes /\ node.children = <<>> /\ node.span = Span(n, m) /\ node.span \in Spans
  <2>1. Here \in Spans /\ "IdentifierExpr" \in AstKinds /\ <<>> \in Seq(Nat)
    BY <1>2, SpansTyped DEF AstKinds
  <2>2. node \in AstNodes /\ node.children = <<>>
    BY <1>2, <1>8, <2>1, NodesTyped DEF Leaf
  <2>3. node.span = Here /\ Here = Span(n, m)
    BY <1>5, <1>6, <1>8 DEF Leaf, AstNode, Here
  <2> QED
    BY <2>1, <2>2, <2>3
<1>10. PICK f :
          f = [top EXCEPT !.expects = "=", !.name_node = id, !.block = NextCapacity]
  OBVIOUS
<1>11. create_node(node) /\ Become(f) /\ UNCHANGED Input /\ advance
  BY <1>4, <1>7, <1>8, <1>10 DEF LetName
<1>12. n \in Nat /\ m \in Nat /\ lo <= n /\ lo <= m /\ Len(read') = m /\ hi = n
  BY <1>1, <1>3, <1>5, <1>6, <1>11, ReadLengths DEF Stands
<1>13. f.rule = "let" /\ f.start = top.start /\ f.name_node = id
  <2>1. top \in [rule : {"let"}, start : Nat, expects : {"mut", "name", "=", ";"},
                 value : {"let", "mut"}, name_node : Nat, block : Nat]
    BY <1>2, <1>4, FrameForms
  <2>2. PICK g : g = [top EXCEPT !.expects = "="]
    OBVIOUS
  <2>3. PICK h : h = [g EXCEPT !.name_node = id]
    OBVIOUS
  <2>4. f = [h EXCEPT !.block = NextCapacity]
    BY <1>10, <2>2, <2>3
  <2>5. g \in [rule : {"let"}, start : Nat, expects : {"mut", "name", "=", ";"},
               value : {"let", "mut"}, name_node : Nat, block : Nat]
        /\ g.start = top.start
    BY <2>1, <2>2
  <2>6. id \in Nat /\ NextCapacity \in Nat
    BY <1>2, <1>7, ArenaTyped DEF ParserInv
  <2>7. h \in [rule : {"let"}, start : Nat, expects : {"mut", "name", "=", ";"},
               value : {"let", "mut"}, name_node : Nat, block : Nat]
        /\ h.start = g.start /\ h.name_node = id
    BY <2>3, <2>5, <2>6
  <2> QED
    BY <2>4, <2>5, <2>6, <2>7
<1>14. Opens(f) = Opens(Top) /\ f \in Frames
  <2>1. f \in Frames
    BY <1>2, <1>11, AboveBecome DEF ParserInv
  <2> QED
    BY <1>2, <1>13, <2>1 DEF Opens
<1>15. SameOpen
  BY <1>2, <1>11, <1>14, OpenBecome
<1>16. Row(nodes, Shut, node.children, node.span.start, node.span.end)
  <2>1. node.span.start \in Int /\ node.span.end \in Int
    BY <1>9, <1>12, SpanParts
  <2>2. Row(nodes, Shut, <<>>, node.span.start, node.span.end)
    BY <2>1, ShortRows
  <2> QED
    BY <1>9, <2>2
<1>17. Keeps /\ id \in Nat /\ id \in Shut' /\ nodes'[id] = node
  BY <1>2, <1>7, <1>9, <1>11, <1>15, <1>16, KeepsMade
<1>18. Placed(nodes', Shut', length, f, lo, m)
  <2>1. Placed(nodes, Shut, length, top, lo, n)
    BY <1>3, <1>4, <1>12 DEF Stands
  <2>2. top.rule = "let" /\ lo \in Int /\ n \in Int /\ m \in Int /\ top.start \in Nat
    <3>1. top \in Frames /\ top.rule = "let"
      BY <1>2, <1>4
    <3>2. top.start \in Nat
      BY <3>1, FrameForms
    <3> QED
      BY <1>12, <3>1, <3>2
  <2>3. lo <= top.start /\ top.start + 1 <= n
    BY <2>1, <2>2, PlacedForms
  <2>4. lo <= f.start /\ f.start + 1 <= m /\ f.start \in Int
    BY <1>6, <1>12, <1>13, <2>2, <2>3
  <2>5. Lies(nodes', Shut', id, f.start, m)
    <3>1. node.span.start = n /\ node.span.end = m /\ f.start <= n /\ m <= m
      BY <1>9, <1>12, <1>13, <2>2, <2>3, SpanParts
    <3> QED
      BY <1>9, <1>17, <3>1 DEF Lies
  <2>6. Row(nodes', Shut', Rest(id), f.start, m)
    BY <1>17, <2>2, <2>4, <2>5, ShortRows
  <2> QED
    BY <1>13, <2>2, <2>4, <2>6, PlacedForms
<1> QED
  BY <1>2, <1>3, <1>11, <1>12, <1>14, <1>15, <1>17, <1>18, AfterBecome DEF SameOpen

(* Two nodes, one after the other.                                              *)
LEMMA RowOfTwo ==
    ASSUME NEW all, NEW ids, NEW lo, NEW hi, NEW a, NEW b,
           Lies(all, ids, a, lo, hi), Lies(all, ids, b, lo, hi),
           all[a].span.end <= all[b].span.start
    PROVE  Row(all, ids, <<a, b>>, lo, hi)
<1>1. PICK two : two = <<a, b>>
  OBVIOUS
<1>2. DOMAIN two = {1, 2} /\ two[1] = a /\ two[2] = b
  BY <1>1
<1>3. \A i, j \in {1, 2} : i < j => i = 1 /\ j = 2
  OBVIOUS
<1>4. Row(all, ids, two, lo, hi)
  BY <1>2, <1>3 DEF Row
<1> QED
  BY <1>1, <1>4

(* A node that stands before a place, and one that stands after it.             *)
LEMMA OneAfterOther ==
    ASSUME NEW all, NEW ids, NEW lo \in Int, NEW mid \in Int, NEW hi \in Int,
           lo <= mid, mid <= hi, NEW a, NEW b,
           Lies(all, ids, a, lo, mid), Lies(all, ids, b, mid, hi)
    PROVE  /\ Lies(all, ids, a, lo, hi) /\ Lies(all, ids, b, lo, hi)
           /\ all[a].span.end <= all[b].span.start
<1>1. PICK x : x = all[a].span
  OBVIOUS
<1>2. PICK y : y = all[b].span
  OBVIOUS
<1>3. /\ x.end \in Int /\ y.start \in Int /\ lo <= x.start /\ x.end <= mid
      /\ mid <= y.start /\ y.end <= hi /\ y.end \in Int /\ x.start \in Int
  BY <1>1, <1>2 DEF Lies, Spans
<1>4. x.end <= hi /\ lo <= y.start /\ x.end <= y.start
  BY <1>3
<1> QED
  BY <1>1, <1>2, <1>4 DEF Lies

(* What has been returned is a row of its own.                                  *)
LEMMA ReturnedRow ==
    ASSUME ParserInv, NEW lo, NEW hi, Stands(lo, hi)
    PROVE  Row(nodes, Shut, Rest(returned), hi, Len(read))
<1>1. PICK id : id = returned
  OBVIOUS
<1>2. PICK m : m = Len(read)
  OBVIOUS
<1>3. id \in Nat /\ hi \in Int /\ m \in Int
  <2>1. ReadingOK /\ ArenaOK /\ StackOK
    BY DEF ParserInv
  <2>2. m \in Nat /\ id \in Nat
    BY <1>1, <1>2, <2>1, TokensTyped, ArenaTyped DEF StackOK, NoNode
  <2> QED
    BY <2>2 DEF Stands
<1>4. CASE id = NoNode
  BY <1>1, <1>2, <1>3, <1>4, ShortRows
<1>5. CASE id # NoNode
  <2>1. Lies(nodes, Shut, id, hi, m)
    BY <1>1, <1>2, <1>5 DEF Stands
  <2> QED
    BY <1>1, <1>2, <1>3, <2>1, ShortRows
<1> QED
  BY <1>4, <1>5

(* EndLet keeps the nodes nested when the vector has not moved.                 *)
LEMMA EndLetNests ==
    ASSUME ParserInv, ParserInv', Nesting, EndLet, ~dangled'
    PROVE  Nesting'
<1>1. Parsing("let") /\ returned # NoNode
  BY DEF EndLet, Resumed
<1>2. /\ status = "parsing" /\ Top \in Frames /\ Top.rule = "let" /\ Waiting(Top)
      /\ Settled(Top, New) /\ ReadingOK /\ ArenaOK /\ StackOK /\ returned \in Nat
  BY <1>1, InFrame
<1>3. Top.expects = ";" /\ Top.name_node \in New
  BY <1>2 DEF Waiting, Settled
<1>4. PICK name : name = Top.name_node
  OBVIOUS
<1>5. PICK start : start = Top.start
  OBVIOUS
<1>6. name \in Nat /\ name # NoNode /\ start \in Nat /\ Top.value \in STRING
  BY <1>2, <1>3, <1>4, <1>5, ArenaTyped, FrameForms
<1>7. PICK a : a = returned
  OBVIOUS
<1>8. PICK node : node = AstNode("LetStmt", To(start), Top.value, <<name, a>>)
  OBVIOUS
<1>9. create_node(node)
  <2>1. PICK id \in IF Top.block # NextCapacity THEN 0..NextId ELSE {Top.name_node} :
           /\ create_node(AstNode("LetStmt", To(Top.start), Top.value, <<id, returned>>))
           /\ dangled' = (dangled \/ Top.block # NextCapacity)
    BY DEF EndLet
  <2>2. Top.block = NextCapacity
    BY <2>1
  <2>3. id = name
    BY <1>4, <2>1, <2>2
  <2> QED
    BY <1>5, <1>7, <1>8, <2>1, <2>3
<1>10. PICK lo \in Nat, hi \in Nat : Stands(lo, hi)
  BY <1>2, NestingStands
<1>11. PICK n : n = Len(read)
  OBVIOUS
<1>12. PICK m : m = n + 1
  OBVIOUS
<1>13. PICK id : id = NextId
  OBVIOUS
<1>14. Return(id) /\ UNCHANGED Input /\ advance
  BY <1>13 DEF EndLet
<1>15. /\ n \in Nat /\ m \in Nat /\ Len(read') = m /\ hi <= n /\ lo <= hi
       /\ lo <= m /\ n <= m
  <2>1. n \in Nat /\ Len(read') = n + 1
    BY <1>2, <1>11, <1>14, ReadLengths
  <2>2. hi <= n /\ lo <= hi
    BY <1>10, <1>11 DEF Stands
  <2> QED
    BY <1>12, <2>1, <2>2
<1>16. lo <= start /\ start + 1 <= hi /\ Row(nodes, Shut, Rest(name), start, hi)
  <2>1. PICK top : top = Top
    OBVIOUS
  <2>2. top.rule = "let" /\ top.start = start /\ top.name_node = name /\ lo \in Int /\ hi \in Int
    BY <1>2, <1>4, <1>5, <2>1
  <2>3. Placed(nodes, Shut, length, top, lo, hi)
    BY <1>10, <2>1 DEF Stands
  <2>4. /\ lo <= top.start /\ top.start + 1 <= hi
        /\ Row(nodes, Shut, Rest(top.name_node), top.start, hi)
    BY <2>2, <2>3, PlacedForms
  <2> QED
    BY <2>2, <2>4
<1>17. start \in Int /\ hi \in Int /\ n \in Int /\ m \in Int /\ start <= hi /\ a \in Nat
  BY <1>2, <1>6, <1>7, <1>15, <1>16
<1>18. Row(nodes, Shut, <<name, a>>, start, n)
  <2>1. Lies(nodes, Shut, name, start, hi)
    BY <1>6, <1>16, <1>17, ShortRows
  <2>2. Lies(nodes, Shut, a, hi, n)
    BY <1>1, <1>7, <1>10, <1>11 DEF Stands
  <2>3. /\ Lies(nodes, Shut, name, start, n) /\ Lies(nodes, Shut, a, start, n)
        /\ nodes[name].span.end <= nodes[a].span.start
    BY <1>15, <1>17, <2>1, <2>2, OneAfterOther
  <2> QED
    BY <2>3, RowOfTwo
<1>19. Row(nodes, Shut, <<name, a>>, start, m)
  <2>1. start <= start
    BY <1>17
  <2> QED
    BY <1>15, <1>17, <1>18, <2>1, RowWidens
<1>20. /\ node \in AstNodes /\ node.children = <<name, a>>
       /\ node.span.start = start /\ node.span.end = m
  <2>1. To(start) \in Spans /\ "LetStmt" \in AstKinds /\ <<name, a>> \in Seq(Nat)
    BY <1>2, <1>6, <1>17, SpansTyped DEF AstKinds
  <2>2. node \in AstNodes /\ node.children = <<name, a>>
    BY <1>6, <1>8, <2>1, NodesTyped
  <2>3. node.span = To(start)
    BY <1>8 DEF AstNode
  <2>4. start <= n
    BY <1>15, <1>17
  <2>5. To(start) = Span(start, m)
    BY <1>6, <1>11, <1>12, <2>4, ToHere
  <2> QED
    BY <2>2, <2>3, <2>5, SpanParts
<1>21. Opens(Top) = {}
  BY <1>2 DEF Opens
<1> QED
  BY <1>2, <1>9, <1>10, <1>13, <1>14, <1>15, <1>16, <1>19, <1>20, <1>21, MakesAndReturns

(* BeginReturn keeps the nodes nested.                                          *)
LEMMA BeginReturnNests ==
    ASSUME ParserInv, ParserInv', Nesting, BeginReturn
    PROVE  Nesting'
<1>1. Parsing("statement") /\ returned = NoNode
  BY DEF BeginReturn, Entered
<1>2. status = "parsing" /\ Top.rule = "statement"
  BY <1>1, InFrame
<1>3. PICK lo \in Nat, hi \in Nat : Stands(lo, hi)
  BY <1>2, NestingStands
<1>4. PICK n : n = Len(read)
  OBVIOUS
<1>5. PICK m : m = n + 1
  OBVIOUS
<1>6. PICK f : f = ReturnFrame(n)
  OBVIOUS
<1>7. Become(f) /\ advance /\ UNCHANGED Arena /\ UNCHANGED Input
  BY <1>4, <1>6 DEF BeginReturn
<1>8. n \in Nat /\ m \in Nat /\ lo <= n /\ lo <= m /\ Len(read') = m
  BY <1>3, <1>4, <1>5, <1>7, ReadLengths DEF Stands
<1>9. f.rule = "return" /\ f.start = n
  BY <1>6 DEF ReturnFrame
<1>10. Opens(f) = Opens(Top)
  BY <1>2, <1>9 DEF Opens
<1>11. Placed(nodes, Shut, length, f, lo, m)
  <2>1. lo \in Int /\ m \in Int /\ lo <= f.start /\ f.start + 1 <= m
    BY <1>5, <1>8, <1>9
  <2> QED
    BY <1>9, <2>1, PlacedForms
<1> QED
  BY <1>2, <1>3, <1>7, <1>8, <1>10, <1>11, OnBecome

(* ReturnValue keeps the nodes nested.                                          *)
LEMMA ReturnValueNests ==
    ASSUME ParserInv, ParserInv', Nesting, ReturnValue
    PROVE  Nesting'
<1>1. Parsing("return") /\ returned = NoNode
  BY DEF ReturnValue, Entered
<1>2. status = "parsing"
  BY <1>1, InFrame
<1>3. PICK lo \in Nat, hi \in Nat : Stands(lo, hi)
  BY <1>2, NestingStands
<1>4. PICK f : f = Top
  OBVIOUS
<1>5. PICK g : g = ExpressionFrame(1)
  OBVIOUS
<1>6. BecomeAndCall(f, g) /\ Stay /\ UNCHANGED Arena /\ UNCHANGED Input /\ Bare(g)
  BY <1>4, <1>5 DEF ReturnValue, Bare
<1>7. PICK m : m = Len(read')
  OBVIOUS
<1>8. m \in Nat /\ lo <= m /\ m = hi
  BY <1>1, <1>3, <1>6, <1>7, ReadLengths DEF Stands
<1>9. Opens(f) = Opens(Top) /\ Placed(nodes, Shut, length, f, lo, m)
  BY <1>3, <1>4, <1>8 DEF Stands
<1> QED
  BY <1>2, <1>3, <1>6, <1>7, <1>8, <1>9, OnCall

(* EndReturn keeps the nodes nested.                                            *)
LEMMA EndReturnNests ==
    ASSUME ParserInv, ParserInv', Nesting, EndReturn
    PROVE  Nesting'
<1>1. Parsing("return")
  BY DEF EndReturn
<1>2. /\ status = "parsing" /\ Top \in Frames /\ Top.rule = "return"
      /\ ReadingOK /\ ArenaOK /\ StackOK /\ returned \in Nat
  BY <1>1, InFrame
<1>3. PICK lo \in Nat, hi \in Nat : Stands(lo, hi)
  BY <1>2, NestingStands
<1>4. PICK children : children = Rest(returned)
  OBVIOUS
<1>5. children \in Seq(Nat)
  BY <1>2, <1>4, RestTyped
<1>6. PICK start : start = Top.start
  OBVIOUS
<1>7. PICK n : n = Len(read)
  OBVIOUS
<1>8. PICK m : m = n + 1
  OBVIOUS
<1>9. PICK id : id = NextId
  OBVIOUS
<1>10. PICK node : node = AstNode("ReturnStmt", To(start), "", children)
  OBVIOUS
<1>11. create_node(node) /\ Return(id) /\ UNCHANGED Input /\ advance
  BY <1>4, <1>6, <1>9, <1>10 DEF EndReturn, Rest
<1>12. start \in Nat
  BY <1>2, <1>6, FrameForms
<1>13. /\ n \in Nat /\ m \in Nat /\ Len(read') = m /\ hi <= n /\ lo <= hi
       /\ lo <= m /\ n <= m
  <2>1. n \in Nat /\ Len(read') = n + 1
    BY <1>2, <1>7, <1>11, ReadLengths
  <2>2. hi <= n /\ lo <= hi
    BY <1>3, <1>7 DEF Stands
  <2> QED
    BY <1>8, <2>1, <2>2
<1>14. lo <= start /\ start + 1 <= hi
  <2>1. PICK top : top = Top
    OBVIOUS
  <2>2. top.rule = "return" /\ top.start = start /\ lo \in Int /\ hi \in Int
    BY <1>2, <1>6, <2>1
  <2>3. Placed(nodes, Shut, length, top, lo, hi)
    BY <1>3, <2>1 DEF Stands
  <2> QED
    BY <2>2, <2>3, PlacedForms
<1>15. Row(nodes, Shut, children, start, m)
  <2>1. Row(nodes, Shut, children, hi, n)
    BY <1>3, <1>4, <1>7, ReturnedRow
  <2>2. start \in Int /\ hi \in Int /\ n \in Int /\ m \in Int /\ start <= hi
    BY <1>12, <1>13, <1>14
  <2> QED
    BY <1>13, <2>1, <2>2, RowWidens
<1>16. /\ node \in AstNodes /\ node.children = children
       /\ node.span.start = start /\ node.span.end = m
  <2>1. To(start) \in Spans /\ "ReturnStmt" \in AstKinds /\ "" \in STRING
    BY <1>2, <1>12, SpansTyped, OwnTextsAreStrings DEF AstKinds, OwnTextsAreStrings
  <2>2. node \in AstNodes /\ node.children = children
    BY <1>5, <1>10, <2>1, NodesTyped
  <2>3. node.span = To(start)
    BY <1>10 DEF AstNode
  <2>4. start <= n
    BY <1>12, <1>13, <1>14
  <2>5. To(start) = Span(start, m)
    BY <1>7, <1>8, <1>12, <2>4, ToHere
  <2> QED
    BY <2>2, <2>3, <2>5, SpanParts
<1>17. Opens(Top) = {}
  BY <1>2 DEF Opens
<1> QED
  BY <1>2, <1>3, <1>9, <1>11, <1>13, <1>14, <1>15, <1>16, <1>17, MakesAndReturns

(* BeginExpressionStatement keeps the nodes nested.                             *)
LEMMA BeginExpressionStatementNests ==
    ASSUME ParserInv, ParserInv', Nesting, BeginExpressionStatement
    PROVE  Nesting'
<1>1. Parsing("statement") /\ returned = NoNode
  BY DEF BeginExpressionStatement, Entered
<1>2. status = "parsing" /\ Top.rule = "statement"
  BY <1>1, InFrame
<1>3. PICK lo \in Nat, hi \in Nat : Stands(lo, hi)
  BY <1>2, NestingStands
<1>4. PICK f : f = ExpressionStatementFrame
  OBVIOUS
<1>5. PICK g : g = ExpressionFrame(1)
  OBVIOUS
<1>6. BecomeAndCall(f, g) /\ Stay /\ UNCHANGED Arena /\ UNCHANGED Input /\ Bare(f) /\ Bare(g)
  BY <1>4, <1>5 DEF BeginExpressionStatement, Bare
<1>7. PICK m : m = Len(read')
  OBVIOUS
<1>8. m \in Nat /\ lo <= m
  BY <1>1, <1>3, <1>6, <1>7, ReadLengths DEF Stands
<1>9. Opens(f) = Opens(Top) /\ Placed(nodes, Shut, length, f, lo, m)
  <2>1. lo \in Int /\ m \in Int
    BY <1>8
  <2>2. Opens(Top) = {}
    BY <1>2 DEF Opens
  <2> QED
    BY <1>6, <2>1, <2>2, BareCalls
<1> QED
  BY <1>2, <1>3, <1>6, <1>7, <1>8, <1>9, OnCall

(* EndExpressionStatement keeps the nodes nested.                               *)
LEMMA EndExpressionStatementNests ==
    ASSUME ParserInv, ParserInv', Nesting, EndExpressionStatement
    PROVE  Nesting'
<1>1. Parsing("expression_statement") /\ returned # NoNode
  BY DEF EndExpressionStatement, Resumed
<1>2. /\ status = "parsing" /\ Top \in Frames /\ Top.rule = "expression_statement"
      /\ ReadingOK /\ ArenaOK /\ StackOK /\ returned \in Nat /\ returned \in New
  BY <1>1, InFrame
<1>3. PICK lo \in Nat, hi \in Nat : Stands(lo, hi)
  BY <1>2, NestingStands
<1>4. PICK a : a = returned
  OBVIOUS
<1>5. PICK inner : inner = nodes[a].span
  OBVIOUS
<1>6. PICK n : n = Len(read)
  OBVIOUS
<1>7. PICK m : m = n + 1
  OBVIOUS
<1>8. PICK here : here = Span(n, m)
  OBVIOUS
<1>9. PICK id : id = NextId
  OBVIOUS
<1>10. PICK span : span = merge_span(inner, here)
  OBVIOUS
<1>11. PICK node : node = AstNode("ExpressionStmt", span, "", <<a>>)
  OBVIOUS
<1>12. here = Here
  BY <1>6, <1>7, <1>8 DEF Here
<1>13. create_node(node) /\ Return(id) /\ UNCHANGED Input /\ advance
  BY <1>4, <1>5, <1>9, <1>10, <1>11, <1>12 DEF EndExpressionStatement
<1>14. /\ n \in Nat /\ m \in Nat /\ Len(read') = m /\ hi <= n /\ lo <= hi
       /\ lo <= m /\ n <= m
  <2>1. n \in Nat /\ Len(read') = n + 1
    BY <1>2, <1>6, <1>13, ReadLengths
  <2>2. hi <= n /\ lo <= hi
    BY <1>3, <1>6 DEF Stands
  <2> QED
    BY <1>7, <2>1, <2>2
<1>15. Lies(nodes, Shut, a, hi, n)
  BY <1>1, <1>3, <1>4, <1>6 DEF Stands
<1>16. /\ inner \in Spans /\ here \in Spans /\ here.start = n /\ here.end = m
       /\ hi <= inner.start /\ inner.end <= n
  BY <1>5, <1>8, <1>14, <1>15, SpansTyped, SpanParts DEF Lies
<1>17. inner.start \in Nat /\ inner.end \in Nat
  BY <1>16 DEF Spans
<1>18. /\ span \in Spans /\ span.start <= inner.start /\ inner.end <= span.end
       /\ lo <= span.start /\ span.end <= m
  <2>1. lo <= inner.start /\ lo <= here.start /\ inner.end <= m /\ here.end <= m
        /\ lo \in Int /\ m \in Int
    BY <1>14, <1>16, <1>17
  <2> QED
    BY <1>10, <1>16, <2>1, SpansTyped, SpanParts
<1>19. span.start \in Int /\ span.end \in Int
  BY <1>18 DEF Spans
<1>20. Row(nodes, Shut, <<a>>, span.start, span.end)
  <2>1. Lies(nodes, Shut, a, span.start, span.end)
    BY <1>5, <1>15, <1>18 DEF Lies
  <2> QED
    BY <1>2, <1>4, <1>19, <2>1, ShortRows
<1>21. node \in AstNodes /\ node.children = <<a>> /\ node.span = span
  <2>1. "ExpressionStmt" \in AstKinds /\ "" \in STRING /\ <<a>> \in Seq(Nat)
    <3>1. "ExpressionStmt" \in AstKinds /\ "" \in STRING
      BY OwnTextsAreStrings DEF AstKinds, OwnTextsAreStrings
    <3>2. a \in Nat
      BY <1>2, <1>4
    <3>3. <<a>> \in Seq(Nat)
      BY <3>2
    <3> QED
      BY <3>1, <3>3
  <2>2. node \in AstNodes /\ node.children = <<a>>
    BY <1>11, <1>18, <2>1, NodesTyped
  <2>3. node.span = span
    BY <1>11 DEF AstNode
  <2> QED
    BY <2>2, <2>3
<1>22. Opens(Top) = {}
  BY <1>2 DEF Opens
<1> QED
  BY <1>2, <1>3, <1>9, <1>13, <1>14, <1>18, <1>20, <1>21, <1>22, MakesAndReturns

(* All the calls have read what has been read.                                  *)
LEMMA StackReach ==
    ASSUME ParserInv, Nesting
    PROVE  Reach(nodes, Shut, length, stack, Len(read))
<1>1. PICK m : m = Len(read)
  OBVIOUS
<1>2. m \in Nat
  BY <1>1, ReadLengths
<1>3. PICK hi \in 0..m : Reach(nodes, Shut, length, stack, hi)
  BY <1>1 DEF Nesting
<1>4. PICK calls : calls = stack
  OBVIOUS
<1>5. calls \in Seq(Frames)
  BY <1>4 DEF ParserInv, StackOK
<1>6. PICK k : k = Len(calls) + 1
  OBVIOUS
<1>7. PICK from \in Seq(Nat) :
         /\ Len(from) = k /\ from[k] <= hi
         /\ \A i \in DOMAIN calls :
               /\ from[i] <= from[i + 1]
               /\ Placed(nodes, Shut, length, calls[i], from[i], from[i + 1])
  BY <1>3, <1>4, <1>6 DEF Reach
<1>8. from[k] <= m
  <2>1. Len(calls) \in Nat
    BY <1>5, LenProperties
  <2>2. k \in 1..Len(from)
    BY <1>6, <1>7, <2>1
  <2>3. from[k] \in Nat
    BY <1>7, <2>2, ElementOfSeq
  <2>4. PICK x : x = from[k]
    OBVIOUS
  <2>5. x \in Nat /\ x <= hi
    BY <1>7, <2>3, <2>4
  <2>6. x <= m
    BY <1>2, <2>5
  <2> QED
    BY <2>4, <2>6
<1>9. Reach(nodes, Shut, length, calls, m)
  BY <1>6, <1>7, <1>8 DEF Reach
<1> QED
  BY <1>1, <1>4, <1>9

(* A new call has read nothing yet, one that it makes neither.                  *)
LEMMA OnEnter ==
    ASSUME ParserInv, ParserInv', Nesting, status = "parsing", UNCHANGED Arena, UNCHANGED Input,
           NEW n \in Nat, n = Len(read), NEW m \in Nat, m = Len(read'), n <= m,
           NEW f \in Frames, NEW g \in Frames, Opens(f) = {}, Bare(g),
           stack' = stack \o <<f, g>>, returned' = NoNode,
           Placed(nodes, Shut, length, f, n, m)
    PROVE  Nesting'
<1>1. PICK calls : calls = stack
  OBVIOUS
<1>2. calls \in Seq(Frames)
  BY <1>1 DEF ParserInv, StackOK
<1>3. PICK mid : mid = Append(calls, f)
  OBVIOUS
<1>4. mid \in Seq(Frames) /\ stack' = Append(mid, g)
  <2>1. calls \o <<f, g>> = Append(Append(calls, f), g) /\ Append(calls, f) \in Seq(Frames)
    BY <1>2, TwoMore
  <2> QED
    BY <1>1, <1>3, <2>1
<1>5. /\ OpenIds(mid) = OpenIds(calls) \cup Opens(f)
      /\ Apart(mid) <=> Apart(calls) /\ Opens(f) \cap OpenIds(calls) = {}
  BY <1>2, <1>3, OpenOfMore
<1>6. Opens(g) = {}
  BY BareCalls
<1>7. /\ OpenIds(Append(mid, g)) = OpenIds(mid) \cup Opens(g)
      /\ Apart(Append(mid, g)) <=> Apart(mid) /\ Opens(g) \cap OpenIds(mid) = {}
  BY <1>4, OpenOfMore
<1>8. Apart(calls)
  BY <1>1 DEF Nesting
<1>9. SameOpen
  BY <1>1, <1>4, <1>5, <1>6, <1>7, <1>8 DEF SameOpen
<1>10. Keeps /\ Shut' = Shut /\ nodes' = nodes
  BY <1>9, KeepsNodes
<1>11. Reach(nodes, Shut, length, calls, n)
  BY <1>1, StackReach
<1>12. Reach(nodes, Shut, length, mid, m)
  BY <1>2, <1>3, <1>11, ReachMore
<1>13. m <= m /\ m \in Int
  OBVIOUS
<1>14. Placed(nodes, Shut, length, g, m, m)
  BY <1>13, BareCalls
<1>15. Reach(nodes, Shut, length, Append(mid, g), m)
  BY <1>4, <1>12, <1>13, <1>14, ReachMore
<1>16. Reach(nodes', Shut', length, stack', m) /\ m <= Len(read')
  BY <1>4, <1>10, <1>13, <1>15
<1> QED
  BY <1>9, <1>10, <1>16, NestsAfter DEF SameOpen

\* A call that holds this node, of this span, and no other.
HoldsOne(f, id, span) ==
    \/ f.rule = "expression" /\ f.left = id
    \/ /\ f.rule = "call" /\ f.callee = id /\ f.args = <<>>
       /\ f.span = span /\ span.start <= span.end

(* It is placed where the node is.                                              *)
LEMMA HoldsOnePlaced ==
    ASSUME NEW all, NEW ids, NEW n, NEW lo \in Int, NEW hi \in Int, NEW id \in Nat,
           Lies(all, ids, id, lo, hi), NEW span, span = all[id].span,
           NEW f, HoldsOne(f, id, span)
    PROVE  Placed(all, ids, n, f, lo, hi)
<1>1. CASE f.rule = "expression" /\ f.left = id
  <2>1. Row(all, ids, Rest(id), lo, hi)
    BY ShortRows
  <2> QED
    BY <1>1, <2>1, PlacedForms
<1>2. CASE /\ f.rule = "call" /\ f.callee = id /\ f.args = <<>>
           /\ f.span = span /\ span.start <= span.end
  <2>1. PICK one : one = <<id>>
    OBVIOUS
  <2>2. one \in Seq(Nat)
    BY <2>1
  <2>3. one \o <<>> = one
    BY <2>2, ConcatEmptySeq
  <2>4. Row(all, ids, one, lo, hi)
    BY <2>1, ShortRows
  <2>5. Row(all, ids, <<f.callee>> \o f.args, lo, hi)
    BY <1>2, <2>1, <2>3, <2>4
  <2>6. all[f.callee].span = f.span /\ f.span.start <= f.span.end
    BY <1>2
  <2>7. f.rule = "call"
    BY <1>2
  <2> QED
    BY <2>5, <2>6, <2>7, PlacedForms
<1> QED
  BY <1>1, <1>2 DEF HoldsOne

(* The innermost call goes on with a node that it makes.                        *)
LEMMA MakesAndGoesOn ==
    ASSUME ParserInv, ParserInv', Nesting, status = "parsing", UNCHANGED Input,
           NEW lo, NEW hi, Stands(lo, hi), NEW m \in Nat, m = Len(read'), lo <= m,
           NEW node \in AstNodes, create_node(node), NEW id, id = NextId,
           NEW f, Become(f), Opens(f) = Opens(Top), HoldsOne(f, id, node.span),
           lo <= node.span.start, node.span.end <= m,
           Row(nodes, Shut, node.children, node.span.start, node.span.end)
    PROVE  Nesting'
<1>1. SameOpen
  BY OpenBecome
<1>2. Keeps /\ id \in Nat /\ id \in Shut' /\ nodes'[id] = node
  BY <1>1, KeepsMade
<1>3. node.span \in Spans
  BY DEF AstNodes
<1>4. Lies(nodes', Shut', id, lo, m)
  BY <1>2, <1>3 DEF Lies
<1>5. lo \in Int /\ m \in Int
  BY DEF Stands
<1>6. PICK span : span = node.span
  OBVIOUS
<1>7. span = nodes'[id].span /\ HoldsOne(f, id, span)
  BY <1>2, <1>6
<1>8. Placed(nodes', Shut', length, f, lo, m)
  BY <1>2, <1>4, <1>5, <1>7, HoldsOnePlaced
<1>9. f \in Frames
  BY AboveBecome DEF ParserInv
<1> QED
  BY <1>1, <1>2, <1>8, <1>9, AfterBecome DEF SameOpen

(* ParseUnary keeps the nodes nested.                                           *)
LEMMA ParseUnaryNests ==
    ASSUME ParserInv, ParserInv', Nesting, parse_unary
    PROVE  Nesting'
<1>1. Parsing("expression") /\ returned = NoNode
  BY DEF parse_unary, AtPrefix, Entered
<1>2. status = "parsing" /\ ReadingOK
  BY <1>1, InFrame DEF ParserInv
<1>3. PICK n : n = Len(read)
  OBVIOUS
<1>4. PICK m : m = n + 1
  OBVIOUS
<1>5. PICK f : f = UnaryFrame(token, n)
  OBVIOUS
<1>6. PICK min : min = precedence_for(token)
  OBVIOUS
<1>7. PICK g : g = ExpressionFrame(min)
  OBVIOUS
<1>8. /\ stack' = stack \o <<f, g>> /\ UNCHANGED Arena /\ UNCHANGED Input /\ returned' = NoNode
      /\ token.kind # "EndOfFile" /\ advance
  BY <1>1, <1>3, <1>5, <1>6, <1>7 DEF parse_unary, is_unary_prefix, IsKeyword
<1>9. n \in Nat /\ m \in Nat /\ n <= m /\ Len(read') = m
  <2>1. n \in Nat /\ Len(read') = n + 1
    BY <1>3, <1>8, ReadLengths
  <2> QED
    BY <1>4, <2>1
<1>10. f \in Frames /\ g \in Frames
  <2>1. min \in -1..8
    BY <1>6, PrecedenceTyped
  <2>2. token \in call.tokens
    BY <1>2, <1>8, TokensTyped DEF ReadingOK
  <2> QED
    BY <1>5, <1>7, <1>9, <2>1, <2>2, NewFrames
<1>11. f.rule = "unary" /\ f.start = n
  BY <1>5 DEF UnaryFrame
<1>12. Opens(f) = {} /\ Bare(g)
  BY <1>7, <1>11 DEF Opens, Bare
<1>13. Placed(nodes, Shut, length, f, n, m)
  <2>1. n \in Int /\ m \in Int /\ n <= f.start /\ f.start + 1 <= m
    BY <1>4, <1>9, <1>11
  <2> QED
    BY <1>11, <2>1, PlacedForms
<1> QED
  BY <1>2, <1>3, <1>8, <1>9, <1>10, <1>12, <1>13, OnEnter

(* EndUnary keeps the nodes nested.                                             *)
LEMMA EndUnaryNests ==
    ASSUME ParserInv, ParserInv', Nesting, EndUnary
    PROVE  Nesting'
<1>1. Parsing("unary") /\ returned # NoNode
  BY DEF EndUnary, Resumed
<1>2. /\ status = "parsing" /\ Top \in Frames /\ Top.rule = "unary"
      /\ ReadingOK /\ ArenaOK /\ StackOK /\ returned \in Nat /\ returned \in New
  BY <1>1, InFrame
<1>3. PICK lo \in Nat, hi \in Nat : Stands(lo, hi)
  BY <1>2, NestingStands
<1>4. PICK a : a = returned
  OBVIOUS
<1>5. PICK inner : inner = nodes[a].span
  OBVIOUS
<1>6. PICK start : start = Top.start
  OBVIOUS
<1>7. PICK op : op = Span(start, start + 1)
  OBVIOUS
<1>8. PICK span : span = merge_span(op, inner)
  OBVIOUS
<1>9. PICK text : text = Top.op.lexeme
  OBVIOUS
<1>10. PICK node : node = AstNode("UnaryExpr", span, text, <<a>>)
  OBVIOUS
<1>11. PICK id : id = NextId
  OBVIOUS
<1>12. create_node(node) /\ Return(id) /\ UNCHANGED Input /\ Stay
  BY <1>4, <1>5, <1>6, <1>7, <1>8, <1>9, <1>10, <1>11 DEF EndUnary
<1>13. PICK m : m = Len(read)
  OBVIOUS
<1>14. m \in Nat /\ Len(read') = m /\ hi <= m /\ lo <= hi /\ lo <= m
  <2>1. m \in Nat /\ Len(read') = m
    BY <1>12, <1>13, ReadLengths
  <2>2. hi <= m /\ lo <= hi
    BY <1>3, <1>13 DEF Stands
  <2> QED
    BY <2>1, <2>2
<1>15. start \in Nat /\ text \in STRING
  <2>1. Top.start \in Nat /\ Top.op \in call.tokens
    BY <1>2, FrameForms
  <2> QED
    BY <1>2, <1>6, <1>9, <2>1, TokensTyped
<1>16. lo <= start /\ start + 1 <= hi
  <2>1. PICK top : top = Top
    OBVIOUS
  <2>2. top.rule = "unary" /\ top.start = start /\ lo \in Int /\ hi \in Int
    BY <1>2, <1>6, <2>1
  <2>3. Placed(nodes, Shut, length, top, lo, hi)
    BY <1>3, <2>1 DEF Stands
  <2> QED
    BY <2>2, <2>3, PlacedForms
<1>17. Lies(nodes, Shut, a, hi, m)
  BY <1>1, <1>3, <1>4, <1>13 DEF Stands
<1>18. /\ inner \in Spans /\ op \in Spans /\ op.start = start /\ op.end = start + 1
       /\ hi <= inner.start /\ inner.end <= m
  <2>1. start + 1 \in Nat
    BY <1>15
  <2> QED
    BY <1>5, <1>7, <1>15, <1>17, <2>1, SpansTyped, SpanParts DEF Lies
<1>19. inner.start \in Nat /\ inner.end \in Nat
  BY <1>18 DEF Spans
<1>20. /\ span \in Spans /\ span.start <= inner.start /\ inner.end <= span.end
       /\ lo <= span.start /\ span.end <= m
  <2>1. lo <= inner.start /\ lo <= op.start /\ inner.end <= m /\ op.end <= m
        /\ lo \in Int /\ m \in Int
    BY <1>14, <1>15, <1>16, <1>18, <1>19
  <2> QED
    BY <1>8, <1>18, <2>1, SpansTyped, SpanParts
<1>21. span.start \in Int /\ span.end \in Int
  BY <1>20 DEF Spans
<1>22. Row(nodes, Shut, <<a>>, span.start, span.end)
  <2>1. Lies(nodes, Shut, a, span.start, span.end)
    BY <1>5, <1>17, <1>20 DEF Lies
  <2> QED
    BY <1>2, <1>4, <1>21, <2>1, ShortRows
<1>23. node \in AstNodes /\ node.children = <<a>> /\ node.span = span
  <2>1. a \in Nat
    BY <1>2, <1>4
  <2>2. "UnaryExpr" \in AstKinds /\ <<a>> \in Seq(Nat)
    BY <2>1 DEF AstKinds
  <2>3. node \in AstNodes /\ node.children = <<a>>
    BY <1>10, <1>15, <1>20, <2>2, NodesTyped
  <2>4. node.span = span
    BY <1>10 DEF AstNode
  <2> QED
    BY <2>3, <2>4
<1>24. Opens(Top) = {}
  BY <1>2 DEF Opens
<1> QED
  BY <1>2, <1>3, <1>11, <1>12, <1>14, <1>20, <1>22, <1>23, <1>24, MakesAndReturns

(* ParsePrimary keeps the nodes nested.                                         *)
LEMMA ParsePrimaryNests ==
    ASSUME ParserInv, ParserInv', Nesting, parse_primary
    PROVE  Nesting'
<1>1. Parsing("expression") /\ returned = NoNode
  BY DEF parse_primary, AtPrefix, Entered
<1>2. /\ status = "parsing" /\ token.lexeme \in STRING /\ ReadingOK /\ ArenaOK /\ StackOK
  BY <1>1, InFrame
<1>3. PICK n : n = Len(read)
  OBVIOUS
<1>4. PICK m : m = n + 1
  OBVIOUS
<1>5. PICK here : here = Span(n, m)
  OBVIOUS
<1>6. here = Here
  BY <1>3, <1>4, <1>5 DEF Here
<1>7. PICK node :
         node = Leaf(IF token.kind = "Identifier" THEN "IdentifierExpr" ELSE "LiteralExpr",
                     here, token.lexeme)
  OBVIOUS
<1>8. PICK id : id = NextId
  OBVIOUS
<1>9. PICK f : f = CallFrame(id, here)
  OBVIOUS
<1>10. /\ create_node(node) /\ stack' = Append(stack, f) /\ UNCHANGED Input
       /\ returned' = NoNode /\ advance
  BY <1>1, <1>6, <1>7, <1>8, <1>9 DEF parse_primary
<1>11. n \in Nat /\ m \in Nat /\ n <= m /\ Len(read') = m
  <2>1. n \in Nat /\ Len(read') = n + 1
    BY <1>3, <1>10, ReadLengths
  <2> QED
    BY <1>4, <2>1
<1>12. here \in Spans /\ here.start = n /\ here.end = m
  BY <1>5, <1>11, SpansTyped, SpanParts
<1>13. node \in AstNodes /\ node.children = <<>> /\ node.span = here
  <2>1. /\ "IdentifierExpr" \in AstKinds /\ "LiteralExpr" \in AstKinds /\ <<>> \in Seq(Nat)
    BY DEF AstKinds
  <2>2. node \in AstNodes /\ node.children = <<>>
    BY <1>2, <1>7, <1>12, <2>1, NodesTyped DEF Leaf
  <2>3. node.span = here
    BY <1>7 DEF Leaf, AstNode
  <2> QED
    BY <2>2, <2>3
<1>14. id \in Nat /\ f \in Frames
  BY <1>2, <1>8, <1>9, <1>12, ArenaTyped, NewFrames
<1>15. f.rule = "call" /\ f.callee = id /\ f.args = <<>> /\ f.span = here
  BY <1>9 DEF CallFrame
<1>16. SameOpen
  <2>1. Opens(f) = {}
    BY <1>15 DEF Opens
  <2> QED
    BY <1>10, <2>1, OpenPush
<1>17. Row(nodes, Shut, node.children, node.span.start, node.span.end)
  <2>1. here.start \in Int /\ here.end \in Int
    BY <1>11, <1>12
  <2>2. Row(nodes, Shut, <<>>, here.start, here.end)
    BY <2>1, ShortRows
  <2> QED
    BY <1>13, <2>2
<1>18. /\ Keeps /\ id \in Shut' /\ nodes'[id] = node
       /\ Shut \subseteq Shut' /\ \A old \in Shut : nodes'[old] = nodes[old]
  BY <1>2, <1>8, <1>10, <1>13, <1>16, <1>17, KeepsMade
<1>19. PICK calls : calls = stack
  OBVIOUS
<1>20. calls \in Seq(Frames)
  BY <1>19 DEF ParserInv, StackOK
<1>21. PICK now : now = nodes'
  OBVIOUS
<1>22. PICK more : more = Shut'
  OBVIOUS
<1>23. Reach(now, more, length, calls, n)
  <2>1. Reach(nodes, Shut, length, calls, n)
    BY <1>3, <1>19, StackReach
  <2>2. \A old \in OpenIds(calls) : now[old] = nodes[old]
    <3>1. OpenIds(calls) \subseteq New
      BY <1>2, <1>19, OpenNodes
    <3>2. ASSUME NEW old \in New
          PROVE  now[old] = nodes[old]
      <4>1. PICK all : all = nodes
        OBVIOUS
      <4>2. PICK k : k = Len(all)
        OBVIOUS
      <4>3. k \in Nat /\ all \in Seq(AstNodes) /\ old \in 1..k
        BY <1>2, <4>1, <4>2, ArenaTyped, TokensTyped DEF ArenaOK, New
      <4>4. now = Append(all, node)
        BY <1>10, <1>21, <4>1 DEF create_node
      <4>5. now[old] = all[old]
        BY <1>13, <4>2, <4>3, <4>4, AppendProperties
      <4> QED
        BY <4>1, <4>5
    <3> QED
      BY <3>1, <3>2
  <2>3. PICK all : all = nodes
    OBVIOUS
  <2>4. PICK ids : ids = Shut
    OBVIOUS
  <2>5. /\ ids \subseteq more /\ \A old \in ids : now[old] = all[old]
        /\ Reach(all, ids, length, calls, n) /\ \A old \in OpenIds(calls) : now[old] = all[old]
    BY <1>18, <1>21, <1>22, <2>1, <2>2, <2>3, <2>4
  <2> QED
    BY <1>20, <2>5, ReachKept
<1>24. Placed(now, more, length, f, n, m)
  <2>1. Lies(now, more, id, n, m)
    BY <1>11, <1>12, <1>13, <1>18, <1>21, <1>22 DEF Lies
  <2>2. n \in Int /\ m \in Int /\ here = now[id].span /\ here.start <= here.end
    BY <1>11, <1>12, <1>13, <1>18, <1>21
  <2>3. HoldsOne(f, id, here)
    BY <1>15, <2>2 DEF HoldsOne
  <2> QED
    BY <1>14, <2>1, <2>2, <2>3, HoldsOnePlaced
<1>25. Reach(now, more, length, Append(calls, f), m)
  BY <1>11, <1>14, <1>20, <1>23, <1>24, ReachMore
<1>26. Reach(nodes', Shut', length, stack', m) /\ m <= Len(read')
  BY <1>10, <1>11, <1>19, <1>21, <1>22, <1>25
<1> QED
  BY <1>10, <1>11, <1>16, <1>18, <1>26, NestsAfter DEF SameOpen

(* BeginGroup keeps the nodes nested.                                           *)
LEMMA BeginGroupNests ==
    ASSUME ParserInv, ParserInv', Nesting, BeginGroup
    PROVE  Nesting'
<1>1. Parsing("expression") /\ returned = NoNode
  BY DEF BeginGroup, AtPrefix, Entered
<1>2. status = "parsing" /\ ReadingOK
  BY <1>1, InFrame DEF ParserInv
<1>3. PICK n : n = Len(read)
  OBVIOUS
<1>4. PICK m : m = n + 1
  OBVIOUS
<1>5. PICK f : f = GroupFrame(n)
  OBVIOUS
<1>6. PICK g : g = ExpressionFrame(1)
  OBVIOUS
<1>7. /\ stack' = stack \o <<f, g>> /\ UNCHANGED Arena /\ UNCHANGED Input /\ returned' = NoNode
      /\ advance
  BY <1>1, <1>3, <1>5, <1>6 DEF BeginGroup
<1>8. n \in Nat /\ m \in Nat /\ n <= m /\ Len(read') = m
  <2>1. n \in Nat /\ Len(read') = n + 1
    BY <1>3, <1>7, ReadLengths
  <2> QED
    BY <1>4, <2>1
<1>9. f \in Frames /\ g \in Frames
  BY <1>5, <1>6, <1>8, NewFrames, WholeExpression
<1>10. f.rule = "group" /\ f.start = n
  BY <1>5 DEF GroupFrame
<1>11. Opens(f) = {} /\ Bare(g)
  BY <1>6, <1>10 DEF Opens, Bare
<1>12. Placed(nodes, Shut, length, f, n, m)
  <2>1. n \in Int /\ m \in Int /\ n <= f.start /\ f.start + 1 <= m
    BY <1>4, <1>8, <1>10
  <2> QED
    BY <1>10, <2>1, PlacedForms
<1> QED
  BY <1>2, <1>3, <1>7, <1>8, <1>9, <1>11, <1>12, OnEnter

(* EndGroup keeps the nodes nested.                                             *)
LEMMA EndGroupNests ==
    ASSUME ParserInv, ParserInv', Nesting, EndGroup
    PROVE  Nesting'
<1>1. Parsing("group") /\ returned # NoNode
  BY DEF EndGroup, Resumed
<1>2. /\ status = "parsing" /\ Top \in Frames /\ Top.rule = "group"
      /\ ReadingOK /\ ArenaOK /\ StackOK /\ returned \in Nat
  BY <1>1, InFrame
<1>3. PICK lo \in Nat, hi \in Nat : Stands(lo, hi)
  BY <1>2, NestingStands
<1>4. PICK a : a = returned
  OBVIOUS
<1>5. PICK start : start = Top.start
  OBVIOUS
<1>6. PICK n : n = Len(read)
  OBVIOUS
<1>7. PICK m : m = n + 1
  OBVIOUS
<1>8. PICK id : id = NextId
  OBVIOUS
<1>9. PICK span : span = To(start)
  OBVIOUS
<1>10. PICK node : node = AstNode("GroupExpr", span, "", <<a>>)
  OBVIOUS
<1>11. PICK f : f = CallFrame(id, span)
  OBVIOUS
<1>12. create_node(node) /\ Become(f) /\ UNCHANGED Input /\ advance
  BY <1>4, <1>5, <1>8, <1>9, <1>10, <1>11 DEF EndGroup
<1>13. start \in Nat /\ a \in Nat
  BY <1>2, <1>4, <1>5, FrameForms
<1>14. /\ n \in Nat /\ m \in Nat /\ Len(read') = m /\ hi <= n /\ lo <= hi
       /\ lo <= m /\ n <= m
  <2>1. n \in Nat /\ Len(read') = n + 1
    BY <1>2, <1>6, <1>12, ReadLengths
  <2>2. hi <= n /\ lo <= hi
    BY <1>3, <1>6 DEF Stands
  <2> QED
    BY <1>7, <2>1, <2>2
<1>15. lo <= start /\ start + 1 <= hi
  <2>1. PICK top : top = Top
    OBVIOUS
  <2>2. top.rule = "group" /\ top.start = start /\ lo \in Int /\ hi \in Int
    BY <1>2, <1>5, <2>1
  <2>3. Placed(nodes, Shut, length, top, lo, hi)
    BY <1>3, <2>1 DEF Stands
  <2> QED
    BY <2>2, <2>3, PlacedForms
<1>16. Row(nodes, Shut, <<a>>, start, m)
  <2>1. Lies(nodes, Shut, a, hi, n)
    BY <1>1, <1>3, <1>4, <1>6 DEF Stands
  <2>2. start \in Int /\ hi \in Int /\ n \in Int /\ m \in Int /\ start <= hi
    BY <1>13, <1>14, <1>15
  <2>3. Row(nodes, Shut, <<a>>, hi, n)
    BY <1>13, <2>1, <2>2, ShortRows
  <2> QED
    BY <1>14, <2>2, <2>3, RowWidens
<1>17. span \in Spans /\ span.start = start /\ span.end = m /\ start <= m
  <2>1. start <= n /\ start <= m
    BY <1>13, <1>14, <1>15
  <2>2. To(start) = Span(start, m)
    BY <1>6, <1>7, <1>13, <2>1, ToHere
  <2>3. span = Span(start, m)
    BY <1>9, <2>2
  <2>4. span \in Spans
    BY <1>13, <1>14, <2>3, SpansTyped
  <2> QED
    BY <2>1, <2>3, <2>4, SpanParts
<1>18. node \in AstNodes /\ node.children = <<a>> /\ node.span = span
  <2>1. "GroupExpr" \in AstKinds /\ "" \in STRING
    BY OwnTextsAreStrings DEF AstKinds, OwnTextsAreStrings
  <2>2. <<a>> \in Seq(Nat)
    BY <1>13
  <2>3. node \in AstNodes /\ node.children = <<a>>
    BY <1>10, <1>17, <2>1, <2>2, NodesTyped
  <2>4. node.span = span
    BY <1>10 DEF AstNode
  <2> QED
    BY <2>3, <2>4
<1>19. HoldsOne(f, id, node.span) /\ Opens(f) = Opens(Top)
  <2>1. f.rule = "call" /\ f.callee = id /\ f.args = <<>> /\ f.span = span
    BY <1>11 DEF CallFrame
  <2> QED
    BY <1>2, <1>17, <1>18, <2>1 DEF HoldsOne, Opens
<1> QED
  BY <1>2, <1>3, <1>8, <1>12, <1>14, <1>15, <1>16, <1>17, <1>18, <1>19, MakesAndGoesOn

\* A call that holds the same nodes and stands for as much.
SameHeld(f, g) ==
    /\ f.rule \in {"expression", "call"} /\ g.rule = f.rule
    /\ f.rule = "expression" => f.left = g.left
    /\ f.rule = "call" => f.callee = g.callee /\ f.args = g.args /\ f.span = g.span

(* It is placed as the other is.                                                *)
LEMMA SameHeldPlaced ==
    ASSUME NEW f, NEW g, SameHeld(f, g)
    PROVE  /\ Opens(f) = Opens(g)
           /\ \A all, ids, n : \A lo, hi \in Int :
                 Placed(all, ids, n, f, lo, hi) => Placed(all, ids, n, g, lo, hi)
<1>1. Opens(f) = Opens(g)
  BY DEF SameHeld, Opens
<1>2. ASSUME NEW all, NEW ids, NEW n, NEW lo \in Int, NEW hi \in Int,
             Placed(all, ids, n, f, lo, hi)
      PROVE  Placed(all, ids, n, g, lo, hi)
  <2>1. CASE f.rule = "expression"
    BY <1>2, <2>1, PlacedForms DEF SameHeld
  <2>2. CASE f.rule = "call"
    <3>1. /\ all[f.callee].span = f.span /\ f.span.start <= f.span.end
          /\ Row(all, ids, <<f.callee>> \o f.args, lo, hi)
      BY <1>2, <2>2, PlacedForms
    <3>2. /\ g.rule = "call" /\ f.callee = g.callee /\ f.args = g.args /\ f.span = g.span
      BY <2>2 DEF SameHeld
    <3>3. /\ all[g.callee].span = g.span /\ g.span.start <= g.span.end
          /\ Row(all, ids, <<g.callee>> \o g.args, lo, hi)
      BY <3>1, <3>2
    <3> QED
      BY <3>2, <3>3, PlacedForms
  <2> QED
    BY <2>1, <2>2 DEF SameHeld
<1> QED
  BY <1>1, <1>2

(* One more argument stands after the callee and those before it.               *)
LEMMA OneMoreArgument ==
    ASSUME NEW callee \in Nat, NEW args \in Seq(Nat), NEW a \in Nat
    PROVE  /\ <<callee>> \o Append(args, a) = Append(<<callee>> \o args, a)
           /\ <<callee>> \o args \in Seq(Nat)
<1>1. PICK one : one = <<callee>>
  OBVIOUS
<1>2. PICK last : last = <<a>>
  OBVIOUS
<1>3. one \in Seq(Nat) /\ last \in Seq(Nat)
  BY <1>1, <1>2
<1>4. PICK seq : seq = one \o args
  OBVIOUS
<1>5. seq \in Seq(Nat)
  BY <1>3, <1>4, ConcatProperties
<1>6. Append(args, a) = args \o last /\ Append(seq, a) = seq \o last
  BY <1>2, <1>5, AppendIsConcat
<1>7. seq \o last = one \o (args \o last)
  BY <1>3, <1>4, ConcatAssociative, SMTT(30)
<1> QED
  BY <1>1, <1>4, <1>5, <1>6, <1>7

(* The callee stands before the arguments, the last of which has been returned.  *)
LEMMA ArgumentsRow ==
    ASSUME NEW all, NEW ids, NEW lo \in Int, NEW mid \in Int, NEW hi \in Int,
           lo <= mid, mid <= hi, NEW callee \in Nat, NEW args \in Seq(Nat), NEW a \in Nat,
           Row(all, ids, <<callee>> \o args, lo, mid), Lies(all, ids, a, mid, hi)
    PROVE  Row(all, ids, <<callee>> \o Append(args, a), lo, hi)
<1>1. PICK seq : seq = <<callee>> \o args
  OBVIOUS
<1>2. seq \in Seq(Nat) /\ <<callee>> \o Append(args, a) = Append(seq, a)
  BY <1>1, OneMoreArgument
<1>3. Row(all, ids, Append(seq, a), lo, hi)
  BY <1>1, <1>2, RowOfMore
<1> QED
  BY <1>2, <1>3

(* A row stands after where its first node begins.                              *)
LEMMA RowFromFirst ==
    ASSUME NEW all, NEW ids, NEW lo \in Int, NEW hi \in Int, NEW callee \in Nat,
           NEW args \in Seq(Nat), Row(all, ids, <<callee>> \o args, lo, hi),
           NEW span, span = all[callee].span, span.start <= span.end
    PROVE  /\ Lies(all, ids, callee, lo, hi)
           /\ Row(all, ids, <<callee>> \o args, span.start, hi)
<1>1. PICK seq : seq = <<callee>> \o args
  OBVIOUS
<1>2. DOMAIN seq = 1..Len(seq) /\ 1 \in DOMAIN seq /\ seq[1] = callee
  <2>1. PICK one : one = <<callee>>
    OBVIOUS
  <2>2. one \in Seq(Nat) /\ Len(one) = 1 /\ one[1] = callee
    BY <2>1
  <2>3. Len(args) \in Nat
    BY LenProperties
  <2>4. seq \in Seq(Nat) /\ Len(seq) = 1 + Len(args)
    BY <1>1, <2>1, <2>2, <2>3, ConcatProperties
  <2>5. 1 \in 1..(1 + Len(args))
    BY <2>3
  <2>6. seq[1] = one[1]
    BY <1>1, <2>1, <2>2, <2>3, <2>4, <2>5, ConcatProperties
  <2> QED
    BY <2>2, <2>4, <2>5, <2>6, LenProperties
<1>3. Lies(all, ids, callee, lo, hi)
  BY <1>1, <1>2 DEF Row
<1>4. span \in Spans /\ lo <= span.start /\ span.end <= hi
  BY <1>3 DEF Lies
<1>5. span.start \in Int /\ span.end \in Int
  BY <1>4 DEF Spans
<1>6. ASSUME NEW i \in DOMAIN seq
      PROVE  Lies(all, ids, seq[i], span.start, hi)
  <2>1. Lies(all, ids, seq[i], lo, hi)
    BY <1>1 DEF Row
  <2>2. span.start <= all[seq[i]].span.start
    <3>1. CASE i = 1
      BY <1>2, <1>5, <3>1
    <3>2. CASE i # 1
      <4>1. 1 < i
        BY <1>2, <3>2
      <4>2. span.end <= all[seq[i]].span.start
        BY <1>1, <1>2, <4>1 DEF Row
      <4>3. PICK x : x = all[seq[i]].span.start
        OBVIOUS
      <4>4. x \in Int
        BY <2>1, <4>3 DEF Lies, Spans
      <4>5. span.start <= x
        BY <1>5, <4>2, <4>3, <4>4
      <4> QED
        BY <4>3, <4>5
    <3> QED
      BY <3>1, <3>2
  <2> QED
    BY <2>1, <2>2 DEF Lies
<1>7. Row(all, ids, seq, span.start, hi)
  BY <1>1, <1>6 DEF Row
<1> QED
  BY <1>1, <1>3, <1>7

(* OpenArguments keeps the nodes nested.                                        *)
LEMMA OpenArgumentsNests ==
    ASSUME ParserInv, ParserInv', Nesting, OpenArguments
    PROVE  Nesting'
<1>1. Parsing("call") /\ returned = NoNode
  BY DEF OpenArguments, Entered
<1>2. status = "parsing" /\ Top \in Frames /\ Top.rule = "call"
  BY <1>1, InFrame
<1>3. PICK lo \in Nat, hi \in Nat : Stands(lo, hi)
  BY <1>2, NestingStands
<1>4. PICK top : top = Top
  OBVIOUS
<1>5. PICK f : f = [top EXCEPT !.open = TRUE]
  OBVIOUS
<1>6. SameHeld(top, f)
  <2>1. top \in [rule : {"call"}, callee : Nat, span : Spans, open : BOOLEAN, args : Seq(Nat)]
    BY <1>2, <1>4, FrameForms
  <2>2. /\ f.rule = "call" /\ f.callee = top.callee /\ f.args = top.args /\ f.span = top.span
    BY <1>5, <2>1
  <2> QED
    BY <2>1, <2>2 DEF SameHeld
<1>7. Become(f) /\ advance /\ UNCHANGED Arena /\ UNCHANGED Input
  BY <1>4, <1>5 DEF OpenArguments
<1>8. PICK m : m = Len(read')
  OBVIOUS
<1>9. m \in Nat /\ hi <= m /\ lo <= m
  BY <1>3, <1>7, <1>8, ReadLengths DEF Stands
<1>10. Opens(f) = Opens(Top)
  BY <1>4, <1>6, SameHeldPlaced
<1>11. Placed(nodes, Shut, length, f, lo, m)
  <2>1. Placed(nodes, Shut, length, top, lo, hi) /\ top \in Frames
    BY <1>2, <1>3, <1>4 DEF Stands
  <2>2. Placed(nodes, Shut, length, top, lo, m)
    BY <1>9, <2>1, PlacedWidens
  <2>3. lo \in Int /\ m \in Int
    BY <1>9
  <2> QED
    BY <1>6, <2>2, <2>3, SameHeldPlaced
<1> QED
  BY <1>2, <1>3, <1>7, <1>8, <1>9, <1>10, <1>11, OnBecome

(* NoMoreCalls keeps the nodes nested.                                          *)
LEMMA NoMoreCallsNests ==
    ASSUME ParserInv, ParserInv', Nesting, NoMoreCalls
    PROVE  Nesting'
<1>1. Parsing("call") /\ returned = NoNode
  BY DEF NoMoreCalls, Entered
<1>2. status = "parsing" /\ Top \in Frames /\ Top.rule = "call"
  BY <1>1, InFrame
<1>3. PICK lo \in Nat, hi \in Nat : Stands(lo, hi)
  BY <1>2, NestingStands
<1>4. PICK id : id = Top.callee
  OBVIOUS
<1>5. PICK top : top = Top
  OBVIOUS
<1>6. top \in Frames /\ top.rule = "call" /\ top.callee = id
  BY <1>2, <1>4, <1>5
<1>7. id \in Nat /\ top.args \in Seq(Nat)
  BY <1>6, FrameForms
<1>8. Return(id) /\ Stay /\ UNCHANGED Arena /\ UNCHANGED Input
  BY <1>4 DEF NoMoreCalls
<1>9. PICK m : m = Len(read')
  OBVIOUS
<1>10. m \in Nat /\ m = hi /\ lo <= m
  BY <1>1, <1>3, <1>8, <1>9, ReadLengths DEF Stands
<1>11. Lies(nodes, Shut, id, lo, m)
  <2>1. PICK args : args = top.args
    OBVIOUS
  <2>2. lo \in Int /\ m \in Int
    BY <1>10
  <2>3. Placed(nodes, Shut, length, top, lo, m)
    BY <1>3, <1>5, <1>10 DEF Stands
  <2>4. /\ nodes[top.callee].span = top.span /\ top.span.start <= top.span.end
        /\ Row(nodes, Shut, <<top.callee>> \o top.args, lo, m)
    BY <1>6, <2>2, <2>3, PlacedForms
  <2>5. PICK span : span = nodes[id].span
    OBVIOUS
  <2>6. /\ span.start <= span.end /\ Row(nodes, Shut, <<id>> \o args, lo, m)
        /\ args \in Seq(Nat)
    BY <1>6, <1>7, <2>1, <2>4, <2>5
  <2> QED
    BY <1>7, <2>2, <2>5, <2>6, RowFromFirst
<1>12. Opens(Top) = {}
  BY <1>2 DEF Opens
<1> QED
  BY <1>2, <1>3, <1>7, <1>8, <1>9, <1>10, <1>11, <1>12, OnReturn

(* FirstArgument keeps the nodes nested.                                        *)
LEMMA FirstArgumentNests ==
    ASSUME ParserInv, ParserInv', Nesting, FirstArgument
    PROVE  Nesting'
<1>1. Parsing("call") /\ returned = NoNode
  BY DEF FirstArgument, Entered
<1>2. status = "parsing"
  BY <1>1, InFrame
<1>3. PICK lo \in Nat, hi \in Nat : Stands(lo, hi)
  BY <1>2, NestingStands
<1>4. PICK f : f = Top
  OBVIOUS
<1>5. PICK g : g = ExpressionFrame(1)
  OBVIOUS
<1>6. BecomeAndCall(f, g) /\ Stay /\ UNCHANGED Arena /\ UNCHANGED Input /\ Bare(g)
  BY <1>4, <1>5 DEF FirstArgument, Bare
<1>7. PICK m : m = Len(read')
  OBVIOUS
<1>8. m \in Nat /\ lo <= m /\ m = hi
  BY <1>1, <1>3, <1>6, <1>7, ReadLengths DEF Stands
<1>9. Opens(f) = Opens(Top) /\ Placed(nodes, Shut, length, f, lo, m)
  BY <1>3, <1>4, <1>8 DEF Stands
<1> QED
  BY <1>2, <1>3, <1>6, <1>7, <1>8, <1>9, OnCall

(* NextArgument keeps the nodes nested.                                         *)
LEMMA NextArgumentNests ==
    ASSUME ParserInv, ParserInv', Nesting, NextArgument
    PROVE  Nesting'
<1>1. Parsing("call") /\ returned # NoNode
  BY DEF NextArgument, Resumed
<1>2. status = "parsing" /\ Top \in Frames /\ Top.rule = "call" /\ returned \in Nat
  BY <1>1, InFrame
<1>3. PICK lo \in Nat, hi \in Nat : Stands(lo, hi)
  BY <1>2, NestingStands
<1>4. PICK top : top = Top
  OBVIOUS
<1>5. PICK a : a = returned
  OBVIOUS
<1>6. PICK args : args = Append(top.args, a)
  OBVIOUS
<1>7. PICK f : f = [top EXCEPT !.args = args]
  OBVIOUS
<1>8. PICK g : g = ExpressionFrame(1)
  OBVIOUS
<1>9. top \in [rule : {"call"}, callee : Nat, span : Spans, open : BOOLEAN, args : Seq(Nat)]
  BY <1>2, <1>4, FrameForms
<1>10. a \in Nat /\ top.callee \in Nat /\ top.args \in Seq(Nat) /\ top.rule = "call"
  BY <1>2, <1>5, <1>9
<1>11. f.rule = "call" /\ f.callee = top.callee /\ f.args = args /\ f.span = top.span
  BY <1>7, <1>9
<1>12. BecomeAndCall(f, g) /\ advance /\ UNCHANGED Arena /\ UNCHANGED Input /\ Bare(g)
  BY <1>4, <1>5, <1>6, <1>7, <1>8 DEF NextArgument, Bare
<1>13. PICK m : m = Len(read')
  OBVIOUS
<1>14. PICK n : n = Len(read)
  OBVIOUS
<1>15. m \in Nat /\ n \in Nat /\ lo <= hi /\ hi <= n /\ n <= m /\ lo <= m
  <2>1. n \in Nat /\ m = n + 1
    BY <1>12, <1>13, <1>14, ReadLengths
  <2>2. lo <= hi /\ hi <= n
    BY <1>3, <1>14 DEF Stands
  <2> QED
    BY <2>1, <2>2
<1>16. Opens(f) = Opens(Top)
  BY <1>2, <1>11 DEF Opens
<1>17. Placed(nodes, Shut, length, f, lo, m)
  <2>1. Placed(nodes, Shut, length, top, lo, hi)
    BY <1>3, <1>4 DEF Stands
  <2>2. lo \in Int /\ hi \in Int /\ n \in Int /\ m \in Int
    BY <1>15
  <2>3. /\ nodes[top.callee].span = top.span /\ top.span.start <= top.span.end
        /\ Row(nodes, Shut, <<top.callee>> \o top.args, lo, hi)
    BY <1>10, <2>1, <2>2, PlacedForms
  <2>4. Lies(nodes, Shut, a, hi, n)
    BY <1>1, <1>3, <1>5, <1>14 DEF Stands
  <2>5. Row(nodes, Shut, <<top.callee>> \o args, lo, n)
    BY <1>6, <1>10, <1>15, <2>2, <2>3, <2>4, ArgumentsRow
  <2>6. PICK seq : seq = <<top.callee>> \o args
    OBVIOUS
  <2>7. lo <= lo
    BY <2>2
  <2>8. Row(nodes, Shut, seq, lo, m)
    BY <1>15, <2>2, <2>5, <2>6, <2>7, RowWidens
  <2>9. /\ nodes[f.callee].span = f.span /\ f.span.start <= f.span.end
        /\ Row(nodes, Shut, <<f.callee>> \o f.args, lo, m)
    BY <1>11, <2>3, <2>6, <2>8
  <2> QED
    BY <1>11, <2>2, <2>9, PlacedForms
<1> QED
  BY <1>2, <1>3, <1>12, <1>13, <1>15, <1>16, <1>17, OnCall

(* CloseArguments keeps the nodes nested.                                       *)
LEMMA CloseArgumentsNests ==
    ASSUME ParserInv, ParserInv', Nesting, CloseArguments
    PROVE  Nesting'
<1>1. Parsing("call")
  BY DEF CloseArguments
<1>2. /\ status = "parsing" /\ Top \in Frames /\ Top.rule = "call"
      /\ ReadingOK /\ ArenaOK /\ StackOK /\ returned \in Nat
  BY <1>1, InFrame
<1>3. PICK lo \in Nat, hi \in Nat : Stands(lo, hi)
  BY <1>2, NestingStands
<1>4. PICK top : top = Top
  OBVIOUS
<1>5. PICK a : a = returned
  OBVIOUS
<1>6. PICK callee : callee = top.callee
  OBVIOUS
<1>7. PICK old : old = top.span
  OBVIOUS
<1>8. PICK n : n = Len(read)
  OBVIOUS
<1>9. PICK m : m = n + 1
  OBVIOUS
<1>10. PICK here : here = Span(n, m)
  OBVIOUS
<1>11. PICK span : span = merge_span(old, here)
  OBVIOUS
<1>12. PICK args : args = IF a = NoNode THEN top.args ELSE Append(top.args, a)
  OBVIOUS
<1>13. PICK children : children = <<callee>> \o args
  OBVIOUS
<1>14. PICK node : node = AstNode("CallExpr", span, "", children)
  OBVIOUS
<1>15. PICK id : id = NextId
  OBVIOUS
<1>16. PICK f : f = CallFrame(id, span)
  OBVIOUS
<1>17. create_node(node) /\ Become(f) /\ UNCHANGED Input /\ advance
  <2>1. here = Here
    BY <1>8, <1>9, <1>10 DEF Here
  <2> QED
    BY <1>4, <1>5, <1>6, <1>7, <1>11, <1>12, <1>13, <1>14, <1>15, <1>16, <2>1 DEF CloseArguments
<1>18. top \in Frames /\ top.rule = "call" /\ a \in Nat
  BY <1>2, <1>4, <1>5
<1>19. callee \in Nat /\ top.args \in Seq(Nat) /\ old \in Spans
  BY <1>6, <1>7, <1>18, FrameForms
<1>20. /\ n \in Nat /\ m \in Nat /\ Len(read') = m /\ hi <= n /\ lo <= hi
       /\ lo <= m /\ n <= m /\ lo \in Int /\ hi \in Int /\ n \in Int /\ m \in Int
  <2>1. n \in Nat /\ Len(read') = n + 1
    BY <1>2, <1>8, <1>17, ReadLengths
  <2>2. hi <= n /\ lo <= hi
    BY <1>3, <1>8 DEF Stands
  <2> QED
    BY <1>9, <2>1, <2>2
<1>21. /\ nodes[callee].span = old /\ old.start <= old.end
       /\ Row(nodes, Shut, <<callee>> \o top.args, lo, hi)
  <2>1. Placed(nodes, Shut, length, top, lo, hi)
    BY <1>3, <1>4 DEF Stands
  <2>2. /\ nodes[top.callee].span = top.span /\ top.span.start <= top.span.end
        /\ Row(nodes, Shut, <<top.callee>> \o top.args, lo, hi)
    BY <1>18, <1>20, <2>1, PlacedForms
  <2> QED
    BY <1>6, <1>7, <2>2
<1>22. args \in Seq(Nat) /\ Row(nodes, Shut, <<callee>> \o args, lo, n)
  <2>1. CASE a = NoNode
    <3>1. args = top.args /\ hi = n
      BY <1>3, <1>5, <1>8, <1>12, <2>1 DEF Stands
    <3> QED
      BY <1>19, <1>21, <3>1
  <2>2. CASE a # NoNode
    <3>1. args = Append(top.args, a)
      BY <1>12, <2>2
    <3>2. Lies(nodes, Shut, a, hi, n)
      BY <1>3, <1>5, <1>8, <2>2 DEF Stands
    <3>3. Row(nodes, Shut, <<callee>> \o Append(top.args, a), lo, n)
      BY <1>18, <1>19, <1>20, <1>21, <3>2, ArgumentsRow
    <3>4. PICK before : before = top.args
      OBVIOUS
    <3>5. Append(before, a) \in Seq(Nat)
      BY <1>18, <1>19, <3>4, AppendProperties
    <3> QED
      BY <3>1, <3>3, <3>4, <3>5
  <2> QED
    BY <2>1, <2>2
<1>23. /\ old.start \in Nat /\ old.end \in Nat /\ lo <= old.start /\ old.end <= n
       /\ Row(nodes, Shut, <<callee>> \o args, old.start, n)
  <2>1. PICK begin : begin = nodes[callee].span
    OBVIOUS
  <2>2. begin.start <= begin.end /\ begin = old
    BY <1>21, <2>1
  <2>3. /\ Lies(nodes, Shut, callee, lo, n)
        /\ Row(nodes, Shut, <<callee>> \o args, begin.start, n)
    BY <1>19, <1>20, <1>22, <2>1, <2>2, RowFromFirst
  <2> QED
    BY <1>19, <2>1, <2>2, <2>3 DEF Lies, Spans
<1>24. here \in Spans /\ here.start = n /\ here.end = m
  BY <1>10, <1>20, SpansTyped, SpanParts
<1>25. span \in Spans /\ span.start <= old.start /\ lo <= span.start /\ span.end = m
  <2>1. old.start <= n /\ old.end <= m /\ m <= m /\ lo <= n
    BY <1>20, <1>21, <1>23
  <2>2. span \in Spans
    BY <1>11, <1>19, <1>24, SpansTyped
  <2>3. span.start <= old.start /\ lo <= span.start /\ m <= span.end /\ span.end <= m
    BY <1>11, <1>19, <1>20, <1>23, <1>24, <2>1, SpanParts
  <2>4. span.end \in Int
    BY <2>2 DEF Spans
  <2> QED
    BY <1>20, <2>2, <2>3, <2>4
<1>26. span.start \in Int /\ span.end \in Int /\ span.start <= span.end
  <2>1. span.start \in Int
    BY <1>25 DEF Spans
  <2> QED
    BY <1>20, <1>21, <1>23, <1>25, <2>1
<1>27. children \in Seq(Nat) /\ Row(nodes, Shut, children, span.start, span.end)
  <2>1. PICK left : left = old.start
    OBVIOUS
  <2>2. PICK low : low = span.start
    OBVIOUS
  <2>3. left \in Int /\ low \in Int /\ low <= left /\ Row(nodes, Shut, children, left, n)
    BY <1>13, <1>23, <1>25, <1>26, <2>1, <2>2
  <2>4. Row(nodes, Shut, children, low, m)
    BY <1>20, <2>3, RowWidens
  <2>5. children \in Seq(Nat)
    <3>1. PICK one : one = <<callee>>
      OBVIOUS
    <3>2. one \in Seq(Nat)
      BY <1>19, <3>1
    <3>3. one \o args \in Seq(Nat)
      BY <1>22, <3>2, ConcatProperties
    <3> QED
      BY <1>13, <3>1, <3>3
  <2> QED
    BY <1>25, <2>2, <2>4, <2>5
<1>28. node \in AstNodes /\ node.children = children /\ node.span = span
  <2>1. "CallExpr" \in AstKinds /\ "" \in STRING
    BY OwnTextsAreStrings DEF AstKinds, OwnTextsAreStrings
  <2>2. node \in AstNodes /\ node.children = children
    BY <1>14, <1>25, <1>27, <2>1, NodesTyped
  <2>3. node.span = span
    BY <1>14 DEF AstNode
  <2> QED
    BY <2>2, <2>3
<1>29. HoldsOne(f, id, node.span) /\ Opens(f) = Opens(Top)
  <2>1. f.rule = "call" /\ f.callee = id /\ f.args = <<>> /\ f.span = span
    BY <1>16 DEF CallFrame
  <2>2. Opens(f) = Opens(Top)
    BY <1>2, <2>1 DEF Opens
  <2>3. HoldsOne(f, id, span)
    BY <1>26, <2>1 DEF HoldsOne
  <2> QED
    BY <1>28, <2>2, <2>3
<1>30. /\ lo <= node.span.start /\ node.span.end <= m
       /\ Row(nodes, Shut, node.children, node.span.start, node.span.end)
  BY <1>20, <1>25, <1>27, <1>28
<1> QED
  BY <1>2, <1>3, <1>15, <1>17, <1>20, <1>28, <1>29, <1>30, MakesAndGoesOn

(* LeftOperand keeps the nodes nested.                                          *)
LEMMA LeftOperandNests ==
    ASSUME ParserInv, ParserInv', Nesting, LeftOperand
    PROVE  Nesting'
<1>1. Parsing("expression") /\ returned # NoNode
  BY DEF LeftOperand, Resumed
<1>2. status = "parsing" /\ Top \in Frames /\ Top.rule = "expression" /\ returned \in Nat
  BY <1>1, InFrame
<1>3. PICK lo \in Nat, hi \in Nat : Stands(lo, hi)
  BY <1>2, NestingStands
<1>4. PICK a : a = returned
  OBVIOUS
<1>5. PICK top : top = Top
  OBVIOUS
<1>6. PICK f : f = [top EXCEPT !.left = a]
  OBVIOUS
<1>7. f.rule = "expression" /\ f.left = a
  <2>1. top \in [rule : {"expression"}, min : -1..8, left : Nat,
                 op : call.tokens \cup {EndOfFile}]
    BY <1>2, <1>5, FrameForms
  <2> QED
    BY <1>6, <2>1
<1>8. Become(f) /\ UNCHANGED Arena /\ UNCHANGED Input /\ Stay
  BY <1>4, <1>5, <1>6 DEF LeftOperand
<1>9. PICK m : m = Len(read)
  OBVIOUS
<1>10. m \in Nat /\ Len(read') = m /\ lo <= hi /\ hi <= m /\ lo <= m
  <2>1. m \in Nat /\ Len(read') = m
    BY <1>8, <1>9, ReadLengths
  <2>2. hi <= m /\ lo <= hi
    BY <1>3, <1>9 DEF Stands
  <2> QED
    BY <2>1, <2>2
<1>11. Opens(f) = Opens(Top)
  BY <1>2, <1>7 DEF Opens
<1>12. Placed(nodes, Shut, length, f, lo, m)
  <2>1. a \in Nat /\ Lies(nodes, Shut, a, hi, m)
    BY <1>1, <1>2, <1>3, <1>4, <1>9 DEF Stands
  <2>2. lo \in Int /\ hi \in Int /\ m \in Int /\ m <= m
    BY <1>10
  <2>3. Row(nodes, Shut, Rest(a), hi, m)
    BY <2>1, <2>2, ShortRows
  <2>4. Row(nodes, Shut, Rest(a), lo, m)
    BY <1>10, <2>2, <2>3, RowWidens
  <2> QED
    BY <1>7, <2>2, <2>4, PlacedForms
<1> QED
  BY <1>2, <1>3, <1>8, <1>10, <1>11, <1>12, OnBecome

(* RightOperand keeps the nodes nested.                                         *)
LEMMA RightOperandNests ==
    ASSUME ParserInv, ParserInv', Nesting, RightOperand
    PROVE  Nesting'
<1>1. Parsing("expression") /\ returned # NoNode /\ Top.left # NoNode
  BY DEF RightOperand, Resumed
<1>2. /\ status = "parsing" /\ Top \in Frames /\ Top.rule = "expression"
      /\ ReadingOK /\ ArenaOK /\ StackOK /\ returned \in Nat
  BY <1>1, InFrame
<1>3. PICK lo \in Nat, hi \in Nat : Stands(lo, hi)
  BY <1>2, NestingStands
<1>4. PICK top : top = Top
  OBVIOUS
<1>5. PICK a : a = top.left
  OBVIOUS
<1>6. PICK b : b = returned
  OBVIOUS
<1>7. PICK x : x = nodes[a].span
  OBVIOUS
<1>8. PICK y : y = nodes[b].span
  OBVIOUS
<1>9. PICK span : span = merge_span(x, y)
  OBVIOUS
<1>10. PICK text : text = top.op.lexeme
  OBVIOUS
<1>11. PICK node :
          node = AstNode(IF is_assignment_operator(top.op) THEN "AssignmentExpr"
                         ELSE "BinaryExpr", span, text, <<a, b>>)
  OBVIOUS
<1>12. PICK id : id = NextId
  OBVIOUS
<1>13. PICK f : f = [top EXCEPT !.left = id]
  OBVIOUS
<1>14. create_node(node) /\ Become(f) /\ UNCHANGED Input /\ Stay
  BY <1>4, <1>5, <1>6, <1>7, <1>8, <1>9, <1>10, <1>11, <1>12, <1>13 DEF RightOperand
<1>15. top \in Frames /\ top.rule = "expression"
  BY <1>2, <1>4
<1>16. a \in Nat /\ a # NoNode /\ b \in Nat /\ text \in STRING
  <2>1. top.left \in Nat /\ top.op \in call.tokens \cup {EndOfFile}
    BY <1>15, FrameForms
  <2> QED
    BY <1>1, <1>2, <1>4, <1>5, <1>6, <1>10, <2>1, TokensTyped
<1>17. PICK m : m = Len(read)
  OBVIOUS
<1>18. /\ m \in Nat /\ Len(read') = m /\ hi <= m /\ lo <= hi /\ lo <= m
       /\ lo \in Int /\ hi \in Int /\ m \in Int
  <2>1. m \in Nat /\ Len(read') = m
    BY <1>14, <1>17, ReadLengths
  <2>2. hi <= m /\ lo <= hi
    BY <1>3, <1>17 DEF Stands
  <2> QED
    BY <2>1, <2>2
<1>19. Lies(nodes, Shut, a, lo, hi) /\ Lies(nodes, Shut, b, hi, m)
  <2>1. Placed(nodes, Shut, length, top, lo, hi)
    BY <1>3, <1>4 DEF Stands
  <2>2. Row(nodes, Shut, Rest(top.left), lo, hi)
    BY <1>15, <1>18, <2>1, PlacedForms
  <2>3. Lies(nodes, Shut, a, lo, hi)
    BY <1>5, <1>16, <1>18, <2>2, ShortRows
  <2>4. Lies(nodes, Shut, b, hi, m)
    BY <1>1, <1>3, <1>6, <1>17 DEF Stands
  <2> QED
    BY <2>3, <2>4
<1>20. /\ Lies(nodes, Shut, a, lo, m) /\ Lies(nodes, Shut, b, lo, m)
       /\ nodes[a].span.end <= nodes[b].span.start
  BY <1>18, <1>19, OneAfterOther
<1>21. /\ x \in Spans /\ y \in Spans
       /\ lo <= x.start /\ lo <= y.start /\ x.end <= m /\ y.end <= m
  BY <1>7, <1>8, <1>20 DEF Lies
<1>22. /\ span \in Spans /\ lo <= span.start /\ span.end <= m
       /\ span.start <= x.start /\ span.start <= y.start
       /\ x.end <= span.end /\ y.end <= span.end
  BY <1>9, <1>18, <1>21, SpansTyped, SpanParts
<1>23. Row(nodes, Shut, <<a, b>>, span.start, span.end)
  <2>1. /\ Lies(nodes, Shut, a, span.start, span.end)
        /\ Lies(nodes, Shut, b, span.start, span.end)
    BY <1>7, <1>8, <1>20, <1>22 DEF Lies
  <2> QED
    BY <1>20, <2>1, RowOfTwo
<1>24. node \in AstNodes /\ node.children = <<a, b>> /\ node.span = span
  <2>1. "AssignmentExpr" \in AstKinds /\ "BinaryExpr" \in AstKinds
    BY DEF AstKinds
  <2>2. <<a, b>> \in Seq(Nat)
    BY <1>16
  <2>3. node \in AstNodes /\ node.children = <<a, b>>
    BY <1>11, <1>16, <1>22, <2>1, <2>2, NodesTyped
  <2>4. node.span = span
    BY <1>11 DEF AstNode
  <2> QED
    BY <2>3, <2>4
<1>25. HoldsOne(f, id, node.span) /\ Opens(f) = Opens(Top)
  <2>1. top \in [rule : {"expression"}, min : -1..8, left : Nat,
                 op : call.tokens \cup {EndOfFile}]
    BY <1>15, FrameForms
  <2>2. f.rule = "expression" /\ f.left = id
    BY <1>13, <2>1
  <2> QED
    BY <1>2, <2>2 DEF HoldsOne, Opens
<1>26. /\ lo <= node.span.start /\ node.span.end <= m
       /\ Row(nodes, Shut, node.children, node.span.start, node.span.end)
  BY <1>22, <1>23, <1>24
<1> QED
  BY <1>2, <1>3, <1>12, <1>14, <1>18, <1>24, <1>25, <1>26, MakesAndGoesOn

(* Operator keeps the nodes nested.                                             *)
LEMMA OperatorNests ==
    ASSUME ParserInv, ParserInv', Nesting, Operator
    PROVE  Nesting'
<1>1. Parsing("expression") /\ returned = NoNode
  BY DEF Operator, Entered
<1>2. status = "parsing" /\ Top \in Frames /\ Top.rule = "expression"
  BY <1>1, InFrame
<1>3. PICK lo \in Nat, hi \in Nat : Stands(lo, hi)
  BY <1>2, NestingStands
<1>4. PICK top : top = Top
  OBVIOUS
<1>5. PICK f : f = [top EXCEPT !.op = token]
  OBVIOUS
<1>6. PICK min : min = NextPrecedence(token)
  OBVIOUS
<1>7. PICK g : g = ExpressionFrame(min)
  OBVIOUS
<1>8. SameHeld(top, f)
  <2>1. top \in [rule : {"expression"}, min : -1..8, left : Nat,
                 op : call.tokens \cup {EndOfFile}]
    BY <1>2, <1>4, FrameForms
  <2>2. f.rule = "expression" /\ f.left = top.left
    BY <1>5, <2>1
  <2> QED
    BY <2>1, <2>2 DEF SameHeld
<1>9. BecomeAndCall(f, g) /\ advance /\ UNCHANGED Arena /\ UNCHANGED Input
  BY <1>4, <1>5, <1>6, <1>7 DEF Operator
<1>10. PICK m : m = Len(read')
  OBVIOUS
<1>11. m \in Nat /\ hi <= m /\ lo <= m
  BY <1>3, <1>9, <1>10, ReadLengths DEF Stands
<1>12. Opens(f) = Opens(Top) /\ Bare(g)
  BY <1>4, <1>7, <1>8, SameHeldPlaced DEF Bare
<1>13. Placed(nodes, Shut, length, f, lo, m)
  <2>1. Placed(nodes, Shut, length, top, lo, hi) /\ top \in Frames
    BY <1>2, <1>3, <1>4 DEF Stands
  <2>2. Placed(nodes, Shut, length, top, lo, m)
    BY <1>11, <2>1, PlacedWidens
  <2>3. lo \in Int /\ m \in Int
    BY <1>11
  <2> QED
    BY <1>8, <2>2, <2>3, SameHeldPlaced
<1> QED
  BY <1>2, <1>3, <1>9, <1>10, <1>11, <1>12, <1>13, OnCall

(* EndExpression keeps the nodes nested.                                        *)
LEMMA EndExpressionNests ==
    ASSUME ParserInv, ParserInv', Nesting, EndExpression
    PROVE  Nesting'
<1>1. Parsing("expression") /\ returned = NoNode /\ Top.left # NoNode
  BY DEF EndExpression, Entered
<1>2. status = "parsing" /\ Top \in Frames /\ Top.rule = "expression"
  BY <1>1, InFrame
<1>3. PICK lo \in Nat, hi \in Nat : Stands(lo, hi)
  BY <1>2, NestingStands
<1>4. PICK top : top = Top
  OBVIOUS
<1>5. PICK id : id = top.left
  OBVIOUS
<1>6. top \in Frames /\ top.rule = "expression"
  BY <1>2, <1>4
<1>7. id \in Nat /\ id # NoNode
  BY <1>1, <1>4, <1>5, <1>6, FrameForms
<1>8. Return(id) /\ Stay /\ UNCHANGED Arena /\ UNCHANGED Input
  BY <1>4, <1>5 DEF EndExpression
<1>9. PICK m : m = Len(read')
  OBVIOUS
<1>10. m \in Nat /\ m = hi /\ lo <= m
  BY <1>1, <1>3, <1>8, <1>9, ReadLengths DEF Stands
<1>11. Lies(nodes, Shut, id, lo, m)
  <2>1. lo \in Int /\ m \in Int
    BY <1>10
  <2>2. Placed(nodes, Shut, length, top, lo, m)
    BY <1>3, <1>4, <1>10 DEF Stands
  <2>3. Row(nodes, Shut, Rest(top.left), lo, m)
    BY <1>6, <2>1, <2>2, PlacedForms
  <2> QED
    BY <1>5, <1>7, <2>1, <2>3, ShortRows
<1>12. Opens(Top) = {}
  BY <1>2 DEF Opens
<1> QED
  BY <1>2, <1>3, <1>7, <1>8, <1>9, <1>10, <1>11, <1>12, OnReturn

(* Every step that is not an exception keeps the nodes nested.                  *)
LEMMA StepsNest ==
    ASSUME ParserInv, ParserInv', Nesting, parse_statement \/ parse_expression, ~dangled'
    PROVE  Nesting'
<1>1. CASE parse_statement
  BY <1>1, CollectStatementNests, MoreStatementsNests, EndModuleNests, BeginBlockNests,
     EndBlockNests, BeginLetNests, LetMutNests, LetNameNests, LetEqualsNests, EndLetNests,
     BeginReturnNests, ReturnValueNests, EndReturnNests, BeginExpressionStatementNests,
     EndExpressionStatementNests
     DEF parse_statement
<1>2. CASE parse_expression
  BY <1>2, ParseUnaryNests, EndUnaryNests, ParsePrimaryNests, BeginGroupNests, EndGroupNests,
     OpenArgumentsNests, NoMoreCallsNests, FirstArgumentNests, NextArgumentNests,
     CloseArgumentsNests, LeftOperandNests, RightOperandNests, OperatorNests, EndExpressionNests
     DEF parse_expression
<1> QED
  BY <1>1, <1>2

\* Where the nodes stand, in every state the property speaks of.
NestingInv == status # "failed" /\ ~dangled => Nesting

(* Every step does, as long as nothing failed.                                  *)
LEMMA NextNests ==
    ASSUME ParserInv, ParserInv', NestingInv, [Next]_vars
    PROVE  NestingInv'
<1>1. CASE parse_statement \/ parse_expression
  <2> SUFFICES ASSUME ~dangled' PROVE Nesting'
    BY DEF NestingInv
  <2>1. status = "parsing" /\ ~dangled
    BY <1>1, StepsParse
  <2>2. Nesting
    BY <2>1 DEF NestingInv
  <2> QED
    BY <1>1, <2>2, StepsNest
<1>2. CASE Throw
  BY <1>2 DEF Throw, NestingInv
<1>3. CASE UNCHANGED vars
  <2>1. /\ status' = status /\ dangled' = dangled /\ nodes' = nodes /\ stack' = stack
        /\ returned' = returned /\ length' = length /\ read' = read /\ New' = New
    BY <1>3 DEF vars, base, New
  <2>2. Shut' = Shut
    BY <2>1 DEF Shut
  <2>3. Nesting => Nesting'
    BY <2>1, <2>2 DEF Nesting
  <2> QED
    BY <2>1, <2>3 DEF NestingInv
<1> QED
  BY <1>1, <1>2, <1>3 DEF Next

(* The module's node as a parse begins.                                         *)
LEMMA FirstModule ==
    ASSUME Init, call.entry = "module"
    PROVE  nodes[base + 1].span = Span(0, length)
<1>1. PICK leaf : leaf = Leaf("Unknown", Span(0, 0), "")
  OBVIOUS
<1>2. PICK module : module = Leaf("Module", Span(0, length), "")
  OBVIOUS
<1>3. PICK k : k = base
  OBVIOUS
<1>4. k \in Nat
  BY <1>3, CallsAreTyped DEF CallsAreTyped, Init, base
<1>5. PICK given : given = [i \in 1..k |-> leaf]
  OBVIOUS
<1>6. nodes = given \o <<module>>
  BY <1>1, <1>2, <1>3, <1>5 DEF Init
<1>7. PICK S : S = {leaf, module}
  OBVIOUS
<1>8. given \in Seq(S) /\ Len(given) = k
  BY <1>4, <1>5, <1>7
<1>9. PICK own : own = <<module>>
  OBVIOUS
<1>10. own \in Seq(S) /\ Len(own) = 1 /\ own[1] = module
  BY <1>7, <1>9
<1>11. PICK all : all = given \o own
  OBVIOUS
<1>12. all[k + 1] = module
  <2>1. \A i \in 1..(k + 1) : all[i] = IF i <= k THEN given[i] ELSE own[i - k]
    <3>1. \A i \in 1..(Len(given) + Len(own)) :
             all[i] = IF i <= Len(given) THEN given[i] ELSE own[i - Len(given)]
      BY <1>8, <1>10, <1>11, ConcatProperties
    <3> QED
      BY <1>8, <1>10, <3>1
  <2>2. k + 1 \in 1..(k + 1) /\ ~(k + 1 <= k) /\ (k + 1) - k = 1
    BY <1>4
  <2>3. all[k + 1] = own[(k + 1) - k]
    BY <2>1, <2>2
  <2> QED
    BY <1>10, <2>2, <2>3
<1>13. module.span = Span(0, length)
  BY <1>2 DEF Leaf, AstNode
<1> QED
  BY <1>3, <1>6, <1>9, <1>11, <1>12, <1>13

(* A parse begins with no node but the module's, which is open.                 *)
LEMMA InitNests ==
    ASSUME Init
    PROVE  Nesting
<1>1. ParserInv
  BY InitTyped
<1>2. ReadingOK /\ ArenaOK
  BY <1>1 DEF ParserInv
<1>3. /\ base \in Nat /\ Len(nodes) = IF call.entry = "module" THEN base + 1 ELSE base
      /\ \A id \in New : nodes[id].children = <<>>
  BY <1>2, FirstNodes
<1>4. PICK f : f = IF call.entry = "module" THEN ModuleFrame(base + 1) ELSE ExpressionFrame(1)
  OBVIOUS
<1>5. PICK none : none = <<>>
  OBVIOUS
<1>6. none \in Seq(Frames) /\ stack = Append(none, f)
  <2>1. none \in Seq(Frames)
    BY <1>5
  <2>2. stack = <<f>>
    BY <1>4 DEF Init
  <2>3. <<f>> = Append(<<>>, f)
    OBVIOUS
  <2> QED
    BY <1>5, <2>1, <2>2, <2>3
<1>7. f \in Frames /\ Opens(f) = New
  <2>1. CASE call.entry = "module"
    <3>1. PICK id : id = base + 1
      OBVIOUS
    <3>2. id \in Nat
      BY <1>3, <3>1
    <3>3. f = ModuleFrame(id) /\ New = {id}
      BY <1>3, <1>4, <2>1, <3>1 DEF New
    <3>4. f \in Frames
      BY <3>2, <3>3, NewFrames
    <3>5. f.rule = "module" /\ f.node = id
      BY <3>3 DEF ModuleFrame
    <3> QED
      BY <3>3, <3>4, <3>5 DEF Opens
  <2>2. CASE call.entry # "module"
    <3>1. f = ExpressionFrame(1) /\ New = {}
      BY <1>3, <1>4, <2>2 DEF New
    <3>2. f.rule = "expression"
      BY <3>1 DEF ExpressionFrame
    <3> QED
      BY <3>1, <3>2, WholeExpression DEF Opens
  <2> QED
    BY <2>1, <2>2
<1>8. OpenIds(stack) = New /\ Apart(stack)
  <2>1. DOMAIN none = {}
    BY <1>5
  <2>2. OpenIds(none) = {} /\ Apart(none)
    BY <2>1 DEF OpenIds, Apart
  <2>3. /\ OpenIds(Append(none, f)) = OpenIds(none) \cup Opens(f)
        /\ Apart(Append(none, f)) <=> Apart(none) /\ Opens(f) \cap OpenIds(none) = {}
    BY <1>6, OpenOfMore
  <2> QED
    BY <1>6, <1>7, <2>2, <2>3
<1>9. Shut = {}
  BY <1>8 DEF Shut
<1>10. PICK zero : zero = 0
  OBVIOUS
<1>11. Placed(nodes, {}, length, f, zero, zero)
  <2>1. CASE call.entry = "module"
    <3>1. PICK id : id = base + 1
      OBVIOUS
    <3>2. f.rule = "module" /\ f.node = id
      BY <1>4, <2>1, <3>1 DEF ModuleFrame
    <3>3. nodes[id].span = Span(0, length)
      BY <2>1, <3>1, FirstModule
    <3>4. id \in New
      BY <1>3, <2>1, <3>1 DEF New
    <3>5. nodes[id].children = <<>>
      BY <1>3, <3>4
    <3>6. Row(nodes, {}, <<>>, 0, 0)
      BY ShortRows
    <3>7. zero \in Int /\ zero = 0 /\ Row(nodes, {}, nodes[f.node].children, zero, zero)
          /\ nodes[f.node].span = Span(0, length)
      BY <1>10, <3>2, <3>3, <3>5, <3>6
    <3> QED
      BY <3>2, <3>7, PlacedForms
  <2>2. CASE call.entry # "module"
    <3>1. f = ExpressionFrame(1)
      BY <1>4, <2>2
    <3>2. zero \in Int
      BY <1>10
    <3>3. Placed(nodes, {}, length, ExpressionFrame(1), zero, zero)
      BY <3>2, BarePlaced
    <3> QED
      BY <3>1, <3>3
  <2> QED
    BY <2>1, <2>2
<1>12. Reach(nodes, {}, length, stack, zero)
  <2>1. zero \in Nat /\ zero <= zero
    BY <1>10
  <2>2. Reach(nodes, {}, length, none, zero)
    BY <1>5, <2>1, ReachNone
  <2>3. Reach(nodes, {}, length, Append(none, f), zero)
    BY <1>6, <1>7, <1>11, <2>1, <2>2, ReachMore
  <2> QED
    BY <1>6, <2>3
<1>13. Len(read) = 0 /\ Rest(returned) = <<>>
  BY DEF Init, Rest
<1>14. Row(nodes, {}, <<>>, 0, 0)
  BY ShortRows
<1>15. \E hi \in 0..Len(read) :
          Reach(nodes, Shut, length, stack, hi) /\ Row(nodes, Shut, Rest(returned), hi, Len(read))
  <2>1. 0 \in 0..Len(read)
    BY <1>13
  <2> QED
    BY <1>9, <1>10, <1>12, <1>13, <1>14, <2>1
<1> QED
  BY <1>8, <1>9, <1>15 DEF Nesting

(* Natural numbers, if any, have a least one.                                   *)
LEMMA LeastOf ==
    ASSUME NEW S, S \subseteq Nat, S # {}
    PROVE  \E least \in S : \A other \in S : least <= other
<1> DEFINE R == OpToRel(<, Nat)
<1>1. IsWellFoundedOn(R, Nat)
  BY NatLessThanWellFounded
<1>2. PICK x \in S : \A y \in S : <<y, x>> \notin R
  <2> HIDE DEF R
  <2> QED
    BY <1>1, WFMin
<1>3. \A y \in S : ~(y < x)
  BY <1>2 DEF OpToRel
<1> QED
  BY <1>3

(* Each call has read no more than all of them: the last to have read more would *)
(* have one after it that has not.                                              *)
LEMMA ReachBounds ==
    ASSUME NEW all, NEW ids, NEW n, NEW calls \in Seq(Frames), NEW m \in Nat,
           Reach(all, ids, n, calls, m), NEW i \in DOMAIN calls
    PROVE  \E lo, hi \in Nat : hi <= m /\ Placed(all, ids, n, calls[i], lo, hi)
<1>1. PICK k : k = Len(calls)
  OBVIOUS
<1>2. k \in Nat /\ DOMAIN calls = 1..k /\ i \in 1..k
  BY <1>1, LenProperties
<1>3. PICK from \in Seq(Nat) :
         /\ Len(from) = k + 1 /\ from[k + 1] <= m
         /\ \A j \in 1..k :
               from[j] <= from[j + 1] /\ Placed(all, ids, n, calls[j], from[j], from[j + 1])
  BY <1>1, <1>2 DEF Reach
<1>4. \A j \in 1..(k + 1) : from[j] \in Nat
  BY <1>2, <1>3, ElementOfSeq
<1>5. PICK late : late = {d \in 0..k : from[k + 1 - d] > m}
  OBVIOUS
<1>6. late = {}
  <2> SUFFICES ASSUME late # {} PROVE FALSE
    OBVIOUS
  <2>1. late \subseteq Nat
    BY <1>2, <1>5
  <2>2. PICK d \in late : \A other \in late : d <= other
    BY <2>1, LeastOf
  <2>3. PICK j : j = k + 1 - d
    OBVIOUS
  <2>4. d \in 0..k /\ d \in Nat /\ j \in 1..(k + 1) /\ from[j] > m
    BY <1>2, <1>5, <2>2, <2>3
  <2>5. d # 0
    BY <1>2, <1>3, <1>4, <2>3, <2>4
  <2>6. PICK c : c = d - 1
    OBVIOUS
  <2>7. c \in 0..k /\ c < d /\ k + 1 - c = j + 1 /\ j \in 1..k /\ j + 1 \in 1..(k + 1)
    BY <1>2, <2>3, <2>4, <2>5, <2>6
  <2>8. c \notin late
    BY <2>2, <2>4, <2>7
  <2>9. ~(from[j + 1] > m)
    BY <1>5, <2>7, <2>8
  <2>10. from[j] \in Nat /\ from[j + 1] \in Nat /\ from[j] <= from[j + 1]
    BY <1>3, <1>4, <2>4, <2>7
  <2> QED
    BY <2>4, <2>9, <2>10
<1>7. from[i + 1] <= m
  <2>1. PICK d : d = k - i
    OBVIOUS
  <2>2. d \in 0..k /\ k + 1 - d = i + 1 /\ i + 1 \in 1..(k + 1)
    BY <1>2, <2>1
  <2>3. ~(from[k + 1 - d] > m)
    BY <1>5, <1>6, <2>2
  <2>4. from[i + 1] \in Nat
    BY <1>4, <2>2
  <2> QED
    BY <2>2, <2>3, <2>4
<1>8. from[i] \in Nat /\ from[i + 1] \in Nat /\ Placed(all, ids, n, calls[i], from[i], from[i + 1])
  <2>1. i \in 1..(k + 1) /\ i + 1 \in 1..(k + 1)
    BY <1>2
  <2> QED
    BY <1>2, <1>3, <1>4, <2>1
<1> QED
  BY <1>7, <1>8

(* The nodes that are nested have the spans they should.                        *)
LEMMA NestingSpans ==
    ASSUME ParserInv, Nesting, NEW id \in New
    PROVE  LET span(i) == nodes[nodes[id].children[i]].span
               places == DOMAIN nodes[id].children
           IN  /\ \A i, j \in places : i < j => span(i).end <= span(j).start
               /\ ~IsOpen(id) => \A i \in places :
                      nodes[id].span.start <= span(i).start /\ span(i).end <= nodes[id].span.end
<1>1. PICK seq : seq = nodes[id].children
  OBVIOUS
<1>2. PICK own : own = nodes[id].span
  OBVIOUS
<1>3. SUFFICES
        \E left, right :
           /\ Row(nodes, Shut, seq, left, right)
           /\ ~IsOpen(id) => left = own.start /\ right = own.end
  <2>1. PICK left, right :
           /\ Row(nodes, Shut, seq, left, right)
           /\ ~IsOpen(id) => left = own.start /\ right = own.end
    BY <1>3
  <2>2. \A i, j \in DOMAIN seq : i < j => nodes[seq[i]].span.end <= nodes[seq[j]].span.start
    BY <2>1 DEF Row
  <2>3. \A i \in DOMAIN seq :
           left <= nodes[seq[i]].span.start /\ nodes[seq[i]].span.end <= right
    BY <2>1 DEF Row, Lies
  <2> QED
    BY <1>1, <1>2, <2>1, <2>2, <2>3
<1>4. CASE id \in Shut
  <2>1. Row(nodes, Shut, seq, own.start, own.end)
    BY <1>1, <1>2, <1>4 DEF Nesting, Nested
  <2> QED
    BY <2>1
<1>5. CASE id \notin Shut
  <2>1. PICK i \in DOMAIN stack : id \in Opens(stack[i])
    BY <1>5 DEF Shut, OpenIds
  <2>2. PICK f : f = stack[i]
    OBVIOUS
  <2>3. f \in Frames /\ f.rule \in {"module", "block"} /\ f.node = id
    <3>1. PICK calls : calls = stack
      OBVIOUS
    <3>2. calls \in Seq(Frames)
      BY <3>1 DEF ParserInv, StackOK
    <3>3. i \in 1..Len(calls)
      BY <2>1, <3>1, <3>2, LenProperties
    <3>4. f \in Frames
      BY <2>2, <3>1, <3>2, <3>3, ElementOfSeq
    <3> QED
      BY <2>1, <2>2, <3>4 DEF Opens
  <2>4. PICK m : m = Len(read)
    OBVIOUS
  <2>5. ReadingOK /\ m \in Nat /\ length \in Nat /\ m <= length
    BY <2>4, TokensTyped DEF ParserInv, ReadingOK
  <2>6. PICK lo \in Nat, hi \in Nat : hi <= m /\ Placed(nodes, Shut, length, f, lo, hi)
    <3>1. PICK calls : calls = stack
      OBVIOUS
    <3>2. calls \in Seq(Frames) /\ i \in DOMAIN calls
      BY <2>1, <3>1 DEF ParserInv, StackOK
    <3>3. Reach(nodes, Shut, length, calls, m)
      BY <2>4, <3>1, StackReach
    <3>4. \E lo, hi \in Nat : hi <= m /\ Placed(nodes, Shut, length, calls[i], lo, hi)
      BY <2>5, <3>2, <3>3, ReachBounds
    <3> QED
      BY <2>2, <3>1, <3>4
  <2>7. CASE f.rule = "block"
    <3>1. IsOpen(id)
      BY <2>1, <2>2, <2>3, <2>7 DEF IsOpen
    <3>2. Row(nodes, Shut, seq, Begins(f, lo), hi)
      BY <1>1, <2>3, <2>6, <2>7 DEF Placed, Parts
    <3> QED
      BY <3>1, <3>2
  <2>8. CASE f.rule = "module"
    <3>1. lo \in Int /\ hi \in Int
      OBVIOUS
    <3>2. /\ lo = 0 /\ nodes[f.node].span = Span(0, length)
          /\ Row(nodes, Shut, nodes[f.node].children, lo, hi)
      BY <2>6, <2>8, <3>1, PlacedForms
    <3>3. own.start = 0 /\ own.end = length /\ Row(nodes, Shut, seq, lo, hi)
      BY <1>1, <1>2, <2>3, <3>2, SpanParts
    <3>4. /\ own.start \in Int /\ own.end \in Int /\ own.start <= lo /\ hi <= own.end
      BY <2>5, <2>6, <3>2, <3>3
    <3>5. Row(nodes, Shut, seq, own.start, own.end)
      BY <3>1, <3>3, <3>4, RowWidens
    <3> QED
      BY <3>5
  <2> QED
    BY <2>3, <2>7, <2>8
<1> QED
  BY <1>4, <1>5

(* The nodes of every parse are nested throughout it.                           *)
LEMMA NestingInvariant == Spec => []NestingInv
<1>1. Init => NestingInv
  BY InitNests DEF NestingInv
<1>2. ParserInv /\ ParserInv' /\ NestingInv /\ [Next]_vars => NestingInv'
  BY NextNests
<1> HIDE DEF ParserInv, NestingInv, Init, Next, vars
<1> QED
  BY <1>1, <1>2, ParserInvariant, PTL DEF Spec

(* parse_*, create_node and merge_span: through every parse of every stream, as  *)
(* long as it has not given up and no memory was read after being given back,   *)
(* the children of each node stand in the source in their order, none reaching  *)
(* into the next, and within the node, a block whose brace has not come excepted. *)
THEOREM ParserNestsSpans == Spec => []SpansNest
<1>1. ParserInv /\ NestingInv => SpansNest
  BY NestingSpans DEF NestingInv, SpansNest
<1> HIDE DEF ParserInv, NestingInv, SpansNest
<1> QED
  BY <1>1, ParserInvariant, NestingInvariant, PTL
================================================================================
