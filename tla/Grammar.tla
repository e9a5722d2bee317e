-------------------------------- MODULE Grammar --------------------------------
(* What the parser promises: docs/grammar.ebnf as the set of trees it derives   *)
(* from a sequence of tokens, and the trees the parser built compared with it.  *)
EXTENDS Parser

Tree(kind, value, children) == [kind |-> kind, value |-> value, children |-> children]

-------------------------------------------------------------------------------
(* The grammar, production by production.                                       *)

Before(s, k) == SubSeq(s, 1, k - 1)
After(s, k)  == SubSeq(s, k + 1, Len(s))
Inside(s)    == SubSeq(s, 2, Len(s) - 1)
StartsWith(s, t) == s # <<>> /\ s[1] = t
EndsWith(s, t)   == s # <<>> /\ s[Len(s)] = t
Symbol(lexeme)  == Token("Symbol", lexeme)
Keyword(lexeme) == Token("Keyword", lexeme)

\* The operators of LogicOr to Factor, loosest first.
BinaryOps == << {"||"}, {"&&"}, {"==", "!="}, {"<", ">", "<=", ">="},
                {"+", "-"}, {"*", "/", "%"} >>
AssignmentOps == {"=", "+=", "-=", "*=", "/="}
LiteralNames == {"true", "false", "nil"}

\* The places in s of a symbol among ops.
Places(s, ops) == {k \in DOMAIN s : s[k].kind = "Symbol" /\ s[k].lexeme \in ops}

RECURSIVE Expression(_), Binary(_, _), Unary(_), Call(_), Arguments(_)

Pairs(kind, op, lefts, rights) ==
    {Tree(kind, op, <<l, r>>) : l \in lefts, r \in rights}

Expression(s) ==
    Binary(1, s) \cup
    UNION {Pairs("AssignmentExpr", s[k].lexeme, Binary(1, Before(s, k)), Expression(After(s, k))) :
              k \in Places(s, AssignmentOps)}

Binary(level, s) ==
    IF level > Len(BinaryOps) THEN Unary(s)
    ELSE Binary(level + 1, s) \cup
         UNION {Pairs("BinaryExpr", s[k].lexeme, Binary(level, Before(s, k)),
                      Binary(level + 1, After(s, k))) :
                   k \in Places(s, BinaryOps[level])}

Unary(s) ==
    Call(s) \cup
    IF s # <<>> /\ is_unary_prefix(s[1])
    THEN {Tree("UnaryExpr", s[1].lexeme, <<t>>) : t \in Unary(Tail(s))}
    ELSE {}

Primary(s) ==
    IF Len(s) = 1
    THEN CASE s[1].kind = "Identifier" /\ s[1].lexeme \notin LiteralNames ->
                {Tree("IdentifierExpr", s[1].lexeme, <<>>)}
           [] s[1].kind \in {"Number", "StringLiteral"} \/ s[1].lexeme \in LiteralNames ->
                {Tree("LiteralExpr", s[1].lexeme, <<>>)}
           [] OTHER -> {}
    ELSE IF StartsWith(s, Symbol("(")) /\ EndsWith(s, Symbol(")"))
    THEN {Tree("GroupExpr", "", <<t>>) : t \in Expression(Inside(s))}
    ELSE {}

Call(s) ==
    Primary(s) \cup
    IF EndsWith(s, Symbol(")"))
    THEN UNION {{Tree("CallExpr", "", <<c>> \o args) :
                    c \in Call(Before(s, k)), args \in Arguments(Inside(After(s, k - 1)))} :
                k \in Places(s, {"("}) \ {1}}
    ELSE {}

\* None, or one before each comma and one after the last.
Arguments(s) ==
    (IF s = <<>> THEN {<<>>} ELSE {}) \cup
    {<<t>> : t \in Expression(s)} \cup
    UNION {{<<t>> \o rest : t \in Expression(Before(s, k)), rest \in Arguments(After(s, k)) \ {<<>>}} :
              k \in Places(s, {","})}

RECURSIVE Statement(_), Statements(_)

LetStatement(s) ==
    LET value == IF Len(s) > 1 /\ s[2] = Keyword("mut") THEN "mut" ELSE "let"
        name  == IF value = "mut" THEN 3 ELSE 2
    IN  IF /\ StartsWith(s, Keyword("let")) /\ EndsWith(s, Symbol(";"))
           /\ Len(s) > name + 1 /\ s[name].kind = "Identifier" /\ s[name + 1] = Symbol("=")
        THEN {Tree("LetStmt", value, <<Tree("IdentifierExpr", s[name].lexeme, <<>>), t>>) :
                 t \in Expression(SubSeq(s, name + 2, Len(s) - 1))}
        ELSE {}

ReturnStatement(s) ==
    IF StartsWith(s, Keyword("return")) /\ EndsWith(s, Symbol(";"))
    THEN IF Len(s) = 2 THEN {Tree("ReturnStmt", "", <<>>)}
         ELSE {Tree("ReturnStmt", "", <<t>>) : t \in Expression(Inside(s))}
    ELSE {}

Statement(s) ==
    LetStatement(s) \cup ReturnStatement(s) \cup
    (IF EndsWith(s, Symbol(";"))
     THEN {Tree("ExpressionStmt", "", <<t>>) : t \in Expression(SubSeq(s, 1, Len(s) - 1))}
     ELSE {}) \cup
    (IF StartsWith(s, Symbol("{")) /\ EndsWith(s, Symbol("}"))
     THEN {Tree("BlockStmt", "", children) : children \in Statements(Inside(s))}
     ELSE {})

Statements(s) ==
    IF s = <<>> THEN {<<>>}
    ELSE UNION {{<<t>> \o rest : t \in Statement(SubSeq(s, 1, k)), rest \in Statements(After(s, k))} :
                   k \in Places(s, {";", "}"})}

ModuleTrees(s) == {Tree("Module", "", children) : children \in Statements(s)}
-------------------------------------------------------------------------------
(* The trees the parser builds.                                                 *)

RECURSIVE TreeAt(_)
TreeAt(id) ==
    Tree(nodes[id].kind, nodes[id].value,
         [i \in DOMAIN nodes[id].children |-> TreeAt(nodes[id].children[i])])

Derived(s) == IF call.entry = "module" THEN ModuleTrees(s) ELSE Expression(s)

\* The streams that begin as this one does.
Streams ==
    IF at_end THEN {read}
    ELSE {Append(read, token) \o rest : rest \in [1..(length - Len(read) - 1) -> call.tokens]}

\* What the parser is known to read as the grammar does not: prefix operators, and
\* keywords that stand for literals.
RECURSIVE IsClean(_)
IsClean(tree) ==
    /\ tree.kind # "UnaryExpr"
    /\ tree.kind = "LiteralExpr" => Keyword(tree.value) \notin call.tokens
    /\ \A i \in DOMAIN tree.children : IsClean(tree.children[i])

\* But for these, the tree built for the tokens read is one the grammar derives
\* from them, and where the parser throws no stream that begins as this one does
\* is in the grammar's language.
ParsesTheGrammar ==
    /\ status = "parsed" /\ ~dangled /\ IsClean(TreeAt(returned)) => TreeAt(returned) \in Derived(read)
    /\ status = "failed" => \A s \in Streams : \A tree \in Derived(s) : ~IsClean(tree)

\* "Unary ::= ( "!" | "-" | "+" | "await" ) Unary | Call" and the rest of grammar.ebnf.
ParsesTheWholeGrammar == status = "parsed" /\ ~dangled => TreeAt(returned) \in Derived(read)

Joined(parts, separator) ==
    FoldLeft(LAMBDA before, part : IF before = <<>> THEN part ELSE before \o separator \o part,
             <<>>, parts)

RECURSIVE Spelled(_)
Spelled(tree) ==
    LET parts == [i \in DOMAIN tree.children |-> Spelled(tree.children[i])]
        all == FlattenSeq(parts)
    IN  CASE tree.kind \in {"IdentifierExpr", "LiteralExpr"} -> <<tree.value>>
          [] tree.kind \in {"BinaryExpr", "AssignmentExpr"} ->
                parts[1] \o <<tree.value>> \o parts[2]
          [] tree.kind = "UnaryExpr" -> <<tree.value>> \o all
          [] tree.kind = "GroupExpr" -> <<"(">> \o all \o <<")">>
          [] tree.kind = "CallExpr" ->
                parts[1] \o <<"(">> \o Joined(Tail(parts), <<",">>) \o <<")">>
          [] tree.kind = "BlockStmt" -> <<"{">> \o all \o <<"}">>
          [] tree.kind = "LetStmt" ->
                (IF tree.value = "mut" THEN <<"let", "mut">> ELSE <<"let">>)
                \o parts[1] \o <<"=">> \o parts[2] \o <<";">>
          [] tree.kind = "ReturnStmt" -> <<"return">> \o all \o <<";">>
          [] tree.kind = "ExpressionStmt" -> all \o <<";">>
          [] tree.kind = "Module" -> all

\* Written out, the tree is the tokens it was built from, none lost, repeated or
\* out of order, also where the parser groups them as the grammar does not.
TreeSpellsTokens ==
    status = "parsed" /\ ~dangled =>
        Spelled(TreeAt(returned)) = [i \in DOMAIN read |-> read[i].lexeme]
===============================================================================
