-------------------------------- MODULE MCParser -------------------------------
(* Alphabets and contexts for model checking the parser.                        *)
EXTENDS Grammar

Identifier == Token("Identifier", "x")
Number == Token("Number", "1")
Symbols(lexemes) == {Symbol(lexeme) : lexeme \in lexemes}
Keywords(lexemes) == {Keyword(lexeme) : lexeme \in lexemes}

\* Expressions: one operator of a kind, groups and calls.
ExpressionTokens == {Identifier} \cup Symbols({"=", "<", "*", "(", ")", ","})

\* Every level of precedence.
LevelTokens == {Number} \cup Symbols({"=", "||", "&&", "==", "<", "+", "*"})

StatementTokens ==
    {Identifier} \cup Symbols({"=", ";", "{", "}"}) \cup Keywords({"let", "mut", "return"})

\* Enough for a let in a block.
BlockTokens == StatementTokens \ Keywords({"mut", "return"})

\* Those the parser does not read as the grammar does among them.
AllTokens ==
    {Identifier} \cup Symbols({"=", "*", "-", "!", "(", ")", ",", ";"}) \cup Keywords({"let"})

UnaryTokens == {Identifier} \cup Symbols({"-", "+"})

CallOf(entry, tokens, longest, size, room) ==
    [entry |-> entry, tokens |-> tokens, longest |-> longest, size |-> size, capacity |-> room]

\* In new contexts, in one that grows with the first node, and in one with room.
MCCalls ==
    {CallOf("expression", ExpressionTokens, 6, 0, 0),
     CallOf("expression", LevelTokens, 5, 0, 0),
     CallOf("module", StatementTokens, 6, 7, 8),
     CallOf("module", BlockTokens, 7, 7, 8),
     CallOf("module", AllTokens, 5, 9, 16),
     CallOf("expression", AllTokens, 5, 9, 16)}

NewLet == {CallOf("module", StatementTokens, 5, 0, 0)}
Signed == {CallOf("expression", UnaryTokens, 4, 0, 0)}
===============================================================================
