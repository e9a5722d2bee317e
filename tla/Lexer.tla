--------------------------------- MODULE Lexer ---------------------------------
(* The lexer (src/front/lexer.cpp): tokens with the trivia before them.  A step *)
(* is one round of lex()'s loop, the white space it begins with included.       *)
(* Positions count from 1, and spans leave out their end, as in the code.       *)
EXTENDS Integers, Sequences, FiniteSets, FiniteSetsExt, SequencesExt

CONSTANTS
    Alphabets,     \* sets of characters, a text has those of one of them
    MaxChars,      \* bound: how many a text has
    Configs,       \* the LexerConfigs they are lexed with
    Letters, Digits, Spaces,   \* the characters of these classes; Letters has "_"
    Keywords       \* the words is_keyword lists

Quote == "\""
Backslash == "\\"
NewLine == "\n"

ASSUME ClassesAreDisjoint ==
    /\ Letters \cap (Digits \cup Spaces) = {} /\ Digits \cap Spaces = {}
    /\ {".", "/", "=", ">", "<", "!", "&", "|", ":", "-", "+", "*", "%", "^", Quote, Backslash}
           \cap (Letters \cup Digits \cup Spaces) = {}
    /\ NewLine \in Spaces
ASSUME AlphabetsAreOfCharacters == UNION Alphabets \subseteq STRING /\ MaxChars \in Nat
ASSUME KeywordsAreWords == Keywords \subseteq Seq(Letters)
ASSUME ConfigsAreTyped ==
    Configs \subseteq [capture_whitespace : BOOLEAN, capture_comments : BOOLEAN]

\* is_compound_symbol, one character after the other.
CompoundSymbols ==
    {<<"=", "=">>, <<"!", "=">>, <<"<", "=">>, <<">", "=">>, <<"&", "&">>, <<"|", "|">>,
     <<":", ":">>, <<"-", ">">>, <<"=", ">">>, <<"+", "=">>, <<"-", "=">>, <<"*", "=">>,
     <<"/", "=">>, <<"%", "=">>, <<"&", "=">>, <<"|", "=">>, <<"^", "=">>, <<"<", "<">>,
     <<">", ">">>, <<">", ">", "=">>}

VARIABLES
    source,        \* source_
    config,        \* config_
    position,      \* position_
    pending,       \* pending_leading_
    tokens,        \* stream.tokens
    done           \* lex() has returned

vars == <<source, config, position, pending, tokens, done>>

Init ==
    /\ \E alphabet \in Alphabets, n \in 0..MaxChars : source \in [1..n -> alphabet]
    /\ config \in Configs
    /\ position = 1
    /\ pending = <<>>
    /\ tokens = <<>>
    /\ done = FALSE

Text(start, end) == SubSeq(source, start, end - 1)
StandsAt(p, s) == p + Len(s) <= Len(source) + 1 /\ Text(p, p + Len(s)) = s
Trivia(kind, start, end) == [kind |-> kind, start |-> start, end |-> end]
Token(kind, start, end, leading) ==
    [kind |-> kind, start |-> start, end |-> end, lexeme |-> Text(start, end),
     leading_trivia |-> leading]

-------------------------------------------------------------------------------
(* Where what begins somewhere ends.                                            *)

SourceEnd == Len(source) + 1

\* The first place from p on that has no character of a class.
EndOfRun(p, class) ==
    Min({q \in p..SourceEnd : q = SourceEnd \/ source[q] \notin class} \cup {SourceEnd})

IdentifierEnd(start) == EndOfRun(start + 1, Letters \cup Digits)

NumberEnd(start) ==
    LET whole == EndOfRun(start, Digits)
    IN  IF whole < SourceEnd /\ source[whole] = "." THEN EndOfRun(whole + 1, Digits) ELSE whole

\* Mutant: a backslash before the closing quote does not keep the string open.
StringEnd_IgnoresEscapes(start) ==
    Min({q + 1 : q \in {q \in (start + 1)..Len(source) : source[q] = Quote}} \cup {SourceEnd})

\* A string that is not closed goes on to the end.
StringEnd(start) ==
    LET after[p \in 1..SourceEnd] ==
            IF p = SourceEnd THEN p
            ELSE IF source[p] = Quote THEN p + 1
            ELSE IF source[p] = Backslash /\ p < Len(source) THEN after[p + 2]
            ELSE after[p + 1]
    IN  after[start + 1]

\* A symbol grows a character at a time while the table has what it grows into.
SymbolEnd(start) ==
    LET after[p \in 1..SourceEnd] ==
            IF p < SourceEnd /\ Text(start, p + 1) \in CompoundSymbols THEN after[p + 1] ELSE p
    IN  after[start + 1]

CommentEnd(start) == EndOfRun(start + 2, {source[i] : i \in DOMAIN source} \ {NewLine})

-------------------------------------------------------------------------------
(* lex().                                                                       *)

\* skip_whitespace: where it stops, and the trivia there are then.
Start == EndOfRun(position, Spaces)
Captured ==
    IF Start > position /\ config.capture_whitespace
    THEN Append(pending, Trivia("Whitespace", position, Start)) ELSE pending

AtText == ~done /\ Start < SourceEnd
AtComment == StandsAt(Start, <<"/", "/">>)

\* Mutant: a comment that is not captured is not passed either.
Comment_PassedIfCaptured ==
    /\ AtText /\ AtComment
    /\ position' = IF config.capture_comments THEN CommentEnd(Start) ELSE Start
    /\ pending' = IF config.capture_comments
                  THEN Append(Captured, Trivia("Comment", Start, CommentEnd(Start)))
                  ELSE Captured
    /\ UNCHANGED <<source, config, tokens, done>>

Comment ==
    /\ AtText /\ AtComment
    /\ position' = CommentEnd(Start)
    /\ pending' = IF config.capture_comments
                  THEN Append(Captured, Trivia("Comment", Start, CommentEnd(Start)))
                  ELSE Captured
    /\ UNCHANGED <<source, config, tokens, done>>

Read(kind, end) ==
    /\ AtText /\ ~AtComment
    /\ tokens' = Append(tokens, Token(kind, Start, end, Captured))
    /\ pending' = <<>>
    /\ position' = end
    /\ UNCHANGED <<source, config, done>>

read_identifier ==
    /\ AtText /\ source[Start] \in Letters
    /\ LET end == IdentifierEnd(Start)
       IN  Read(IF Text(Start, end) \in Keywords THEN "Keyword" ELSE "Identifier", end)

read_number == AtText /\ source[Start] \in Digits /\ Read("Number", NumberEnd(Start))
read_string == AtText /\ source[Start] = Quote /\ Read("StringLiteral", StringEnd(Start))
read_symbol ==
    /\ AtText /\ source[Start] \notin Letters \cup Digits \cup {Quote}
    /\ Read("Symbol", SymbolEnd(Start))

\* Mutant: a text that ends in white space is not known to have ended.
EndOfFile_ReadsOn ==
    /\ ~done /\ Start = SourceEnd
    /\ tokens' = Append(tokens, Token("EndOfFile", SourceEnd, SourceEnd, Captured))
    /\ pending' = <<>>
    /\ position' = SourceEnd
    /\ done' = (position = SourceEnd)
    /\ UNCHANGED <<source, config>>

\* Mutant: the end of the text drops what precedes it.
EndOfFile_Bare ==
    /\ ~done /\ Start = SourceEnd
    /\ tokens' = Append(tokens, Token("EndOfFile", SourceEnd, SourceEnd, <<>>))
    /\ pending' = <<>>
    /\ position' = SourceEnd
    /\ done' = TRUE
    /\ UNCHANGED <<source, config>>

EndOfFile ==
    /\ ~done /\ Start = SourceEnd
    /\ tokens' = Append(tokens, Token("EndOfFile", SourceEnd, SourceEnd, Captured))
    /\ pending' = <<>>
    /\ position' = SourceEnd
    /\ done' = TRUE
    /\ UNCHANGED <<source, config>>

Next == Comment \/ read_identifier \/ read_number \/ read_string \/ read_symbol \/ EndOfFile

Spec == Init /\ [][Next]_vars /\ WF_vars(Next)

-------------------------------------------------------------------------------

TriviaRecords == [kind : {"Whitespace", "Comment"}, start : Nat, end : Nat]
TokenRecords ==
    [kind : {"Identifier", "Number", "StringLiteral", "Keyword", "Symbol", "EndOfFile"},
     start : Nat, end : Nat, lexeme : Seq(STRING), leading_trivia : Seq(TriviaRecords)]

TypeOK ==
    /\ source \in Seq(UNION Alphabets) /\ Len(source) <= MaxChars /\ config \in Configs
    /\ position \in 1..SourceEnd
    /\ pending \in Seq(TriviaRecords)
    /\ tokens \in Seq(TokenRecords)
    /\ done <=> tokens # <<>> /\ tokens[Len(tokens)].kind = "EndOfFile"

Spaced(p) == source[p] \in Spaces

\* Trivia and tokens in the order they are in.
Pieces ==
    FlattenSeq([k \in DOMAIN tokens |->
                   Append(tokens[k].leading_trivia, Trivia("Token", tokens[k].start, tokens[k].end))])
    \o pending

\* At every moment tokens and trivia are the text lexed so far, piece by piece
\* and in order: when all trivia are captured nothing is missing, and when not
\* what is missing is white space or belongs to comments.
SourceIsPreserved ==
    LET pieces == Pieces
        missing == {p \in 1..(position - 1) :
                       \A i \in DOMAIN pieces : ~(pieces[i].start <= p /\ p < pieces[i].end)}
    IN  /\ \A i \in 2..Len(pieces) : pieces[i - 1].end <= pieces[i].start
        /\ \A p \in missing :
               \/ Spaced(p) /\ ~(config.capture_whitespace /\ config.capture_comments)
               \/ /\ ~config.capture_comments
                  /\ \E q \in 1..p : /\ StandsAt(q, <<"/", "/">>)
                                     /\ \A r \in q..p : source[r] # NewLine

-------------------------------------------------------------------------------
(* Tokens by what docs/grammar.ebnf says they are rather than by how they are    *)
(* found.                                                                       *)

\* A quote preceded by an odd number of backslashes stands in the string.
Escaped(s, i) ==
    Cardinality({j \in 2..(i - 1) : \A k \in j..(i - 1) : s[k] = Backslash}) % 2 = 1

IsWord(s) == s[1] \in Letters /\ \A i \in DOMAIN s : s[i] \in Letters \cup Digits
IsNumber(s) ==
    /\ s[1] \in Digits /\ s[Len(s)] \in Digits
    /\ \A i \in DOMAIN s : s[i] \in Digits \cup {"."}
    /\ Cardinality({i \in DOMAIN s : s[i] = "."}) <= 1
IsString(s) ==
    /\ Len(s) > 1 /\ s[1] = Quote
    /\ \A i \in 2..Len(s) : (s[i] = Quote /\ ~Escaped(s, i)) <=> i = Len(s)
IsSymbol(s) ==
    \/ Len(s) = 1 /\ s[1] \notin Letters \cup Digits \cup Spaces \cup {Quote}
    \/ s \in CompoundSymbols

IsToken(s) == IsWord(s) \/ IsNumber(s) \/ IsString(s) \/ IsSymbol(s)

\* A dot behind a whole number with no digit behind it is no part of a number there.
IsDotted(s) == Len(s) > 1 /\ Last(s) = "." /\ \A i \in 1..(Len(s) - 1) : s[i] \in Digits

\* Each token, when it is read, is the longest of the grammar's where it begins:
\* however characters group, escapes and symbols of three characters included, the
\* lexer stops neither early nor late.  It departs from the grammar in two places,
\* whenever it comes to them, and in no other: it takes a dot right behind a whole
\* number with the number, and a string that nothing closes to the end of the text.
LongestMatch ==
    tokens # <<>> /\ ~done =>
        LET start == Last(tokens).start
            lengths == {n \in 1..(SourceEnd - start) :
                           \/ IsToken(Text(start, start + n))
                           \/ IsDotted(Text(start, start + n))}
        IN  /\ ~StandsAt(start, <<"/", "/">>)
            /\ Len(Last(tokens).lexeme) =
                   IF lengths = {} /\ source[start] = Quote THEN SourceEnd - start
                   ELSE Max(lengths)

\* Every text is lexed to its end: each round takes a character at least.
EventuallyLexed == <>done
===============================================================================
