-------------------------------- MODULE MCLexer --------------------------------
(* Alphabets and keywords for model checking the lexer.                         *)
EXTENDS Lexer

\* A letter and a digit stand for any: no two of a class are told apart, but for
\* the words that are keywords.
MCLetters == {"f"}
MCDigits == {"1"}
MCSpaces == {" ", NewLine}
MCKeywords == {<<"f", "f">>}

AllConfigs == [capture_whitespace : BOOLEAN, capture_comments : BOOLEAN]

\* Words, numbers, white space and comments; strings and their escapes; symbols of
\* one, two and three characters that begin alike.
MCAlphabets ==
    {{"f", "1", ".", " ", NewLine, "/"},
     {"1", " ", "/", Quote, Backslash},
     {"f", "=", ">", "-", "/", "#"}}
===============================================================================
