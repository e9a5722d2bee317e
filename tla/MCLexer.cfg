\* Every text of up to five characters over each of the alphabets.
CONSTANTS
    Alphabets <- MCAlphabets
    MaxChars = 5
    Configs <- AllConfigs
    Letters <- MCLetters
    Digits <- MCDigits
    Spaces <- MCSpaces
    Keywords <- MCKeywords
SPECIFICATION Spec
INVARIANTS
    TypeOK
    SourceIsPreserved
    
PROPERTY EventuallyLexed
\* lex() returns.
CHECK_DEADLOCK FALSE
