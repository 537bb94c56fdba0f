SPECIFICATION Spec
CONSTANTS
    Sources <- MCSources
    Texts <- MCTexts
    MaxSlips = 1
    BracketReads = TRUE
INVARIANTS
    TypeOK
    GrammarRead
    AcceptedIsWritten
    CutBetweenFunctions
    ReadsDeclared
    DistinctNames
    ErrorNotAbove
CHECK_DEADLOCK FALSE
