SPECIFICATION Spec
CONSTANTS
    Sources <- MCSmall
    Texts <- MCSmallTexts
    MaxSlips = 0
    BracketReads = FALSE
INVARIANTS
    SomePromiseKept
CHECK_DEADLOCK FALSE
