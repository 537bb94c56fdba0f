SPECIFICATION Spec
CONSTANTS
    Sources <- MCPrograms
    StackSize = 64
INVARIANTS
    GeneratedWellFormed
    PrintsItsMeaning
    RipOnInstruction
    StatementsKeepStack
PROPERTIES
    CallsReturn
    Exits
CHECK_DEADLOCK FALSE
