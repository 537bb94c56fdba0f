SPECIFICATION Spec
CONSTANTS
    WordSize = 1024
    FloatBits = 4
    BufferSize = 8
    MaxDigits = 3
    Numbers <- MCNumbers
    Radicands <- MCRadicands
    Precisions <- MCPrecisions
    Strings <- MCStrings
    Inputs <- MCInputs
    Terminal = TRUE
    MaxCalls = 2
INVARIANTS
    StaysInBuffer
PROPERTIES
    ImplementsConsole
    EveryStepCounts
    Returns
CHECK_DEADLOCK FALSE
