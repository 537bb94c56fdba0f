SPECIFICATION Spec
CONSTANTS
    WordSize = 1024
    FloatBits = 4
    BufferSize = 8
    MaxDigits = 3
    Numbers = {}
    Radicands = {}
    Precisions = {}
    Strings = {}
    Inputs <- MCPiped
    Terminal = FALSE
    MaxCalls = 2
INVARIANTS
    AnswersInTurn
CHECK_DEADLOCK FALSE
