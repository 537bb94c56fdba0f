SPECIFICATION Spec
CONSTANTS
    Files <- MCFiles
    MAX_TOKENS_COUNT = 190
    LLONG_MAX = 99
INVARIANTS
    TypeOK
    LongestKeyword
    LinesRight
    ShownLineRight
    GarbageOnlyUnended
    TokensFit
    ReadsAsMeant
CHECK_DEADLOCK FALSE
