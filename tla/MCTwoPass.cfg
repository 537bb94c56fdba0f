SPECIFICATION FairSpec
CONSTANTS
    love = love
    helper = helper
    while = while
    endWhile = endWhile
    name = name
    accio = accio
    flagrate = flagrate
    buffer = buffer
    none = none
    Labels <- MCLabels
    Love <- love
    IoBuffer <- buffer
    NoLabel <- none
    StdFunctions <- MCStdFunctions
    NasmDump = TRUE
    Programs <- MCPrograms
    MaxText <- MCMaxText
    MaxData <- MCMaxData
INVARIANTS
    Linked
    SecondPassInPlace
    Contiguous
    UndefinedCallReported
PROPERTIES
    NoReallocInSecondPass
    GetsAhead
    Terminates
    ImplementsBuilder
CHECK_DEADLOCK FALSE
