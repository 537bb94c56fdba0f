SPECIFICATION Spec
SYMMETRY MCSymmetry
CONSTANTS
    love = love
    f = f
    g = g
    x = x
    y = y
    a = a
    b = b
    Names = {love, f, g}
    Main = love
    Variables = {x, y}
    StringNames = {"s"}
    Literals = {a, b}
    StdFunctions <- MCStdFunctions
    DEFAULT_CAPACITY = 2
    Moves = {1}
    PASSES = 2
    MaxFunctions = 3
    MaxVariables = 2
    MaxStrings = 2
INVARIANTS
    OwnFunction
    LiteralsFound
PROPERTIES
    OffsetsStable
