SPECIFICATION Spec
CONSTANTS
    Numbers <- MCNumbers
    LongNumbers <- MCNumbers
    Shifts <- MCShifts
    Offsets <- MCOffsets
    Addresses <- MCAddresses
    MovedRegisters <- MCMovedRegisters
    ArrayRegisters <- MCArrayRegisters
    Followers <- MCFollowers
    MaxInstructions = 2
INVARIANTS
    DecodesBack
CHECK_DEADLOCK FALSE
