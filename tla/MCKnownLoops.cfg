SPECIFICATION Spec
CONSTANTS
    Loops <- MCLoops
    Turns = {1,2,3,4,5,6}
    MaxMoves = 1
INVARIANTS
    EmittedMemory
    InputBounded
    Recognised
CHECK_DEADLOCK FALSE
