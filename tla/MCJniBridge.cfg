SPECIFICATION Spec
CONSTANT MaxRounds = 3
INVARIANTS
    FileHasResults
    NoElementsStayHeld
    DestroyIsComplete
CHECK_DEADLOCK FALSE
