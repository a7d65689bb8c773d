SPECIFICATION Spec
CONSTANTS
    Keys <- MCAltKeys
    OutOfTable <- MCOutOfTable
    MaxTyped = 3
    LineSize = 3
    Patient = FALSE
INVARIANT OnlyCharactersInLine
CHECK_DEADLOCK FALSE
