SPECIFICATION Spec
CONSTANTS
    OutOfTable <- MCOutOfTable
    LineSize = 3
    Keys <- MCAllKeys
    MaxTyped = 3
    Patient = FALSE
INVARIANTS TypeOK KeysInOrder NoStuckModifier
CHECK_DEADLOCK FALSE
