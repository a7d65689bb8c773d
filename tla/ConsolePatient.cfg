SPECIFICATION TerminalSpec
CONSTANTS
    Keys <- MCKeys
    OutOfTable <- MCHarmless
    MaxTyped = 4
    LineSize = 4
    Patient = TRUE
    Columns = 2
    Rows = 3
    Prompt <- MCPrompt
    Reply <- MCReply
INVARIANTS PatientLosesNothing ScreenShowsLine
PROPERTY EveryKeyArrives
CHECK_DEADLOCK FALSE
