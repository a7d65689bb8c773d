SPECIFICATION TaskSpec
CONSTANTS
    Entries = 10
    FrameCount = 18
    Reserved <- MCReserved
    DirBlocks = 1
    KernelIndex = 5
    Junk <- MCJunk
    HeapIndex = 6
    MaxPages = 3
    MaxGrants = 4
    BlocksPerPage = 2
    Files <- MCFiles
INVARIANTS TaskTypeOK TablesStaySound KernelKeepsItsMap
PROPERTIES GrantIsFresh ProgramIsLoaded
CHECK_DEADLOCK FALSE
