SPECIFICATION Spec
CONSTANTS
    Entries = 10
    FrameCount = 14
    Reserved <- MCReserved
    DirBlocks = 1
    KernelIndex = 4
    Junk <- MCJunk
    HeapIndex = 5
    MaxPages = 3
    MaxGrants = 4
PROPERTY FreeUnmapsItsPages
CHECK_DEADLOCK FALSE
