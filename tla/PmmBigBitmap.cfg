SPECIFICATION Spec
CONSTANTS
    MaxBlocks = 40
    WordBits = 8
    ByteBits = 4
    BlockSize = 8
    UintMod = 64
    Garbage <- MCGarbage
    ScanWords = 5
    MaxRun = 3
    MemoryMaps <- MCMemoryMaps
    MaxRegions = 4
    KernelBase = 120
    KernelSize = 8
    LowSize = 32
    DirBlocks = 3
INVARIANTS
    ProtectedNeverHandedOut
