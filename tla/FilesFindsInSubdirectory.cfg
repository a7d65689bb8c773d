SPECIFICATION Spec
CONSTANTS
    SectorSize = 4
    FatSectors = 12
    DataStart = 27
    DirReads = 2
    Dos <- MCDos
    Disks <- MCDisks
    TarBlock = 16
    initrdAddr = 64
    Archives <- MCArchives
    Typed <- MCTyped
    Dumped <- MCDumped
    DiskSectors = 2880
    MaxFailures = 1
    MaxParts = 5
    MaxPrinted = 4
PROPERTIES FindsInSubdirectory
