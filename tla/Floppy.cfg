SPECIFICATION Spec
CONSTANTS
    Tracks = 3
    Heads = 2
    SectorsPerTrack = 2
    Attempts = 2
    WaitLimit = 2
    Requests <- MCRequests
INVARIANTS TypeOK NothingLeftOver WaitsForItsCommand
PROPERTIES SeekFindsTrack TransfersFillTheBuffer ReadsSucceed CallsReturn
