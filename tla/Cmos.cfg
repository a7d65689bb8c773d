SPECIFICATION Spec
CONSTANTS
    TickMod = 5
    Instants <- MCInstants
    DriveTypes <- MCDriveTypes
    KeyPause = 2
    DrivePause = 3
INVARIANT TypeOK
PROPERTIES TimeWasShown SleepLasts CallsReturn
