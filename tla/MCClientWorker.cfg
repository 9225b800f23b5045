SPECIFICATION WorkerFairSpec
CONSTANTS
    ann = ann
    NoName = NoName
    NoKey = NoKey
    ClientIds <- MCClientIds
    Usernames <- MCUsernames
    ValidUsernames <- MCUsernames
    PublicKeys = {}
    Frames <- MCFrames
    MAX_CLIENTS = 1
    MAX_OUTGOING_FRAMES = 2
    AllocationsFail = FALSE
    MaxSends = 4
    MaxInput = 2
    WriteMayWantRead = TRUE
INVARIANTS
    NoLostWakeup
    GracefulCloseIsSafe
PROPERTIES
    EveryFrameWritten
    ImplementsMailbox
CHECK_DEADLOCK FALSE
