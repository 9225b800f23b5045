SPECIFICATION ChatSpec
CONSTANTS
    c1 = c1
    c2 = c2
    c3 = c3
    ann = ann
    bob = bob
    cat = cat
    k1 = k1
    k2 = k2
    NoName = NoName
    NoKey = NoKey
    NoText = NoText
    Frames <- MCFrames
    NameLength <- MCLengths
    Usernames <- MCNames
    ValidUsernames <- MCNames
    ChatConns <- MCConns
    ClientIds = {1, 2, 3}
    PublicKeys = {k1, k2}
    MaxRequests <- MCCounts
    RequestTypes <- MCTypes
    ListRoom = 10
    MAX_CLIENTS = 3
    MAX_OUTGOING_FRAMES = 1
    AllocationsFail = FALSE
INVARIANTS
    NothingInherited
    OverflowSealsQueue
    BroadcastComplete
    NoSilentLoss
    SenderAuthentic
SYMMETRY MCSymmetry
CHECK_DEADLOCK FALSE
