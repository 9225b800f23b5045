SPECIFICATION SystemFairSpec
CONSTANTS
    c1 = c1
    c2 = c2
    c3 = c3
    ann = ann
    bob = bob
    k1 = k1
    k2 = k2
    k3 = k3
    NoName = NoName
    NoKey = NoKey
    NoText = NoText
    Frames <- MCFrames
    NameLength <- MCLengths
    Usernames <- MCNames
    ValidUsernames <- MCNames
    ChatConns <- MCConns
    ClientIds = {1, 2, 3}
    PublicKeys = {k1, k2, k3}
    MaxRequests <- MCRequests
    RequestTypes <- MCTypes
    ListRoom = 10
    MAX_CLIENTS = 2
    MAX_OUTGOING_FRAMES = 2
    AllocationsFail = FALSE
    LoginName <- MCLogin
    OwnKey <- MCKeys
    Typing <- MCTyping
    MAX_PENDING_PACKAGES = 2
INVARIANTS
    EncryptedForName
    ShownAuthentic
    PendingAccounted
PROPERTY PackagesResolved
CHECK_DEADLOCK FALSE
