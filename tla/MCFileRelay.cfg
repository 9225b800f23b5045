SPECIFICATION RelaySpec
CONSTANTS
    c1 = c1
    c2 = c2
    c3 = c3
    ann = ann
    bob = bob
    NoName = NoName
    NoKey = NoKey
    Conns <- ThreeConns
    FrameBudget <- ThreeBudget
    ClientIds <- ThreeIds
    Usernames <- MCUsernames
    ValidUsernames <- MCUsernames
    PublicKeys = {}
    Frames <- MCFrames
    MAX_CLIENTS = 2
    MAX_OUTGOING_FRAMES = 2
    AllocationsFail = FALSE
    TransferIds <- OneTransfer
    FileSizes <- MCFileSizes
    ChunkLengths <- MCChunkLengths
    FILE_ROUTE_CAPACITY = 2
    OutboundIdSpace = 4
INVARIANTS
    RelayTypeOK
    NoOrphanRoute
    StreamsWellFormed
    NoAbandonedStream
SYMMETRY MCSymmetry
CHECK_DEADLOCK FALSE
