SPECIFICATION TransferSpec
CONSTANTS
    c1 = c1
    c2 = c2
    c3 = c3
    ann = ann
    bob = bob
    NoName = NoName
    NoKey = NoKey
    Conns <- ThreeConns
    FrameBudget <- ThreeBudget
    MaxFiles <- ThreeFiles
    ClientIds <- ThreeIds
    Usernames <- MCUsernames
    ValidUsernames <- MCUsernames
    PublicKeys = {}
    Frames <- MCFrames
    MAX_CLIENTS = 2
    MAX_OUTGOING_FRAMES = 2
    AllocationsFail = TRUE
    TransferIds <- MCTransferIds
    TransferIdSpace = 2
    FileSizes <- MCFileSizes
    ChunkLengths <- MCChunkLengths
    DiskSizes <- LargeDiskSizes
    FILE_PLAINTEXT_MAX_SIZE = 2
    FILE_CRYPTO_OVERHEAD = 1
    FILE_CHUNK_SIZE = 2
    MaxUplink = 1
    FILE_ROUTE_CAPACITY = 2
    OutboundIdSpace = 4
INVARIANTS
    SentFilesAreSound
    SlotsReturned
    NoFileLostSilently
SYMMETRY ThreeSymmetry
CHECK_DEADLOCK FALSE
