SPECIFICATION RoutesSpec
CONSTANTS
    ClientIds <- MCClientIds
    TransferIds <- MCTransferIds
    FileSizes <- MCFileSizes
    ChunkLengths <- MCChunkLengths
    FILE_ROUTE_CAPACITY = 3
    OutboundIdSpace = 4
INVARIANTS
    OutboundIdsUnique
    AllocationSucceeds
PROPERTY RouteLifecycle
