SPECIFICATION WireSpec
CONSTANTS
    ByteBase = 6
    USERNAME_SIZE = 3
    HEADER = 2
    FRAME_MAX_SIZE = 3
    MESSAGE_MAX_SIZE = 2
    MESSAGE_CAPACITY = 2
    FrameTypes = {0, 1}
    Readers = {"worker", "frame", "message"}
    Streams <- MCStreams
    Posts <- MCPosts
    U16 = 1
    U32 = 2
    Controls <- MCControls
    Spaces <- MCSpaces
    Separators <- MCSeparators
    Dot = 4
    FILE_NAME_MAX_LENGTH = 2
    FILE_CHUNK_SIZE = 2
    Sent <- MCSent
    Foreign <- MCForeign
    Renamings <- MCRenamings
    Lines <- MCLines
    MAX_TEXT = 6
    Blank = " "
    Newline = "nl"
INVARIANTS
    ReadsWhatIsThere
    FramesArrive
    CarriedUnchanged
    OneFormOnly
    ParsedByGrammar
    PrivateStaysPrivate
CHECK_DEADLOCK FALSE
