SPECIFICATION DuplexSpec
CONSTANTS
    ann = ann
    bob = bob
    cat = cat
    Users <- MCUsers
    Correspondent <- MCCorrespondent
    FramesToSend <- MCFramesToSend
    SocketRoom = 1
    MAX_OUTGOING_FRAMES = 2
PROPERTY SendsFinish
CHECK_DEADLOCK FALSE
