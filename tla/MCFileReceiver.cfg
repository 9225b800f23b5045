SPECIFICATION ReceiverSpec
CONSTANTS
    photo = photo
    notes = notes
    t1 = t1
    t2 = t2
    NoTemp = NoTemp
    NoFilename = NoFilename
    IncomingIds <- MCIds
    Filenames <- MCFilenames
    TempNames <- MCTempNames
    DeclaredSizes <- MCDeclaredSizes
    MIN_PACKAGE = 1
    MAX_PACKAGE = 2
    PackageSize = 2
    MAX_INCOMING_FILES = 2
INVARIANTS
    TransfersSeparate
    NoStrayTemps
PROPERTIES
    NeverOverwritten
SYMMETRY MCSymmetry
