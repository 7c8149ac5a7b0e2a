CONSTANTS
    Entries <- SmallEntries
    PageSize = 2
    NrPages = 32
    PtBase = 1
    NrPtFrames = 4
    QueueSize = 4
    MaxPts = 7
    Processes = 2
    UserPages = {15, 16}
    ProbeAddresses = {28, 32, 34}
    MaxCalls = 8
SPECIFICATION Spec
INVARIANTS
    NeverRefused
    TlbAgrees
    TablesProtected
    FramesApart
    FramesCounted
    UserRootMirrors
    ReadersAgree
PROPERTY ImplementsSpaces
VIEW WithoutAsked
CHECK_DEADLOCK FALSE
