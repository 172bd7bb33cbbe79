SPECIFICATION BothSpec
CONSTANTS
    P = P
    Q = Q
    Types = {P}
    Facts = {1, 2}
    TypeOf <- MCTypeOf
    NumUserSlots = 3
    UserVals = {0, 1}
    Base <- MCBase
    IdSlot <- MCIdSlot
    Addr <- MCAddr
    MaxList = 3
    MaxSearch = 3
    ElementSize = 2
    Items <- MCItems
    Words = {2}
    MemSize = 20
    MaxOwned = 1
    ScratchSize = 3
    MaxEncodings = 1
    WordBytes = 4
    ByteValues = 16
    Contracts <- MCContracts
    Samples <- MCSamples
INVARIANTS
    ListsWellFormed
    ArraysApart
    ReadsAgree
    NothingLeft
    CallsArrive
    DecodersStayInside
PROPERTIES
    ImplementsBags
    KnownHandleKeepsOut
    ImplementsSequences
CHECK_DEADLOCK FALSE
