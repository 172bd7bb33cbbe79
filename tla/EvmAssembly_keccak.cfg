SPECIFICATION OptimiserSpec
CONSTANTS
    Programs <- NoPrograms
    Inputs <- MCInputs
    ByteValues = 4
    SizeBytes = 4
    Fuel = 14
    Fragments <- HashFragment
    MaxFragments = 2
    WordBits = 12
    ByteBits = 2
    AddrBits = 10
    StackReach = 16
    MaxSteps = 6
    MemLimit = 36
    Breaks <- Break
    BlockInputs <- BlockStacks
    Constants <- BlockConstants
INVARIANT
    BlockKept
CHECK_DEADLOCK FALSE
