SPECIFICATION OptimiserSpec
CONSTANTS
    Programs <- MCPrograms
    Inputs <- MCInputs
    ByteValues = 4
    SizeBytes = 4
    Fuel = 14
    Fragments <- Fragment
    MaxFragments = 3
    WordBits = 12
    ByteBits = 2
    AddrBits = 10
    StackReach = 16
    MaxSteps = 6
    MemLimit = 36
    Breaks <- Break
    BlockInputs <- BlockStacks
    Constants <- BlockConstants
INVARIANTS
    CodeKept
    TagsFit
    BlockKept
    EstimateCovers
PROPERTIES
    PassesLower
CHECK_DEADLOCK FALSE
