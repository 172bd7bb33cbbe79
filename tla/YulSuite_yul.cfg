SPECIFICATION SuiteSpec
CONSTANTS
  WordBits = 3
  ByteBits = 1
  AddrBits = 2
  StackReach = 16
  Rounds = 4
  Programs <- MCPrograms
  Units <- MCUnits
INVARIANTS MeaningKept CodeFaithful RulesSound
CHECK_DEADLOCK FALSE
