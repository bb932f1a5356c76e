SPECIFICATION Spec
CONSTANTS
  ByteBits = 2
  MaxBits = 4
  MaxSize = 7
  FractionBits = 1
  DoubleFractionBits = 4
  Tiers <- MCTiers
  Lead = 2
  Continuation = 3
  Surrogate = 4
  Capacity = 24
  Calls <- MCCalls
  MaxCalls = 3
INVARIANTS MeasureCovers
PROPERTIES MeasureTrapsAlike NothingAhead MisuseTraps OnlyMisuseTraps
CHECK_DEADLOCK FALSE
