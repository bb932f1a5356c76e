SPECIFICATION Spec
CONSTANTS
  ByteBits = 2
  MaxBits = 4
  MaxSize = 7
  FractionBits = 1
  DoubleFractionBits = 4
  Tiers <- MCTiers
  Lead = 2
  Continuation = 3
  Surrogate = 4
  GoldenPacket <- MCGolden
  ExtendedPacket <- MCExtended
  Capacity = 64
  Burst = 6
  Old = Old
INVARIANTS ConformingIsRead NothingElseIsRead
CHECK_DEADLOCK FALSE
