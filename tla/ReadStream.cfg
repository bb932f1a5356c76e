SPECIFICATION Spec
CONSTANTS
  ByteBits = 2
  MaxBits = 4
  MaxSize = 7
  FractionBits = 1
  DoubleFractionBits = 4
  Tiers <- MCTiers
  Lead = 1
  Continuation = 2
  Surrogate = 3
  Old = Old
  MaxDepth = 1
  Packets <- MCPackets
  Widths <- MCWidths
  WideWidths <- MCWideWidths
  Ranges <- MCRanges
  Formats <- MCFormats
  Quanta <- MCQuanta
  Sizes <- MCSizes
  Lengths <- MCLengths
  Previous <- MCPrevious
  CallerReasons = {"rejected", "value_out_of_range"}
INVARIANTS NeverTraps NoHiddenBits EndConsumesAll OnlyAdmittedValues
PROPERTIES ImplementsReader OneEncoding BreaksItsRule SafeWithoutIt
VIEW WithoutCall
