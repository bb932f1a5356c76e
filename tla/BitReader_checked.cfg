SPECIFICATION CarelessSpec
CONSTANTS
  ByteBits = 2
  WindowBytes = 2
  MaxBits = 3
  GroupBits = 6
  SpanBytes = 6
  OffsetBytes = 4
  Buffers <- MCBuffers
  Groups <- AllGroups
  Checked = TRUE
INVARIANTS ReadsThePacket NeverPanics
