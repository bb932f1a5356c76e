SPECIFICATION MisuseSpec
CONSTANTS
  ByteBits = 2
  WordBits = 4
  MaxBits = 2
  CountLimit = 12
  AskedWidths = {0, 3, 4, 7}
  num_bits = 10
  Payloads <- OnePayload
  Initial <- AllOnes
  Checked = FALSE
PROPERTIES OnlyLaterBitsChange FlushedIsInMemory StoredIsFinal
VIEW WithoutHistory
CHECK_DEADLOCK FALSE
