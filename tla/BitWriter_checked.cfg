SPECIFICATION CarelessSpec
CONSTANTS
  ByteBits = 2
  WordBits = 6
  MaxBits = 2
  CountLimit = 12
  num_bits = 18
  Payloads <- OnePayload
  Initial <- AllOnes
  Checked = TRUE
INVARIANTS HoldsWhatWasAsked PastTheEnd NeverPanics
PROPERTIES ImplementsSink
CHECK_DEADLOCK FALSE
