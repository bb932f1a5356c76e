SPECIFICATION Spec
CONSTANTS
  ByteBits = 2
  MaxBits = 4
  MaxSize = 7
  FractionBits = 1
  DoubleFractionBits = 4
  Tiers <- MCTiers
  Lead = 2
  Continuation = 3
  Surrogate = 4
  Capacity = 32
  Calls <- MCCalls
  MaxCalls = 2
  Burst = 6
  Old = Old
INVARIANTS WhatWasWritten CutOrExtendedRefused Canonical
CHECK_DEADLOCK FALSE
