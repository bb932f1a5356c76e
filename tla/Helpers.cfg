SPECIFICATION Spec
CONSTANTS
  WidthsOfInts <- MCWidths
  Numbers <- MCNumbers
  Nothing = Nothing
  Refused = Refused
  Strings <- MCStrings
  BufferSizes = {0, 1, 2, 3, 4, 5, 6, 7, 8, 9, 10, 12, 13}
  Before <- MCBefore
INVARIANTS WrappingIsExact WidthsAgree ZigZagIsTheOrder LongestThatFits
PROPERTY CopyReturns
CHECK_DEADLOCK FALSE
