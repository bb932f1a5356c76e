SPECIFICATION Spec
CONSTANTS
  Precision = 7
  MaxExponent = 10
  One = 256
  CodeBits = 8
  Declarations <- MCDeclarations
  Constants <- MCConstants
  Values <- MCValues
  None = None
INVARIANTS CodesFit DerivedConform WrittenIsRead WithinTwoQuanta ReencodesAlike
