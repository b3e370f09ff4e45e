SPECIFICATION Spec
CONSTANTS
  Texts <- AllTexts
  Bases <- MCBases
  Operands <- MCOperands
  Classes <- MCClasses
INVARIANTS
  TreesFit
  RoundTrip
CHECK_DEADLOCK FALSE
