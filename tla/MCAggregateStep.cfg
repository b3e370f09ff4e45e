SPECIFICATION Spec
CONSTANTS
  Key <- MCKey
  Null = Null
  NoGroup = NoGroup
  Infinity = Infinity
  Limits = {0, 1, 2, 3, Infinity}
  MaxRows = 4
INVARIANTS
  GroupsExact
  OneRowPerGroup
  AnswerComplete
