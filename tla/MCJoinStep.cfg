SPECIFICATION Spec
CONSTANTS
  Value <- MCValue
  Null = Null
  Infinity = Infinity
  Columns <- MCColumns
  Joins <- MCJoins
  Wheres <- MCWheres
  Limits = {1, Infinity}
INVARIANTS
  JoinIsSQL
  WhereThenLimit
