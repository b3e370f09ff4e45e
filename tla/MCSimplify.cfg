CONSTANTS
  Columns = {"A", "B"}
  Comparisons <- ComparisonsByText
  Rank <- RankValue
  MaxDistance = 4
  Inputs <- InputsValue
SPECIFICATION Spec
INVARIANTS
  PlainMeaningKept
  NothingLeft
  NormalMeansTheSame
  NormalInBounds
PROPERTY Terminates
CHECK_DEADLOCK FALSE
