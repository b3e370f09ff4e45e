CONSTANTS
  Columns = {"A", "B"}
  Comparisons <- ComparisonsByText
  Rank <- RankValue
  MaxDistance = 4
  Inputs <- NegatedRanges
SPECIFICATION Spec
INVARIANT MeaningKept
CHECK_DEADLOCK FALSE
