SPECIFICATION Spec
CONSTANTS
  Names <- MCNames
  Lower <- MCLower
  Tables <- MCTables
  Files <- MCFiles
  ColumnSets <- MCColumnSets
  Schemas <- MCSchemas
  Normalize = TRUE
  None = None
  Ambiguous = Ambiguous
  Unknown = Unknown
INVARIANTS
  FindIsUniqueMatch
  CachesFresh
PROPERTIES
  CopiesAreApart
