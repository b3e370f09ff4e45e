SPECIFICATION FairSpec
CONSTANTS
  athena = athena
  hive = hive
  trino = trino
  e6 = e6
  mine = mine
  t1 = t1
  t2 = t2
  Thread = {t1, t2}
  DIALECTS <- MCDialects
  Custom = {mine}
  Base = Base
  Imports <- MCImports
  Programs <- SafePrograms
  NoThread = NoThread
INVARIANTS
  KnownIsFound
  ImportedIsComplete
PROPERTY EveryCallReturns
