SPECIFICATION MCSpec
CONSTANTS
  t1 = t1
  t2 = t2
  Absent = Absent
  NumFields = 2
  Results <- MCResults
  NoValue = NoValue
  Partial = Partial
  Columns <- MCColumns
  FoundDatabases <- MCDatabases
  NoBatch = NoBatch
  TableNames <- MCTableNames
  Keys = {1, 2}
  Values = {1, 2}
  RowLists <- MCRowLists
  Recovers = TRUE
  Parts = {"validation"}
INVARIANTS
  StopsTable
CHECK_DEADLOCK FALSE
