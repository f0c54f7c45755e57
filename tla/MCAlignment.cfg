SPECIFICATION MCSpec
CONSTANTS
  Parts = {"structure"}
  MCSlots = {s1, s2}
  MCAllocators = {a1, a2}
  Schemas <- MCWideSchemas
  Cuts = {0}
  Reused = {TRUE}
INVARIANTS
  AlignmentReached
CHECK_DEADLOCK FALSE
