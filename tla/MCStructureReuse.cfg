SPECIFICATION MCSpec
CONSTANTS
  Parts = {"structure"}
  MCSlots = {s1, s2}
  MCAllocators = {a1, a2}
  Schemas <- MCSchemas
  Cuts = {0}
  Reused = {TRUE, FALSE}
INVARIANTS
  PresenceIsRead
CHECK_DEADLOCK FALSE
