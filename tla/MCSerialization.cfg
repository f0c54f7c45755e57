SPECIFICATION MCSpec
CONSTANTS
  Parts = {"array", "structure", "variant", "optional"}
  MCSlots = {s1, s2}
  MCAllocators = {a1, a2}
  Schemas <- MCSchemas
  Cuts = {0, 1, 5, 8}
  Reused = {TRUE}
INVARIANTS
  TypesOK
  ArrayLayoutAgrees
  WriteThrowsIffCut
  ArrayRoundTrip
  PackingPays
  LayoutAgrees
  ValidIsWritten
  RoundTrip
  CutReadsPrefix
  SameBits
PROPERTIES
  OneOwner
  ImplementsHolder
SYMMETRY MCSymmetry
VIEW MCView
CHECK_DEADLOCK FALSE
