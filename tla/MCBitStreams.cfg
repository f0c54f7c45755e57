SPECIFICATION MCSpec
CONSTANTS
  WordBits = 32
  Bit <- MCBit
  ZeroBit <- MCZeroBit
  Buffers <- MCBuffers
  BitSizes = {53, 64}
  NumBits = {3, 31, 40}
  VarBytes = {1}
  BlockBits = {0, 19}
  Positions = {13, 64}
  Alignments = {24}
  MaxIndex = 65
  WriterBuffers <- MCWriterBuffers
  WriterBitSizes = {93}
  Words <- MCWords
  WrittenNumBits = {7, 40, 64}
  VarNums <- MCVarNums
  Blocks <- MCBlocks
  WriterPositions = {29, 94}
  WriterAlignments = {24}
  MaxCalls = 3
  FlagBit <- MCFlagBit
  Magnitudes <- MCMagnitudes
  Streams <- MCStreams
  Used = {"reader", "writer", "number"}
INVARIANTS
  TypesOK
  CacheCoherent
  LoadsInBounds
  StoresExact
  NumbersAgree
PROPERTIES
  EofExact
  ImplementsInput
  ThrowsOnlyIfFull
  ImplementsOutput
