---------------------------- MODULE BitStreamWriter ----------------------------
(***************************************************************************)
(* zserio::BitStreamWriter: a writer into a buffer of bytes, or, without a *)
(* buffer, a counter of the bits that would be written.  Every public      *)
(* write is one or more calls of writeUnsignedBits32Impl ("chunks"), each  *)
(* of which patches up to five bytes and may throw for lack of capacity,   *)
(* so an operation is started by one action and makes one step per chunk.  *)
(*                                                                         *)
(* A word is a function from bit numbers (0 is the least significant) to   *)
(* bits; bit i of the stream is bit 7 - i % 8 of byte i / 8.  Except for   *)
(* zero the bits are never inspected, so they may be any symbols.          *)
(***************************************************************************)
EXTENDS StreamBits

CONSTANTS
  WriterBuffers,     \* the byte buffers a writer may be constructed on
  WriterBitSizes,    \* the bit sizes it may be constructed with
  Words,             \* the 64-bit values written
  WrittenNumBits,    \* the numBits arguments of the writes
  VarNums,           \* the encoded variable-length numbers, as strings of bits
  Blocks,            \* the byte arrays, strings and bit buffers, as strings of bits
  WriterPositions,   \* the arguments of setBitPosition
  WriterAlignments,  \* the arguments of alignTo
  MaxCalls           \* bound: the number of writes made through one writer

Word32 == [0..(NarrowBits - 1) -> Bit]
Word64 == [0..(WideBits - 1) -> Bit]

ASSUME WriterBuffersAssumption ==
  \A b \in WriterBuffers : /\ b = [bytes |-> b.bytes, bits |-> b.bits]
                           /\ b.bytes \in Nat
                           /\ b.bits \in [0..(b.bytes * ByteBits - 1) -> Bit]
ASSUME WriterSizesAssumption == WriterBitSizes \subseteq Nat
ASSUME WriterArgumentsAssumption ==
  /\ \A w \in Words : w \in Word64
  /\ WrittenNumBits \subseteq 0..255
  /\ \A s \in VarNums : s \in Seq(Bit) /\ Len(s) % ByteBits = 0 /\ Len(s) > 0
  /\ \A s \in Blocks : s \in Seq(Bit)
  /\ WriterPositions \subseteq Nat
  /\ WriterAlignments \subseteq Nat \ {0}
  /\ MaxCalls \in Nat

VARIABLES
  m_buffer,       \* [bytes, bits]
  m_bufferBitSize,
  hasWriteBuffer, \* is m_buffer.data() not nullptr?
  m_bitIndex,
  chunksLeft,     \* the chunks the operation in progress has still to write
  blockLeft,      \* the block that follows them: one string of bits or none
  writeStatus,    \* "busy", or how the last operation ended: "done", "thrown"
  put,            \* history: the bits the current operation has written
  goal,           \* history: where the current operation ends unless it throws
  stored,         \* history: the bytes the last step stored to
  calls           \* the number of writes begun

writerVars == <<m_buffer, m_bufferBitSize, hasWriteBuffer, m_bitIndex, chunksLeft, blockLeft,
                writeStatus, put, goal, stored, calls>>

NoBlockLeft == <<>>

-------------------------------------------------------------------------------
(* Chunks: the data and numBits arguments of writeUnsignedBits32Impl.      *)

ZeroWord64 == [p \in 0..(WideBits - 1) |-> ZeroBit]

\* The chunk that writes the string s of at most 32 bits.
Chunk(s) ==
  [data |-> [p \in 0..(NarrowBits - 1) |-> IF p < Len(s) THEN s[Len(s) - p] ELSE ZeroBit],
   bits |-> Len(s)]

\* The bits a chunk writes, first bit first.
ChunkBits(c) == [i \in 1..c.bits |-> c.data[c.bits - i]]

\* A string of bits as chunks of whole bytes, and what is left of it as a last chunk.
ByteChunks(s) ==
  [i \in 1..(Len(s) \div ByteBits) |->
     Chunk(SubSeq(s, (i - 1) * ByteBits + 1, i * ByteBits))]
\* Mutant of LastChunk: the bits behind the last whole byte are forgotten.
LastChunkDropped(s) == <<>>

LastChunk(s) ==
  LET r == Len(s) % ByteBits
  IN  IF r = 0 THEN <<>> ELSE <<Chunk(SubSeq(s, Len(s) - r + 1, Len(s)))>>

\* The bits of w from number p upwards, as 32-bit data.
Narrow(w, p) == [q \in 0..(NarrowBits - 1) |-> w[p + q]]

\* writeUnsignedBits64Impl: above 32 bits the upper part first.
WrittenChunks(w, n) ==
  IF n =< NarrowBits
  THEN <<[data |-> Narrow(w, 0), bits |-> n]>>
  ELSE <<[data |-> Narrow(w, NarrowBits), bits |-> n - NarrowBits],
         [data |-> Narrow(w, 0), bits |-> NarrowBits]>>

\* data & MAX_U32_VALUES[n] and data & MAX_U64_VALUES[n]
MaskWord(w, n) == [p \in 0..(WideBits - 1) |-> IF p < n THEN w[p] ELSE ZeroBit]

\* data =< MAX_U32_VALUES[n]
FitsUnsigned(w, n) == \A p \in n..(WideBits - 1) : w[p] = ZeroBit

\* MIN_I32_VALUES[n] =< data =< MAX_I32_VALUES[n]: two's complement sign extension
FitsSigned(w, n) == \A p \in n..(WideBits - 1) : w[p] = w[n - 1]

-------------------------------------------------------------------------------
(* Patching the buffer.                                                    *)

DataBit(data, p) == IF p \in DOMAIN data THEN data[p] ELSE ZeroBit

\* x | y, where no bit is set in both
OrBit(x, y) == IF x = ZeroBit THEN y ELSE x

\* Mutant of KeptBit: the old bits are not masked off before the new ones are or-ed in.
KeptBitUnmasked(old, p, bitsFree) == old

\* What the first part of a write keeps of bit p of the byte it fills up.
KeptBit(old, p, bitsFree) == IF p >= bitsFree THEN old ELSE ZeroBit

\* Bit p of the byte that the last n bits of data are patched into, shiftNum bits above
\* its least significant bit.
LastPart(old, data, p, shiftNum, n) ==
  IF p \in shiftNum..(shiftNum + n - 1) THEN DataBit(data, p - shiftNum) ELSE old

\* What writeUnsignedBits32Impl stores to bit p of byte j, which holds old, for n bits
\* of data written at bit index b: the first part fills the byte that b is in, the
\* middle parts are whole bytes, and the last part patches the bits in front.
StoredBit(b, data, n, j, p, old) ==
  LET bitsFree == ByteBits - (b % ByteBits)
      byteIndex == b \div ByteBits
      rest == n - bitsFree
      middle == rest \div ByteBits
      last == rest % ByteBits
  IN  IF n =< bitsFree
      THEN IF j = byteIndex THEN LastPart(old, data, p, bitsFree - n, n) ELSE old
      ELSE IF j = byteIndex
      THEN OrBit(KeptBit(old, p, bitsFree), DataBit(data, p + rest))
      ELSE IF j \in (byteIndex + 1)..(byteIndex + middle)
      THEN DataBit(data, p + rest - ByteBits * (j - byteIndex))
      ELSE IF j = byteIndex + middle + 1 /\ last > 0
      THEN LastPart(old, data, p, ByteBits - last, last)
      ELSE old

\* The bytes it stores to.
StoredBytes(b, n) ==
  LET byteIndex == b \div ByteBits
      rest == n - (ByteBits - (b % ByteBits))
  IN  IF rest =< 0 THEN {byteIndex}
      ELSE byteIndex..(byteIndex + (rest \div ByteBits) + (IF rest % ByteBits > 0 THEN 1 ELSE 0))

Patch(b, data, n) ==
  [i \in DOMAIN m_buffer.bits |->
     StoredBit(b, data, n, i \div ByteBits, ByteBits - 1 - (i % ByteBits), m_buffer.bits[i])]

-------------------------------------------------------------------------------
(* Starting an operation.                                                  *)

WriterIdle == writeStatus # "busy" /\ calls < MaxCalls

\* An operation of numBits bits.
BeginWrite(chunks, blocks, numBits) ==
  /\ chunksLeft' = chunks
  /\ blockLeft' = blocks
  /\ writeStatus' = IF chunks = <<>> /\ blocks = NoBlockLeft THEN "done" ELSE "busy"
  /\ put' = <<>>
  /\ goal' = m_bitIndex + numBits
  /\ stored' = {}
  /\ calls' = calls + 1
  /\ UNCHANGED <<m_buffer, m_bufferBitSize, hasWriteBuffer, m_bitIndex>>

\* A call refused by its argument check: it throws before it writes anything.
RefuseWrite ==
  /\ chunksLeft' = <<>>
  /\ blockLeft' = NoBlockLeft
  /\ writeStatus' = "thrown"
  /\ put' = <<>>
  /\ goal' = m_bitIndex
  /\ stored' = {}
  /\ UNCHANGED <<m_buffer, m_bufferBitSize, hasWriteBuffer, m_bitIndex, calls>>

\* writeUnsignedBits32 and writeUnsignedBits64, for values of width bits
WriteUnsignedBits(w, n, width) ==
  /\ WriterIdle
  /\ FitsUnsigned(w, width)
  /\ IF n \in 1..width /\ FitsUnsigned(w, n)
     THEN BeginWrite(WrittenChunks(w, n), NoBlockLeft, n)
     ELSE RefuseWrite

\* writeSignedBits32 and writeSignedBits64
WriteSignedBits(w, n, width) ==
  /\ WriterIdle
  /\ FitsSigned(w, width)
  /\ IF n \in 1..width /\ FitsSigned(w, n)
     THEN BeginWrite(WrittenChunks(MaskWord(w, n), n), NoBlockLeft, n)
     ELSE RefuseWrite

\* writeBool, writeFloat16, writeFloat32, writeFloat64: fixed widths
WriteFixed(w, n) ==
  /\ WriterIdle
  /\ BeginWrite(WrittenChunks(MaskWord(w, n), n), NoBlockLeft, n)

\* writeVarNum: byte after byte
WriteVarNum(s) ==
  /\ WriterIdle
  /\ BeginWrite(ByteChunks(s), NoBlockLeft, Len(s))

\* writeBytes, writeString and writeBitBuffer: the length as a varsize, then the block
WriteBlock(s, bits) ==
  /\ WriterIdle
  /\ BeginWrite(ByteChunks(s), <<bits>>, Len(s) + Len(bits))

\* The padding that alignTo writes, counted in a uint8_t.
WriterAlignSkip(offset, a) == UInt8(a - offset)

\* alignTo: the padding is written by writeUnsignedBits64.
WriterAlignTo(a) ==
  LET offset == m_bitIndex % a
      skip == WriterAlignSkip(offset, a)
  IN  /\ WriterIdle
      /\ IF offset = 0 THEN BeginWrite(<<>>, NoBlockLeft, 0)
         ELSE IF skip \in 1..WideBits
         THEN BeginWrite(WrittenChunks(ZeroWord64, skip), NoBlockLeft, a - offset)
         ELSE RefuseWrite

\* Mutants of HasCapacity: the last bit of the buffer is not used, and the check is missing.
HasCapacityStrict(position) == hasWriteBuffer => position < m_bufferBitSize
HasCapacityAlways(position) == TRUE

\* checkCapacity, made only by a writer with a buffer
HasCapacity(position) == hasWriteBuffer => position =< m_bufferBitSize

WriterSetBitPosition(p) ==
  /\ writeStatus # "busy"
  /\ IF HasCapacity(p)
     THEN /\ m_bitIndex' = p
          /\ writeStatus' = "done"
          /\ put' = <<>>
          /\ goal' = p
          /\ stored' = {}
          /\ UNCHANGED <<m_buffer, m_bufferBitSize, hasWriteBuffer, chunksLeft, blockLeft, calls>>
     ELSE RefuseWrite

-------------------------------------------------------------------------------
(* The steps of an operation.                                              *)

\* The exception leaves the operation; what it wrote before stays written.
ThrowWrite ==
  /\ chunksLeft' = <<>>
  /\ blockLeft' = NoBlockLeft
  /\ writeStatus' = "thrown"
  /\ stored' = {}
  /\ UNCHANGED <<m_buffer, m_bufferBitSize, hasWriteBuffer, m_bitIndex, put, goal,
                 calls>>

\* One call of writeUnsignedBits32Impl.
WriteChunk ==
  LET c == Head(chunksLeft)
  IN  /\ writeStatus = "busy"
      /\ chunksLeft # <<>>
      /\ HasCapacity(m_bitIndex + c.bits)
      /\ IF hasWriteBuffer
         THEN /\ m_buffer' = [m_buffer EXCEPT !.bits = Patch(m_bitIndex, c.data, c.bits)]
              /\ stored' = StoredBytes(m_bitIndex, c.bits)
         ELSE /\ stored' = {}
              /\ UNCHANGED m_buffer
      /\ m_bitIndex' = m_bitIndex + c.bits
      /\ put' = put \o ChunkBits(c)
      /\ chunksLeft' = Tail(chunksLeft)
      /\ writeStatus' = IF Tail(chunksLeft) = <<>> /\ blockLeft = NoBlockLeft THEN "done" ELSE "busy"
      /\ UNCHANGED <<m_bufferBitSize, hasWriteBuffer, blockLeft, goal, calls>>

WriteChunkFails ==
  /\ writeStatus = "busy"
  /\ chunksLeft # <<>>
  /\ ~HasCapacity(m_bitIndex + Head(chunksLeft).bits)
  /\ ThrowWrite

BlockReached == writeStatus = "busy" /\ chunksLeft = <<>> /\ blockLeft # NoBlockLeft

\* A block that starts inside a byte is written byte by byte.
WriteBlockUnaligned ==
  LET chunks == ByteChunks(Head(blockLeft)) \o LastChunk(Head(blockLeft))
  IN  /\ BlockReached
      /\ m_bitIndex % ByteBits # 0
      /\ chunksLeft' = chunks
      /\ blockLeft' = NoBlockLeft
      /\ writeStatus' = IF chunks = <<>> THEN "done" ELSE "busy"
      /\ stored' = {}
      /\ UNCHANGED <<m_buffer, m_bufferBitSize, hasWriteBuffer, m_bitIndex, put, goal,
                 calls>>

\* A block that starts on a byte: setBitPosition to its end, then a copy.
WriteBlockAligned ==
  LET s == Head(blockLeft)
      numBits == (Len(s) \div ByteBits) * ByteBits
      end == m_bitIndex + numBits
  IN  /\ BlockReached
      /\ m_bitIndex % ByteBits = 0
      /\ HasCapacity(end)
      /\ IF hasWriteBuffer
         THEN /\ m_buffer' = [m_buffer EXCEPT !.bits =
                              [i \in DOMAIN m_buffer.bits |->
                                 IF i \in m_bitIndex..(end - 1)
                                 THEN s[i - m_bitIndex + 1] ELSE m_buffer.bits[i]]]
              /\ stored' = (m_bitIndex \div ByteBits)..(end \div ByteBits - 1)
         ELSE /\ stored' = {}
              /\ UNCHANGED m_buffer
      /\ m_bitIndex' = end
      /\ put' = put \o SubSeq(s, 1, numBits)
      /\ chunksLeft' = LastChunk(s)
      /\ blockLeft' = NoBlockLeft
      /\ writeStatus' = IF LastChunk(s) = <<>> THEN "done" ELSE "busy"
      /\ UNCHANGED <<m_bufferBitSize, hasWriteBuffer, goal, calls>>

WriteBlockFails ==
  /\ BlockReached
  /\ m_bitIndex % ByteBits = 0
  /\ ~HasCapacity(m_bitIndex + (Len(Head(blockLeft)) \div ByteBits) * ByteBits)
  /\ ThrowWrite

-------------------------------------------------------------------------------

\* The constructors: the buffer must hold all bits of the given bit size; a writer
\* constructed on a null pointer has no buffer, whatever span it was given.
WriterInit ==
  /\ m_buffer \in WriterBuffers
  /\ m_bufferBitSize \in WriterBitSizes
  /\ (m_bufferBitSize + 7) \div ByteBits =< m_buffer.bytes
  /\ hasWriteBuffer \in BOOLEAN
  /\ m_bitIndex = 0
  /\ chunksLeft = <<>>
  /\ blockLeft = NoBlockLeft
  /\ writeStatus = "done"
  /\ put = <<>>
  /\ goal = 0
  /\ stored = {}
  /\ calls = 0

WriterNext ==
  \/ \E w \in Words, n \in WrittenNumBits, width \in {NarrowBits, WideBits} :
       WriteUnsignedBits(w, n, width) \/ WriteSignedBits(w, n, width)
  \/ \E w \in Words, n \in {1, 16, 32, 64} : WriteFixed(w, n)
  \/ \E s \in VarNums : WriteVarNum(s) \/ \E bits \in Blocks : WriteBlock(s, bits)
  \/ \E a \in WriterAlignments : WriterAlignTo(a)
  \/ \E p \in WriterPositions : WriterSetBitPosition(p)
  \/ WriteChunk
  \/ WriteChunkFails
  \/ WriteBlockUnaligned
  \/ WriteBlockAligned
  \/ WriteBlockFails

WriterSpec == WriterInit /\ [][WriterNext]_writerVars

-------------------------------------------------------------------------------
(* Properties.                                                             *)

ChunkType == [data : Word32, bits : 1..NarrowBits]

WriterTypeOK ==
  /\ m_buffer = [bytes |-> m_buffer.bytes, bits |-> m_buffer.bits]
  /\ m_buffer.bytes \in Nat
  /\ m_buffer.bits \in [0..(m_buffer.bytes * ByteBits - 1) -> Bit]
  /\ m_bufferBitSize \in Nat
  /\ (m_bufferBitSize + 7) \div ByteBits =< m_buffer.bytes
  /\ hasWriteBuffer \in BOOLEAN
  /\ m_bitIndex \in Nat
  /\ chunksLeft \in Seq(ChunkType)
  /\ blockLeft \in Seq(Seq(Bit)) /\ Len(blockLeft) =< 1
  /\ writeStatus \in {"busy", "done", "thrown"}
  /\ put \in Seq(Bit)
  /\ goal \in Nat
  /\ stored \subseteq Int
  /\ calls \in 0..MaxCalls

\* No store touches a byte behind the buffer.
StoresInBounds == stored \subseteq 0..(m_buffer.bytes - 1)

\* An operation that returns has moved by the bit size of its argument, whether the
\* writer has a buffer or only measures, from any bit offset: the positions computed
\* without a buffer are those of the real write.
DoneAtGoal == writeStatus = "done" => m_bitIndex = goal

\* No store touches a byte behind the buffer of the writer, and a write that returns has moved by
\* the bit size of its argument, with a buffer or without.
StoresExact == StoresInBounds /\ DoneAtGoal

\* A write in progress throws only if it does not fit into the buffer as a whole, and
\* never without a buffer.
ThrowsOnlyIfFull ==
  [][writeStatus = "busy" /\ writeStatus' = "thrown"
       => hasWriteBuffer /\ goal > m_bufferBitSize]_writerVars

\* The writer, patching bytes, is an output of bits: every step of it puts the next bits
\* of the operation where the position is and changes no other bit, neither the neighbours
\* in the first and in the last byte nor the unused bits behind a bit size that is no
\* multiple of 8; an operation that throws halfway leaves a prefix of it behind; and a
\* writer with a buffer never gets behind its bit size.
Output == INSTANCE BitOutput WITH
  bits <- m_buffer.bits,
  size <- m_bufferBitSize,
  limited <- hasWriteBuffer,
  pos <- m_bitIndex

ImplementsOutput == Output!Spec
===============================================================================
