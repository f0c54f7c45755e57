---------------------------- MODULE BitStreamReader ----------------------------
(***************************************************************************)
(* zserio::BitStreamReader: a reader of a buffer of bits that keeps up to  *)
(* one machine word of the buffer in a cache.  Every public read is one or *)
(* more calls of readUnsignedBitsImpl ("chunks"), each of which may throw  *)
(* at the end of the buffer, so an operation is started by one action and  *)
(* makes one step per chunk.                                               *)
(*                                                                         *)
(* A machine word is a function from bit numbers (0 is the least           *)
(* significant) to bits.  The bits themselves are never inspected here, so *)
(* they may be any symbols.                                                *)
(***************************************************************************)
EXTENDS StreamBits

CONSTANTS
  WordBits,    \* width of BaseType: 64, or 32 without ZSERIO_RUNTIME_64BIT
  Buffers,     \* the byte buffers a reader may be constructed on
  BitSizes,    \* the bit sizes it may be constructed with
  NumBits,     \* the numBits arguments of the reads
  VarBytes,    \* the numbers of bytes of the variable-length numbers read
  BlockBits,   \* the lengths of byte arrays, strings and bit buffers, in bits
  Positions,   \* the arguments of setBitPosition
  Alignments,  \* the arguments of alignTo
  MaxIndex     \* bound: no operation starts behind this bit index

ASSUME WordBitsAssumption == WordBits \in {NarrowBits, WideBits}
ASSUME BuffersAssumption ==
  \A b \in Buffers : /\ b.bytes \in Nat
                     /\ b.bits \in [0..(b.bytes * ByteBits - 1) -> Bit]
ASSUME SizesAssumption == BitSizes \subseteq Nat
ASSUME ArgumentsAssumption ==
  /\ NumBits \subseteq 0..255
  /\ VarBytes \subseteq 1..9
  /\ BlockBits \subseteq Nat
  /\ Positions \subseteq Nat
  /\ Alignments \subseteq Nat \ {0}
  /\ MaxIndex \in Nat

VARIABLES
  buffer,        \* ReaderContext::buffer, [bytes, bits]
  bufferBitSize, \* ReaderContext::bufferBitSize
  ctx,           \* the mutable ReaderContext: bitIndex, cache, cacheNumBits
  todo,          \* the chunks the operation in progress has still to read
  block,         \* bit length of the block that follows them, or NoBlock
  status,        \* "busy", or how the last operation ended: "done", "thrown"
  got,           \* history: the bits read by the current operation
  lost,          \* history: a chunk failed and the caller did not reposition since
  last           \* history: value, width and bytes loaded of the last chunk

vars == <<buffer, bufferBitSize, ctx, todo, block, status, got, lost, last>>

NoBlock == -1

-------------------------------------------------------------------------------
(* Machine words.                                                          *)

Word == [0..(WordBits - 1) -> Bit]
ZeroWord == [i \in 0..(WordBits - 1) |-> ZeroBit]

\* w & MASK_TABLE[n]
Mask(w, n) == [i \in 0..(WordBits - 1) |-> IF i < n THEN w[i] ELSE ZeroBit]

\* w >> n and w << n, for n smaller than the width
ShiftRight(w, n) ==
  [i \in 0..(WordBits - 1) |-> IF i + n < WordBits THEN w[i + n] ELSE ZeroBit]
ShiftLeft(w, n) ==
  [i \in 0..(WordBits - 1) |-> IF i >= n THEN w[i - n] ELSE ZeroBit]

\* v | w, where no bit is set in both
Join(v, w) ==
  [i \in 0..(WordBits - 1) |-> IF v[i] = ZeroBit THEN w[i] ELSE v[i]]

\* The n least significant bits of w, most significant first.
LowBits(w, n) == [i \in 1..n |-> w[n - i]]

-------------------------------------------------------------------------------
(* The cache.                                                              *)

\* The bit of the buffer at offset i; a load outside the buffer is undefined
\* behaviour, which last.bytes exposes.
BitAt(i) == IF i \in DOMAIN buffer.bits THEN buffer.bits[i] ELSE ZeroBit

\* parse8 .. parse64: numBytes bytes from byteIndex, most significant first
Parse(byteIndex, numBytes) ==
  [i \in 0..(WordBits - 1) |->
     IF i < numBytes * ByteBits
     THEN BitAt((byteIndex + numBytes) * ByteBits - 1 - i)
     ELSE ZeroBit]

\* Mutant of AtEof: the last bit of the buffer is taken for its end.
AtEofEarly(c, n) ==
  /\ bufferBitSize < c.bitIndex + WordBits
  /\ c.bitIndex + n >= bufferBitSize

\* Does loadCacheNext reach throwEof when n more bits are needed?
AtEof(c, n) ==
  /\ bufferBitSize < c.bitIndex + WordBits
  /\ c.bitIndex + n > bufferBitSize

\* loadCacheNext when it does not throw: a whole word, or what is left of the
\* buffer moved down so that its last bit is bit 0.
LoadCacheNext(c) ==
  LET byteIndex == c.bitIndex \div ByteBits
      rest == bufferBitSize - c.bitIndex
      aligned == ((rest + 7) \div ByteBits) * ByteBits
  IN  IF bufferBitSize >= c.bitIndex + WordBits
      THEN [ctx |-> [c EXCEPT !.cache = Parse(byteIndex, WordBits \div ByteBits),
                              !.cacheNumBits = WordBits],
            bytes |-> byteIndex..(byteIndex + WordBits \div ByteBits - 1)]
      ELSE [ctx |-> [c EXCEPT !.cache = ShiftRight(Parse(byteIndex, aligned \div ByteBits),
                                                   aligned - rest),
                              !.cacheNumBits = rest],
            bytes |-> byteIndex..(byteIndex + aligned \div ByteBits - 1)]

\* Mutant of TakeBits: the wrong end of the cache.
TakeBitsLow(c, value, n, bytes) ==
  [eof |-> FALSE,
   value |-> Join(value, Mask(c.cache, n)),
   ctx |-> [c EXCEPT !.cacheNumBits = @ - n, !.bitIndex = @ + n],
   bytes |-> bytes]

\* The end of readUnsignedBitsImpl: n bits of the cache joined to value.
TakeBits(c, value, n, bytes) ==
  [eof |-> FALSE,
   value |-> Join(value, Mask(ShiftRight(c.cache, c.cacheNumBits - n), n)),
   ctx |-> [c EXCEPT !.cacheNumBits = @ - n, !.bitIndex = @ + n],
   bytes |-> bytes]

\* readUnsignedBitsImpl(c, n).  When it throws, bitIndex has already moved over
\* the cached bits while cacheNumBits still counts them.
ReadUnsignedBitsImpl(c, n) ==
  LET drained == [c EXCEPT !.bitIndex = @ + c.cacheNumBits]
      rest == n - c.cacheNumBits
      cached == Mask(c.cache, c.cacheNumBits)
      loaded == LoadCacheNext(drained)
  IN  IF c.cacheNumBits >= n
      THEN TakeBits(c, ZeroWord, n, {})
      ELSE IF AtEof(drained, rest)
      THEN [eof |-> TRUE, value |-> ZeroWord, ctx |-> drained, bytes |-> {}]
      ELSE TakeBits(loaded.ctx,
                    IF rest < WordBits THEN ShiftLeft(cached, rest) ELSE cached,
                    rest, loaded.bytes)

\* Mutant of SeekTo: the position is not rounded down to a byte.
SeekToBit(p) == [ctx |-> [ctx EXCEPT !.bitIndex = p, !.cacheNumBits = 0], bytes |-> {}]

\* setBitPosition(p) for a p inside the buffer: back to the byte, cache dropped,
\* the remaining bits skipped by a read.
SeekTo(p) ==
  LET base == [ctx EXCEPT !.bitIndex = (p \div ByteBits) * ByteBits,
                          !.cacheNumBits = 0]
      skip == p % ByteBits
  IN  IF skip = 0
      THEN [ctx |-> base, bytes |-> {}]
      ELSE LET r == ReadUnsignedBitsImpl(base, skip)
           IN  [ctx |-> r.ctx, bytes |-> r.bytes]

-------------------------------------------------------------------------------
(* Starting an operation.                                                  *)

Idle == status # "busy" /\ ctx.bitIndex =< MaxIndex

Begin(chunks, blockBits) ==
  /\ todo' = chunks
  /\ block' = blockBits
  /\ status' = IF chunks = <<>> /\ blockBits = NoBlock THEN "done" ELSE "busy"
  /\ got' = <<>>
  /\ UNCHANGED <<buffer, bufferBitSize, ctx, lost, last>>

\* A call refused by its argument check: it throws before it reads anything.
Refuse ==
  /\ todo' = <<>>
  /\ block' = NoBlock
  /\ status' = "thrown"
  /\ got' = <<>>
  /\ UNCHANGED <<buffer, bufferBitSize, ctx, lost, last>>

\* Mutant of WideChunks: no split on 32-bit targets.
WideChunksWhole(n) == <<n>>

\* The chunks readUnsignedBits64 reads: two for a 64-bit value on 32-bit targets.
WideChunks(n) == IF n =< WordBits THEN <<n>> ELSE <<NarrowBits, n - NarrowBits>>

\* readUnsignedBits32, readSignedBits32
ReadBits32(n) ==
  /\ Idle
  /\ IF n \in 1..NarrowBits THEN Begin(<<n>>, NoBlock) ELSE Refuse

\* readUnsignedBits64, readSignedBits64
ReadBits64(n) ==
  /\ Idle
  /\ IF n \in 1..WideBits THEN Begin(WideChunks(n), NoBlock) ELSE Refuse

\* readBool, readFloat16, readFloat32, readFloat64: fixed widths, no check
ReadFixed(n) ==
  /\ Idle
  /\ Begin(WideChunks(n), NoBlock)

\* readVarInt16 .. readVarSize: byte after byte; whether another byte follows is
\* told by the byte just read, here by the number k of bytes.
ReadVarNum(k) ==
  /\ Idle
  /\ Begin([i \in 1..k |-> ByteBits], NoBlock)

\* readBytes, readString (n a multiple of 8) and readBitBuffer: a varsize of k
\* bytes that gives the length n of the block that follows it.
ReadBlock(k, n) ==
  /\ Idle
  /\ Begin([i \in 1..k |-> ByteBits], n)

\* The padding that alignTo reads, counted in a uint8_t.
AlignSkip(offset, a) == UInt8(a - offset)

\* alignTo: the padding is read by readUnsignedBits64.
AlignTo(a) ==
  LET offset == ctx.bitIndex % a
      skip == AlignSkip(offset, a)
  IN  /\ Idle
      /\ IF offset = 0 THEN Begin(<<>>, NoBlock)
         ELSE IF skip \in 1..WideBits THEN Begin(WideChunks(skip), NoBlock)
         ELSE Refuse

SetBitPosition(p) ==
  /\ status # "busy"
  /\ IF p > bufferBitSize
     THEN Refuse
     ELSE LET s == SeekTo(p)
          IN  /\ ctx' = s.ctx
              /\ last' = [last EXCEPT !.bytes = s.bytes]
              /\ lost' = FALSE
              /\ got' = <<>>
              /\ status' = "done"
              /\ UNCHANGED <<buffer, bufferBitSize, todo, block>>

-------------------------------------------------------------------------------
(* The steps of an operation.                                              *)

\* One call of readUnsignedBitsImpl; at the end of the buffer the exception
\* leaves the operation.
ReadChunk ==
  LET n == Head(todo)
      r == ReadUnsignedBitsImpl(ctx, n)
  IN  /\ status = "busy"
      /\ todo # <<>>
      /\ ctx' = r.ctx
      /\ last' = [value |-> r.value, bits |-> n, bytes |-> r.bytes]
      /\ \/ /\ ~r.eof
            /\ got' = got \o LowBits(r.value, n)
            /\ todo' = Tail(todo)
            /\ status' = IF Tail(todo) = <<>> /\ block = NoBlock THEN "done" ELSE "busy"
            /\ UNCHANGED <<block, lost>>
         \/ /\ r.eof
            /\ todo' = <<>>
            /\ block' = NoBlock
            /\ status' = "thrown"
            /\ lost' = TRUE
            /\ UNCHANGED got
      /\ UNCHANGED <<buffer, bufferBitSize>>

\* A block that does not fit into the rest of the buffer is refused.
RefuseBlock ==
  /\ status = "busy"
  /\ todo = <<>>
  /\ block # NoBlock
  /\ ctx.bitIndex + block > bufferBitSize
  /\ block' = NoBlock
  /\ status' = "thrown"
  /\ UNCHANGED <<buffer, bufferBitSize, ctx, todo, got, lost, last>>

\* The chunk that holds the last bits of a bit buffer, if there are any.
RestChunk(n) == IF n % ByteBits = 0 THEN <<>> ELSE <<n % ByteBits>>

\* A block that starts inside a byte is read byte by byte.
ReadBlockUnaligned ==
  LET chunks == [i \in 1..(block \div ByteBits) |-> ByteBits] \o RestChunk(block)
  IN  /\ status = "busy"
      /\ todo = <<>>
      /\ block # NoBlock
      /\ ctx.bitIndex + block =< bufferBitSize
      /\ ctx.bitIndex % ByteBits # 0
      /\ todo' = chunks
      /\ block' = NoBlock
      /\ status' = IF chunks = <<>> THEN "done" ELSE "busy"
      /\ UNCHANGED <<buffer, bufferBitSize, ctx, got, lost, last>>

\* A block that starts on a byte is skipped by setBitPosition and copied.
ReadBlockAligned ==
  LET numBits == (block \div ByteBits) * ByteBits
      s == SeekTo(ctx.bitIndex + numBits)
  IN  /\ status = "busy"
      /\ todo = <<>>
      /\ block # NoBlock
      /\ ctx.bitIndex + block =< bufferBitSize
      /\ ctx.bitIndex % ByteBits = 0
      /\ ctx' = s.ctx
      /\ last' = [last EXCEPT !.bytes =
                    (ctx.bitIndex \div ByteBits)..((ctx.bitIndex + numBits) \div ByteBits - 1)]
      /\ got' = got \o [i \in 1..numBits |-> BitAt(ctx.bitIndex + i - 1)]
      /\ todo' = RestChunk(block)
      /\ block' = NoBlock
      /\ status' = IF RestChunk(block) = <<>> THEN "done" ELSE "busy"
      /\ UNCHANGED <<buffer, bufferBitSize, lost>>

-------------------------------------------------------------------------------

Context == [bitIndex : Nat, cache : Word, cacheNumBits : 0..WordBits]

\* Mutant of BufferHoldsBits: the check is missing.
BufferHoldsAnything == TRUE

\* The check of the constructors: the buffer must hold all bits of the given bit size.
BufferHoldsBits == (bufferBitSize + 7) \div ByteBits =< buffer.bytes

Init ==
  /\ buffer \in Buffers
  /\ bufferBitSize \in BitSizes
  /\ BufferHoldsBits
  /\ ctx = [bitIndex |-> 0, cache |-> ZeroWord, cacheNumBits |-> 0]
  /\ todo = <<>>
  /\ block = NoBlock
  /\ status = "done"
  /\ got = <<>>
  /\ lost = FALSE
  /\ last = [value |-> ZeroWord, bits |-> 0, bytes |-> {}]

Next ==
  \/ \E n \in NumBits : ReadBits32(n) \/ ReadBits64(n)
  \/ \E n \in {1, 16, 32, 64} : ReadFixed(n)
  \/ \E k \in VarBytes : ReadVarNum(k) \/ \E n \in BlockBits : ReadBlock(k, n)
  \/ \E a \in Alignments : AlignTo(a)
  \/ \E p \in Positions : SetBitPosition(p)
  \/ ReadChunk
  \/ RefuseBlock
  \/ ReadBlockUnaligned
  \/ ReadBlockAligned

Spec == Init /\ [][Next]_vars

-------------------------------------------------------------------------------
(* Properties.                                                             *)

TypeOK ==
  /\ buffer \in Buffers
  /\ bufferBitSize \in BitSizes
  /\ (bufferBitSize + 7) \div ByteBits =< buffer.bytes
  /\ ctx \in Context
  /\ todo \in Seq(1..WordBits)
  /\ block \in Nat \cup {NoBlock}
  /\ status \in {"busy", "done", "thrown"}
  /\ got \in Seq(Bit)
  /\ lost \in BOOLEAN
  /\ last \in [value : Word, bits : 0..WordBits, bytes : SUBSET Int]

\* The cached bits of context c are the bits of the buffer that start at its bitIndex.
Coherent(c) ==
  \A j \in 0..(c.cacheNumBits - 1) : c.cache[j] = BitAt(c.bitIndex + c.cacheNumBits - 1 - j)

\* The cache of context c ends inside the buffer, on a byte or at the very end.
EndsOnByte(c) ==
  LET end == c.bitIndex + c.cacheNumBits
  IN  /\ end =< bufferBitSize
      /\ end % ByteBits = 0 \/ end = bufferBitSize

\* The cache agrees with the buffer, whatever sequence of reads, blocks, alignments
\* and jumps led here.
CacheCoherent == ~lost => Coherent(ctx)

\* The next load starts on a byte, which loadCacheNext takes for granted.
CacheEndsOnByte == ~lost => EndsOnByte(ctx)

\* No load touches a byte behind the buffer, also when the reader is used after
\* an end-of-file exception, and also when the bit size is no multiple of 8.
LoadsInBounds == last.bytes \subseteq 0..(buffer.bytes - 1)

\* What an operation has handed out is exactly the part of the buffer in front of
\* the current position: nothing is skipped, repeated or reordered where a read
\* spans two cache words, and readBytes, readString and readBitBuffer give the
\* same bits on the copying and on the bit-by-bit path.
GotExact ==
  ~lost => /\ Len(got) =< ctx.bitIndex
           /\ \A i \in 1..Len(got) : got[i] = BitAt(ctx.bitIndex - Len(got) + i - 1)

\* The value of a chunk of n bits has no bit set above bit n - 1, although the
\* cache it is taken from holds up to a whole word.
NoBitAbove ==
  \A i \in 0..(WordBits - 1) : i >= last.bits => last.value[i] = ZeroBit

\* A chunk throws if and only if fewer bits are left than it asks for; the fast
\* path of loadCacheNext that checks nothing is never taken too far.
EofExact ==
  [][status = "busy" /\ todo # <<>> /\ ~lost
       => (status' = "thrown" <=> ctx.bitIndex + Head(todo) > bufferBitSize)]_vars

\* The reader with its cache is an input of bits: every step of it delivers the
\* next bits of the buffer, runs off its end, or moves the position.
Input == INSTANCE BitInput WITH
  MaxChunk <- WideBits,
  bits <- [i \in 0..(bufferBitSize - 1) |-> BitAt(i)],
  size <- bufferBitSize,
  pos <- ctx.bitIndex,
  out <- got,
  valid <- ~lost

ImplementsInput == Input!Spec
===============================================================================
