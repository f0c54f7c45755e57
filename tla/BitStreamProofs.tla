---------------------------- MODULE BitStreamProofs ---------------------------
(***************************************************************************)
(* Proofs about BitStreamReader, for both word sizes, every buffer and     *)
(* every bit size, about BitStreamWriter, for any buffer, any words,       *)
(* widths, variable-length numbers and blocks, any jumps and alignments    *)
(* and any number of calls, and about the numbers of variable length, for  *)
(* any numbers and any bytes.                                              *)
(***************************************************************************)
EXTENDS MCBitStreams, TLAPS

(***************************************************************************)
(* The reader.                                                             *)
(***************************************************************************)

\* What the lemmas need of the state: a buffer that holds bufferBitSize bits.
BufferOK ==
  /\ buffer \in Buffers
  /\ bufferBitSize \in Nat
  /\ (bufferBitSize + 7) \div ByteBits =< buffer.bytes

\* No bit of w is set from bit n upwards.
ZeroFrom(w, n) == \A i \in 0..(WordBits - 1) : i >= n => w[i] = ZeroBit

\* The words of the model are closed under the shifts and masks of the code.
LEMMA WordOperators ==
  ASSUME NEW w \in Word, NEW n \in Nat
  PROVE  Mask(w, n) \in Word /\ ShiftRight(w, n) \in Word /\ ShiftLeft(w, n) \in Word
BY WordBitsAssumption, BitAssumption, SMT
   DEF Word, Mask, ShiftRight, ShiftLeft, NarrowBits, WideBits

\* Joining two words gives a word.
LEMMA JoinType ==
  ASSUME NEW v \in Word, NEW w \in Word
  PROVE  Join(v, w) \in Word
BY DEF Word, Join

\* The word without bits is a word.
LEMMA ZeroWordType ==
  ZeroWord \in Word /\ \A i \in 0..(WordBits - 1) : ZeroWord[i] = ZeroBit
BY BitAssumption DEF Word, ZeroWord

\* The buffer is a string of symbols of the stream.
LEMMA BitAtType ==
  ASSUME BufferOK, NEW i \in Int
  PROVE  BitAt(i) \in Bit
BY BuffersAssumption, BitAssumption DEF BufferOK, BitAt, ByteBits

\* Whatever bytes are parsed, the result is a word.
LEMMA ParseType ==
  ASSUME BufferOK, NEW q \in Nat, NEW k \in Nat
  PROVE  Parse(q, k) \in Word
<1>1. \A i \in 0..(WordBits - 1) : (q + k) * ByteBits - 1 - i \in Int
  BY WordBitsAssumption DEF ByteBits, NarrowBits, WideBits
<1> QED
  BY <1>1, BitAtType, BitAssumption DEF Parse, Word

\* A context with a new cache is a context.
LEMMA NewCache ==
  ASSUME NEW c \in Context, NEW w \in Word, NEW k \in 0..WordBits
  PROVE  [c EXCEPT !.cache = w, !.cacheNumBits = k] \in Context
BY DEF Context

\* So is a context with new counts.
LEMMA NewCounts ==
  ASSUME NEW c \in Context, NEW k \in 0..WordBits, NEW p \in Nat
  PROVE  /\ [c EXCEPT !.cacheNumBits = k, !.bitIndex = p] \in Context
         /\ [c EXCEPT !.bitIndex = p, !.cacheNumBits = k] \in Context
BY DEF Context

\* Rounding up to whole bytes.
LEMMA RoundUp ==
  ASSUME NEW r \in Nat, NEW a, a = ((r + 7) \div 8) * 8
  PROVE  /\ a \in Nat
         /\ a \div 8 \in Nat
         /\ (a \div 8) * 8 = a
         /\ a \div 8 = (r + 7) \div 8
         /\ a - r \in 0..7
<1>1. (r + 7) \div 8 \in Nat
  OBVIOUS
<1>2. \A m \in Nat : (m * 8) \div 8 = m
  OBVIOUS
<1> QED
  BY <1>1, <1>2

\* loadCacheNext, when it does not throw, leaves at least the requested bits in the
\* cache and reads no byte behind the buffer, from any bit index; from a byte
\* boundary, what it caches are the bits of the buffer.
LEMMA Load ==
  ASSUME BufferOK, NEW c \in Context, NEW n \in 1..WordBits, ~AtEof(c, n)
  PROVE  LET l == LoadCacheNext(c)
         IN  /\ l.ctx \in Context
             /\ l.ctx.bitIndex = c.bitIndex
             /\ l.ctx.cacheNumBits >= n
             /\ c.bitIndex + l.ctx.cacheNumBits =< bufferBitSize
             /\ l.bytes \subseteq 0..(buffer.bytes - 1)
             /\ c.bitIndex % ByteBits = 0 => Coherent(l.ctx) /\ EndsOnByte(l.ctx)
<1> DEFINE l == LoadCacheNext(c)
           q == c.bitIndex \div ByteBits
           rest == bufferBitSize - c.bitIndex
           aligned == ((rest + 7) \div ByteBits) * ByteBits
<1>0. /\ WordBits \in {32, 64}
      /\ c.bitIndex \in Nat
      /\ q \in Nat
      /\ buffer.bytes \in Nat
      /\ bufferBitSize \in Nat
      /\ (bufferBitSize + 7) \div 8 =< buffer.bytes
  BY WordBitsAssumption, BuffersAssumption DEF NarrowBits, WideBits, Context, BufferOK, ByteBits
<1>1. CASE bufferBitSize >= c.bitIndex + WordBits
  <2>1. /\ l.ctx = [c EXCEPT !.cache = Parse(q, WordBits \div ByteBits),
                             !.cacheNumBits = WordBits]
        /\ l.bytes = q..(q + WordBits \div ByteBits - 1)
    BY <1>1 DEF LoadCacheNext
  <2>2. WordBits \div ByteBits \in Nat /\ (WordBits \div ByteBits) * 8 = WordBits
    BY <1>0 DEF ByteBits
  <2>3. Parse(q, WordBits \div ByteBits) \in Word
    BY <1>0, <2>2, ParseType
  <2>4. l.ctx \in Context
    <3>1. WordBits \in 0..WordBits
      BY <1>0
    <3>2. [c EXCEPT !.cache = Parse(q, WordBits \div ByteBits),
                    !.cacheNumBits = WordBits] \in Context
      BY <2>3, <3>1, NewCache
    <3> QED
      BY <2>1, <3>2
  <2>5. l.ctx.bitIndex = c.bitIndex /\ l.ctx.cacheNumBits = WordBits
    BY <2>1 DEF Context
  <2>6. l.bytes \subseteq 0..(buffer.bytes - 1)
    <3>1. q + WordBits \div ByteBits =< buffer.bytes
      BY <1>0, <1>1, <2>2 DEF ByteBits
    <3> QED
      BY <1>0, <2>1, <2>2, <3>1
  <2>7. ASSUME c.bitIndex % ByteBits = 0 PROVE Coherent(l.ctx) /\ EndsOnByte(l.ctx)
    <3>1. q * 8 = c.bitIndex
      BY <1>0, <2>7 DEF ByteBits
    <3>2. ASSUME NEW j \in 0..(WordBits - 1)
          PROVE  l.ctx.cache[j] = BitAt(c.bitIndex + WordBits - 1 - j)
      <4>1. l.ctx.cache = Parse(q, WordBits \div ByteBits)
        BY <2>1 DEF Context
      <4>2. /\ j < (WordBits \div ByteBits) * ByteBits
            /\ (q + WordBits \div ByteBits) * ByteBits - 1 - j = c.bitIndex + WordBits - 1 - j
        BY <1>0, <2>2, <3>1, <3>2 DEF ByteBits
      <4> QED
        BY <4>1, <4>2, <3>2 DEF Parse
    <3>3. (c.bitIndex + WordBits) % 8 = 0
      BY <1>0, <2>7 DEF ByteBits
    <3> QED
      BY <1>1, <2>5, <3>2, <3>3 DEF Coherent, EndsOnByte, ByteBits
  <2> QED
    BY <1>0, <1>1, <2>4, <2>5, <2>6, <2>7
<1>2. CASE ~(bufferBitSize >= c.bitIndex + WordBits)
  <2>1. /\ l.ctx = [c EXCEPT !.cache = ShiftRight(Parse(q, aligned \div ByteBits), aligned - rest),
                             !.cacheNumBits = rest]
        /\ l.bytes = q..(q + aligned \div ByteBits - 1)
    BY <1>2 DEF LoadCacheNext
  <2>2. rest \in 1..(WordBits - 1) /\ rest >= n
    BY <1>0, <1>2 DEF AtEof
  <2>3. /\ aligned \in Nat
        /\ aligned \div ByteBits \in Nat
        /\ (aligned \div ByteBits) * 8 = aligned
        /\ aligned \div ByteBits = (rest + 7) \div 8
        /\ aligned - rest \in 0..7
        /\ aligned =< WordBits
    <3>1. rest \in Nat /\ aligned = ((rest + 7) \div 8) * 8
      BY <2>2 DEF ByteBits
    <3>2. /\ aligned \in Nat
          /\ aligned \div 8 \in Nat
          /\ (aligned \div 8) * 8 = aligned
          /\ aligned \div 8 = (rest + 7) \div 8
          /\ aligned - rest \in 0..7
      BY <3>1, RoundUp
    <3> HIDE DEF aligned
    <3> QED
      BY <1>0, <2>2, <3>2 DEF ByteBits
  <2>4. ShiftRight(Parse(q, aligned \div ByteBits), aligned - rest) \in Word
    <3>1. Parse(q, aligned \div ByteBits) \in Word
      BY <1>0, <2>3, ParseType
    <3>2. aligned - rest \in Nat
      BY <2>3
    <3> QED
      BY <3>1, <3>2, WordOperators
  <2>5. l.ctx \in Context
    <3>1. rest \in 0..WordBits
      BY <1>0, <2>2
    <3>2. [c EXCEPT !.cache = ShiftRight(Parse(q, aligned \div ByteBits), aligned - rest),
                    !.cacheNumBits = rest] \in Context
      BY <2>4, <3>1, NewCache
    <3> QED
      BY <2>1, <3>2
  <2>6. l.ctx.bitIndex = c.bitIndex /\ l.ctx.cacheNumBits = rest
    BY <2>1 DEF Context
  <2>7. l.bytes \subseteq 0..(buffer.bytes - 1)
    <3>1. q + aligned \div ByteBits =< buffer.bytes
      <4> HIDE DEF aligned
      <4> QED
        BY <1>0, <2>2, <2>3 DEF ByteBits
    <3>2. l.bytes = q..(q + aligned \div ByteBits - 1)
      BY <2>1
    <3>3. aligned \div ByteBits \in Nat
      BY <2>3
    <3> HIDE DEF q, aligned, l
    <3> QED
      BY <1>0, <3>1, <3>2, <3>3
  <2>8. ASSUME c.bitIndex % ByteBits = 0 PROVE Coherent(l.ctx)
    <3>1. q * 8 = c.bitIndex
      BY <1>0, <2>8 DEF ByteBits
    <3>2. ASSUME NEW j \in 0..(rest - 1)
          PROVE  l.ctx.cache[j] = BitAt(c.bitIndex + rest - 1 - j)
      <4> DEFINE i == j + (aligned - rest)
      <4>1. l.ctx.cache = ShiftRight(Parse(q, aligned \div ByteBits), aligned - rest)
        BY <2>1 DEF Context
      <4>2. /\ i \in 0..(WordBits - 1)
            /\ i < (aligned \div ByteBits) * ByteBits
            /\ j \in 0..(WordBits - 1)
            /\ (q + aligned \div ByteBits) * ByteBits - 1 - i = c.bitIndex + rest - 1 - j
        <5> HIDE DEF aligned, q
        <5> QED
          BY <1>0, <2>2, <2>3, <3>1, <3>2 DEF ByteBits
      <4>3. Parse(q, aligned \div ByteBits)[i] = BitAt(c.bitIndex + rest - 1 - j)
        BY <4>2 DEF Parse
      <4>4. l.ctx.cache[j] = Parse(q, aligned \div ByteBits)[i]
        <5> HIDE DEF aligned, rest, q
        <5> QED
          BY <1>0, <2>3, <4>1, <4>2 DEF ShiftRight
      <4> QED
        BY <4>3, <4>4
    <3> QED
      BY <2>6, <3>2 DEF Coherent
  <2>9. EndsOnByte(l.ctx) /\ c.bitIndex + l.ctx.cacheNumBits =< bufferBitSize
    BY <1>0, <2>6 DEF EndsOnByte
  <2> QED
    BY <1>0, <2>2, <2>5, <2>6, <2>7, <2>8, <2>9
<1> QED
  BY <1>1, <1>2

\* The end of readUnsignedBitsImpl: the last m bits of a value of n bits.
LEMMA Take ==
  ASSUME NEW d \in Context, NEW v \in Word, NEW m \in 1..WordBits, NEW n \in 1..WordBits,
         NEW bytes \in SUBSET Int, m =< d.cacheNumBits, m =< n, ZeroFrom(v, n)
  PROVE  /\ TakeBits(d, v, m, bytes).ctx \in Context
         /\ TakeBits(d, v, m, bytes).value \in Word
         /\ ~TakeBits(d, v, m, bytes).eof
         /\ TakeBits(d, v, m, bytes).bytes = bytes
         /\ ZeroFrom(TakeBits(d, v, m, bytes).value, n)
         /\ TakeBits(d, v, m, bytes).ctx.bitIndex = d.bitIndex + m
<1> DEFINE w == Mask(ShiftRight(d.cache, d.cacheNumBits - m), m)
           t == TakeBits(d, v, m, bytes)
<1>1. /\ WordBits \in {32, 64}
      /\ d.cache \in Word
      /\ d.cacheNumBits \in 0..WordBits
      /\ d.bitIndex \in Nat
      /\ d.cacheNumBits - m \in 0..WordBits
      /\ d.cacheNumBits - m \in Nat
      /\ m \in Nat
      /\ d.bitIndex + m \in Nat
  BY WordBitsAssumption DEF NarrowBits, WideBits, Context
<1>2. ShiftRight(d.cache, d.cacheNumBits - m) \in Word
  BY <1>1, WordOperators
<1>3. w \in Word
  BY <1>1, <1>2, WordOperators
<1>4. Join(v, w) \in Word
  BY <1>3, JoinType
<1>5. ASSUME NEW i \in 0..(WordBits - 1), i >= n
      PROVE  Join(v, w)[i] = ZeroBit
  <2>1. v[i] = ZeroBit
    BY <1>5 DEF ZeroFrom
  <2>2. w[i] = ZeroBit
    BY <1>1, <1>5 DEF Mask
  <2> QED
    BY <2>1, <2>2, <1>5 DEF Join
<1>6. t.ctx = [d EXCEPT !.cacheNumBits = @ - m, !.bitIndex = @ + m]
  BY DEF TakeBits
<1>7. [d EXCEPT !.cacheNumBits = @ - m, !.bitIndex = @ + m] \in Context
  BY <1>1, NewCounts
<1>8. t.value = Join(v, w) /\ ~t.eof /\ t.bytes = bytes
  BY DEF TakeBits
<1>9. t.ctx.bitIndex = d.bitIndex + m
  BY <1>1, <1>6 DEF Context
<1> QED
  BY <1>4, <1>5, <1>6, <1>7, <1>8, <1>9 DEF ZeroFrom

\* readUnsignedBitsImpl from any context: whatever happens, no bit is set above the n
\* requested ones and no byte behind the buffer is read; it moves by n bits.
LEMMA ChunkTypes ==
  ASSUME BufferOK, NEW c \in Context, NEW n \in 1..WordBits
  PROVE  /\ ReadUnsignedBitsImpl(c, n).ctx \in Context
         /\ ReadUnsignedBitsImpl(c, n).value \in Word
         /\ ReadUnsignedBitsImpl(c, n).bytes \subseteq 0..(buffer.bytes - 1)
         /\ ZeroFrom(ReadUnsignedBitsImpl(c, n).value, n)
         /\ ~ReadUnsignedBitsImpl(c, n).eof
              => ReadUnsignedBitsImpl(c, n).ctx.bitIndex = c.bitIndex + n
<1> DEFINE drained == [c EXCEPT !.bitIndex = @ + c.cacheNumBits]
           rest == n - c.cacheNumBits
           cached == Mask(c.cache, c.cacheNumBits)
           loaded == LoadCacheNext(drained)
           r == ReadUnsignedBitsImpl(c, n)
<1>0. /\ WordBits \in {32, 64}
      /\ c.bitIndex \in Nat
      /\ c.cache \in Word
      /\ c.cacheNumBits \in 0..WordBits
      /\ buffer.bytes \in Nat
  BY WordBitsAssumption, BuffersAssumption DEF NarrowBits, WideBits, Context, BufferOK
<1>2. drained \in Context /\ drained.bitIndex = c.bitIndex + c.cacheNumBits
  BY <1>0 DEF Context
<1>3. CASE c.cacheNumBits >= n
  <2>1. r = TakeBits(c, ZeroWord, n, {})
    BY <1>3 DEF ReadUnsignedBitsImpl
  <2>2. ZeroFrom(ZeroWord, n)
    BY ZeroWordType DEF ZeroFrom
  <2>3. /\ r.ctx \in Context
        /\ r.value \in Word
        /\ ~r.eof
        /\ r.bytes = {}
        /\ ZeroFrom(r.value, n)
        /\ r.ctx.bitIndex = c.bitIndex + n
    <3>1. n =< c.cacheNumBits /\ n =< n /\ {} \in SUBSET Int
      BY <1>0, <1>3
    <3> DEFINE t == TakeBits(c, ZeroWord, n, {})
    <3>2. /\ t.ctx \in Context
          /\ t.value \in Word
          /\ ~t.eof
          /\ t.bytes = {}
          /\ ZeroFrom(t.value, n)
          /\ t.ctx.bitIndex = c.bitIndex + n
      BY <2>2, <3>1, ZeroWordType, Take
    <3> HIDE DEF r
    <3> QED
      BY <2>1, <3>2
  <2> QED
    BY <1>0, <2>3
<1>4. CASE c.cacheNumBits < n /\ AtEof(drained, rest)
  <2>1. r = [eof |-> TRUE, value |-> ZeroWord, ctx |-> drained, bytes |-> {}]
    BY <1>0, <1>4 DEF ReadUnsignedBitsImpl
  <2>2. /\ r.ctx \in Context
        /\ r.value \in Word
        /\ r.eof
        /\ r.bytes = {}
        /\ ZeroFrom(r.value, n)
    BY <1>2, <2>1, ZeroWordType DEF ZeroFrom
  <2> QED
    BY <2>2
<1>5. CASE c.cacheNumBits < n /\ ~AtEof(drained, rest)
  <2> DEFINE v == IF rest < WordBits THEN ShiftLeft(cached, rest) ELSE cached
  <2>1. /\ rest \in 1..WordBits
        /\ rest \in Nat
        /\ rest + c.cacheNumBits = n
    BY <1>0, <1>5
  <2>2. /\ loaded.ctx \in Context
        /\ loaded.ctx.bitIndex = c.bitIndex + c.cacheNumBits
        /\ loaded.ctx.cacheNumBits >= rest
        /\ loaded.bytes \subseteq 0..(buffer.bytes - 1)
    BY <1>2, <1>5, <2>1, Load
  <2>3. cached \in Word
    BY <1>0, WordOperators
  <2>4. v \in Word
    <3>1. ShiftLeft(cached, rest) \in Word
      BY <2>1, <2>3, WordOperators
    <3> QED
      BY <2>3, <3>1
  <2>5. ZeroFrom(v, n)
    BY <1>0, <2>1 DEF ShiftLeft, Mask, ZeroFrom
  <2>6. r = TakeBits(loaded.ctx, v, rest, loaded.bytes)
    BY <1>0, <1>5 DEF ReadUnsignedBitsImpl
  <2>7. /\ r.ctx \in Context
        /\ r.value \in Word
        /\ ~r.eof
        /\ r.bytes = loaded.bytes
        /\ ZeroFrom(r.value, n)
        /\ r.ctx.bitIndex = loaded.ctx.bitIndex + rest
    <3> HIDE DEF r, v, loaded, rest
    <3>1. rest =< loaded.ctx.cacheNumBits
      BY <2>1, <2>2 DEF Context
    <3>2. rest =< n
      BY <1>0, <2>1
    <3> DEFINE t == TakeBits(loaded.ctx, v, rest, loaded.bytes)
    <3>3. /\ t.ctx \in Context
          /\ t.value \in Word
          /\ ~t.eof
          /\ t.bytes = loaded.bytes
          /\ ZeroFrom(t.value, n)
          /\ t.ctx.bitIndex = loaded.ctx.bitIndex + rest
      <4>1. loaded.bytes \in SUBSET Int
        BY <1>0, <2>2
      <4> QED
        BY <2>1, <2>2, <2>4, <2>5, <3>1, <3>2, <4>1, Take
    <3> QED
      BY <2>6, <3>3
  <2>8. r.ctx.bitIndex = c.bitIndex + n
    BY <1>0, <2>1, <2>2, <2>7
  <2> QED
    BY <2>1, <2>2, <2>7, <2>8
<1> QED
  BY <1>0, <1>3, <1>4, <1>5

\* Taking the last m bits of a value of n bits from a coherent cache gives the value
\* the right bits and leaves the cache coherent.
LEMMA TakeExact ==
  ASSUME BufferOK, NEW d \in Context, NEW v \in Word, NEW m \in 1..WordBits,
         NEW n \in 1..WordBits, NEW bytes \in SUBSET Int,
         m =< d.cacheNumBits, m =< n, Coherent(d), EndsOnByte(d),
         \A p \in 0..(m - 1) : v[p] = ZeroBit,
         \A p \in m..(n - 1) : v[p] = BitAt(d.bitIndex + m - 1 - p)
  PROVE  /\ Coherent(TakeBits(d, v, m, bytes).ctx)
         /\ EndsOnByte(TakeBits(d, v, m, bytes).ctx)
         /\ \A p \in 0..(n - 1) :
              TakeBits(d, v, m, bytes).value[p] = BitAt(d.bitIndex + m - 1 - p)
<1> DEFINE s == ShiftRight(d.cache, d.cacheNumBits - m)
           w == Mask(s, m)
           t == TakeBits(d, v, m, bytes)
<1>1. /\ WordBits \in {32, 64}
      /\ d.cache \in Word
      /\ d.cacheNumBits \in 0..WordBits
      /\ d.bitIndex \in Nat
      /\ d.cacheNumBits - m \in 0..WordBits
  BY WordBitsAssumption DEF NarrowBits, WideBits, Context
<1>2. t.ctx = [d EXCEPT !.cacheNumBits = @ - m, !.bitIndex = @ + m] /\ t.value = Join(v, w)
  BY DEF TakeBits
<1>3. /\ t.ctx.bitIndex = d.bitIndex + m
      /\ t.ctx.cacheNumBits = d.cacheNumBits - m
      /\ t.ctx.cache = d.cache
  BY <1>2 DEF Context
<1>4. Coherent(t.ctx)
  <2>1. ASSUME NEW j \in 0..(d.cacheNumBits - m - 1)
        PROVE  d.cache[j] = BitAt(d.bitIndex + m + (d.cacheNumBits - m) - 1 - j)
    <3>1. j \in 0..(d.cacheNumBits - 1)
      BY <1>1
    <3>2. d.bitIndex + m + (d.cacheNumBits - m) - 1 - j = d.bitIndex + d.cacheNumBits - 1 - j
      BY <1>1
    <3> QED
      BY <3>1, <3>2 DEF Coherent
  <2> HIDE DEF t
  <2> QED
    BY <1>3, <2>1 DEF Coherent
<1>5. EndsOnByte(t.ctx)
  <2>1. d.bitIndex + m + (d.cacheNumBits - m) = d.bitIndex + d.cacheNumBits
    BY <1>1
  <2> HIDE DEF t
  <2> QED
    BY <1>3, <2>1 DEF EndsOnByte
<1>6. ASSUME NEW p \in 0..(n - 1)
      PROVE  t.value[p] = BitAt(d.bitIndex + m - 1 - p)
  <2>1. p \in 0..(WordBits - 1)
    BY <1>1
  <2>2. t.value[p] = IF v[p] = ZeroBit THEN w[p] ELSE v[p]
    BY <1>2, <2>1 DEF Join
  <2>3. CASE p < m
    <3> DEFINE q == p + (d.cacheNumBits - m)
    <3>1. q \in 0..(d.cacheNumBits - 1) /\ q < WordBits
      BY <1>1, <2>3
    <3>2. w[p] = s[p]
      BY <2>1, <2>3 DEF Mask
    <3>3. s[p] = d.cache[q]
      BY <2>1, <3>1 DEF ShiftRight
    <3>4. d.cache[q] = BitAt(d.bitIndex + d.cacheNumBits - 1 - q)
      BY <3>1 DEF Coherent
    <3>5. d.bitIndex + d.cacheNumBits - 1 - q = d.bitIndex + m - 1 - p
      BY <1>1
    <3>6. v[p] = ZeroBit
      BY <2>3
    <3> QED
      BY <2>2, <3>2, <3>3, <3>4, <3>5, <3>6
  <2>4. CASE ~(p < m)
    <3>1. w[p] = ZeroBit
      BY <2>1, <2>4 DEF Mask
    <3>2. p \in m..(n - 1)
      BY <2>4
    <3> QED
      BY <2>2, <3>1, <3>2
  <2> QED
    BY <2>3, <2>4
<1> QED
  BY <1>4, <1>5, <1>6

\* readUnsignedBitsImpl with a coherent cache: it throws exactly when fewer than n
\* bits are left, and otherwise returns the next n bits of the buffer, most
\* significant first, and leaves the cache coherent.
LEMMA ChunkExact ==
  ASSUME BufferOK, NEW c \in Context, NEW n \in 1..WordBits, Coherent(c), EndsOnByte(c)
  PROVE  /\ ReadUnsignedBitsImpl(c, n).eof <=> c.bitIndex + n > bufferBitSize
         /\ ~ReadUnsignedBitsImpl(c, n).eof
              => /\ Coherent(ReadUnsignedBitsImpl(c, n).ctx)
                 /\ EndsOnByte(ReadUnsignedBitsImpl(c, n).ctx)
                 /\ \A p \in 0..(n - 1) :
                      ReadUnsignedBitsImpl(c, n).value[p] = BitAt(c.bitIndex + n - 1 - p)
<1> DEFINE drained == [c EXCEPT !.bitIndex = @ + c.cacheNumBits]
           rest == n - c.cacheNumBits
           cached == Mask(c.cache, c.cacheNumBits)
           loaded == LoadCacheNext(drained)
           r == ReadUnsignedBitsImpl(c, n)
<1>1. /\ WordBits \in {32, 64}
      /\ c.bitIndex \in Nat
      /\ c.cache \in Word
      /\ c.cacheNumBits \in 0..WordBits
      /\ buffer.bytes \in Nat
      /\ bufferBitSize \in Nat
  BY WordBitsAssumption, BuffersAssumption DEF NarrowBits, WideBits, Context, BufferOK
<1>2. drained \in Context /\ drained.bitIndex = c.bitIndex + c.cacheNumBits
  BY <1>1 DEF Context
<1>3. CASE c.cacheNumBits >= n
  <2>1. r = TakeBits(c, ZeroWord, n, {})
    BY <1>3 DEF ReadUnsignedBitsImpl
  <2>2. /\ Coherent(r.ctx)
        /\ EndsOnByte(r.ctx)
        /\ \A p \in 0..(n - 1) : r.value[p] = BitAt(c.bitIndex + n - 1 - p)
    <3>1. n =< c.cacheNumBits /\ n =< n /\ {} \in SUBSET Int
      BY <1>1, <1>3
    <3>2. /\ \A p \in 0..(n - 1) : ZeroWord[p] = ZeroBit
          /\ \A p \in n..(n - 1) : ZeroWord[p] = BitAt(c.bitIndex + n - 1 - p)
      BY <1>1, ZeroWordType
    <3> HIDE DEF r
    <3> QED
      BY <2>1, <3>1, <3>2, ZeroWordType, TakeExact
  <2>3. ~r.eof
    BY <2>1 DEF TakeBits
  <2>4. c.bitIndex + n =< bufferBitSize
    BY <1>1, <1>3 DEF EndsOnByte
  <2> QED
    BY <1>1, <2>2, <2>3, <2>4
<1>4. CASE c.cacheNumBits < n /\ AtEof(drained, rest)
  <2>1. r = [eof |-> TRUE, value |-> ZeroWord, ctx |-> drained, bytes |-> {}]
    BY <1>1, <1>4 DEF ReadUnsignedBitsImpl
  <2>2. r.eof
    BY <2>1
  <2>3. c.bitIndex + n > bufferBitSize
    BY <1>1, <1>2, <1>4 DEF AtEof
  <2> QED
    BY <2>2, <2>3
<1>5. CASE c.cacheNumBits < n /\ ~AtEof(drained, rest)
  <2> DEFINE v == IF rest < WordBits THEN ShiftLeft(cached, rest) ELSE cached
  <2>1. /\ rest \in 1..WordBits
        /\ rest =< n
        /\ rest + c.cacheNumBits = n
    BY <1>1, <1>5
  <2>2. /\ loaded.ctx \in Context
        /\ loaded.ctx.bitIndex = c.bitIndex + c.cacheNumBits
        /\ loaded.ctx.cacheNumBits >= rest
        /\ c.bitIndex + c.cacheNumBits + loaded.ctx.cacheNumBits =< bufferBitSize
        /\ loaded.bytes \subseteq 0..(buffer.bytes - 1)
        /\ drained.bitIndex % ByteBits = 0 => Coherent(loaded.ctx) /\ EndsOnByte(loaded.ctx)
    BY <1>2, <1>5, <2>1, Load
  <2>3. loaded.ctx.cacheNumBits \in Nat
    BY <1>1, <2>2 DEF Context
  <2>4. c.bitIndex + n =< bufferBitSize
    <3> HIDE DEF loaded
    <3> QED
      BY <1>1, <2>1, <2>2, <2>3
  <2>5. Coherent(loaded.ctx) /\ EndsOnByte(loaded.ctx)
    <3>1. c.bitIndex + c.cacheNumBits # bufferBitSize
      BY <1>1, <2>1, <2>4
    <3>2. drained.bitIndex % ByteBits = 0
      BY <1>2, <3>1 DEF EndsOnByte
    <3> QED
      BY <2>2, <3>2
  <2>6. v \in Word
    <3>1. cached \in Word
      BY <1>1, WordOperators
    <3>2. rest \in Nat
      BY <2>1
    <3>3. ShiftLeft(cached, rest) \in Word
      BY <3>1, <3>2, WordOperators
    <3> QED
      BY <3>1, <3>3
  <2>7. ASSUME NEW p \in 0..(rest - 1) PROVE v[p] = ZeroBit
    <3>1. p \in 0..(WordBits - 1) /\ p < rest
      BY <1>1, <2>1
    <3>2. CASE rest < WordBits
      <4>1. v = ShiftLeft(cached, rest)
        BY <3>2, Zenon
      <4>2. ~(p >= rest)
        BY <3>1, <2>1
      <4>3. ShiftLeft(cached, rest)[p] = ZeroBit
        BY <3>1, <4>2 DEF ShiftLeft
      <4> HIDE DEF v
      <4> QED
        BY <4>1, <4>3
    <3>3. CASE ~(rest < WordBits)
      <4>1. c.cacheNumBits = 0
        BY <1>1, <2>1, <3>3
      <4>2. ~(p < c.cacheNumBits)
        BY <3>1, <4>1
      <4> QED
        <5>1. cached[p] = ZeroBit
          BY <3>1, <4>2 DEF Mask
        <5>2. v = cached
          BY <3>3, Zenon
        <5> HIDE DEF v, cached
        <5> QED
          BY <5>1, <5>2
    <3> QED
      BY <3>2, <3>3
  <2>8. ASSUME NEW p \in rest..(n - 1)
        PROVE  v[p] = BitAt(loaded.ctx.bitIndex + rest - 1 - p)
    <3> DEFINE j == p - rest
    <3>1. /\ j \in 0..(c.cacheNumBits - 1)
          /\ j \in 0..(WordBits - 1)
          /\ p \in 0..(WordBits - 1)
          /\ rest < WordBits
          /\ p >= rest
          /\ j < c.cacheNumBits
      BY <1>1, <2>1
    <3>2. v[p] = cached[j]
      BY <3>1 DEF ShiftLeft
    <3>3. cached[j] = c.cache[j]
      BY <3>1 DEF Mask
    <3>4. c.cache[j] = BitAt(c.bitIndex + c.cacheNumBits - 1 - j)
      BY <3>1 DEF Coherent
    <3>5. c.bitIndex + c.cacheNumBits - 1 - j = loaded.ctx.bitIndex + rest - 1 - p
      <4> HIDE DEF loaded
      <4> QED
        BY <1>1, <2>1, <2>2
    <3> QED
      BY <3>2, <3>3, <3>4, <3>5
  <2>9. r = TakeBits(loaded.ctx, v, rest, loaded.bytes)
    BY <1>1, <1>5 DEF ReadUnsignedBitsImpl
  <2>10. ~r.eof
    BY <2>9 DEF TakeBits
  <2>11. /\ Coherent(r.ctx)
         /\ EndsOnByte(r.ctx)
         /\ \A p \in 0..(n - 1) : r.value[p] = BitAt(loaded.ctx.bitIndex + rest - 1 - p)
    <3>1. loaded.bytes \in SUBSET Int /\ rest =< loaded.ctx.cacheNumBits
      BY <1>1, <2>1, <2>2, <2>3
    <3> HIDE DEF r, v, loaded, rest
    <3> QED
      BY <2>1, <2>2, <2>5, <2>6, <2>7, <2>8, <2>9, <3>1, TakeExact
  <2>12. ASSUME NEW p \in 0..(n - 1)
         PROVE  r.value[p] = BitAt(c.bitIndex + n - 1 - p)
    <3>1. loaded.ctx.bitIndex + rest - 1 - p = c.bitIndex + n - 1 - p
      <4> HIDE DEF loaded
      <4> QED
        BY <1>1, <2>1, <2>2
    <3> QED
      BY <2>11, <3>1
  <2> QED
    BY <1>1, <2>4, <2>10, <2>11, <2>12
<1> QED
  BY <1>1, <1>3, <1>4, <1>5

\* setBitPosition inside the buffer never throws, arrives where it was told to and
\* leaves a coherent cache, whatever state the reader was in before.
LEMMA Seek ==
  ASSUME BufferOK, ctx \in Context, NEW p \in Nat, p =< bufferBitSize
  PROVE  /\ SeekTo(p).ctx \in Context
         /\ SeekTo(p).ctx.bitIndex = p
         /\ Coherent(SeekTo(p).ctx)
         /\ EndsOnByte(SeekTo(p).ctx)
         /\ SeekTo(p).bytes \subseteq 0..(buffer.bytes - 1)
<1> DEFINE base == [ctx EXCEPT !.bitIndex = (p \div ByteBits) * ByteBits, !.cacheNumBits = 0]
           skip == p % ByteBits
           r == ReadUnsignedBitsImpl(base, skip)
<1>1. /\ WordBits \in {32, 64}
      /\ buffer.bytes \in Nat
      /\ bufferBitSize \in Nat
      /\ (p \div 8) * 8 \in Nat
      /\ ((p \div 8) * 8) % 8 = 0
      /\ p % 8 \in 0..7
      /\ (p \div 8) * 8 + (p % 8) = p
  <2>1. p \div 8 \in Nat /\ p % 8 \in 0..7 /\ (p \div 8) * 8 + (p % 8) = p
    OBVIOUS
  <2>2. \A m \in Nat : m * 8 \in Nat /\ (m * 8) % 8 = 0
    OBVIOUS
  <2> QED
    BY <2>1, <2>2, WordBitsAssumption, BuffersAssumption DEF NarrowBits, WideBits, BufferOK
<1>2. /\ base \in Context
      /\ base.bitIndex = (p \div 8) * 8
      /\ base.cacheNumBits = 0
  <2>1. 0 \in 0..WordBits
    BY <1>1
  <2>2. base \in Context
    BY <1>1, <2>1, NewCounts DEF ByteBits
  <2> QED
    BY <2>2 DEF Context, ByteBits
<1>3. Coherent(base) /\ EndsOnByte(base)
  <2> HIDE DEF base
  <2>1. (p \div 8) * 8 + 0 =< bufferBitSize /\ ((p \div 8) * 8 + 0) % 8 = 0
    BY <1>1
  <2> QED
    BY <1>2, <2>1 DEF Coherent, EndsOnByte, ByteBits
<1>4. CASE skip = 0
  <2>1. SeekTo(p).ctx = base /\ SeekTo(p).bytes = {}
    BY <1>4 DEF SeekTo
  <2>2. base.bitIndex = p
    BY <1>1, <1>2, <1>4 DEF ByteBits
  <2> HIDE DEF base
  <2> QED
    BY <1>2, <1>3, <2>1, <2>2
<1>5. CASE skip # 0
  <2>1. SeekTo(p).ctx = r.ctx /\ SeekTo(p).bytes = r.bytes
    BY <1>5 DEF SeekTo
  <2>2. skip \in 1..WordBits
    BY <1>1, <1>5 DEF ByteBits
  <2>3. base.bitIndex + skip = p
    BY <1>1, <1>2 DEF ByteBits
  <2> HIDE DEF base, skip
  <2>4. ~r.eof
    <3>1. ~(base.bitIndex + skip > bufferBitSize)
      BY <1>1, <2>3
    <3> QED
      BY <1>2, <1>3, <2>2, <3>1, ChunkExact
  <2>5. /\ r.ctx \in Context
        /\ r.ctx.bitIndex = p
        /\ r.bytes \subseteq 0..(buffer.bytes - 1)
    BY <1>2, <2>2, <2>3, <2>4, ChunkTypes
  <2>6. Coherent(r.ctx) /\ EndsOnByte(r.ctx)
    BY <1>2, <1>3, <2>2, <2>4, ChunkExact
  <2> QED
    BY <2>1, <2>5, <2>6
<1> QED
  BY <1>4, <1>5

-------------------------------------------------------------------------------

\* The inductive invariant: the type invariant supplies the ranges, the two facts
\* about the cache are what a chunk needs of its predecessor, and the others follow.
IInv ==
  /\ TypeOK
  /\ CacheCoherent
  /\ CacheEndsOnByte
  /\ LoadsInBounds
  /\ GotExact
  /\ NoBitAbove

\* The chunk sequences of the operations are sequences of chunks.
LEMMA ChunkSequences ==
  /\ \A n \in 1..WideBits : WideChunks(n) \in Seq(1..WordBits) /\ WideChunks(n) # <<>>
  /\ \A n \in Nat : RestChunk(n) \in Seq(1..WordBits)
  /\ \A k \in Nat : [i \in 1..k |-> ByteBits] \in Seq(1..WordBits)
<1>1. WordBits \in {32, 64}
  BY WordBitsAssumption DEF NarrowBits, WideBits
<1>2. ASSUME NEW n \in 1..WideBits
      PROVE  WideChunks(n) \in Seq(1..WordBits) /\ WideChunks(n) # <<>>
  <2>1. /\ n \in 1..64
        /\ n =< WordBits => n \in 1..WordBits
        /\ ~(n =< WordBits) => 32 \in 1..WordBits /\ n - 32 \in 1..WordBits
    BY <1>1 DEF WideBits
  <2>2. \A m \in 1..WordBits : <<m>> \in Seq(1..WordBits) /\ <<m>> # <<>>
    OBVIOUS
  <2>3. \A k, m \in 1..WordBits : <<k, m>> \in Seq(1..WordBits) /\ <<k, m>> # <<>>
    OBVIOUS
  <2> QED
    BY <2>1, <2>2, <2>3 DEF WideChunks, NarrowBits
<1>3. ASSUME NEW n \in Nat PROVE RestChunk(n) \in Seq(1..WordBits)
  <2>1. n % 8 \in 0..7
    OBVIOUS
  <2> QED
    <3>1. n % 8 # 0 => n % 8 \in 1..WordBits
      BY <1>1, <2>1
    <3>2. \A m \in 1..WordBits : <<m>> \in Seq(1..WordBits)
      OBVIOUS
    <3>3. <<>> \in Seq(1..WordBits)
      OBVIOUS
    <3> QED
      BY <3>1, <3>2, <3>3 DEF RestChunk, ByteBits
<1>4. ASSUME NEW k \in Nat PROVE [i \in 1..k |-> ByteBits] \in Seq(1..WordBits)
  BY <1>1 DEF ByteBits
<1> QED
  BY <1>2, <1>3, <1>4

\* Starting an operation, or refusing it, changes neither the cache nor the position.
LEMMA BeginKeeps ==
  ASSUME IInv, NEW chunks \in Seq(1..WordBits), NEW b \in Nat \cup {NoBlock},
         Begin(chunks, b) \/ Refuse
  PROVE  IInv'
<1>1. /\ UNCHANGED <<buffer, bufferBitSize, ctx, lost, last>>
      /\ got' = <<>>
      /\ todo' \in Seq(1..WordBits)
      /\ block' \in Nat \cup {NoBlock}
      /\ status' \in {"busy", "done", "thrown"}
  <2>1. CASE Begin(chunks, b)
    BY <2>1 DEF Begin
  <2>2. CASE Refuse
    <3>1. <<>> \in Seq(1..WordBits)
      OBVIOUS
    <3> QED
      BY <2>2, <3>1 DEF Refuse
  <2> QED
    BY <2>1, <2>2
<1>2. TypeOK'
  BY <1>1 DEF IInv, TypeOK
<1>3. CacheCoherent' /\ CacheEndsOnByte' /\ LoadsInBounds' /\ NoBitAbove'
  BY <1>1 DEF IInv, CacheCoherent, Coherent, BitAt, CacheEndsOnByte, EndsOnByte,
              LoadsInBounds, NoBitAbove
<1>4. GotExact'
  <2>1. Len(got') = 0 /\ ctx'.bitIndex \in Nat
    BY <1>1 DEF IInv, TypeOK, Context
  <2> QED
    BY <1>1, <2>1 DEF GotExact
<1> QED
  BY <1>2, <1>3, <1>4 DEF IInv

\* A chunk that does not throw extends what was handed out by the next n bits.
LEMMA ChunkKeeps ==
  ASSUME IInv, ReadChunk
  PROVE  IInv'
<1> DEFINE n == Head(todo)
           r == ReadUnsignedBitsImpl(ctx, n)
<1>1. /\ WordBits \in {32, 64}
      /\ bufferBitSize \in Nat
      /\ ctx \in Context
      /\ ctx.bitIndex \in Nat
      /\ BufferOK
  BY WordBitsAssumption, SizesAssumption
     DEF IInv, TypeOK, BufferOK, Context, NarrowBits, WideBits
<1>2. n \in 1..WordBits /\ Tail(todo) \in Seq(1..WordBits)
  <2>1. todo \in Seq(1..WordBits)
    BY DEF IInv, TypeOK
  <2>2. todo # <<>>
    BY DEF ReadChunk
  <2> DEFINE S == 1..WordBits
  <2>3. todo \in Seq(S)
    BY <2>1
  <2> HIDE DEF S
  <2>4. Head(todo) \in S /\ Tail(todo) \in Seq(S)
    BY <2>2, <2>3
  <2> QED
    BY <2>4 DEF S
<1>3. /\ r.ctx \in Context
      /\ r.value \in Word
      /\ r.bytes \subseteq 0..(buffer.bytes - 1)
      /\ ZeroFrom(r.value, n)
      /\ ~r.eof => r.ctx.bitIndex = ctx.bitIndex + n
  BY <1>1, <1>2, ChunkTypes
<1>4. /\ ctx' = r.ctx
      /\ last' = [value |-> r.value, bits |-> n, bytes |-> r.bytes]
      /\ UNCHANGED <<buffer, bufferBitSize>>
  BY DEF ReadChunk
<1>5. /\ last'.value = r.value
      /\ last'.bits = n
      /\ last'.bytes = r.bytes
      /\ last' \in [value : Word, bits : 0..WordBits, bytes : SUBSET Int]
  <2>1. n \in 0..WordBits
    BY <1>1, <1>2
  <2>2. r.bytes \in SUBSET Int
    BY <1>3
  <2> HIDE DEF r, n
  <2> QED
    BY <1>3, <1>4, <2>1, <2>2
<1>6. LoadsInBounds'
  BY <1>3, <1>4, <1>5 DEF LoadsInBounds
<1>7. NoBitAbove'
  <2> HIDE DEF r, n
  <2> QED
    BY <1>3, <1>5 DEF NoBitAbove, ZeroFrom
<1>8. CASE r.eof
  <2>1. /\ todo' = <<>>
        /\ block' = NoBlock
        /\ status' = "thrown"
        /\ lost' = TRUE
        /\ got' = got
    BY <1>8 DEF ReadChunk
  <2>2. <<>> \in Seq(1..WordBits)
    OBVIOUS
  <2>3. TypeOK'
    BY <1>3, <1>4, <1>5, <2>1, <2>2 DEF IInv, TypeOK
  <2>4. CacheCoherent' /\ CacheEndsOnByte' /\ GotExact'
    BY <2>1 DEF CacheCoherent, CacheEndsOnByte, GotExact
  <2> QED
    BY <1>6, <1>7, <2>3, <2>4 DEF IInv
<1>9. CASE ~r.eof
  <2> DEFINE bits == LowBits(r.value, n)
  <2>1. /\ got' = got \o bits
        /\ todo' = Tail(todo)
        /\ status' \in {"busy", "done"}
        /\ block' = block
        /\ lost' = lost
    BY <1>9 DEF ReadChunk
  <2>2. /\ bits \in Seq(Bit)
        /\ Len(bits) = n
        /\ \A i \in 1..n : bits[i] = r.value[n - i]
    <3>1. \A i \in 1..n : n - i \in 0..(WordBits - 1)
      BY <1>1, <1>2
    <3>2. \A i \in 1..n : r.value[n - i] \in Bit
      BY <1>3, <3>1 DEF Word
    <3> HIDE DEF r, n
    <3> QED
      BY <1>2, <3>2 DEF LowBits
  <2>3. got \in Seq(Bit) /\ got' \in Seq(Bit)
    BY <2>1, <2>2 DEF IInv, TypeOK
  <2>4. TypeOK'
    BY <1>2, <1>3, <1>4, <1>5, <2>1, <2>3 DEF IInv, TypeOK
  <2>5. ASSUME ~lost
        PROVE  /\ Coherent(r.ctx)
               /\ EndsOnByte(r.ctx)
               /\ \A p \in 0..(n - 1) : r.value[p] = BitAt(ctx.bitIndex + n - 1 - p)
    <3>1. Coherent(ctx) /\ EndsOnByte(ctx)
      BY <2>5 DEF IInv, CacheCoherent, CacheEndsOnByte
    <3> QED
      BY <1>1, <1>2, <1>9, <3>1, ChunkExact
  <2>6. CacheCoherent' /\ CacheEndsOnByte'
    <3> HIDE DEF r
    <3> QED
      BY <1>4, <2>1, <2>5
         DEF CacheCoherent, CacheEndsOnByte, Coherent, EndsOnByte, BitAt
  <2>7. GotExact'
    <3> SUFFICES ASSUME ~lost PROVE GotExact'
      BY <2>1 DEF GotExact
    <3>1. /\ Len(got) \in Nat
          /\ Len(got') = Len(got) + n
          /\ Len(got) =< ctx.bitIndex
          /\ ctx'.bitIndex = ctx.bitIndex + n
      BY <1>3, <1>4, <1>9, <2>1, <2>2, <2>3 DEF IInv, GotExact
    <3>3. ASSUME NEW i \in 1..Len(got')
          PROVE  got'[i] = BitAt(ctx'.bitIndex - Len(got') + i - 1)
      <4>1. ctx'.bitIndex - Len(got') + i - 1 = ctx.bitIndex - Len(got) + i - 1
        BY <1>1, <1>2, <3>1
      <4>2. CASE i =< Len(got)
        <5>1. got'[i] = got[i] /\ i \in 1..Len(got)
          BY <2>1, <2>2, <2>3, <3>1, <4>2
        <5> QED
          BY <4>1, <5>1 DEF IInv, GotExact
      <4>3. CASE ~(i =< Len(got))
        <5> DEFINE k == i - Len(got)
        <5>1. k \in 1..n /\ n - k \in 0..(n - 1)
          BY <1>2, <3>1, <4>3
        <5>2. got'[i] = bits[k]
          <6> HIDE DEF bits, n
          <6> QED
            BY <2>1, <2>2, <2>3, <3>1, <4>3, <5>1
        <5>3. bits[k] = BitAt(ctx.bitIndex + n - 1 - (n - k))
          BY <2>2, <2>5, <5>1
        <5>4. ctx.bitIndex + n - 1 - (n - k) = ctx.bitIndex - Len(got) + i - 1
          <6>1. /\ ctx.bitIndex \in Int
                /\ Len(got) \in Int
                /\ n \in Int
                /\ i \in Int
            BY <1>1, <1>2, <3>1
          <6> HIDE DEF n
          <6> QED
            BY <6>1
        <5> QED
          BY <4>1, <5>2, <5>3, <5>4
      <4> QED
        BY <4>2, <4>3
    <3>4. ctx'.bitIndex - Len(got') \in Int /\ Len(got') =< ctx'.bitIndex
      BY <1>1, <1>2, <3>1
    <3>5. ASSUME NEW i \in 1..Len(got')
          PROVE  BitAt(ctx.bitIndex - Len(got) + i - 1)' = BitAt(ctx'.bitIndex - Len(got') + i - 1)
      BY <1>4 DEF BitAt
    <3> QED
      BY <3>3, <3>4, <3>5 DEF GotExact
  <2> QED
    BY <1>6, <1>7, <2>4, <2>6, <2>7 DEF IInv
<1> QED
  BY <1>8, <1>9

\* setBitPosition establishes the invariant of the cache, from any state.
LEMMA SetBitPositionKeeps ==
  ASSUME IInv, NEW p \in Positions, SetBitPosition(p)
  PROVE  IInv'
<1>1. /\ bufferBitSize \in Nat
      /\ p \in Nat
      /\ ctx \in Context
      /\ BufferOK
      /\ <<>> \in Seq(1..WordBits)
  BY SizesAssumption, ArgumentsAssumption DEF IInv, TypeOK, BufferOK
<1>2. CASE p > bufferBitSize
  <2>1. Refuse
    BY <1>2 DEF SetBitPosition
  <2> QED
    BY <1>1, <2>1, BeginKeeps
<1>3. CASE ~(p > bufferBitSize)
  <2>1. /\ ctx' = SeekTo(p).ctx
        /\ last' = [last EXCEPT !.bytes = SeekTo(p).bytes]
        /\ lost' = FALSE
        /\ got' = <<>>
        /\ status' = "done"
        /\ UNCHANGED <<buffer, bufferBitSize, todo, block>>
    BY <1>3 DEF SetBitPosition
  <2>2. /\ SeekTo(p).ctx \in Context
        /\ Coherent(SeekTo(p).ctx)
        /\ EndsOnByte(SeekTo(p).ctx)
        /\ SeekTo(p).bytes \subseteq 0..(buffer.bytes - 1)
    BY <1>1, <1>3, Seek
  <2>3. /\ last' \in [value : Word, bits : 0..WordBits, bytes : SUBSET Int]
        /\ last'.bytes = SeekTo(p).bytes
        /\ last'.bits = last.bits
        /\ last'.value = last.value
    <3>1. last \in [value : Word, bits : 0..WordBits, bytes : SUBSET Int]
      BY DEF IInv, TypeOK
    <3>2. SeekTo(p).bytes \in SUBSET Int
      BY <2>2
    <3>3. [last EXCEPT !.bytes = SeekTo(p).bytes]
            \in [value : Word, bits : 0..WordBits, bytes : SUBSET Int]
      BY <3>1, <3>2
    <3> QED
      BY <2>1, <3>1, <3>3
  <2>4. TypeOK'
    <3>1. /\ ctx' \in Context
          /\ got' \in Seq(Bit)
          /\ lost' \in BOOLEAN
          /\ status' \in {"busy", "done", "thrown"}
      <4>1. <<>> \in Seq(Bit) /\ 0 \in Nat
        OBVIOUS
      <4> QED
        BY <2>1, <2>2, <4>1
    <3>2. UNCHANGED <<buffer, bufferBitSize, todo, block>>
      BY <2>1
    <3> QED
      BY <2>3, <3>1, <3>2 DEF IInv, TypeOK
  <2>5. CacheCoherent' /\ CacheEndsOnByte'
    BY <2>1, <2>2 DEF CacheCoherent, CacheEndsOnByte, Coherent, EndsOnByte, BitAt
  <2>6. LoadsInBounds' /\ NoBitAbove'
    BY <2>1, <2>2, <2>3 DEF IInv, LoadsInBounds, NoBitAbove
  <2>7. GotExact'
    <3>1. Len(got') = 0 /\ ctx'.bitIndex \in Nat
      BY <2>1, <2>2 DEF Context
    <3> QED
      BY <2>1, <3>1 DEF GotExact
  <2> QED
    BY <2>4, <2>5, <2>6, <2>7 DEF IInv
<1> QED
  BY <1>2, <1>3

\* A block that is refused, or read bit by bit, only replaces the chunks to read.
LEMMA BlockStepsKeep ==
  ASSUME IInv, RefuseBlock \/ ReadBlockUnaligned
  PROVE  IInv'
<1>1. /\ UNCHANGED <<buffer, bufferBitSize, ctx, lost, last, got>>
      /\ todo' \in Seq(1..WordBits)
      /\ block' \in Nat \cup {NoBlock}
      /\ status' \in {"busy", "done", "thrown"}
  <2>1. CASE RefuseBlock
    BY <2>1 DEF RefuseBlock, IInv, TypeOK
  <2>2. CASE ReadBlockUnaligned
    <3> DEFINE chunks == [i \in 1..(block \div ByteBits) |-> ByteBits] \o RestChunk(block)
    <3>1. block \in Nat /\ block \div ByteBits \in Nat
      BY <2>2 DEF ReadBlockUnaligned, IInv, TypeOK, ByteBits
    <3>2. /\ [i \in 1..(block \div ByteBits) |-> ByteBits] \in Seq(1..WordBits)
          /\ RestChunk(block) \in Seq(1..WordBits)
      BY <3>1, ChunkSequences
    <3>3. chunks \in Seq(1..WordBits)
      BY <3>2
    <3> QED
      BY <2>2, <3>3 DEF ReadBlockUnaligned
  <2> QED
    BY <2>1, <2>2
<1>2. TypeOK'
  BY <1>1 DEF IInv, TypeOK
<1>3. CacheCoherent' /\ CacheEndsOnByte' /\ LoadsInBounds' /\ NoBitAbove' /\ GotExact'
  BY <1>1 DEF IInv, CacheCoherent, Coherent, BitAt, CacheEndsOnByte, EndsOnByte,
              LoadsInBounds, NoBitAbove, GotExact
<1> QED
  BY <1>2, <1>3 DEF IInv

\* A block that is copied is followed by a setBitPosition to its end: the bits handed
\* out are the ones that were skipped.
LEMMA ReadBlockAlignedKeeps ==
  ASSUME IInv, ReadBlockAligned
  PROVE  IInv'
<1> DEFINE numBits == (block \div ByteBits) * ByteBits
           s == SeekTo(ctx.bitIndex + numBits)
           copied == [i \in 1..numBits |-> BitAt(ctx.bitIndex + i - 1)]
           loaded == (ctx.bitIndex \div ByteBits)..((ctx.bitIndex + numBits) \div ByteBits - 1)
<1>1. /\ bufferBitSize \in Nat
      /\ buffer.bytes \in Nat
      /\ (bufferBitSize + 7) \div 8 =< buffer.bytes
      /\ ctx \in Context
      /\ ctx.bitIndex \in Nat
      /\ BufferOK
      /\ block \in Nat
      /\ ctx.bitIndex + block =< bufferBitSize
  BY SizesAssumption, BuffersAssumption
     DEF IInv, TypeOK, BufferOK, Context, ReadBlockAligned, ByteBits
<1>2. numBits \in Nat /\ numBits =< block /\ ctx.bitIndex + numBits \in Nat
  BY <1>1 DEF ByteBits
<1>3. /\ ctx' = s.ctx
      /\ last' = [last EXCEPT !.bytes = loaded]
      /\ got' = got \o copied
      /\ todo' = RestChunk(block)
      /\ block' = NoBlock
      /\ status' \in {"busy", "done"}
      /\ UNCHANGED <<buffer, bufferBitSize, lost>>
  BY DEF ReadBlockAligned
<1>4. /\ s.ctx \in Context
      /\ s.ctx.bitIndex = ctx.bitIndex + numBits
      /\ Coherent(s.ctx)
      /\ EndsOnByte(s.ctx)
  <2>1. ctx.bitIndex + numBits =< bufferBitSize
    <3> HIDE DEF numBits
    <3> QED
      BY <1>1, <1>2
  <2> HIDE DEF numBits
  <2> QED
    BY <1>1, <1>2, <2>1, Seek
<1>5. loaded \subseteq 0..(buffer.bytes - 1) /\ loaded \in SUBSET Int
  <2>1. /\ ctx.bitIndex \div ByteBits \in Nat
        /\ (ctx.bitIndex + numBits) \div ByteBits \in Nat
        /\ (ctx.bitIndex + numBits) \div ByteBits =< buffer.bytes
    <3> HIDE DEF numBits
    <3> QED
      BY <1>1, <1>2 DEF ByteBits
  <2> HIDE DEF numBits
  <2> QED
    BY <1>1, <2>1
<1>6. /\ last' \in [value : Word, bits : 0..WordBits, bytes : SUBSET Int]
      /\ last'.bytes = loaded
      /\ last'.bits = last.bits
      /\ last'.value = last.value
  <2>1. last \in [value : Word, bits : 0..WordBits, bytes : SUBSET Int]
    BY DEF IInv, TypeOK
  <2> HIDE DEF loaded
  <2>2. [last EXCEPT !.bytes = loaded] \in [value : Word, bits : 0..WordBits, bytes : SUBSET Int]
    BY <1>5, <2>1
  <2> QED
    BY <1>3, <2>1, <2>2
<1>7. /\ copied \in Seq(Bit)
      /\ Len(copied) = numBits
      /\ \A i \in 1..numBits : copied[i] = BitAt(ctx.bitIndex + i - 1)
  <2> HIDE DEF numBits
  <2>1. \A i \in 1..numBits : BitAt(ctx.bitIndex + i - 1) \in Bit
    <3>1. \A i \in 1..numBits : ctx.bitIndex + i - 1 \in Int
      BY <1>1, <1>2
    <3> QED
      BY <1>1, <3>1, BitAtType
  <2> QED
    BY <1>2, <2>1
<1>8. got \in Seq(Bit) /\ got' \in Seq(Bit)
  <2>1. got \in Seq(Bit)
    BY DEF IInv, TypeOK
  <2> HIDE DEF copied
  <2> QED
    BY <1>3, <1>7, <2>1
<1>9. TypeOK'
  <2>1. RestChunk(block) \in Seq(1..WordBits)
    BY <1>1, ChunkSequences
  <2> HIDE DEF s
  <2> QED
    BY <1>3, <1>4, <1>6, <1>8, <2>1 DEF IInv, TypeOK
<1>10. CacheCoherent' /\ CacheEndsOnByte'
  <2> HIDE DEF s
  <2> QED
    BY <1>3, <1>4 DEF CacheCoherent, CacheEndsOnByte, Coherent, EndsOnByte, BitAt
<1>11. LoadsInBounds' /\ NoBitAbove'
  <2> HIDE DEF loaded
  <2> QED
    BY <1>3, <1>5, <1>6 DEF IInv, LoadsInBounds, NoBitAbove
<1>12. GotExact'
  <2> SUFFICES ASSUME ~lost PROVE GotExact'
    BY <1>3 DEF GotExact
  <2>1. Len(got) \in Nat /\ Len(got) =< ctx.bitIndex
    BY <1>8 DEF IInv, GotExact
  <2>2. Len(got') = Len(got) + numBits /\ ctx'.bitIndex = ctx.bitIndex + numBits
    <3>1. ctx'.bitIndex = ctx.bitIndex + numBits
      BY <1>3, <1>4, Zenon
    <3> HIDE DEF copied, numBits
    <3>2. Len(got') = Len(got) + numBits
      BY <1>3, <1>7, <1>8
    <3> QED
      BY <3>1, <3>2
  <2> HIDE DEF numBits
  <2>3. ASSUME NEW i \in 1..Len(got')
        PROVE  got'[i] = BitAt(ctx'.bitIndex - Len(got') + i - 1)
    <3>1. ctx'.bitIndex - Len(got') + i - 1 = ctx.bitIndex - Len(got) + i - 1
      BY <1>1, <1>2, <2>1, <2>2
    <3>2. CASE i =< Len(got)
      <4>1. i \in 1..Len(got)
        BY <2>1, <2>2, <3>2
      <4>2. got'[i] = got[i]
        <5> HIDE DEF copied
        <5> QED
          BY <1>3, <1>7, <1>8, <4>1
      <4> QED
        BY <3>1, <4>1, <4>2 DEF IInv, GotExact
    <3>3. CASE ~(i =< Len(got))
      <4> DEFINE k == i - Len(got)
      <4>1. k \in 1..numBits
        BY <1>2, <2>1, <2>2, <3>3
      <4>2. got'[i] = copied[k]
        <5> HIDE DEF copied
        <5> QED
          BY <1>2, <1>3, <1>7, <1>8, <2>1, <2>2, <3>3, <4>1
      <4>3. copied[k] = BitAt(ctx.bitIndex + k - 1)
        BY <1>7, <4>1
      <4>4. ctx.bitIndex + k - 1 = ctx.bitIndex - Len(got) + i - 1
        BY <1>1, <1>2, <2>1, <2>2
      <4> QED
        BY <3>1, <4>2, <4>3, <4>4
    <3> QED
      BY <3>2, <3>3
  <2>4. ASSUME NEW i \in 1..Len(got')
        PROVE  BitAt(ctx.bitIndex - Len(got) + i - 1)' = BitAt(ctx'.bitIndex - Len(got') + i - 1)
    BY <1>3 DEF BitAt
  <2>5. Len(got') =< ctx'.bitIndex
    BY <1>1, <1>2, <2>1, <2>2
  <2> QED
    BY <2>3, <2>4, <2>5 DEF GotExact
<1> QED
  BY <1>9, <1>10, <1>11, <1>12 DEF IInv

\* Every step of the reader preserves the invariant: one lemma per kind of step.
LEMMA NextKeeps ==
  ASSUME IInv, [Next]_vars
  PROVE  IInv'
<1>1. /\ NarrowBits = 32 /\ WideBits = 64
      /\ <<>> \in Seq(1..WordBits)
      /\ 0 \in Nat /\ NoBlock \in Nat \cup {NoBlock}
  BY DEF NarrowBits, WideBits
<1>2. ASSUME NEW n \in NumBits, ReadBits32(n)
      PROVE  IInv'
  <2>1. CASE n \in 1..NarrowBits
    <3>1. <<n>> \in Seq(1..WordBits)
      BY <2>1, WordBitsAssumption DEF NarrowBits, WideBits
    <3> QED
      BY <1>1, <1>2, <2>1, <3>1, BeginKeeps DEF ReadBits32
  <2>2. CASE n \notin 1..NarrowBits
    BY <1>1, <1>2, <2>2, BeginKeeps DEF ReadBits32
  <2> QED
    BY <2>1, <2>2
<1>3. ASSUME NEW n \in NumBits, ReadBits64(n)
      PROVE  IInv'
  <2>1. CASE n \in 1..WideBits
    <3>1. WideChunks(n) \in Seq(1..WordBits)
      BY <2>1, ChunkSequences
    <3> QED
      BY <1>1, <1>3, <2>1, <3>1, BeginKeeps DEF ReadBits64
  <2>2. CASE n \notin 1..WideBits
    BY <1>1, <1>3, <2>2, BeginKeeps DEF ReadBits64
  <2> QED
    BY <2>1, <2>2
<1>4. ASSUME NEW n \in {1, 16, 32, 64}, ReadFixed(n)
      PROVE  IInv'
  <2>1. n \in 1..WideBits
    BY <1>1
  <2>2. WideChunks(n) \in Seq(1..WordBits)
    BY <2>1, ChunkSequences
  <2> QED
    BY <1>1, <1>4, <2>2, BeginKeeps DEF ReadFixed
<1>5. ASSUME NEW k \in VarBytes
      PROVE  [i \in 1..k |-> ByteBits] \in Seq(1..WordBits)
  <2>1. k \in Nat
    BY ArgumentsAssumption
  <2> QED
    BY <2>1, ChunkSequences
<1>6. ASSUME NEW k \in VarBytes, ReadVarNum(k)
      PROVE  IInv'
  BY <1>1, <1>5, <1>6, BeginKeeps DEF ReadVarNum
<1>7. ASSUME NEW k \in VarBytes, NEW n \in BlockBits, ReadBlock(k, n)
      PROVE  IInv'
  <2>1. n \in Nat \cup {NoBlock}
    BY ArgumentsAssumption
  <2> QED
    BY <1>1, <1>5, <1>7, <2>1, BeginKeeps DEF ReadBlock
<1>8. ASSUME NEW a \in Alignments, AlignTo(a)
      PROVE  IInv'
  <2> DEFINE skip == UInt8(a - (ctx.bitIndex % a))
  <2>1. a \in Nat
    BY ArgumentsAssumption
  <2>2. \/ Begin(<<>>, NoBlock)
        \/ skip \in 1..WideBits /\ Begin(WideChunks(skip), NoBlock)
        \/ Refuse
    BY <1>8 DEF AlignTo, AlignSkip
  <2>3. skip \in 1..WideBits => WideChunks(skip) \in Seq(1..WordBits)
    BY ChunkSequences
  <2> HIDE DEF skip
  <2>4. CASE skip \in 1..WideBits /\ Begin(WideChunks(skip), NoBlock)
    BY <1>1, <2>1, <2>3, <2>4, BeginKeeps
  <2>5. CASE Begin(<<>>, NoBlock) \/ Refuse
    BY <1>1, <2>1, <2>5, BeginKeeps
  <2> QED
    BY <2>2, <2>4, <2>5
<1>9. ASSUME UNCHANGED vars
      PROVE  IInv'
  <2>1. TypeOK'
    BY <1>9 DEF IInv, TypeOK, vars
  <2>2. CacheCoherent' /\ CacheEndsOnByte' /\ LoadsInBounds' /\ NoBitAbove' /\ GotExact'
    BY <1>9 DEF IInv, CacheCoherent, Coherent, BitAt, CacheEndsOnByte, EndsOnByte,
                LoadsInBounds, NoBitAbove, GotExact, vars
  <2> QED
    BY <2>1, <2>2 DEF IInv
<1> QED
  BY <1>2, <1>3, <1>4, <1>6, <1>7, <1>8, <1>9, SetBitPositionKeeps, ChunkKeeps,
     BlockStepsKeep, ReadBlockAlignedKeeps
     DEF Next

\* A reader as the constructors leave it satisfies the invariant.
LEMMA InitEstablishes ==
  ASSUME Init
  PROVE  IInv
<1>1. /\ 0 \in 0..WordBits /\ 0 \in Nat
      /\ <<>> \in Seq(1..WordBits) /\ <<>> \in Seq(Bit)
      /\ bufferBitSize \in Nat
  BY WordBitsAssumption, SizesAssumption DEF Init, NarrowBits, WideBits
<1>2. ctx \in Context /\ last \in [value : Word, bits : 0..WordBits, bytes : SUBSET Int]
  BY <1>1, ZeroWordType DEF Init, Context
<1>3. TypeOK
  BY <1>1, <1>2 DEF Init, TypeOK, BufferHoldsBits
<1>4. ctx.bitIndex = 0 /\ ctx.cacheNumBits = 0 /\ last.bytes = {} /\ last.value = ZeroWord
  BY DEF Init
<1>5. CacheCoherent /\ CacheEndsOnByte /\ LoadsInBounds /\ NoBitAbove
  BY <1>1, <1>4, ZeroWordType
     DEF CacheCoherent, Coherent, CacheEndsOnByte, EndsOnByte, LoadsInBounds, NoBitAbove, ByteBits
<1>6. GotExact
  <2>1. Len(got) = 0
    BY DEF Init
  <2> QED
    BY <1>4, <2>1 DEF GotExact
<1> QED
  BY <1>3, <1>5, <1>6 DEF IInv

\* Every reachable state of every reader satisfies the invariant.
THEOREM ReaderInvariant == Spec => []IInv
<1> QED
  BY InitEstablishes, NextKeeps, PTL DEF Spec

\* The cache is coherent and the bits handed out are those of the buffer, for both
\* word sizes, every buffer and every sequence of calls.
THEOREM ReaderGotExact == Spec => [](CacheCoherent /\ CacheEndsOnByte /\ GotExact)
<1>1. IInv => CacheCoherent /\ CacheEndsOnByte /\ GotExact
  BY DEF IInv
<1> QED
  BY <1>1, ReaderInvariant, PTL

\* No byte behind the buffer is ever loaded, also by a reader used after an exception.
THEOREM ReaderLoadsInBounds == Spec => []LoadsInBounds
<1>1. IInv => LoadsInBounds
  BY DEF IInv
<1> QED
  BY <1>1, ReaderInvariant, PTL

\* A chunk of n bits throws exactly when fewer than n bits are left.
THEOREM ReaderEofExact == Spec => EofExact
<1>1. ASSUME IInv, Next, status = "busy", todo # <<>>, ~lost
      PROVE  status' = "thrown" <=> ctx.bitIndex + Head(todo) > bufferBitSize
  <2> DEFINE r == ReadUnsignedBitsImpl(ctx, Head(todo))
  <2>1. CASE ReadChunk
    <3>1. Head(todo) \in 1..WordBits
      <4>1. todo \in Seq(1..WordBits)
        BY <1>1 DEF IInv, TypeOK
      <4> DEFINE S == 1..WordBits
      <4>2. todo \in Seq(S)
        BY <4>1
      <4> HIDE DEF S
      <4>3. Head(todo) \in S
        BY <1>1, <4>2
      <4> QED
        BY <4>3 DEF S
    <3>2. /\ ctx \in Context
          /\ Coherent(ctx)
          /\ EndsOnByte(ctx)
          /\ BufferOK
      BY <1>1, SizesAssumption
         DEF IInv, TypeOK, CacheCoherent, CacheEndsOnByte, BufferOK
    <3>3. r.eof <=> ctx.bitIndex + Head(todo) > bufferBitSize
      BY <3>1, <3>2, ChunkExact
    <3>4. status' = "thrown" <=> r.eof
      BY <2>1 DEF ReadChunk
    <3> QED
      BY <3>3, <3>4
  <2>2. ReadChunk
    BY <1>1 DEF Next, Idle, ReadBits32, ReadBits64, ReadFixed, ReadVarNum, ReadBlock, AlignTo,
                SetBitPosition, RefuseBlock, ReadBlockUnaligned, ReadBlockAligned
  <2> QED
    BY <2>1, <2>2
<1>2. IInv /\ [Next]_vars
        => [status = "busy" /\ todo # <<>> /\ ~lost
              => (status' = "thrown" <=> ctx.bitIndex + Head(todo) > bufferBitSize)]_vars
  BY <1>1
<1> QED
  BY <1>2, ReaderInvariant, PTL DEF Spec, EofExact

-------------------------------------------------------------------------------
(* The implementation of BitInput.                                         *)

\* The reader's initial states are those of an input.
LEMMA InitMaps ==
  ASSUME Init
  PROVE  Input!Init
<1>1. bufferBitSize \in Nat /\ BufferOK
  BY SizesAssumption DEF Init, BufferOK, BufferHoldsBits
<1>2. \A i \in 0..(bufferBitSize - 1) : BitAt(i) \in Bit
  BY <1>1, BitAtType
<1>3. [i \in 0..(bufferBitSize - 1) |-> BitAt(i)] \in [0..(bufferBitSize - 1) -> Bit]
  BY <1>2
<1> QED
  BY <1>1, <1>3 DEF Init, Input!Init

\* A step that touches neither the position nor the buffer, but starts over, is a Start.
LEMMA StartMaps ==
  ASSUME UNCHANGED <<buffer, bufferBitSize, ctx, lost>>, got' = <<>>
  PROVE  Input!Start
BY DEF Input!Start, BitAt

\* A step that leaves what an input consists of alone is a stutter.
LEMMA StutterMaps ==
  ASSUME UNCHANGED <<buffer, bufferBitSize, ctx, lost, got>>
  PROVE  UNCHANGED Input!vars
BY DEF Input!vars, BitAt

\* A delivery of the k bits at the current position.
LEMMA DeliverMaps ==
  ASSUME IInv, UNCHANGED <<buffer, bufferBitSize, lost>>, ~lost,
         NEW k \in Nat, ctx.bitIndex + k =< bufferBitSize,
         ctx'.bitIndex = ctx.bitIndex + k,
         NEW new \in Seq(Bit), Len(new) = k, got' = got \o new,
         \A i \in 1..k : new[i] = BitAt(ctx.bitIndex + i - 1)
  PROVE  Input!Next
<1>1. bufferBitSize \in Nat /\ ctx.bitIndex \in Nat
  BY SizesAssumption DEF IInv, TypeOK, Context
<1> DEFINE bits == [i \in 0..(bufferBitSize - 1) |-> BitAt(i)]
<1>2. bits' = bits
  BY DEF BitAt
<1>3. new = [i \in 1..k |-> bits[ctx.bitIndex + i - 1]]
  <2>1. \A i \in 1..k : ctx.bitIndex + i - 1 \in 0..(bufferBitSize - 1)
    BY <1>1
  <2>2. \A i \in 1..k : bits[ctx.bitIndex + i - 1] = BitAt(ctx.bitIndex + i - 1)
    BY <2>1
  <2>3. new = [i \in 1..k |-> new[i]]
    OBVIOUS
  <2> HIDE DEF bits
  <2> QED
    BY <2>2, <2>3
<1>4. new = Input!Slice(ctx.bitIndex, k)
  BY <1>3 DEF Input!Slice
<1>5. k \in 0..bufferBitSize
  BY <1>1
<1>6. Input!Deliver(k)
  BY <1>2, <1>4 DEF Input!Deliver
<1> QED
  BY <1>5, <1>6 DEF Input!Next

\* Nothing is promised about a step of a reader that was used after an exception.
LEMMA UndefinedMaps ==
  ASSUME UNCHANGED <<buffer, bufferBitSize>>, lost, lost'
  PROVE  Input!Next
<1>1. Input!Undefined
  BY DEF Input!Undefined, BitAt
<1> QED
  BY <1>1 DEF Input!Next

\* A chunk is a delivery, a run off the end, or undefined after one.
LEMMA ChunkMaps ==
  ASSUME IInv, ReadChunk
  PROVE  Input!Next
<1> DEFINE n == Head(todo)
           r == ReadUnsignedBitsImpl(ctx, n)
<1>1. n \in 1..WordBits
  <2>1. todo \in Seq(1..WordBits) /\ todo # <<>>
    BY DEF IInv, TypeOK, ReadChunk
  <2> DEFINE S == 1..WordBits
  <2>2. todo \in Seq(S) /\ todo # <<>>
    BY <2>1
  <2> HIDE DEF S
  <2>3. Head(todo) \in S
    BY <2>2
  <2> QED
    BY <2>3 DEF S
<1>2. /\ WordBits \in {32, 64}
      /\ WideBits = 64
      /\ ctx \in Context
      /\ ctx.bitIndex \in Nat
      /\ bufferBitSize \in Nat
      /\ BufferOK
  BY WordBitsAssumption, SizesAssumption
     DEF IInv, TypeOK, BufferOK, Context, NarrowBits, WideBits
<1>3. CASE lost
  <2>1. lost' = TRUE /\ UNCHANGED <<buffer, bufferBitSize>>
    BY <1>3 DEF ReadChunk, IInv, TypeOK
  <2> QED
    BY <1>3, <2>1, UndefinedMaps
<1>4. CASE ~lost
  <2>1. Coherent(ctx) /\ EndsOnByte(ctx)
    BY <1>4 DEF IInv, CacheCoherent, CacheEndsOnByte
  <2>2. CASE r.eof
    <3>1. ctx.bitIndex + n > bufferBitSize
      BY <1>1, <1>2, <2>1, <2>2, ChunkExact
    <3>2. n \in 1..WideBits
      BY <1>1, <1>2
    <3>3. lost' = TRUE /\ UNCHANGED <<buffer, bufferBitSize>>
      BY <2>2 DEF ReadChunk
    <3> HIDE DEF n
    <3>4. Input!RunOff
      BY <3>1, <3>2, <3>3 DEF Input!RunOff, BitAt
    <3> QED
      BY <3>4 DEF Input!Next
  <2>3. CASE ~r.eof
    <3> DEFINE bits == LowBits(r.value, n)
    <3>1. /\ ctx' = r.ctx
          /\ got' = got \o bits
          /\ UNCHANGED <<buffer, bufferBitSize, lost>>
      BY <2>3 DEF ReadChunk
    <3>2. r.ctx.bitIndex = ctx.bitIndex + n /\ r.value \in Word
      BY <1>1, <1>2, <2>3, ChunkTypes
    <3>3. /\ \A p \in 0..(n - 1) : r.value[p] = BitAt(ctx.bitIndex + n - 1 - p)
          /\ ~(ctx.bitIndex + n > bufferBitSize)
      BY <1>1, <1>2, <2>1, <2>3, ChunkExact
    <3>4. ctx.bitIndex + n =< bufferBitSize /\ n \in Nat
      <4>1. n \in Int
        BY <1>1
      <4> HIDE DEF n
      <4> QED
        BY <1>1, <1>2, <3>3, <4>1
    <3>5. /\ bits \in Seq(Bit)
          /\ Len(bits) = n
          /\ \A i \in 1..n : bits[i] = r.value[n - i]
      <4>1. \A i \in 1..n : n - i \in 0..(WordBits - 1)
        BY <1>1, <1>2
      <4>2. \A i \in 1..n : r.value[n - i] \in Bit
        BY <3>2, <4>1 DEF Word
      <4> HIDE DEF r, n
      <4> QED
        BY <1>1, <3>4, <4>2 DEF LowBits
    <3>6. ASSUME NEW i \in 1..n
          PROVE  bits[i] = BitAt(ctx.bitIndex + i - 1)
      <4>1. n - i \in 0..(n - 1)
        BY <3>4
      <4>2. ctx.bitIndex + n - 1 - (n - i) = ctx.bitIndex + i - 1
        <5> HIDE DEF n
        <5> QED
          BY <1>2, <3>4
      <4> QED
        BY <3>3, <3>5, <4>1, <4>2
    <3>7. ctx'.bitIndex = ctx.bitIndex + n
      BY <3>1, <3>2, Zenon
    <3> HIDE DEF n, r, bits
    <3> QED
      BY <1>4, <3>1, <3>4, <3>5, <3>6, <3>7, DeliverMaps
  <2> QED
    BY <2>2, <2>3
<1> QED
  BY <1>3, <1>4

\* The copying of a block is one delivery of all its bytes.
LEMMA ReadBlockAlignedMaps ==
  ASSUME IInv, ReadBlockAligned
  PROVE  Input!Next
<1> DEFINE numBits == (block \div ByteBits) * ByteBits
           copied == [i \in 1..numBits |-> BitAt(ctx.bitIndex + i - 1)]
<1>1. /\ bufferBitSize \in Nat
      /\ ctx \in Context
      /\ ctx.bitIndex \in Nat
      /\ BufferOK
      /\ block \in Nat
      /\ ctx.bitIndex + block =< bufferBitSize
      /\ lost \in BOOLEAN
  BY SizesAssumption DEF IInv, TypeOK, BufferOK, Context, ReadBlockAligned
<1>2. /\ numBits \in Nat
      /\ ctx.bitIndex + numBits \in Nat
      /\ ctx.bitIndex + numBits =< bufferBitSize
  BY <1>1 DEF ByteBits
<1>3. /\ ctx' = SeekTo(ctx.bitIndex + numBits).ctx
      /\ got' = got \o copied
      /\ UNCHANGED <<buffer, bufferBitSize, lost>>
  BY DEF ReadBlockAligned
<1>4. CASE lost
  BY <1>3, <1>4, UndefinedMaps
<1>5. CASE ~lost
  <2> HIDE DEF numBits
  <2>1. SeekTo(ctx.bitIndex + numBits).ctx.bitIndex = ctx.bitIndex + numBits
    BY <1>1, <1>2, Seek
  <2>2. ctx'.bitIndex = ctx.bitIndex + numBits
    BY <1>3, <2>1, Zenon
  <2>3. /\ copied \in Seq(Bit)
        /\ Len(copied) = numBits
        /\ \A i \in 1..numBits : copied[i] = BitAt(ctx.bitIndex + i - 1)
    <3>1. \A i \in 1..numBits : BitAt(ctx.bitIndex + i - 1) \in Bit
      <4>1. \A i \in 1..numBits : ctx.bitIndex + i - 1 \in Int
        BY <1>1, <1>2
      <4> QED
        BY <1>1, <4>1, BitAtType
    <3> QED
      BY <1>2, <3>1
  <2> HIDE DEF copied
  <2> QED
    BY <1>2, <1>3, <1>5, <2>2, <2>3, DeliverMaps
<1> QED
  BY <1>4, <1>5

\* setBitPosition is a Seek, or a Start when it is refused.
LEMMA SetBitPositionMaps ==
  ASSUME IInv, NEW p \in Positions, SetBitPosition(p)
  PROVE  Input!Next
<1>1. bufferBitSize \in Nat /\ p \in Nat /\ ctx \in Context /\ BufferOK
  BY SizesAssumption, ArgumentsAssumption DEF IInv, TypeOK, BufferOK
<1>2. CASE p > bufferBitSize
  <2>1. Input!Start
    BY <1>2, StartMaps DEF SetBitPosition, Refuse
  <2> QED
    BY <2>1 DEF Input!Next
<1>3. CASE ~(p > bufferBitSize)
  <2>1. /\ ctx' = SeekTo(p).ctx
        /\ got' = <<>>
        /\ lost' = FALSE
        /\ UNCHANGED <<buffer, bufferBitSize>>
    BY <1>3 DEF SetBitPosition
  <2>2. SeekTo(p).ctx.bitIndex = p
    BY <1>1, <1>3, Seek
  <2>3. ctx'.bitIndex = p
    BY <2>1, <2>2, Zenon
  <2>4. p \in 0..bufferBitSize /\ p =< bufferBitSize
    BY <1>1, <1>3
  <2>5. Input!Seek(p)
    BY <2>1, <2>3, <2>4 DEF Input!Seek, BitAt
  <2> QED
    BY <2>4, <2>5 DEF Input!Next
<1> QED
  BY <1>2, <1>3

\* The detailed reader implements the abstract input, step by step.
THEOREM ReaderImplementsInput == Spec => ImplementsInput
<1>1. Init => Input!Init
  BY InitMaps
<1>2. IInv /\ [Next]_vars => [Input!Next]_(Input!vars)
  <2> SUFFICES ASSUME IInv, [Next]_vars PROVE [Input!Next]_(Input!vars)
    OBVIOUS
  <2>1. ASSUME NEW chunks, NEW b, Begin(chunks, b) \/ Refuse
        PROVE  Input!Next
    <3>1. Input!Start
      BY <2>1, StartMaps DEF Begin, Refuse
    <3> QED
      BY <3>1 DEF Input!Next
  <2>2. ASSUME RefuseBlock \/ ReadBlockUnaligned
        PROVE  UNCHANGED Input!vars
    BY <2>2, StutterMaps DEF RefuseBlock, ReadBlockUnaligned
  <2>3. ASSUME UNCHANGED vars
        PROVE  UNCHANGED Input!vars
    BY <2>3, StutterMaps DEF vars
  <2>4. ASSUME NEW n \in NumBits, ReadBits32(n) \/ ReadBits64(n)
        PROVE  Input!Next
    BY <2>1, <2>4 DEF ReadBits32, ReadBits64
  <2>5. ASSUME NEW n \in {1, 16, 32, 64}, ReadFixed(n)
        PROVE  Input!Next
    BY <2>1, <2>5 DEF ReadFixed
  <2>6. ASSUME NEW k \in VarBytes, ReadVarNum(k) \/ \E n \in BlockBits : ReadBlock(k, n)
        PROVE  Input!Next
    BY <2>1, <2>6 DEF ReadVarNum, ReadBlock
  <2>7. ASSUME NEW a \in Alignments, AlignTo(a)
        PROVE  Input!Next
    BY <2>1, <2>7 DEF AlignTo
  <2> QED
    BY <2>2, <2>3, <2>4, <2>5, <2>6, <2>7, ChunkMaps, ReadBlockAlignedMaps,
       SetBitPositionMaps DEF Next
<1> QED
  BY <1>1, <1>2, ReaderInvariant, PTL DEF Spec, ImplementsInput, Input!Spec

(***************************************************************************)
(* The writer.                                                             *)
(***************************************************************************)

-------------------------------------------------------------------------------
(* The invariant.                                                          *)

\* Data of a chunk has no bits above its width: the first part of a write or-s them into the
\* bits that the byte keeps.
Clean(c) == \A p \in c.bits..(NarrowBits - 1) : c.data[p] = ZeroBit

\* The chunks an operation consists of: the outer two have any width, all others are bytes.
ChunksOK(s) ==
  /\ \A k \in 1..Len(s) : Clean(s[k])
  /\ \A k \in 2..(Len(s) - 1) : s[k].bits = ByteBits

\* The number of bits in such chunks.
TotalBits(s) ==
  IF s = <<>> THEN 0
  ELSE IF Len(s) = 1 THEN s[1].bits
  ELSE s[1].bits + ByteBits * (Len(s) - 2) + s[Len(s)].bits

PendingBits(b) == IF b = NoBlockLeft THEN 0 ELSE Len(b[1])

\* The number of bits an operation has still to write.
BitsLeft == TotalBits(chunksLeft) + PendingBits(blockLeft)

\* The numbers of bits that alignTo has to skip can be counted in a uint8_t.
AlignmentsCountable == \A a \in WriterAlignments : a =< 256

\* A writer in progress has as many bits left as separate it from its goal, or fewer, if it has
\* counted them modulo 256; one that is idle has none.
Progress ==
  /\ writeStatus = "busy" => /\ m_bitIndex + BitsLeft =< goal
                             /\ AlignmentsCountable => m_bitIndex + BitsLeft = goal
  /\ writeStatus # "busy" => chunksLeft = <<>> /\ blockLeft = NoBlockLeft
  /\ writeStatus = "done" /\ AlignmentsCountable => m_bitIndex = goal

WriterInv ==
  /\ WriterTypeOK
  /\ ChunksOK(chunksLeft)
  /\ Progress
  /\ StoresInBounds
-------------------------------------------------------------------------------
(* Numbers of bits and bytes.                                              *)

\* A bit index is a byte index and an offset into the byte.
LEMMA ByteAndOffset ==
  ASSUME NEW i \in Nat
  PROVE  /\ i \div ByteBits \in Nat
         /\ i % ByteBits \in 0..(ByteBits - 1)
         /\ i = ByteBits * (i \div ByteBits) + (i % ByteBits)
BY DEF ByteBits

LEMMA WholeBytes ==
  ASSUME NEW k \in Nat
  PROVE  /\ (k \div ByteBits) * ByteBits \in Nat /\ k % ByteBits \in Nat
         /\ k = (k \div ByteBits) * ByteBits + (k % ByteBits)
         /\ (k \div ByteBits) * ByteBits =< k
BY DEF ByteBits

\* Bits in front of a bit size are in the bytes that hold it.
LEMMA ByteOfBit ==
  ASSUME NEW i \in Nat, NEW size \in Nat, NEW bytes \in Nat,
         i < size, (size + 7) \div ByteBits =< bytes
  PROVE  i \div ByteBits \in 0..(bytes - 1)
BY DEF ByteBits

-------------------------------------------------------------------------------
(* Chunks.                                                                 *)

\* The chunk of a string has its bits, and none above them.
LEMMA ChunkOfString ==
  ASSUME NEW s \in Seq(Bit), Len(s) \in 1..NarrowBits
  PROVE  /\ Chunk(s) \in ChunkType
         /\ Chunk(s).bits = Len(s)
         /\ Clean(Chunk(s))
<1>1. \A p \in 0..(NarrowBits - 1) : p < Len(s) => s[Len(s) - p] \in Bit
  <2> SUFFICES ASSUME NEW p \in 0..(NarrowBits - 1), p < Len(s)
               PROVE  s[Len(s) - p] \in Bit
    OBVIOUS
  <2>1. Len(s) - p \in 1..Len(s)
    BY DEF NarrowBits
  <2> QED
    BY <2>1
<1>2. Chunk(s).data \in Word32
  BY <1>1, BitAssumption DEF Chunk, Word32
<1>3. Chunk(s) = [data |-> Chunk(s).data, bits |-> Len(s)]
  BY DEF Chunk
<1>4. Clean(Chunk(s))
  <2>1. \A p \in 0..(NarrowBits - 1) : p >= Len(s) => Chunk(s).data[p] = ZeroBit
    BY DEF Chunk
  <2>2. Len(s)..(NarrowBits - 1) \subseteq 0..(NarrowBits - 1)
    OBVIOUS
  <2> QED
    BY <1>3, <2>1, <2>2 DEF Clean
<1> QED
  BY <1>2, <1>3, <1>4 DEF ChunkType

\* The part of a string between two of its positions.
LEMMA PartOfString ==
  ASSUME NEW s \in Seq(Bit), NEW m \in 1..Len(s), NEW n \in m..Len(s)
  PROVE  SubSeq(s, m, n) \in Seq(Bit) /\ Len(SubSeq(s, m, n)) = n - m + 1
OBVIOUS

\* A string of bytes is written by chunks of bytes.
LEMMA ByteChunksType ==
  ASSUME NEW s \in Seq(Bit)
  PROVE  /\ ByteChunks(s) \in Seq(ChunkType)
         /\ Len(ByteChunks(s)) = Len(s) \div ByteBits
         /\ \A k \in 1..Len(ByteChunks(s)) :
              Clean(ByteChunks(s)[k]) /\ ByteChunks(s)[k].bits = ByteBits
<1> DEFINE n == Len(s) \div ByteBits
           part(k) == SubSeq(s, (k - 1) * ByteBits + 1, k * ByteBits)
<1>1. n \in Nat /\ n * ByteBits =< Len(s)
  BY DEF ByteBits
<1>2. \A k \in 1..n : /\ Chunk(part(k)) \in ChunkType
                      /\ Chunk(part(k)).bits = ByteBits
                      /\ Clean(Chunk(part(k)))
  <2> SUFFICES ASSUME NEW k \in 1..n
               PROVE  /\ Chunk(part(k)) \in ChunkType
                      /\ Chunk(part(k)).bits = ByteBits
                      /\ Clean(Chunk(part(k)))
    OBVIOUS
  <2>1. /\ (k - 1) * ByteBits + 1 \in 1..Len(s)
        /\ k * ByteBits \in ((k - 1) * ByteBits + 1)..Len(s)
    BY <1>1 DEF ByteBits
  <2>2. part(k) \in Seq(Bit) /\ Len(part(k)) = ByteBits
    BY <2>1, PartOfString DEF ByteBits
  <2>3. Len(part(k)) \in 1..NarrowBits
    BY <2>2 DEF ByteBits, NarrowBits
  <2> HIDE DEF part
  <2> QED
    BY <2>2, <2>3, ChunkOfString
<1>3. ByteChunks(s) = [k \in 1..n |-> Chunk(part(k))]
  BY DEF ByteChunks
<1> HIDE DEF n, part
<1> QED
  BY <1>1, <1>2, <1>3 DEF n

\* What is left behind the last byte of a string is one chunk, or none.
LEMMA LastChunkType ==
  ASSUME NEW s \in Seq(Bit)
  PROVE  \/ LastChunk(s) = <<>> /\ Len(s) % ByteBits = 0
         \/ \E c \in ChunkType : /\ LastChunk(s) = <<c>>
                                 /\ c.bits = Len(s) % ByteBits
                                 /\ Clean(c)
<1> DEFINE r == Len(s) % ByteBits
           part == SubSeq(s, Len(s) - r + 1, Len(s))
<1>1. r \in 0..(ByteBits - 1) /\ r =< Len(s)
  BY DEF ByteBits
<1>2. CASE r = 0
  BY <1>2 DEF LastChunk
<1>3. CASE r # 0
  <2>1. part \in Seq(Bit) /\ Len(part) = r
    BY <1>1, <1>3, PartOfString
  <2>2. r \in 1..NarrowBits
    BY <1>1, <1>3 DEF ByteBits, NarrowBits
  <2>3. LastChunk(s) = <<Chunk(part)>>
    BY <1>3 DEF LastChunk
  <2> HIDE DEF r, part
  <2>4. Chunk(part) \in ChunkType /\ Chunk(part).bits = r /\ Clean(Chunk(part))
    BY <2>1, <2>2, ChunkOfString
  <2> QED
    BY <2>3, <2>4 DEF r
<1> QED
  BY <1>2, <1>3
\* Chunks that write n bits.
Writes(s, n) == s \in Seq(ChunkType) /\ ChunksOK(s) /\ TotalBits(s) = n

LEMMA NoChunks == Writes(<<>>, 0)
BY DEF Writes, ChunksOK, TotalBits

\* A single chunk.
LEMMA OneChunk ==
  ASSUME NEW c \in ChunkType, Clean(c)
  PROVE  Writes(<<c>>, c.bits)
<1>1. <<c>> \in Seq(ChunkType) /\ Len(<<c>>) = 1 /\ <<c>>[1] = c /\ <<c>> # <<>>
  OBVIOUS
<1>2. ChunksOK(<<c>>)
  BY <1>1 DEF ChunksOK
<1>3. TotalBits(<<c>>) = c.bits
  BY <1>1 DEF TotalBits
<1> QED
  BY <1>1, <1>2, <1>3 DEF Writes

\* The bits of a chunk are counted.
LEMMA WidthType ==
  ASSUME NEW c \in ChunkType
  PROVE  c.bits \in 1..NarrowBits /\ c.bits \in Nat \ {0} /\ c.data \in Word32
BY DEF ChunkType, NarrowBits

LEMMA WidthsOfChunks ==
  ASSUME NEW s \in Seq(ChunkType)
  PROVE  \A k \in 1..Len(s) : s[k].bits \in Nat
<1> TAKE k \in 1..Len(s)
<1>1. s[k] \in ChunkType
  OBVIOUS
<1> QED
  BY <1>1, WidthType

\* A sequence is empty if its length is zero.
LEMMA EmptyString ==
  ASSUME NEW S, NEW s \in Seq(S)
  PROVE  s = <<>> <=> Len(s) = 0
OBVIOUS

\* The total is a number, and the first chunk is a part of it.
LEMMA TotalOfTail ==
  ASSUME NEW s \in Seq(ChunkType), s # <<>>, ChunksOK(s)
  PROVE  /\ Head(s) \in ChunkType
         /\ Clean(Head(s))
         /\ Tail(s) \in Seq(ChunkType)
         /\ ChunksOK(Tail(s))
         /\ TotalBits(s) = Head(s).bits + TotalBits(Tail(s))
         /\ TotalBits(Tail(s)) \in Nat
<1> DEFINE t == Tail(s)
<1>1. /\ Len(s) \in Nat \ {0} /\ Len(t) = Len(s) - 1
      /\ \A k \in 1..(Len(s) - 1) : t[k] = s[k + 1]
      /\ t \in Seq(ChunkType) /\ Head(s) = s[1]
      /\ \A k \in 1..Len(s) : s[k] \in ChunkType
  OBVIOUS
<1>2. t = <<>> <=> Len(t) = 0
  BY <1>1, EmptyString
<1> HIDE DEF t
<1>3. Head(s) \in ChunkType /\ Clean(Head(s))
  BY <1>1 DEF ChunksOK
<1>4. \A k \in 1..Len(s) : s[k].bits \in Nat
  BY WidthsOfChunks
<1>5. ChunksOK(t)
  <2>1. \A k \in 1..Len(t) : k + 1 \in 1..Len(s)
    BY <1>1
  <2>2. \A k \in 1..Len(t) : Clean(t[k])
    BY <1>1, <2>1 DEF ChunksOK
  <2>3. \A k \in 2..(Len(t) - 1) : k + 1 \in 2..(Len(s) - 1)
    BY <1>1
  <2>4. \A k \in 2..(Len(t) - 1) : t[k].bits = ByteBits
    BY <1>1, <2>3 DEF ChunksOK
  <2> QED
    BY <2>2, <2>4 DEF ChunksOK
<1>6. CASE Len(s) = 1
  <2>1. t = <<>>
    BY <1>1, <1>6, <1>2
  <2> QED
    BY <1>1, <1>3, <1>4, <1>5, <1>6, <2>1 DEF TotalBits, t
<1>7. CASE Len(s) = 2
  <2>1. t # <<>> /\ Len(t) = 1 /\ t[1] = s[2]
    BY <1>1, <1>7, <1>2
  <2>2. TotalBits(t) = s[2].bits
    BY <2>1 DEF TotalBits
  <2>3. TotalBits(s) = s[1].bits + s[2].bits
    BY <1>4, <1>7 DEF TotalBits, ByteBits
  <2> QED
    BY <1>1, <1>3, <1>4, <1>5, <1>7, <2>2, <2>3 DEF t
<1>8. CASE Len(s) > 2
  <2>1. /\ t # <<>> /\ Len(t) # 1
        /\ t[1] = s[2] /\ t[Len(t)] = s[Len(s)]
    BY <1>1, <1>8, <1>2
  <2>2. s[2].bits = ByteBits
    BY <1>8 DEF ChunksOK
  <2>3. TotalBits(t) = ByteBits + ByteBits * (Len(s) - 3) + s[Len(s)].bits
    BY <1>1, <2>1, <2>2 DEF TotalBits
  <2>4. TotalBits(s) = s[1].bits + ByteBits * (Len(s) - 2) + s[Len(s)].bits
    BY <1>8 DEF TotalBits
  <2>5. s[1].bits \in Nat /\ s[Len(s)].bits \in Nat
    BY <1>4, <1>8
  <2>6. TotalBits(s) = s[1].bits + TotalBits(t) /\ TotalBits(t) \in Nat
    BY <1>8, <2>3, <2>4, <2>5 DEF ByteBits
  <2> QED
    BY <1>1, <1>3, <1>5, <2>6 DEF t
<1> QED
  BY <1>1, <1>6, <1>7, <1>8 DEF t

\* Two chunks.
LEMMA TwoChunks ==
  ASSUME NEW c \in ChunkType, Clean(c), NEW d \in ChunkType, Clean(d)
  PROVE  Writes(<<c, d>>, c.bits + d.bits)
<1>1. /\ <<c, d>> \in Seq(ChunkType) /\ Len(<<c, d>>) = 2 /\ <<c, d>> # <<>>
      /\ <<c, d>>[1] = c /\ <<c, d>>[2] = d
  OBVIOUS
<1>2. ChunksOK(<<c, d>>)
  BY <1>1 DEF ChunksOK
<1>3. c.bits \in Nat /\ d.bits \in Nat
  BY WidthType
<1>4. TotalBits(<<c, d>>) = c.bits + d.bits
  BY <1>1, <1>3 DEF TotalBits, ByteBits
<1> QED
  BY <1>1, <1>2, <1>4 DEF Writes

\* A masked word fits into the bits that it is masked to.
LEMMA MaskedFits ==
  ASSUME NEW w \in Word64, NEW n \in 1..WideBits
  PROVE  MaskWord(w, n) \in Word64 /\ FitsUnsigned(MaskWord(w, n), n)
BY BitAssumption DEF Word64, MaskWord, FitsUnsigned, WideBits

\* So does zero.
LEMMA ZeroFits ==
  ASSUME NEW n \in 1..WideBits
  PROVE  ZeroWord64 \in Word64 /\ FitsUnsigned(ZeroWord64, n)
BY BitAssumption DEF Word64, ZeroWord64, FitsUnsigned, WideBits

\* A word of n bits is written in one chunk or in two.
LEMMA WordWritten ==
  ASSUME NEW w \in Word64, NEW n \in 1..WideBits, FitsUnsigned(w, n)
  PROVE  Writes(WrittenChunks(w, n), n) /\ WrittenChunks(w, n) # <<>>
<1> DEFINE low(k) == [data |-> Narrow(w, 0), bits |-> k]
           high == [data |-> Narrow(w, NarrowBits), bits |-> n - NarrowBits]
<1>1. Narrow(w, 0) \in Word32 /\ Narrow(w, NarrowBits) \in Word32
  BY DEF Narrow, Word32, Word64, NarrowBits, WideBits
<1>2. CASE n =< NarrowBits
  <2>1. low(n) \in ChunkType
    BY <1>1, <1>2 DEF ChunkType, WideBits
  <2>2. Clean(low(n))
    BY <1>2 DEF Clean, FitsUnsigned, Narrow, NarrowBits, WideBits
  <2>3. WrittenChunks(w, n) = <<low(n)>> /\ low(n).bits = n
    BY <1>2 DEF WrittenChunks
  <2> HIDE DEF low
  <2> QED
    BY <2>1, <2>2, <2>3, OneChunk
<1>3. CASE n > NarrowBits
  <2>1. low(NarrowBits) \in ChunkType /\ high \in ChunkType
    BY <1>1, <1>3 DEF ChunkType, NarrowBits, WideBits
  <2>2. Clean(low(NarrowBits))
    BY DEF Clean, NarrowBits
  <2>3. Clean(high)
    BY <1>3 DEF Clean, FitsUnsigned, Narrow, NarrowBits, WideBits
  <2>4. /\ WrittenChunks(w, n) = <<high, low(NarrowBits)>>
        /\ high.bits + low(NarrowBits).bits = n
    BY <1>3 DEF WrittenChunks, NarrowBits, WideBits
  <2> HIDE DEF low, high
  <2> QED
    BY <2>1, <2>2, <2>3, <2>4, TwoChunks
<1> QED
  BY <1>2, <1>3 DEF NarrowBits, WideBits

\* A string is written by its bytes and by what is left behind them.
LEMMA StringWritten ==
  ASSUME NEW s \in Seq(Bit)
  PROVE  /\ Writes(ByteChunks(s) \o LastChunk(s), Len(s))
         /\ Writes(LastChunk(s), Len(s) % ByteBits)
<1> DEFINE k == Len(s) \div ByteBits
           r == Len(s) % ByteBits
           b == ByteChunks(s)
<1>1. /\ b \in Seq(ChunkType) /\ Len(b) = k
      /\ \A i \in 1..k : b[i] \in ChunkType /\ Clean(b[i]) /\ b[i].bits = ByteBits
  BY ByteChunksType
<1>2. Len(s) \in Nat /\ k \in Nat /\ r \in Nat /\ Len(s) = ByteBits * k + r
  BY DEF ByteBits
<1> HIDE DEF k, r, b
<1>3. CASE LastChunk(s) = <<>> /\ r = 0
  <2>1. b \o LastChunk(s) = b
    BY <1>1, <1>3
  <2>2. ChunksOK(b)
    BY <1>1, <1>2 DEF ChunksOK
  <2>3. TotalBits(b) = Len(s)
    <3>1. CASE k = 0
      <4>1. b = <<>>
        BY <1>1, <3>1
      <4> QED
        BY <1>2, <1>3, <3>1, <4>1 DEF TotalBits, ByteBits
    <3>2. CASE k = 1
      <4>1. b # <<>> /\ b[1].bits = ByteBits
        <5>1. 1 \in 1..k /\ b \in Seq(ChunkType) /\ Len(b) # 0
          BY <1>1, <3>2
        <5> QED
          BY <1>1, <5>1, EmptyString
      <4> QED
        BY <1>1, <1>2, <1>3, <3>2, <4>1 DEF TotalBits, ByteBits
    <3>3. CASE k > 1
      <4>1. b # <<>> /\ b[1].bits = ByteBits /\ b[k].bits = ByteBits
        BY <1>1, <1>2, <3>3
      <4> QED
        BY <1>1, <1>2, <1>3, <3>3, <4>1 DEF TotalBits, ByteBits
    <3> QED
      BY <1>2, <3>1, <3>2, <3>3
  <2> QED
    BY <1>1, <1>3, <2>1, <2>2, <2>3, NoChunks DEF Writes, b, r
<1>4. CASE \E c \in ChunkType : LastChunk(s) = <<c>> /\ c.bits = r /\ Clean(c)
  <2>1. PICK c \in ChunkType : LastChunk(s) = <<c>> /\ c.bits = r /\ Clean(c)
    BY <1>4
  <2> DEFINE all == b \o <<c>>
  <2>2. /\ all \in Seq(ChunkType) /\ Len(all) = k + 1 /\ all[k + 1] = c
        /\ \A i \in 1..k : all[i] = b[i]
    BY <1>1, <1>2
  <2>3. all # <<>>
    BY <1>2, <2>2
  <2> HIDE DEF all
  <2>4. \A i \in 1..Len(all) : i \in 1..k \/ i = k + 1
    BY <1>2, <2>2
  <2>5. \A i \in 1..Len(all) : Clean(all[i])
    BY <1>1, <2>1, <2>2, <2>4
  <2>6. \A i \in 2..(Len(all) - 1) : i \in 1..k
    BY <1>2, <2>2
  <2>7. \A i \in 2..(Len(all) - 1) : all[i].bits = ByteBits
    BY <1>1, <2>2, <2>6
  <2>8. TotalBits(all) = Len(s)
    <3>1. CASE k = 0
      BY <1>2, <2>1, <2>2, <2>3, <3>1 DEF TotalBits, ByteBits
    <3>2. CASE k > 0
      <4>1. all[1].bits = ByteBits /\ Len(all) # 1 /\ all[Len(all)].bits = r
        BY <1>1, <1>2, <2>1, <2>2, <3>2
      <4> QED
        BY <1>2, <2>2, <2>3, <3>2, <4>1 DEF TotalBits, ByteBits
    <3> QED
      BY <1>2, <3>1, <3>2
  <2>9. Writes(all, Len(s))
    BY <2>2, <2>5, <2>7, <2>8 DEF Writes, ChunksOK
  <2> QED
    BY <2>1, <2>9, OneChunk DEF all, b, r
<1> QED
  BY <1>3, <1>4, LastChunkType DEF r

\* A string of bytes has nothing left.
LEMMA BytesWritten ==
  ASSUME NEW s \in Seq(Bit), Len(s) % ByteBits = 0
  PROVE  Writes(ByteChunks(s), Len(s))
<1>1. LastChunk(s) = <<>>
  BY DEF LastChunk
<1>2. ByteChunks(s) \o <<>> = ByteChunks(s)
  BY ByteChunksType
<1> QED
  BY <1>1, <1>2, StringWritten

-------------------------------------------------------------------------------
(* Patching the buffer.                                                    *)

\* What writeUnsignedBits32Impl stores: bit p of byte j is bit 8 * j + 7 - p of the stream; if
\* it is one of the n bits from b onwards it gets its bit of the data, else it keeps its own.
LEMMA StoredBitExact ==
  ASSUME NEW b \in Nat, NEW n \in 1..NarrowBits, NEW data \in Word32,
         \A q \in n..(NarrowBits - 1) : data[q] = ZeroBit,
         NEW j \in Nat, NEW p \in 0..(ByteBits - 1), NEW old
  PROVE  StoredBit(b, data, n, j, p, old)
           = IF ByteBits * j + 7 - p \in b..(b + n - 1)
             THEN data[n - 1 - ((ByteBits * j + 7 - p) - b)]
             ELSE old
<1> DEFINE B == b \div ByteBits
           r == b % ByteBits
           free == ByteBits - r
           rest == n - free
           middle == rest \div ByteBits
           ending == rest % ByteBits
           i == ByteBits * j + 7 - p
           patched == StoredBit(b, data, n, j, p, old)
<1>1. /\ B \in Nat /\ r \in 0..7 /\ b = 8 * B + r /\ free = 8 - r
      /\ n \in 1..32 /\ p \in 0..7 /\ i = 8 * j + 7 - p
  BY DEF ByteBits, NarrowBits
<1>2. rest \in Int /\ rest = n - 8 + r
  BY <1>1
<1>3. rest > 0 => middle \in Nat /\ ending \in 0..7 /\ rest = 8 * middle + ending
  BY <1>2 DEF ByteBits
<1>4. \A q \in Int : DataBit(data, q) = IF q \in 0..(n - 1) THEN data[q] ELSE ZeroBit
  <2>1. DOMAIN data = 0..(NarrowBits - 1)
    BY DEF Word32
  <2> QED
    BY <2>1 DEF DataBit, NarrowBits
<1>5. patched = IF n =< free
              THEN IF j = B THEN LastPart(old, data, p, free - n, n) ELSE old
              ELSE IF j = B
              THEN OrBit(KeptBit(old, p, free), DataBit(data, p + rest))
              ELSE IF j \in (B + 1)..(B + middle)
              THEN DataBit(data, p + rest - ByteBits * (j - B))
              ELSE IF j = B + middle + 1 /\ ending > 0
              THEN LastPart(old, data, p, ByteBits - ending, ending)
              ELSE old
  BY DEF StoredBit
<1> DEFINE wanted == IF i \in b..(b + n - 1) THEN data[n - 1 - (i - b)] ELSE old
<1> HIDE DEF B, r, free, rest, middle, ending, i, patched, wanted
<1>6. ASSUME n =< free
      PROVE  patched = wanted
  <2>1. CASE j = B
    <3>1. patched = IF p \in (free - n)..(free - 1) THEN DataBit(data, p - (free - n)) ELSE old
      BY <1>1, <1>5, <1>6, <2>1 DEF LastPart
    <3>2. p \in (free - n)..(free - 1) <=> i \in b..(b + n - 1)
      BY <1>1, <2>1
    <3>3. CASE i \in b..(b + n - 1)
      <4>1. p - (free - n) \in 0..(n - 1) /\ p - (free - n) = n - 1 - (i - b)
        BY <1>1, <2>1, <3>3
      <4> QED
        BY <1>4, <3>1, <3>2, <3>3, <4>1 DEF wanted
    <3>4. CASE i \notin b..(b + n - 1)
      BY <3>1, <3>2, <3>4 DEF wanted
    <3> QED
      BY <3>3, <3>4
  <2>2. CASE j # B
    <3>1. patched = old
      BY <1>5, <1>6, <2>2
    <3>2. i \notin b..(b + n - 1)
      BY <1>1, <1>6, <2>2
    <3> QED
      BY <3>1, <3>2 DEF wanted
  <2> QED
    BY <2>1, <2>2
<1>7. ASSUME ~(n =< free)
      PROVE  patched = wanted
  <2>1. rest > 0 /\ rest < n
    BY <1>1, <1>2, <1>7
  <2>2. CASE j = B
    <3>1. patched = OrBit(KeptBit(old, p, free), DataBit(data, p + rest))
      BY <1>5, <1>7, <2>2
    <3>2. CASE p >= free
      <4>1. p + rest \in Int /\ p + rest \notin 0..(n - 1)
        BY <1>1, <1>2, <3>2
      <4>2. DataBit(data, p + rest) = ZeroBit
        BY <1>4, <4>1
      <4>3. KeptBit(old, p, free) = old
        BY <3>2 DEF KeptBit
      <4>4. patched = old
        BY <3>1, <4>2, <4>3 DEF OrBit
      <4>5. i \notin b..(b + n - 1)
        BY <1>1, <2>2, <3>2
      <4> QED
        BY <4>4, <4>5 DEF wanted
    <3>3. CASE ~(p >= free)
      <4>1. p + rest \in 0..(n - 1) /\ p + rest = n - 1 - (i - b)
        BY <1>1, <1>2, <2>1, <2>2, <3>3
      <4>2. i \in b..(b + n - 1)
        BY <1>1, <1>2, <2>1, <2>2, <3>3
      <4>3. DataBit(data, p + rest) = data[p + rest]
        BY <1>4, <4>1
      <4>4. KeptBit(old, p, free) = ZeroBit
        BY <3>3 DEF KeptBit
      <4>5. patched = data[p + rest]
        BY <3>1, <4>3, <4>4 DEF OrBit
      <4> QED
        BY <4>1, <4>2, <4>5 DEF wanted
    <3> QED
      BY <3>2, <3>3
  <2>3. CASE j \in (B + 1)..(B + middle)
    <3>1. j # B
      BY <1>1, <2>3
    <3>2. patched = DataBit(data, p + rest - ByteBits * (j - B))
      BY <1>5, <1>7, <2>3, <3>1
    <3>3. /\ p + rest - 8 * (j - B) \in 0..(n - 1)
          /\ p + rest - 8 * (j - B) = n - 1 - (i - b)
          /\ i \in b..(b + n - 1)
      BY <1>1, <1>2, <1>3, <2>1, <2>3
    <3> QED
      BY <1>4, <3>2, <3>3 DEF wanted, ByteBits
  <2>4. CASE j # B /\ j \notin (B + 1)..(B + middle) /\ j = B + middle + 1 /\ ending > 0
    <3>1. patched = IF p \in (8 - ending)..7 THEN DataBit(data, p - (8 - ending)) ELSE old
      <4>1. patched = LastPart(old, data, p, ByteBits - ending, ending)
        BY <1>5, <1>7, <2>4
      <4>2. 8 - ending + ending - 1 = 7
        BY <1>3, <2>1
      <4> QED
        BY <4>1, <4>2 DEF LastPart, ByteBits
    <3>2. p \in (8 - ending)..7 <=> i \in b..(b + n - 1)
      <4>1. /\ b + n = 8 + 8 * B + rest /\ rest = 8 * middle + ending
            /\ ending \in 0..7 /\ middle \in Nat
        BY <1>1, <1>2, <1>3, <2>1
      <4>2. j = B + middle + 1
        BY <2>4
      <4>3. b + n = 8 * j + ending /\ b < 8 * j
        BY <1>1, <4>1, <4>2
      <4> QED
        BY <1>1, <4>1, <4>3
    <3>3. CASE i \in b..(b + n - 1)
      <4>1. p - (8 - ending) \in 0..(n - 1) /\ p - (8 - ending) = n - 1 - (i - b)
        BY <1>1, <1>2, <1>3, <2>1, <2>4, <3>2, <3>3
      <4> QED
        BY <1>4, <3>1, <3>2, <3>3, <4>1 DEF wanted
    <3>4. CASE i \notin b..(b + n - 1)
      BY <3>1, <3>2, <3>4 DEF wanted
    <3> QED
      BY <3>3, <3>4
  <2>5. CASE j # B /\ j \notin (B + 1)..(B + middle) /\ ~(j = B + middle + 1 /\ ending > 0)
    <3>1. patched = old
      BY <1>5, <1>7, <2>5
    <3>2. i \notin b..(b + n - 1)
      BY <1>1, <1>2, <1>3, <2>1, <2>5
    <3> QED
      BY <3>1, <3>2 DEF wanted
  <2> QED
    BY <2>2, <2>3, <2>4, <2>5
<1>8. patched = wanted
  BY <1>6, <1>7
<1> QED
  BY <1>8 DEF patched, wanted, i

\* The stores of a chunk that ends in front of the bit size are in the buffer.
LEMMA StoredBytesInBounds ==
  ASSUME NEW b \in Nat, NEW n \in Nat \ {0}, NEW size \in Nat, NEW bytes \in Nat,
         b + n =< size, (size + 7) \div ByteBits =< bytes
  PROVE  StoredBytes(b, n) \subseteq 0..(bytes - 1)
<1> DEFINE B == b \div ByteBits
           r == b % ByteBits
           rest == n - (ByteBits - r)
           ending == IF rest % ByteBits > 0 THEN 1 ELSE 0
<1>1. /\ B \in Nat /\ r \in 0..7 /\ b = 8 * B + r /\ rest = n - 8 + r
      /\ size < 8 * bytes + 1
  BY DEF ByteBits
<1>2. CASE rest =< 0
  <2>1. StoredBytes(b, n) = {B}
    BY <1>2 DEF StoredBytes
  <2> QED
    BY <1>1, <2>1
<1>3. CASE ~(rest =< 0)
  <2>1. /\ rest \div ByteBits \in Nat /\ rest % ByteBits \in 0..7
        /\ rest = 8 * (rest \div ByteBits) + (rest % ByteBits)
    BY <1>1, <1>3 DEF ByteBits
  <2>2. StoredBytes(b, n) = B..(B + (rest \div ByteBits) + ending)
    BY <1>3 DEF StoredBytes
  <2> DEFINE top == B + (rest \div ByteBits) + ending
  <2>3. top \in Nat /\ top =< bytes - 1
    BY <1>1, <2>1
  <2> HIDE DEF B, rest, ending, top
  <2>4. B..top \subseteq 0..(bytes - 1)
    BY <1>1, <2>3
  <2> QED
    BY <2>2, <2>4 DEF top
<1> QED
  BY <1>2, <1>3

\* What a concatenation has added to a sequence.
LEMMA Appended ==
  ASSUME NEW s \in Seq(Bit), NEW t \in Seq(Bit)
  PROVE  /\ s \o t \in Seq(Bit)
         /\ SubSeq(s \o t, Len(s) + 1, Len(s \o t)) = t
<1>1. Len(s \o t) = Len(s) + Len(t) /\ s \o t \in Seq(Bit)
  OBVIOUS
<1> DEFINE u == SubSeq(s \o t, Len(s) + 1, Len(s) + Len(t))
<1>2. Len(u) = Len(t) /\ u \in Seq(Bit)
  BY <1>1
<1>3. \A k \in 1..Len(t) : u[k] = t[k]
  BY <1>1
<1> HIDE DEF u
<1>4. u = t
  BY <1>2, <1>3
<1> QED
  BY <1>1, <1>4 DEF u

-------------------------------------------------------------------------------
(* The steps preserve the invariant.                                       *)

\* A block as it is kept, one string or none, has a number of bits.
LEMMA PendingType ==
  ASSUME NEW b \in Seq(Seq(Bit)), Len(b) =< 1
  PROVE  /\ PendingBits(b) \in Nat
         /\ b # NoBlockLeft => b[1] \in Seq(Bit) /\ Head(b) = b[1] /\ PendingBits(b) = Len(b[1])
<1>1. b # <<>> => b[1] \in Seq(Bit) /\ Head(b) = b[1]
  OBVIOUS
<1>2. b # <<>> => Len(b[1]) \in Nat
  BY <1>1
<1> QED
  BY <1>1, <1>2 DEF PendingBits, NoBlockLeft

LEMMA OneBlock ==
  ASSUME NEW s \in Seq(Bit)
  PROVE  /\ <<s>> \in Seq(Seq(Bit)) /\ Len(<<s>>) =< 1 /\ PendingBits(<<s>>) = Len(s)
         /\ <<s>> # NoBlockLeft
BY DEF PendingBits, NoBlockLeft

LEMMA NoBlockType ==
  NoBlockLeft \in Seq(Seq(Bit)) /\ Len(NoBlockLeft) =< 1 /\ PendingBits(NoBlockLeft) = 0
BY DEF PendingBits, NoBlockLeft

LEMMA TotalType ==
  ASSUME NEW s \in Seq(ChunkType), ChunksOK(s)
  PROVE  TotalBits(s) \in Nat
<1>1. CASE s = <<>>
  BY <1>1 DEF TotalBits
<1>2. CASE s # <<>>
  <2>1. Head(s).bits \in Nat
    BY <1>2, TotalOfTail, WidthType
  <2> QED
    BY <1>2, <2>1, TotalOfTail
<1> QED
  BY <1>1, <1>2

\* The constructors.
LEMMA InitInv == WriterInit => WriterInv
<1> SUFFICES ASSUME WriterInit
             PROVE  WriterInv
  OBVIOUS
<1>1. /\ m_buffer = [bytes |-> m_buffer.bytes, bits |-> m_buffer.bits]
      /\ m_buffer.bytes \in Nat /\ m_buffer.bits \in [0..(m_buffer.bytes * ByteBits - 1) -> Bit]
      /\ m_bufferBitSize \in Nat
  BY WriterBuffersAssumption, WriterSizesAssumption DEF WriterInit
<1>2. WriterTypeOK
  BY <1>1, NoBlockType, WriterArgumentsAssumption DEF WriterInit, WriterTypeOK
<1>3. ChunksOK(chunksLeft)
  BY NoChunks DEF WriterInit, Writes
<1>4. Progress
  BY DEF WriterInit, Progress
<1>5. StoresInBounds
  BY DEF WriterInit, StoresInBounds
<1> QED
  BY <1>2, <1>3, <1>4, <1>5 DEF WriterInv

\* An operation starts with its goal as far away as its chunks and its block are long.
LEMMA BeginInv ==
  ASSUME WriterInv, WriterIdle,
         NEW chunks, NEW total \in Nat, Writes(chunks, total),
         NEW blocks \in Seq(Seq(Bit)), Len(blocks) =< 1,
         NEW numBits \in Nat,
         total + PendingBits(blocks) =< numBits,
         AlignmentsCountable => total + PendingBits(blocks) = numBits,
         BeginWrite(chunks, blocks, numBits)
  PROVE  WriterInv'
<1>1. chunks \in Seq(ChunkType) /\ ChunksOK(chunks) /\ TotalBits(chunks) = total
  BY DEF Writes
<1>2. PendingBits(blocks) \in Nat
  BY PendingType
<1>3. chunksLeft' = chunks /\ blockLeft' = blocks
  BY DEF BeginWrite
<1>4. WriterTypeOK'
  <2>1. /\ m_buffer' = [bytes |-> m_buffer'.bytes, bits |-> m_buffer'.bits]
        /\ m_buffer'.bytes \in Nat
        /\ m_buffer'.bits \in [0..(m_buffer'.bytes * ByteBits - 1) -> Bit]
        /\ m_bufferBitSize' \in Nat /\ (m_bufferBitSize' + 7) \div ByteBits =< m_buffer'.bytes
        /\ hasWriteBuffer' \in BOOLEAN /\ m_bitIndex' \in Nat
    <3>1. m_buffer' = m_buffer /\ m_bufferBitSize' = m_bufferBitSize /\ hasWriteBuffer' = hasWriteBuffer
          /\ m_bitIndex' = m_bitIndex
      BY DEF BeginWrite
    <3> QED
      BY <3>1 DEF WriterInv, WriterTypeOK
  <2>2. chunksLeft' \in Seq(ChunkType) /\ blockLeft' \in Seq(Seq(Bit)) /\ Len(blockLeft') =< 1
    BY <1>1, <1>3
  <2>3. writeStatus' \in {"busy", "done", "thrown"} /\ put' \in Seq(Bit) /\ stored' \subseteq Int
    BY DEF BeginWrite
  <2>4. goal' \in Nat
    BY DEF BeginWrite, WriterInv, WriterTypeOK
  <2>5. calls' \in 0..MaxCalls
    <3>1. calls \in 0..MaxCalls /\ MaxCalls \in Nat
      BY WriterArgumentsAssumption DEF WriterInv, WriterTypeOK
    <3>2. calls < MaxCalls /\ calls' = calls + 1
      BY DEF WriterIdle, BeginWrite
    <3> QED
      BY <3>1, <3>2
  <2> QED
    BY <2>1, <2>2, <2>3, <2>4, <2>5 DEF WriterTypeOK
<1>5. ChunksOK(chunksLeft)'
  BY <1>1, <1>3 DEF ChunksOK, Clean
<1>6. BitsLeft' = total + PendingBits(blocks)
  BY <1>1, <1>3 DEF BitsLeft, TotalBits, PendingBits
<1>7. m_bitIndex \in Nat /\ m_bitIndex' = m_bitIndex /\ goal' = m_bitIndex + numBits
  BY DEF BeginWrite, WriterInv, WriterTypeOK
<1>8. chunks = <<>> /\ blocks = NoBlockLeft => total + PendingBits(blocks) = 0
  BY <1>1, NoBlockType DEF TotalBits
<1>9. writeStatus' = IF chunks = <<>> /\ blocks = NoBlockLeft THEN "done" ELSE "busy"
  BY DEF BeginWrite
<1>10. Progress'
  <2>1. CASE chunks = <<>> /\ blocks = NoBlockLeft
    BY <1>1, <1>2, <1>3, <1>7, <1>8, <1>9, <2>1 DEF Progress
  <2>2. CASE ~(chunks = <<>> /\ blocks = NoBlockLeft)
    <3>1. writeStatus' = "busy"
      BY <1>9, <2>2
    <3>2. m_bitIndex' + BitsLeft' =< goal'
      BY <1>2, <1>6, <1>7
    <3>3. AlignmentsCountable => m_bitIndex' + BitsLeft' = goal'
      BY <1>2, <1>6, <1>7
    <3> QED
      BY <3>1, <3>2, <3>3 DEF Progress, AlignmentsCountable
  <2> QED
    BY <2>1, <2>2
<1>11. StoresInBounds'
  BY DEF BeginWrite, StoresInBounds
<1> QED
  BY <1>4, <1>5, <1>10, <1>11 DEF WriterInv

\* A refused call and one that throws leave nothing to write.
LEMMA IdleInv ==
  ASSUME WriterInv,
         m_buffer' = m_buffer, m_bufferBitSize' = m_bufferBitSize,
         hasWriteBuffer' = hasWriteBuffer, m_bitIndex' \in Nat,
         chunksLeft' = <<>>, blockLeft' = NoBlockLeft,
         writeStatus' \in {"done", "thrown"},
         writeStatus' = "done" => goal' = m_bitIndex',
         put' \in Seq(Bit), goal' \in Nat, stored' = {}, calls' = calls
  PROVE  WriterInv'
<1>1. WriterTypeOK'
  BY NoBlockType DEF WriterInv, WriterTypeOK
<1>2. ChunksOK(chunksLeft)'
  BY NoChunks DEF Writes, ChunksOK, Clean
<1>3. Progress'
  BY DEF Progress
<1>4. StoresInBounds'
  BY DEF StoresInBounds
<1> QED
  BY <1>1, <1>2, <1>3, <1>4 DEF WriterInv

LEMMA RefuseInv == WriterInv /\ RefuseWrite => WriterInv'
<1> SUFFICES ASSUME WriterInv, RefuseWrite
             PROVE  WriterInv'
  OBVIOUS
<1>1. m_bitIndex \in Nat /\ <<>> \in Seq(Bit)
  BY DEF WriterInv, WriterTypeOK
<1> QED
  BY <1>1, IdleInv DEF RefuseWrite

LEMMA ThrowInv == WriterInv /\ ThrowWrite => WriterInv'
<1> SUFFICES ASSUME WriterInv, ThrowWrite
             PROVE  WriterInv'
  OBVIOUS
<1>1. m_bitIndex \in Nat /\ put \in Seq(Bit) /\ goal \in Nat
  BY DEF WriterInv, WriterTypeOK
<1> QED
  BY <1>1, IdleInv DEF ThrowWrite

LEMMA SetBitPositionInv ==
  ASSUME WriterInv, NEW p \in WriterPositions, WriterSetBitPosition(p)
  PROVE  WriterInv'
<1>1. CASE HasCapacity(p)
  <2>1. p \in Nat /\ <<>> \in Seq(Bit)
    BY WriterArgumentsAssumption
  <2>2. chunksLeft = <<>> /\ blockLeft = NoBlockLeft
    BY DEF WriterSetBitPosition, WriterInv, Progress
  <2> QED
    BY <1>1, <2>1, <2>2, IdleInv DEF WriterSetBitPosition
<1>2. CASE ~HasCapacity(p)
  BY <1>2, RefuseInv DEF WriterSetBitPosition
<1> QED
  BY <1>1, <1>2
\* The writes of numbers.
LEMMA WordInv ==
  ASSUME WriterInv, WriterIdle, NEW w \in Word64, NEW n \in 1..WideBits, FitsUnsigned(w, n),
         NEW numBits \in Nat, n =< numBits, AlignmentsCountable => n = numBits,
         BeginWrite(WrittenChunks(w, n), NoBlockLeft, numBits)
  PROVE  WriterInv'
<1>1. Writes(WrittenChunks(w, n), n)
  BY WordWritten
<1>2. n \in Nat /\ n + PendingBits(NoBlockLeft) = n
  BY NoBlockType DEF WideBits
<1> QED
  BY <1>1, <1>2, NoBlockType, BeginInv

LEMMA WriteUnsignedBitsInv ==
  ASSUME WriterInv, NEW w \in Words, NEW n \in WrittenNumBits, NEW width \in {NarrowBits, WideBits},
         WriteUnsignedBits(w, n, width)
  PROVE  WriterInv'
<1>1. WriterIdle /\ w \in Word64
  BY WriterArgumentsAssumption DEF WriteUnsignedBits
<1>2. CASE n \in 1..width /\ FitsUnsigned(w, n)
  <2>1. n \in 1..WideBits /\ n \in Nat
    BY <1>2 DEF NarrowBits, WideBits
  <2>2. BeginWrite(WrittenChunks(w, n), NoBlockLeft, n)
    BY <1>2 DEF WriteUnsignedBits
  <2> QED
    BY <1>1, <1>2, <2>1, <2>2, WordInv
<1>3. CASE ~(n \in 1..width /\ FitsUnsigned(w, n))
  BY <1>3, RefuseInv DEF WriteUnsignedBits
<1> QED
  BY <1>2, <1>3

LEMMA WriteSignedBitsInv ==
  ASSUME WriterInv, NEW w \in Words, NEW n \in WrittenNumBits, NEW width \in {NarrowBits, WideBits},
         WriteSignedBits(w, n, width)
  PROVE  WriterInv'
<1>1. WriterIdle /\ w \in Word64
  BY WriterArgumentsAssumption DEF WriteSignedBits
<1>2. CASE n \in 1..width /\ FitsSigned(w, n)
  <2>1. n \in 1..WideBits /\ n \in Nat
    BY <1>2 DEF NarrowBits, WideBits
  <2>2. BeginWrite(WrittenChunks(MaskWord(w, n), n), NoBlockLeft, n)
    BY <1>2 DEF WriteSignedBits
  <2> QED
    BY <1>1, <2>1, <2>2, WordInv, MaskedFits
<1>3. CASE ~(n \in 1..width /\ FitsSigned(w, n))
  BY <1>3, RefuseInv DEF WriteSignedBits
<1> QED
  BY <1>2, <1>3

LEMMA WriteFixedInv ==
  ASSUME WriterInv, NEW w \in Words, NEW n \in {1, 16, 32, 64}, WriteFixed(w, n)
  PROVE  WriterInv'
<1>1. WriterIdle /\ w \in Word64
  BY WriterArgumentsAssumption DEF WriteFixed
<1>2. n \in 1..WideBits /\ n \in Nat
  BY DEF WideBits
<1>3. BeginWrite(WrittenChunks(MaskWord(w, n), n), NoBlockLeft, n)
  BY DEF WriteFixed
<1> QED
  BY <1>1, <1>2, <1>3, WordInv, MaskedFits

\* The writes of variable-length numbers and of blocks.
LEMMA WriteVarNumInv ==
  ASSUME WriterInv, NEW s \in VarNums, WriteVarNum(s)
  PROVE  WriterInv'
<1>1. WriterIdle /\ s \in Seq(Bit) /\ Len(s) \in Nat /\ Len(s) % ByteBits = 0
  BY WriterArgumentsAssumption DEF WriteVarNum
<1>2. BeginWrite(ByteChunks(s), NoBlockLeft, Len(s))
  BY DEF WriteVarNum
<1>3. Writes(ByteChunks(s), Len(s))
  BY <1>1, BytesWritten
<1>4. Len(s) + PendingBits(NoBlockLeft) = Len(s)
  BY <1>1, NoBlockType
<1> QED
  BY <1>1, <1>2, <1>3, <1>4, NoBlockType, BeginInv

LEMMA WriteBlockInv ==
  ASSUME WriterInv, NEW s \in VarNums, NEW bits \in Blocks, WriteBlock(s, bits)
  PROVE  WriterInv'
<1>1. /\ WriterIdle /\ s \in Seq(Bit) /\ Len(s) \in Nat /\ Len(s) % ByteBits = 0
      /\ bits \in Seq(Bit) /\ Len(bits) \in Nat
  BY WriterArgumentsAssumption DEF WriteBlock
<1>2. BeginWrite(ByteChunks(s), <<bits>>, Len(s) + Len(bits))
  BY DEF WriteBlock
<1>3. Writes(ByteChunks(s), Len(s))
  BY <1>1, BytesWritten
<1>4. /\ <<bits>> \in Seq(Seq(Bit)) /\ Len(<<bits>>) =< 1
      /\ Len(s) + PendingBits(<<bits>>) = Len(s) + Len(bits) /\ Len(s) + Len(bits) \in Nat
  <2>1. /\ <<bits>> \in Seq(Seq(Bit)) /\ Len(<<bits>>) =< 1
        /\ PendingBits(<<bits>>) = Len(bits)
    BY <1>1, OneBlock
  <2>2. Len(s) + Len(bits) \in Nat
    BY <1>1
  <2> QED
    BY <2>1, <2>2
<1>5. /\ Len(s) + PendingBits(<<bits>>) =< Len(s) + Len(bits)
      /\ AlignmentsCountable => Len(s) + PendingBits(<<bits>>) = Len(s) + Len(bits)
  BY <1>4
<1> QED
  BY <1>1, <1>2, <1>3, <1>4, <1>5, BeginInv

\* alignTo: the padding is counted in a uint8_t, which holds the skip of any alignment up to 256.
LEMMA SkipCounted ==
  ASSUME NEW a \in Nat \ {0}, NEW b \in Nat, b % a # 0
  PROVE  /\ a - (b % a) \in Nat \ {0}
         /\ WriterAlignSkip(b % a, a) \in 0..255
         /\ WriterAlignSkip(b % a, a) =< a - (b % a)
         /\ a =< 256 => WriterAlignSkip(b % a, a) = a - (b % a)
<1>1. PICK offset \in Nat : offset = b % a /\ offset < a
  OBVIOUS
<1>2. a - offset \in Nat \ {0} /\ offset # 0
  BY <1>1
<1>3. PICK k \in Nat : k = a - offset
  BY <1>2
<1>4. k % 256 \in 0..255 /\ k % 256 =< k /\ (k < 256 => k % 256 = k)
  OBVIOUS
<1>5. a =< 256 => k < 256
  BY <1>1, <1>2, <1>3
<1> QED
  BY <1>1, <1>2, <1>3, <1>4, <1>5 DEF WriterAlignSkip, UInt8

LEMMA AlignToInv ==
  ASSUME WriterInv, NEW a \in WriterAlignments, WriterAlignTo(a)
  PROVE  WriterInv'
<1> DEFINE offset == m_bitIndex % a
           skip == WriterAlignSkip(offset, a)
<1>1. a \in Nat \ {0} /\ m_bitIndex \in Nat /\ WriterIdle
  BY WriterArgumentsAssumption DEF WriterInv, WriterTypeOK, WriterAlignTo
<1>2. CASE offset = 0
  <2>1. BeginWrite(<<>>, NoBlockLeft, 0)
    BY <1>2 DEF WriterAlignTo
  <2>2. 0 + PendingBits(NoBlockLeft) = 0
    BY NoBlockType
  <2> QED
    BY <1>1, <2>1, <2>2, NoChunks, NoBlockType, BeginInv
<1>3. CASE offset # 0 /\ skip \in 1..WideBits
  <2>1. BeginWrite(WrittenChunks(ZeroWord64, skip), NoBlockLeft, a - offset)
    BY <1>3 DEF WriterAlignTo
  <2>2. a - offset \in Nat /\ skip =< a - offset /\ (a =< 256 => skip = a - offset)
    BY <1>1, <1>3, SkipCounted
  <2>3. AlignmentsCountable => skip = a - offset
    BY <2>2 DEF AlignmentsCountable
  <2> HIDE DEF skip, offset
  <2> QED
    BY <1>1, <1>3, <2>1, <2>2, <2>3, ZeroFits, WordInv
<1>4. CASE offset # 0 /\ skip \notin 1..WideBits
  <2>1. RefuseWrite
    BY <1>4 DEF WriterAlignTo
  <2> QED
    BY <2>1, RefuseInv
<1> HIDE DEF skip, offset
<1> QED
  BY <1>2, <1>3, <1>4

-------------------------------------------------------------------------------

\* What the output that the writer implements does with a string of bits.
LEMMA OverwriteIs ==
  ASSUME NEW p, NEW s
  PROVE  Output!Overwrite(p, s)
           = [i \in DOMAIN m_buffer.bits |->
                IF i \in p..(p + Len(s) - 1) THEN s[i - p + 1] ELSE m_buffer.bits[i]]
BY DEF Output!Overwrite

LEMMA OverwriteType ==
  ASSUME WriterTypeOK, NEW p \in Nat, NEW s \in Seq(Bit)
  PROVE  Output!Overwrite(p, s) \in [0..(m_buffer.bytes * ByteBits - 1) -> Bit]
<1> DEFINE D == 0..(m_buffer.bytes * ByteBits - 1)
<1>1. m_buffer.bits \in [D -> Bit] /\ DOMAIN m_buffer.bits = D
  BY DEF WriterTypeOK
<1>2. \A i \in D : i \in Int
  OBVIOUS
<1> HIDE DEF D
<1>3. \A i \in D : i \in p..(p + Len(s) - 1) => s[i - p + 1] \in Bit
  <2> SUFFICES ASSUME NEW i \in D, i \in p..(p + Len(s) - 1)
               PROVE  s[i - p + 1] \in Bit
    OBVIOUS
  <2>1. i - p + 1 \in 1..Len(s)
    BY <1>2
  <2> QED
    BY <2>1
<1>4. \A i \in D : m_buffer.bits[i] \in Bit
  BY <1>1
<1> QED
  BY <1>1, <1>3, <1>4, OverwriteIs DEF D

\* A buffer whose bits are replaced is still one.
LEMMA ReplacedBits ==
  ASSUME WriterTypeOK, NEW new, m_buffer' = [m_buffer EXCEPT !.bits = new]
  PROVE  /\ m_buffer' = [bytes |-> m_buffer.bytes, bits |-> new]
         /\ m_buffer'.bytes = m_buffer.bytes
         /\ m_buffer'.bits = new
<1>1. PICK bytes, bits : m_buffer = [bytes |-> bytes, bits |-> bits]
  BY DEF WriterTypeOK
<1> QED
  BY <1>1

\* The bits of a chunk.
LEMMA ChunkBitsType ==
  ASSUME NEW c \in ChunkType
  PROVE  /\ ChunkBits(c) \in Seq(Bit) /\ Len(ChunkBits(c)) = c.bits
         /\ \A k \in 1..c.bits : ChunkBits(c)[k] = c.data[c.bits - k]
<1>1. c.bits \in 1..NarrowBits /\ c.bits \in Nat /\ c.data \in Word32
  BY WidthType
<1>2. \A k \in 1..c.bits : c.bits - k \in 0..(NarrowBits - 1)
  BY <1>1 DEF NarrowBits
<1>3. \A k \in 1..c.bits : c.data[c.bits - k] \in Bit
  BY <1>1, <1>2 DEF Word32
<1> QED
  BY <1>1, <1>3 DEF ChunkBits

\* Patching the bytes overwrites the bits.
LEMMA PatchExact ==
  ASSUME WriterTypeOK, NEW c \in ChunkType, Clean(c)
  PROVE  Patch(m_bitIndex, c.data, c.bits) = Output!Overwrite(m_bitIndex, ChunkBits(c))
<1> DEFINE D == DOMAIN m_buffer.bits
           n == c.bits
           new(i) == IF i \in m_bitIndex..(m_bitIndex + n - 1)
                     THEN ChunkBits(c)[i - m_bitIndex + 1] ELSE m_buffer.bits[i]
           patched(i) == StoredBit(m_bitIndex, c.data, n, i \div ByteBits,
                                   ByteBits - 1 - (i % ByteBits), m_buffer.bits[i])
<1>1. /\ m_bitIndex \in Nat /\ n \in 1..NarrowBits /\ n \in Nat /\ c.data \in Word32
      /\ D = 0..(m_buffer.bytes * ByteBits - 1)
      /\ \A q \in n..(NarrowBits - 1) : c.data[q] = ZeroBit
  BY WidthType DEF WriterTypeOK, Clean
<1>2. ASSUME NEW i \in D
      PROVE  patched(i) = new(i)
  <2>1. i \in Nat
    BY <1>1
  <2> DEFINE j == i \div ByteBits
             p == ByteBits - 1 - (i % ByteBits)
  <2>2. j \in Nat /\ p \in 0..(ByteBits - 1) /\ ByteBits * j + 7 - p = i
    BY <2>1, ByteAndOffset DEF ByteBits
  <2> HIDE DEF D, n, j, p
  <2>3. StoredBit(m_bitIndex, c.data, n, j, p, m_buffer.bits[i])
          = IF i \in m_bitIndex..(m_bitIndex + n - 1)
            THEN c.data[n - 1 - (i - m_bitIndex)] ELSE m_buffer.bits[i]
    BY <1>1, <2>2, StoredBitExact
  <2>4. ASSUME i \in m_bitIndex..(m_bitIndex + n - 1)
        PROVE  ChunkBits(c)[i - m_bitIndex + 1] = c.data[n - 1 - (i - m_bitIndex)]
    <3>1. i - m_bitIndex + 1 \in 1..n /\ n - (i - m_bitIndex + 1) = n - 1 - (i - m_bitIndex)
      BY <1>1, <2>1, <2>4
    <3> QED
      BY <3>1, ChunkBitsType DEF n
  <2> QED
    BY <2>3, <2>4 DEF j, p
<1>3. Patch(m_bitIndex, c.data, c.bits) = [i \in D |-> patched(i)]
  BY DEF Patch
<1>4. Output!Overwrite(m_bitIndex, ChunkBits(c)) = [i \in D |-> new(i)]
  BY ChunkBitsType, OverwriteIs
<1> HIDE DEF D, new, patched
<1> QED
  BY <1>2, <1>3, <1>4
-------------------------------------------------------------------------------
(* The steps of an operation.                                              *)

\* One chunk.
LEMMA WriteChunkInv == WriterInv /\ WriteChunk => WriterInv'
<1> SUFFICES ASSUME WriterInv, WriteChunk
             PROVE  WriterInv'
  OBVIOUS
<1> DEFINE c == Head(chunksLeft)
<1>1. /\ WriterTypeOK /\ ChunksOK(chunksLeft) /\ Progress
      /\ writeStatus = "busy" /\ chunksLeft # <<>> /\ chunksLeft \in Seq(ChunkType)
      /\ m_bitIndex \in Nat /\ goal \in Nat /\ put \in Seq(Bit)
  BY DEF WriterInv, WriterTypeOK, WriteChunk
<1>2. /\ c \in ChunkType /\ Clean(c)
      /\ Tail(chunksLeft) \in Seq(ChunkType) /\ ChunksOK(Tail(chunksLeft))
      /\ TotalBits(chunksLeft) = c.bits + TotalBits(Tail(chunksLeft))
      /\ TotalBits(Tail(chunksLeft)) \in Nat
  BY <1>1, TotalOfTail
<1>3. c.bits \in Nat \ {0}
  BY <1>2, WidthType
<1>4. /\ HasCapacity(m_bitIndex + c.bits)
      /\ IF hasWriteBuffer
         THEN /\ m_buffer' = [m_buffer EXCEPT !.bits = Patch(m_bitIndex, c.data, c.bits)]
              /\ stored' = StoredBytes(m_bitIndex, c.bits)
         ELSE stored' = {} /\ m_buffer' = m_buffer
      /\ m_bitIndex' = m_bitIndex + c.bits
      /\ put' = put \o ChunkBits(c)
      /\ chunksLeft' = Tail(chunksLeft)
      /\ writeStatus' = IF Tail(chunksLeft) = <<>> /\ blockLeft = NoBlockLeft
                        THEN "done" ELSE "busy"
      /\ UNCHANGED <<m_bufferBitSize, hasWriteBuffer, blockLeft, goal, calls>>
  BY DEF WriteChunk
<1> HIDE DEF c
<1>5. ChunkBits(c) \in Seq(Bit) /\ put' \in Seq(Bit)
  BY <1>1, <1>2, <1>4, ChunkBitsType, Appended
<1>6. /\ m_buffer' = [bytes |-> m_buffer'.bytes, bits |-> m_buffer'.bits]
      /\ m_buffer'.bytes = m_buffer.bytes
      /\ m_buffer'.bits \in [0..(m_buffer.bytes * ByteBits - 1) -> Bit]
  <2>1. CASE hasWriteBuffer
    <3>1. Output!Overwrite(m_bitIndex, ChunkBits(c)) \in [0..(m_buffer.bytes * ByteBits - 1) -> Bit]
      BY <1>1, <1>5, OverwriteType
    <3>2. Patch(m_bitIndex, c.data, c.bits) = Output!Overwrite(m_bitIndex, ChunkBits(c))
      BY <1>1, <1>2, PatchExact
    <3>3. /\ m_buffer' = [bytes |-> m_buffer.bytes, bits |-> Patch(m_bitIndex, c.data, c.bits)]
          /\ m_buffer'.bytes = m_buffer.bytes
          /\ m_buffer'.bits = Patch(m_bitIndex, c.data, c.bits)
      BY <1>1, <1>4, <2>1, ReplacedBits
    <3> QED
      BY <3>1, <3>2, <3>3
  <2>2. CASE ~hasWriteBuffer
    BY <1>1, <1>4, <2>2 DEF WriterTypeOK
  <2> QED
    BY <2>1, <2>2
<1>7. stored' \subseteq 0..(m_buffer.bytes - 1)
  <2>1. CASE hasWriteBuffer
    <3>1. /\ m_bitIndex + c.bits =< m_bufferBitSize
          /\ (m_bufferBitSize + 7) \div ByteBits =< m_buffer.bytes
          /\ m_bufferBitSize \in Nat /\ m_buffer.bytes \in Nat
      BY <1>1, <1>4, <2>1 DEF HasCapacity, WriterTypeOK
    <3> QED
      BY <1>1, <1>3, <1>4, <2>1, <3>1, StoredBytesInBounds
  <2>2. CASE ~hasWriteBuffer
    BY <1>4, <2>2
  <2> QED
    BY <2>1, <2>2
<1>8. WriterTypeOK'
  <2>1. m_bitIndex' \in Nat /\ writeStatus' \in {"busy", "done", "thrown"} /\ stored' \subseteq Int
    BY <1>1, <1>3, <1>4, <1>7
  <2> QED
    BY <1>1, <1>2, <1>4, <1>5, <1>6, <2>1 DEF WriterTypeOK
<1>9. ChunksOK(chunksLeft)'
  BY <1>2, <1>4 DEF ChunksOK, Clean
<1>10. Progress'
  <2>1. PendingBits(blockLeft) \in Nat
    BY <1>1, PendingType DEF WriterTypeOK
  <2>2. BitsLeft = c.bits + TotalBits(Tail(chunksLeft)) + PendingBits(blockLeft)
    BY <1>2 DEF BitsLeft
  <2>3. BitsLeft' = TotalBits(Tail(chunksLeft)) + PendingBits(blockLeft)
    BY <1>4 DEF BitsLeft, TotalBits, PendingBits
  <2>4. m_bitIndex' + BitsLeft' = m_bitIndex + BitsLeft /\ goal' = goal
    BY <1>1, <1>2, <1>3, <1>4, <2>1, <2>2, <2>3
  <2>5. /\ m_bitIndex + BitsLeft =< goal
        /\ AlignmentsCountable => m_bitIndex + BitsLeft = goal
    BY <1>1 DEF Progress
  <2>6. CASE Tail(chunksLeft) = <<>> /\ blockLeft = NoBlockLeft
    <3>1. TotalBits(Tail(chunksLeft)) = 0 /\ PendingBits(blockLeft) = 0
      BY <2>6, NoChunks, NoBlockType DEF Writes
    <3>2. BitsLeft' = 0
      BY <2>3, <3>1
    <3>3. m_bitIndex' + BitsLeft' = m_bitIndex'
      BY <1>1, <1>3, <1>4, <3>2
    <3> QED
      BY <1>4, <2>4, <2>5, <2>6, <3>3 DEF Progress, AlignmentsCountable
  <2>7. CASE ~(Tail(chunksLeft) = <<>> /\ blockLeft = NoBlockLeft)
    <3>1. writeStatus' = "busy"
      BY <1>4, <2>7
    <3> QED
      BY <2>4, <2>5, <3>1 DEF Progress, AlignmentsCountable
  <2> QED
    BY <2>6, <2>7
<1>11. StoresInBounds'
  BY <1>6, <1>7 DEF StoresInBounds
<1> QED
  BY <1>8, <1>9, <1>10, <1>11 DEF WriterInv

\* The block of a write that has none of its chunks left.
LEMMA BlockPending ==
  ASSUME WriterInv, BlockReached
  PROVE  /\ Head(blockLeft) \in Seq(Bit)
         /\ m_bitIndex \in Nat
         /\ m_bitIndex + Len(Head(blockLeft)) =< goal
         /\ AlignmentsCountable => m_bitIndex + Len(Head(blockLeft)) = goal
<1>1. /\ blockLeft \in Seq(Seq(Bit)) /\ Len(blockLeft) =< 1 /\ blockLeft # NoBlockLeft
      /\ chunksLeft = <<>> /\ writeStatus = "busy" /\ m_bitIndex \in Nat
  BY DEF WriterInv, WriterTypeOK, BlockReached
<1>2. Head(blockLeft) \in Seq(Bit) /\ PendingBits(blockLeft) = Len(Head(blockLeft))
  BY <1>1, PendingType
<1>3. BitsLeft = Len(Head(blockLeft))
  BY <1>1, <1>2, NoChunks DEF BitsLeft, Writes
<1> QED
  BY <1>1, <1>2, <1>3 DEF WriterInv, Progress

\* What is left of a block becomes chunks.
LEMMA RestInv ==
  ASSUME WriterInv, BlockReached,
         NEW chunks, NEW n \in Nat, Writes(chunks, n),
         m_bitIndex' \in Nat,
         m_bitIndex' + n = m_bitIndex + Len(Head(blockLeft)),
         chunksLeft' = chunks, blockLeft' = NoBlockLeft,
         writeStatus' = IF chunks = <<>> THEN "done" ELSE "busy",
         UNCHANGED <<m_bufferBitSize, hasWriteBuffer, goal, calls>>,
         m_buffer' = [bytes |-> m_buffer'.bytes, bits |-> m_buffer'.bits],
         m_buffer'.bytes = m_buffer.bytes,
         m_buffer'.bits \in [0..(m_buffer.bytes * ByteBits - 1) -> Bit],
         put' \in Seq(Bit),
         stored' \subseteq 0..(m_buffer.bytes - 1)
  PROVE  WriterInv'
<1>1. /\ m_bitIndex' + n =< goal
      /\ AlignmentsCountable => m_bitIndex' + n = goal
  BY BlockPending
<1>2. chunks \in Seq(ChunkType) /\ ChunksOK(chunks) /\ TotalBits(chunks) = n
  BY DEF Writes
<1>3. WriterTypeOK'
  <2>1. /\ m_bufferBitSize' = m_bufferBitSize /\ hasWriteBuffer' = hasWriteBuffer /\ goal' = goal /\ calls' = calls
        /\ m_buffer.bytes \in Nat
    BY DEF WriterInv, WriterTypeOK
  <2>2. /\ m_bufferBitSize' \in Nat /\ (m_bufferBitSize' + 7) \div ByteBits =< m_buffer'.bytes
        /\ hasWriteBuffer' \in BOOLEAN /\ goal' \in Nat /\ calls' \in 0..MaxCalls
    BY <2>1 DEF WriterInv, WriterTypeOK
  <2>3. chunksLeft' \in Seq(ChunkType) /\ blockLeft' \in Seq(Seq(Bit)) /\ Len(blockLeft') =< 1
    BY <1>2, NoBlockType
  <2>4. writeStatus' \in {"busy", "done", "thrown"}
    OBVIOUS
  <2>5. stored' \subseteq Int
    BY <2>1
  <2>6. m_buffer'.bytes \in Nat /\ m_buffer'.bits \in [0..(m_buffer'.bytes * ByteBits - 1) -> Bit]
    BY <2>1
  <2> QED
    BY <2>2, <2>3, <2>4, <2>5, <2>6 DEF WriterTypeOK
<1>4. ChunksOK(chunksLeft)'
  BY <1>2 DEF ChunksOK, Clean
<1>5. BitsLeft' = n
  <2>1. BitsLeft' = TotalBits(chunks) + PendingBits(NoBlockLeft)
    BY DEF BitsLeft, TotalBits, PendingBits
  <2> QED
    BY <1>2, <2>1, NoBlockType
<1>6. Progress'
  <2>1. CASE chunks = <<>>
    <3>1. n = 0
      BY <1>2, <2>1 DEF TotalBits
    <3>2. AlignmentsCountable => m_bitIndex' = goal
      BY <1>1, <3>1
    <3> QED
      BY <2>1, <3>2 DEF Progress, AlignmentsCountable
  <2>2. CASE chunks # <<>>
    <3>1. writeStatus' = "busy"
      BY <2>2
    <3> QED
      BY <1>1, <1>5, <3>1 DEF Progress, AlignmentsCountable
  <2> QED
    BY <2>1, <2>2
<1>7. StoresInBounds'
  BY DEF StoresInBounds
<1> QED
  BY <1>3, <1>4, <1>6, <1>7 DEF WriterInv

LEMMA WriteBlockUnalignedInv == WriterInv /\ WriteBlockUnaligned => WriterInv'
<1> SUFFICES ASSUME WriterInv, WriteBlockUnaligned
             PROVE  WriterInv'
  OBVIOUS
<1> DEFINE s == Head(blockLeft)
           chunks == ByteChunks(s) \o LastChunk(s)
<1>1. BlockReached /\ s \in Seq(Bit) /\ m_bitIndex \in Nat
  BY BlockPending DEF WriteBlockUnaligned
<1>2. Writes(chunks, Len(s))
  BY <1>1, StringWritten
<1>3. /\ chunksLeft' = chunks /\ blockLeft' = NoBlockLeft
      /\ writeStatus' = IF chunks = <<>> THEN "done" ELSE "busy"
      /\ stored' = {}
      /\ UNCHANGED <<m_buffer, m_bufferBitSize, hasWriteBuffer, m_bitIndex, put, goal, calls>>
  BY DEF WriteBlockUnaligned
<1>4. /\ m_buffer' = [bytes |-> m_buffer'.bytes, bits |-> m_buffer'.bits]
      /\ m_buffer'.bytes = m_buffer.bytes
      /\ m_buffer'.bits \in [0..(m_buffer.bytes * ByteBits - 1) -> Bit]
      /\ put' \in Seq(Bit) /\ m_bitIndex' \in Nat
      /\ stored' \subseteq 0..(m_buffer.bytes - 1)
  BY <1>3 DEF WriterInv, WriterTypeOK
<1>5. Len(s) \in Nat /\ m_bitIndex' + Len(s) = m_bitIndex + Len(s)
  BY <1>1, <1>3
<1> HIDE DEF chunks
<1> QED
  BY <1>1, <1>2, <1>3, <1>4, <1>5, RestInv

\* A copied block overwrites the bits of its whole bytes.
LEMMA CopyExact ==
  ASSUME WriterTypeOK, NEW s \in Seq(Bit), NEW n \in Nat, n =< Len(s)
  PROVE  [i \in DOMAIN m_buffer.bits |->
            IF i \in m_bitIndex..((m_bitIndex + n) - 1)
            THEN s[i - m_bitIndex + 1] ELSE m_buffer.bits[i]]
           = Output!Overwrite(m_bitIndex, SubSeq(s, 1, n))
<1>1. m_bitIndex \in Nat
  BY DEF WriterTypeOK
<1>2. DOMAIN m_buffer.bits \subseteq Int
  <2>1. DOMAIN m_buffer.bits = 0..(m_buffer.bytes * ByteBits - 1)
    BY DEF WriterTypeOK
  <2> QED
    BY <2>1
<1>3. Len(SubSeq(s, 1, n)) = n
  OBVIOUS
<1>4. ASSUME NEW i \in DOMAIN m_buffer.bits, i \in m_bitIndex..(m_bitIndex + n - 1)
      PROVE  SubSeq(s, 1, n)[i - m_bitIndex + 1] = s[i - m_bitIndex + 1]
  <2>1. i - m_bitIndex + 1 \in 1..n
    BY <1>1, <1>2, <1>4
  <2>2. \A k \in 1..n : SubSeq(s, 1, n)[k] = s[k]
    OBVIOUS
  <2> QED
    BY <2>1, <2>2
<1>5. (m_bitIndex + n) - 1 = m_bitIndex + n - 1
  BY <1>1
<1> QED
  BY <1>3, <1>4, <1>5, OverwriteIs

LEMMA WriteBlockAlignedInv == WriterInv /\ WriteBlockAligned => WriterInv'
<1> SUFFICES ASSUME WriterInv, WriteBlockAligned
             PROVE  WriterInv'
  OBVIOUS
<1> DEFINE s == Head(blockLeft)
           n == (Len(s) \div ByteBits) * ByteBits
           r == Len(s) % ByteBits
           end == m_bitIndex + n
           chunks == LastChunk(s)
           copied == [i \in DOMAIN m_buffer.bits |->
                        IF i \in m_bitIndex..(end - 1)
                        THEN s[i - m_bitIndex + 1] ELSE m_buffer.bits[i]]
<1>1. /\ BlockReached /\ s \in Seq(Bit) /\ m_bitIndex \in Nat /\ WriterTypeOK
      /\ put \in Seq(Bit)
  BY BlockPending DEF WriteBlockAligned, WriterInv, WriterTypeOK
<1>2. n \in Nat /\ r \in Nat /\ Len(s) = n + r /\ n =< Len(s)
  <2>1. Len(s) \in Nat
    BY <1>1
  <2> QED
    BY <2>1, WholeBytes
<1>3. Writes(chunks, r)
  BY <1>1, StringWritten
<1>4. /\ m_bitIndex % ByteBits = 0
      /\ HasCapacity(end)
      /\ IF hasWriteBuffer
         THEN /\ m_buffer' = [m_buffer EXCEPT !.bits = copied]
              /\ stored' = (m_bitIndex \div ByteBits)..(end \div ByteBits - 1)
         ELSE stored' = {} /\ m_buffer' = m_buffer
      /\ m_bitIndex' = end
      /\ put' = put \o SubSeq(s, 1, n)
      /\ chunksLeft' = chunks /\ blockLeft' = NoBlockLeft
      /\ writeStatus' = IF chunks = <<>> THEN "done" ELSE "busy"
      /\ UNCHANGED <<m_bufferBitSize, hasWriteBuffer, goal, calls>>
  BY DEF WriteBlockAligned
<1>5. SubSeq(s, 1, n) \in Seq(Bit)
  BY <1>1, <1>2
<1>6. put' \in Seq(Bit)
  BY <1>1, <1>4, <1>5, Appended
<1>7. copied = Output!Overwrite(m_bitIndex, SubSeq(s, 1, n))
  BY <1>1, <1>2, CopyExact
<1>8. m_bitIndex' \in Nat /\ m_bitIndex' + r = m_bitIndex + Len(s)
  BY <1>1, <1>2, <1>4
<1> HIDE DEF chunks, copied, n, r, end
<1>9. /\ m_buffer' = [bytes |-> m_buffer'.bytes, bits |-> m_buffer'.bits]
      /\ m_buffer'.bytes = m_buffer.bytes
      /\ m_buffer'.bits \in [0..(m_buffer.bytes * ByteBits - 1) -> Bit]
  <2>1. CASE hasWriteBuffer
    <3>1. copied \in [0..(m_buffer.bytes * ByteBits - 1) -> Bit]
      BY <1>1, <1>5, <1>7, OverwriteType
    <3>2. /\ m_buffer' = [bytes |-> m_buffer.bytes, bits |-> copied]
          /\ m_buffer'.bytes = m_buffer.bytes
          /\ m_buffer'.bits = copied
      BY <1>1, <1>4, <2>1, ReplacedBits
    <3> QED
      BY <3>1, <3>2
  <2>2. CASE ~hasWriteBuffer
    BY <1>1, <1>4, <2>2 DEF WriterTypeOK
  <2> QED
    BY <2>1, <2>2
<1>10. stored' \subseteq 0..(m_buffer.bytes - 1)
  <2>1. CASE hasWriteBuffer
    <3>1. /\ end =< m_bufferBitSize
          /\ (m_bufferBitSize + 7) \div ByteBits =< m_buffer.bytes
          /\ m_bufferBitSize \in Nat /\ m_buffer.bytes \in Nat
      BY <1>1, <1>4, <2>1 DEF HasCapacity, WriterTypeOK
    <3>2. end \in Nat
      BY <1>1, <1>2 DEF end
    <3>3. end \div ByteBits \in Nat /\ end \div ByteBits =< m_buffer.bytes
      BY <3>1, <3>2 DEF ByteBits
    <3>4. m_bitIndex \div ByteBits \in Nat
      BY <1>1 DEF ByteBits
    <3> QED
      BY <1>4, <2>1, <3>1, <3>2, <3>3, <3>4
  <2>2. CASE ~hasWriteBuffer
    BY <1>4, <2>2
  <2> QED
    BY <2>1, <2>2
<1> QED
  BY <1>1, <1>2, <1>3, <1>4, <1>6, <1>8, <1>9, <1>10, RestInv
-------------------------------------------------------------------------------

LEMMA NextInv == WriterInv /\ [WriterNext]_writerVars => WriterInv'
<1> SUFFICES ASSUME WriterInv, [WriterNext]_writerVars
             PROVE  WriterInv'
  OBVIOUS
<1>1. ASSUME NEW w \in Words, NEW n \in WrittenNumBits, NEW width \in {NarrowBits, WideBits},
             WriteUnsignedBits(w, n, width) \/ WriteSignedBits(w, n, width)
      PROVE  WriterInv'
  BY <1>1, WriteUnsignedBitsInv, WriteSignedBitsInv
<1>2. ASSUME NEW w \in Words, NEW n \in {1, 16, 32, 64}, WriteFixed(w, n)
      PROVE  WriterInv'
  BY <1>2, WriteFixedInv
<1>3. ASSUME NEW s \in VarNums, WriteVarNum(s) \/ \E bits \in Blocks : WriteBlock(s, bits)
      PROVE  WriterInv'
  BY <1>3, WriteVarNumInv, WriteBlockInv
<1>4. ASSUME NEW a \in WriterAlignments, WriterAlignTo(a)
      PROVE  WriterInv'
  BY <1>4, AlignToInv
<1>5. ASSUME NEW p \in WriterPositions, WriterSetBitPosition(p)
      PROVE  WriterInv'
  BY <1>5, SetBitPositionInv
<1>6. CASE WriteChunk
  BY <1>6, WriteChunkInv
<1>7. CASE WriteChunkFails \/ WriteBlockFails
  BY <1>7, ThrowInv DEF WriteChunkFails, WriteBlockFails
<1>8. CASE WriteBlockUnaligned
  BY <1>8, WriteBlockUnalignedInv
<1>9. CASE WriteBlockAligned
  BY <1>9, WriteBlockAlignedInv
<1>10. CASE UNCHANGED writerVars
  <2>1. /\ m_buffer' = m_buffer /\ m_bufferBitSize' = m_bufferBitSize
        /\ hasWriteBuffer' = hasWriteBuffer /\ m_bitIndex' = m_bitIndex
        /\ chunksLeft' = chunksLeft /\ blockLeft' = blockLeft /\ writeStatus' = writeStatus
        /\ put' = put /\ goal' = goal /\ stored' = stored /\ calls' = calls
    BY <1>10 DEF writerVars
  <2>2. BitsLeft' = BitsLeft
    BY <2>1 DEF BitsLeft, TotalBits, PendingBits
  <2>3. WriterTypeOK'
    BY <2>1 DEF WriterInv, WriterTypeOK
  <2>4. ChunksOK(chunksLeft)'
    BY <2>1 DEF WriterInv, ChunksOK, Clean
  <2>5. Progress'
    BY <2>1, <2>2 DEF WriterInv, Progress, AlignmentsCountable
  <2>6. StoresInBounds'
    BY <2>1 DEF WriterInv, StoresInBounds
  <2> QED
    BY <2>3, <2>4, <2>5, <2>6 DEF WriterInv
<1> QED
  BY <1>1, <1>2, <1>3, <1>4, <1>5, <1>6, <1>7, <1>8, <1>9, <1>10 DEF WriterNext

\* Every reachable state of a writer satisfies the invariant, for any buffer, any arguments and
\* any sequence of calls.
THEOREM WriterInvariant == WriterSpec => []WriterInv
<1>1. WriterInit => WriterInv
  BY InitInv
<1>2. WriterInv /\ [WriterNext]_writerVars => WriterInv'
  BY NextInv
<1> QED
  BY <1>1, <1>2, PTL DEF WriterSpec

\* The state of a writer is of its type; it stores to no byte behind its buffer, whatever the
\* alignments are.
THEOREM WriterStoresInBounds == WriterSpec => [](WriterTypeOK /\ StoresInBounds)
<1>1. WriterInv => WriterTypeOK /\ StoresInBounds
  BY DEF WriterInv
<1> QED
  BY <1>1, WriterInvariant, PTL

\* Where the alignments are at most 256, as they have to be for alignTo to count the bits to
\* skip in a uint8_t, an operation that returns has moved by exactly the bit size of its
\* argument, with a buffer or without, and no store touched a byte behind the buffer.
THEOREM WriterStoresExact ==
  ASSUME AlignmentsCountable
  PROVE  WriterSpec => []StoresExact
<1>1. WriterInv => StoresExact
  BY DEF WriterInv, Progress, StoresExact, DoneAtGoal
<1> QED
  BY <1>1, WriterInvariant, PTL

\* A write in progress throws only if it does not fit into the buffer as a whole, and never
\* without a buffer.
THEOREM WriterThrowsOnlyIfFull == WriterSpec => ThrowsOnlyIfFull
<1>1. ASSUME WriterInv, WriterNext, writeStatus = "busy", writeStatus' = "thrown"
      PROVE  hasWriteBuffer /\ goal > m_bufferBitSize
  <2>1. /\ WriterTypeOK /\ ChunksOK(chunksLeft) /\ m_bitIndex \in Nat /\ goal \in Nat
        /\ m_bufferBitSize \in Nat /\ m_bitIndex + BitsLeft =< goal
    BY <1>1 DEF WriterInv, WriterTypeOK, Progress
  <2>2. WriteChunkFails \/ WriteBlockFails
    BY <1>1 DEF WriterNext, WriteUnsignedBits, WriteSignedBits, WriteFixed, WriteVarNum,
                WriteBlock, WriterAlignTo, WriterSetBitPosition, WriterIdle, WriteChunk,
                WriteBlockUnaligned, WriteBlockAligned
  <2>3. CASE WriteChunkFails
    <3>1. chunksLeft # <<>> /\ ~HasCapacity(m_bitIndex + Head(chunksLeft).bits)
      BY <2>3 DEF WriteChunkFails
    <3>2. /\ TotalBits(chunksLeft) = Head(chunksLeft).bits + TotalBits(Tail(chunksLeft))
          /\ TotalBits(Tail(chunksLeft)) \in Nat /\ Head(chunksLeft) \in ChunkType
      BY <2>1, <3>1, TotalOfTail DEF WriterTypeOK
    <3>3. Head(chunksLeft).bits \in Nat /\ PendingBits(blockLeft) \in Nat
      BY <2>1, <3>2, WidthType, PendingType DEF WriterTypeOK
    <3>4. m_bitIndex + Head(chunksLeft).bits =< goal
      BY <2>1, <3>2, <3>3 DEF BitsLeft
    <3>5. hasWriteBuffer /\ ~(m_bitIndex + Head(chunksLeft).bits =< m_bufferBitSize)
      BY <3>1 DEF HasCapacity
    <3> QED
      BY <2>1, <3>3, <3>4, <3>5
  <2>4. CASE WriteBlockFails
    <3> DEFINE s == Head(blockLeft)
               n == (Len(s) \div ByteBits) * ByteBits
    <3>1. BlockReached /\ ~HasCapacity(m_bitIndex + n)
      BY <2>4 DEF WriteBlockFails
    <3>2. s \in Seq(Bit) /\ m_bitIndex + Len(s) =< goal
      BY <1>1, <3>1, BlockPending
    <3>3. Len(s) \in Nat
      BY <3>2
    <3>4. n \in Nat /\ n =< Len(s)
      BY <3>3, WholeBytes
    <3> HIDE DEF n
    <3>5. hasWriteBuffer /\ ~(m_bitIndex + n =< m_bufferBitSize)
      BY <3>1 DEF HasCapacity
    <3> QED
      BY <2>1, <3>2, <3>3, <3>4, <3>5
  <2> QED
    BY <2>2, <2>3, <2>4
<1>2. WriterInv /\ [WriterNext]_writerVars
        => [writeStatus = "busy" /\ writeStatus' = "thrown"
              => hasWriteBuffer /\ goal > m_bufferBitSize]_writerVars
  BY <1>1
<1> QED
  BY <1>2, WriterInvariant, PTL DEF WriterSpec, ThrowsOnlyIfFull

-------------------------------------------------------------------------------
(* The refinement.                                                         *)

\* Operations start at the position, or are refused there.
LEMMA StartMapped ==
  ASSUME put' = <<>>, UNCHANGED <<m_buffer, m_bufferBitSize, hasWriteBuffer, m_bitIndex>>
  PROVE  Output!Next
BY DEF Output!Next, Output!Start

LEMMA SetBitPositionMapped ==
  ASSUME NEW p \in WriterPositions, WriterSetBitPosition(p)
  PROVE  Output!Next
<1>1. CASE HasCapacity(p)
  BY <1>1 DEF WriterSetBitPosition, HasCapacity, Output!Next, Output!Seek
<1>2. CASE ~HasCapacity(p)
  BY <1>2, StartMapped DEF WriterSetBitPosition, RefuseWrite
<1> QED
  BY <1>1, <1>2

\* Bits that are written where the position is.
LEMMA PutMapped ==
  ASSUME WriterTypeOK, NEW new \in Seq(Bit),
         put' = put \o new,
         HasCapacity(m_bitIndex + Len(new)),
         m_buffer'.bits = IF hasWriteBuffer THEN Output!Overwrite(m_bitIndex, new)
                          ELSE m_buffer.bits,
         m_bitIndex' = m_bitIndex + Len(new),
         UNCHANGED <<m_bufferBitSize, hasWriteBuffer>>
  PROVE  Output!Next
<1>1. put \in Seq(Bit)
  BY DEF WriterTypeOK
<1>2. SubSeq(put', Len(put) + 1, Len(put')) = new
  BY <1>1, Appended
<1> QED
  BY <1>2 DEF HasCapacity, Output!Next, Output!Put

LEMMA WriteChunkMapped == WriterInv /\ WriteChunk => Output!Next
<1> SUFFICES ASSUME WriterInv, WriteChunk
             PROVE  Output!Next
  OBVIOUS
<1> DEFINE c == Head(chunksLeft)
<1>1. /\ WriterTypeOK /\ ChunksOK(chunksLeft) /\ chunksLeft # <<>>
      /\ chunksLeft \in Seq(ChunkType)
  BY DEF WriterInv, WriterTypeOK, WriteChunk
<1>2. c \in ChunkType /\ Clean(c)
  BY <1>1, TotalOfTail
<1>3. /\ HasCapacity(m_bitIndex + c.bits)
      /\ IF hasWriteBuffer
         THEN m_buffer' = [m_buffer EXCEPT !.bits = Patch(m_bitIndex, c.data, c.bits)]
         ELSE m_buffer' = m_buffer
      /\ m_bitIndex' = m_bitIndex + c.bits
      /\ put' = put \o ChunkBits(c)
      /\ UNCHANGED <<m_bufferBitSize, hasWriteBuffer>>
  BY DEF WriteChunk
<1> HIDE DEF c
<1>4. ChunkBits(c) \in Seq(Bit) /\ Len(ChunkBits(c)) = c.bits
  BY <1>2, ChunkBitsType
<1>5. m_buffer'.bits = IF hasWriteBuffer THEN Output!Overwrite(m_bitIndex, ChunkBits(c))
                       ELSE m_buffer.bits
  <2>1. CASE hasWriteBuffer
    <3>1. m_buffer'.bits = Patch(m_bitIndex, c.data, c.bits)
      BY <1>1, <1>3, <2>1, ReplacedBits
    <3>2. Patch(m_bitIndex, c.data, c.bits) = Output!Overwrite(m_bitIndex, ChunkBits(c))
      BY <1>1, <1>2, PatchExact
    <3> QED
      BY <2>1, <3>1, <3>2
  <2>2. CASE ~hasWriteBuffer
    BY <1>3, <2>2
  <2> QED
    BY <2>1, <2>2
<1> QED
  BY <1>1, <1>3, <1>4, <1>5, PutMapped

LEMMA WriteBlockAlignedMapped == WriterInv /\ WriteBlockAligned => Output!Next
<1> SUFFICES ASSUME WriterInv, WriteBlockAligned
             PROVE  Output!Next
  OBVIOUS
<1> DEFINE s == Head(blockLeft)
           n == (Len(s) \div ByteBits) * ByteBits
           end == m_bitIndex + n
           copied == [i \in DOMAIN m_buffer.bits |->
                        IF i \in m_bitIndex..(end - 1)
                        THEN s[i - m_bitIndex + 1] ELSE m_buffer.bits[i]]
<1>1. WriterTypeOK /\ s \in Seq(Bit)
  BY BlockPending DEF WriteBlockAligned, WriterInv
<1>2. n \in Nat /\ n =< Len(s)
  <2>1. Len(s) \in Nat
    BY <1>1
  <2> QED
    BY <2>1, WholeBytes
<1>3. /\ HasCapacity(end)
      /\ IF hasWriteBuffer THEN m_buffer' = [m_buffer EXCEPT !.bits = copied]
         ELSE m_buffer' = m_buffer
      /\ m_bitIndex' = end
      /\ put' = put \o SubSeq(s, 1, n)
      /\ UNCHANGED <<m_bufferBitSize, hasWriteBuffer>>
  BY DEF WriteBlockAligned
<1>4. SubSeq(s, 1, n) \in Seq(Bit) /\ Len(SubSeq(s, 1, n)) = n
  BY <1>1, <1>2
<1>5. copied = Output!Overwrite(m_bitIndex, SubSeq(s, 1, n))
  BY <1>1, <1>2, CopyExact
<1> HIDE DEF copied, n
<1>6. m_buffer'.bits = IF hasWriteBuffer THEN Output!Overwrite(m_bitIndex, SubSeq(s, 1, n))
                       ELSE m_buffer.bits
  <2>1. CASE hasWriteBuffer
    <3>1. m_buffer'.bits = copied
      BY <1>1, <1>3, <2>1, ReplacedBits
    <3> QED
      BY <1>5, <2>1, <3>1
  <2>2. CASE ~hasWriteBuffer
    BY <1>3, <2>2
  <2> QED
    BY <2>1, <2>2
<1> QED
  BY <1>1, <1>3, <1>4, <1>6, PutMapped

\* Every step of a writer is a step of the output, or a stutter.
LEMMA StepMapped == WriterInv /\ [WriterNext]_writerVars => [Output!Next]_(Output!vars)
<1> SUFFICES ASSUME WriterInv, [WriterNext]_writerVars
             PROVE  Output!Next \/ UNCHANGED Output!vars
  OBVIOUS
<1>1. ASSUME NEW w \in Words, NEW n \in WrittenNumBits, NEW width \in {NarrowBits, WideBits},
             WriteUnsignedBits(w, n, width) \/ WriteSignedBits(w, n, width)
      PROVE  Output!Next
  BY <1>1, StartMapped DEF WriteUnsignedBits, WriteSignedBits, BeginWrite, RefuseWrite
<1>2. ASSUME NEW w \in Words, NEW n \in {1, 16, 32, 64}, WriteFixed(w, n)
      PROVE  Output!Next
  BY <1>2, StartMapped DEF WriteFixed, BeginWrite
<1>3. ASSUME NEW s \in VarNums, WriteVarNum(s) \/ \E bits \in Blocks : WriteBlock(s, bits)
      PROVE  Output!Next
  BY <1>3, StartMapped DEF WriteVarNum, WriteBlock, BeginWrite
<1>4. ASSUME NEW a \in WriterAlignments, WriterAlignTo(a)
      PROVE  Output!Next
  BY <1>4, StartMapped DEF WriterAlignTo, BeginWrite, RefuseWrite
<1>5. ASSUME NEW p \in WriterPositions, WriterSetBitPosition(p)
      PROVE  Output!Next
  BY <1>5, SetBitPositionMapped
<1>6. CASE WriteChunk
  BY <1>6, WriteChunkMapped
<1>7. CASE WriteChunkFails \/ WriteBlockFails
  BY <1>7 DEF WriteChunkFails, WriteBlockFails, ThrowWrite, Output!vars
<1>8. CASE WriteBlockUnaligned
  BY <1>8 DEF WriteBlockUnaligned, Output!vars
<1>9. CASE WriteBlockAligned
  BY <1>9, WriteBlockAlignedMapped
<1>10. CASE UNCHANGED writerVars
  BY <1>10 DEF writerVars, Output!vars
<1> QED
  BY <1>1, <1>2, <1>3, <1>4, <1>5, <1>6, <1>7, <1>8, <1>9, <1>10 DEF WriterNext

\* The writer, patching bytes, implements the output of bits.
THEOREM WriterImplementsOutput == WriterSpec => ImplementsOutput
<1>1. WriterInit => Output!Init
  BY InitInv DEF WriterInv, WriterTypeOK, WriterInit, Output!Init
<1>2. WriterInv /\ [WriterNext]_writerVars => [Output!Next]_(Output!vars)
  BY StepMapped
<1> QED
  BY <1>1, <1>2, WriterInvariant, PTL DEF WriterSpec, ImplementsOutput, Output!Spec

(***************************************************************************)
(* The numbers of variable length.                                         *)
(***************************************************************************)

-------------------------------------------------------------------------------
(* The types of numbers, and what is where in their bytes.                 *)

\* The bits of the number that n bytes have room for.
Room(t, n) == IF n = 0 THEN 0 ELSE Shift(t, n, 0) + PayloadBits(t, 0)

LEMMA TypeFacts ==
  ASSUME NEW t \in DOMAIN VarTypes
  PROVE  /\ VarTypes[t].bytes \in {2, 4, 5, 8, 9} /\ VarTypes[t].width \in {16, 32, 64}
         /\ VarTypes[t].signed \in BOOLEAN /\ VarTypes[t].limit \in 0..VarTypes[t].width
         /\ VarTypes[t].limit =< 7 * VarTypes[t].bytes + 1 - (IF VarTypes[t].signed THEN 1 ELSE 0)
         /\ 7 * VarTypes[t].bytes =< VarTypes[t].width + 7
         /\ t = "varsize" => VarTypes[t].limit = 31 /\ VarTypes[t].bytes = 5 /\ VarTypes[t].width = 32
         /\ t = "varint" => VarTypes[t].bytes = 9 /\ VarTypes[t].width = 64 /\ VarTypes[t].signed
<1> DEFINE Are(v) == /\ v.bytes \in {2, 4, 5, 8, 9} /\ v.width \in {16, 32, 64}
                     /\ v.signed \in BOOLEAN /\ v.limit \in 0..v.width
                     /\ v.limit =< 7 * v.bytes + 1 - (IF v.signed THEN 1 ELSE 0)
                     /\ 7 * v.bytes =< v.width + 7
<1>1. DOMAIN VarTypes = {"varint16", "varint32", "varint64", "varint", "varuint16", "varuint32", "varuint64",
                         "varuint", "varsize"}
  BY DEF VarTypes
<1>2. Are(VarTypes["varint16"])
  <2>1. VarTypes["varint16"] = [bytes |-> 2, limit |-> 14, width |-> 16, signed |-> TRUE]
    BY DEF VarTypes
  <2> QED
    BY <2>1
<1>3. Are(VarTypes["varint32"])
  <2>1. VarTypes["varint32"] = [bytes |-> 4, limit |-> 28, width |-> 32, signed |-> TRUE]
    BY DEF VarTypes
  <2> QED
    BY <2>1
<1>4. Are(VarTypes["varint64"])
  <2>1. VarTypes["varint64"] = [bytes |-> 8, limit |-> 56, width |-> 64, signed |-> TRUE]
    BY DEF VarTypes
  <2> QED
    BY <2>1
<1>5. Are(VarTypes["varint"]) /\ VarTypes["varint"].bytes = 9 /\ VarTypes["varint"].width = 64
       /\ VarTypes["varint"].signed
  <2>1. VarTypes["varint"] = [bytes |-> 9, limit |-> 63, width |-> 64, signed |-> TRUE]
    BY DEF VarTypes
  <2> QED
    BY <2>1
<1>6. Are(VarTypes["varuint16"])
  <2>1. VarTypes["varuint16"] = [bytes |-> 2, limit |-> 15, width |-> 16, signed |-> FALSE]
    BY DEF VarTypes
  <2> QED
    BY <2>1
<1>7. Are(VarTypes["varuint32"])
  <2>1. VarTypes["varuint32"] = [bytes |-> 4, limit |-> 29, width |-> 32, signed |-> FALSE]
    BY DEF VarTypes
  <2> QED
    BY <2>1
<1>8. Are(VarTypes["varuint64"])
  <2>1. VarTypes["varuint64"] = [bytes |-> 8, limit |-> 57, width |-> 64, signed |-> FALSE]
    BY DEF VarTypes
  <2> QED
    BY <2>1
<1>9. Are(VarTypes["varuint"])
  <2>1. VarTypes["varuint"] = [bytes |-> 9, limit |-> 64, width |-> 64, signed |-> FALSE]
    BY DEF VarTypes
  <2> QED
    BY <2>1
<1>10. Are(VarTypes["varsize"]) /\ VarTypes["varsize"].limit = 31 /\ VarTypes["varsize"].bytes = 5
       /\ VarTypes["varsize"].width = 32
  <2>1. VarTypes["varsize"] = [bytes |-> 5, limit |-> 31, width |-> 32, signed |-> FALSE]
    BY DEF VarTypes
  <2> QED
    BY <2>1
<1> HIDE DEF Are
<1>11. Are(VarTypes[t])
  BY <1>1, <1>2, <1>3, <1>4, <1>5, <1>6, <1>7, <1>8, <1>9, <1>10
<1> QED
  BY <1>5, <1>10, <1>11 DEF Are

\* A byte with another one behind it has seven bits of the number, or six beside a sign.
LEMMA PayloadIs ==
  ASSUME NEW t \in DOMAIN VarTypes, NEW i \in Nat
  PROVE  PayloadBits(t, i) = IF i = VarTypes[t].bytes - 1 THEN 8
                             ELSE IF i = 0 /\ VarTypes[t].signed THEN 6 ELSE 7
BY DEF PayloadBits, NextFlag

LEMMA RoomIs ==
  ASSUME NEW t \in DOMAIN VarTypes, NEW n \in 0..VarTypes[t].bytes
  PROVE  Room(t, n) = IF n = 0 THEN 0
                      ELSE 7 * n - (IF VarTypes[t].signed THEN 1 ELSE 0) + (IF n = VarTypes[t].bytes THEN 1 ELSE 0)
<1>1. VarTypes[t].bytes \in {2, 4, 5, 8, 9} /\ VarTypes[t].signed \in BOOLEAN
  BY TypeFacts
<1>2. PayloadBits(t, 0) = IF VarTypes[t].signed THEN 6 ELSE 7
  BY <1>1, PayloadIs
<1> QED
  BY <1>1, <1>2 DEF Room, Shift

\* The bytes behind a byte have as many bits as it is shifted by.
LEMMA BehindIs ==
  ASSUME NEW t \in DOMAIN VarTypes, NEW n \in 1..VarTypes[t].bytes, NEW i \in 0..(n - 1)
  PROVE  BitsBehind(t, n, i) = Shift(t, n, i)
<1>1. VarTypes[t].bytes \in {2, 4, 5, 8, 9}
  BY TypeFacts
<1>2. \A k \in 1..8 : PayloadBits(t, k) = IF k = VarTypes[t].bytes - 1 THEN 8 ELSE 7
  BY PayloadIs
<1> DEFINE B == VarTypes[t].bytes
           bits(k) == IF k \in (i + 1)..(n - 1) THEN PayloadBits(t, k) ELSE 0
<1>3. \A k \in 1..8 : bits(k) = IF i < k /\ k < n THEN (IF k = B - 1 THEN 8 ELSE 7) ELSE 0
  <2> TAKE k \in 1..8
  <2>1. k \in (i + 1)..(n - 1) <=> i < k /\ k < n
    BY <1>1
  <2>2. PayloadBits(t, k) = IF k = B - 1 THEN 8 ELSE 7
    BY <1>2
  <2> QED
    BY <2>1, <2>2
<1>4. BitsBehind(t, n, i) = bits(1) + bits(2) + bits(3) + bits(4) + bits(5) + bits(6) + bits(7) + bits(8)
  BY DEF BitsBehind
<1> HIDE DEF bits
<1>5. Shift(t, n, i) = (n - (i + 1)) * 7 + (IF n = B /\ i < n - 1 THEN 1 ELSE 0)
  BY DEF Shift
<1>6. n \in 1..9 /\ i \in 0..8 /\ B \in 2..9 /\ n =< B /\ i < n
  BY <1>1
<1> HIDE DEF B
<1>7. /\ bits(1) = IF i < 1 /\ 1 < n THEN (IF 1 = B - 1 THEN 8 ELSE 7) ELSE 0
      /\ bits(2) = IF i < 2 /\ 2 < n THEN (IF 2 = B - 1 THEN 8 ELSE 7) ELSE 0
      /\ bits(3) = IF i < 3 /\ 3 < n THEN (IF 3 = B - 1 THEN 8 ELSE 7) ELSE 0
      /\ bits(4) = IF i < 4 /\ 4 < n THEN (IF 4 = B - 1 THEN 8 ELSE 7) ELSE 0
      /\ bits(5) = IF i < 5 /\ 5 < n THEN (IF 5 = B - 1 THEN 8 ELSE 7) ELSE 0
      /\ bits(6) = IF i < 6 /\ 6 < n THEN (IF 6 = B - 1 THEN 8 ELSE 7) ELSE 0
      /\ bits(7) = IF i < 7 /\ 7 < n THEN (IF 7 = B - 1 THEN 8 ELSE 7) ELSE 0
      /\ bits(8) = IF i < 8 /\ 8 < n THEN (IF 8 = B - 1 THEN 8 ELSE 7) ELSE 0
  BY <1>3
<1> QED
  BY <1>4, <1>5, <1>6, <1>7

\* Every bit there is room for is in one of the bytes.
LEMMA IsInAByte ==
  ASSUME NEW t \in DOMAIN VarTypes, NEW n \in 1..VarTypes[t].bytes, NEW p \in Nat, p < Room(t, n)
  PROVE  \E i \in 0..(n - 1) : p \in Shift(t, n, i)..(Shift(t, n, i) + PayloadBits(t, i) - 1)
<1> DEFINE B == VarTypes[t].bytes
           e == IF n = B THEN 1 ELSE 0
           S == VarTypes[t].signed
<1>1. B \in {2, 4, 5, 8, 9} /\ S \in BOOLEAN
  BY TypeFacts
<1>2. p < 7 * n - (IF S THEN 1 ELSE 0) + e
  BY RoomIs
<1>3. \A i \in 0..(n - 1) : Shift(t, n, i) = (n - (i + 1)) * 7 + (IF n = B /\ i < n - 1 THEN 1 ELSE 0)
  BY DEF Shift
<1>4. \A i \in 0..(n - 1) : PayloadBits(t, i) = IF i = B - 1 THEN 8 ELSE IF i = 0 /\ S THEN 6 ELSE 7
  BY PayloadIs
<1> HIDE DEF B, S
<1>5. CASE p < 7 + e
  <2>1. n - 1 \in 0..(n - 1)
    BY <1>1
  <2>2. Shift(t, n, n - 1) = 0
    BY <1>3, <2>1
  <2>3. p < PayloadBits(t, n - 1)
    BY <1>1, <1>2, <1>4, <1>5, <2>1
  <2>4. PayloadBits(t, n - 1) \in Nat
    BY <1>4, <2>1
  <2> QED
    BY <2>1, <2>2, <2>3, <2>4
<1>6. CASE p >= 7 + e
  <2> DEFINE k == (p - e) \div 7
             i == n - 1 - k
  <2>1. e \in {0, 1} /\ p - e \in Nat /\ p - e >= 7
    BY <1>6
  <2>2. k \in Nat /\ 7 * k =< p - e /\ p - e < 7 * k + 7 /\ k >= 1
    BY <2>1
  <2> HIDE DEF k
  <2>3. p - e < 7 * n
    BY <1>1, <1>2
  <2>4. i \in 0..(n - 1) /\ i < n - 1
    BY <1>1, <2>1, <2>2, <2>3
  <2>5. Shift(t, n, i) = 7 * k + e
    BY <1>1, <1>3, <2>2, <2>4
  <2>6. PayloadBits(t, i) = IF i = 0 /\ S THEN 6 ELSE 7
    <3>1. i # B - 1
      <4> HIDE DEF i
      <4>1. n \in 1..B /\ B \in Nat /\ i \in Nat /\ i < n - 1
        BY <1>1, <2>4 DEF B
      <4> QED
        BY <4>1
    <3> HIDE DEF i
    <3> QED
      BY <1>4, <2>4, <3>1
  <2>7. p < 7 * k + e + PayloadBits(t, i)
    BY <1>1, <1>2, <2>1, <2>2, <2>4, <2>6
  <2> HIDE DEF i, e
  <2> QED
    BY <2>1, <2>2, <2>4, <2>5, <2>6, <2>7
<1> QED
  BY <1>1, <1>5, <1>6

-------------------------------------------------------------------------------
(* Encoding.                                                               *)

\* The bits a byte has of the number, the one that announces the next byte, and the sign.
LEMMA EncodedIs ==
  ASSUME NEW t \in DOMAIN VarTypes, NEW v \in [negative : BOOLEAN, magnitude : AbsValue],
         NEW n \in 1..VarTypes[t].bytes, NEW i \in 0..(n - 1),
         NEW b, b = EncodedByte(t, v, n, i)
  PROVE  /\ b \in Byte
         /\ \A p \in 0..(PayloadBits(t, i) - 1) :
               b[p] = IF Shift(t, n, i) + p < WideBits THEN v.magnitude[Shift(t, n, i) + p] ELSE ZeroBit
         /\ i # VarTypes[t].bytes - 1 => (b[NextFlag(t, i)] # ZeroBit <=> i < n - 1)
         /\ i = 0 /\ VarTypes[t].signed => (b[7] # ZeroBit <=> v.negative)
<1> DEFINE B == VarTypes[t].bytes
           S == VarTypes[t].signed
           hasNextByte == i < n - 1
           hasSignBit == S /\ i = 0
           numBits == 8 - (IF hasSignBit THEN 1 ELSE 0) - (IF hasNextByte \/ n # B THEN 1 ELSE 0)
           q == Shift(t, n, i)
           data(p) == IF q + p < WideBits THEN v.magnitude[q + p] ELSE ZeroBit
<1>1. B \in {2, 4, 5, 8, 9} /\ S \in BOOLEAN
  BY TypeFacts
<1>2. PayloadBits(t, i) = IF i = B - 1 THEN 8 ELSE IF i = 0 /\ S THEN 6 ELSE 7
  BY PayloadIs
<1>3. NextFlag(t, i) = IF i = 0 /\ S THEN 6 ELSE 7
  BY DEF NextFlag
<1>4. numBits = PayloadBits(t, i) /\ (i # B - 1 => numBits = NextFlag(t, i))
  BY <1>1, <1>2, <1>3
<1>5. ZeroBit \in Bit /\ FlagBit \in Bit /\ FlagBit # ZeroBit
  BY BitAssumption, FlagAssumption
<1>6. q \in Nat
  BY <1>1 DEF Shift
<1>7. b = [p \in 0..7 |-> IF p < numBits THEN data(p)
                          ELSE IF p = numBits /\ hasNextByte THEN FlagBit
                          ELSE IF p = 7 /\ hasSignBit /\ v.negative THEN FlagBit
                          ELSE ZeroBit]
  BY DEF EncodedByte
<1>8. \A p \in 0..7 : data(p) \in Bit
  <2> TAKE p \in 0..7
  <2>1. q + p < WideBits => q + p \in 0..(WideBits - 1)
    BY <1>6 DEF WideBits
  <2>2. v.magnitude \in [0..(WideBits - 1) -> Bit]
    BY DEF AbsValue
  <2> HIDE DEF q
  <2> QED
    BY <1>5, <2>1, <2>2
<1>9. numBits \in 6..8 /\ (i # B - 1 => numBits \in 6..7) /\ (hasNextByte => i # B - 1)
  BY <1>1, <1>2, <1>4
<1>10. b \in Byte
  <2> HIDE DEF data, numBits, hasNextByte, hasSignBit
  <2> QED
    BY <1>5, <1>7, <1>8 DEF Byte
<1>11. \A p \in 0..(PayloadBits(t, i) - 1) : b[p] = data(p)
  <2> HIDE DEF data, numBits
  <2> QED
    BY <1>4, <1>7, <1>9
<1>12. i # B - 1 => (b[NextFlag(t, i)] # ZeroBit <=> hasNextByte)
  <2> SUFFICES ASSUME i # B - 1 PROVE b[NextFlag(t, i)] # ZeroBit <=> hasNextByte
    OBVIOUS
  <2>1. NextFlag(t, i) = numBits /\ numBits \in 0..7
    BY <1>4, <1>9
  <2>2. ~(numBits = 7 /\ hasSignBit)
    BY <1>1, <1>3, <1>4
  <2> HIDE DEF data, numBits, hasSignBit, hasNextByte
  <2>3. b[numBits] = IF hasNextByte THEN FlagBit ELSE IF numBits = 7 /\ hasSignBit /\ v.negative THEN FlagBit ELSE ZeroBit
    BY <1>7, <2>1
  <2> QED
    BY <1>5, <2>1, <2>2, <2>3
<1>13. i = 0 /\ S => (b[7] # ZeroBit <=> v.negative)
  <2> SUFFICES ASSUME i = 0, S PROVE b[7] # ZeroBit <=> v.negative
    OBVIOUS
  <2>1. numBits = 6
    BY <1>1, <1>2, <1>4
  <2>2. hasSignBit
    OBVIOUS
  <2> HIDE DEF data, numBits, hasSignBit, hasNextByte
  <2>3. b[7] = IF v.negative THEN FlagBit ELSE ZeroBit
    BY <1>7, <2>1, <2>2
  <2> QED
    BY <1>5, <2>3
<1> HIDE DEF q, hasNextByte
<1> QED
  BY <1>10, <1>11, <1>12, <1>13 DEF B, S, q, hasNextByte

\* A number that can be written has a number of bytes it fits into.
LEMMA NumBytesFits ==
  ASSUME NEW t \in DOMAIN VarTypes, NEW v, Lengths(t, v) # {}
  PROVE  /\ NumBytes(t, v) \in 1..VarTypes[t].bytes
         /\ NumBytes(t, v) \in Lengths(t, v)
<1>1. VarTypes[t].bytes \in 2..9
  BY TypeFacts
<1>2. Lengths(t, v) \subseteq 1..VarTypes[t].bytes
  BY <1>1 DEF Lengths
<1>3. ASSUME NEW S, S # {}, S \subseteq 1..9
      PROVE  \E x \in S : \A y \in S : x =< y
  <2>1. CASE 1 \in S
    BY <1>3, <2>1
  <2>2. CASE 1 \notin S /\ 2 \in S
    BY <1>3, <2>2
  <2>3. CASE 1 \notin S /\ 2 \notin S /\ 3 \in S
    BY <1>3, <2>3
  <2>4. CASE 1 \notin S /\ 2 \notin S /\ 3 \notin S /\ 4 \in S
    BY <1>3, <2>4
  <2>5. CASE 1 \notin S /\ 2 \notin S /\ 3 \notin S /\ 4 \notin S
    <3>1. S \subseteq 5..9
      BY <1>3, <2>5
    <3>2. CASE 5 \in S
      BY <3>1, <3>2
    <3>3. CASE 5 \notin S /\ 6 \in S
      BY <3>1, <3>3
    <3>4. CASE 5 \notin S /\ 6 \notin S /\ 7 \in S
      BY <3>1, <3>4
    <3>5. CASE 5 \notin S /\ 6 \notin S /\ 7 \notin S /\ 8 \in S
      BY <3>1, <3>5
    <3>6. CASE 5 \notin S /\ 6 \notin S /\ 7 \notin S /\ 8 \notin S
      <4>1. \A y \in S : y = 9
        BY <3>1, <3>6
      <4>2. 9 \in S
        BY <1>3, <4>1
      <4>3. \A y \in S : 9 =< y
        BY <4>1
      <4> QED
        BY <4>2, <4>3
    <3> QED
      BY <3>2, <3>3, <3>4, <3>5, <3>6
  <2> QED
    BY <2>1, <2>2, <2>3, <2>4, <2>5
<1>4. \E x \in Lengths(t, v) : \A y \in Lengths(t, v) : x =< y
  BY <1>1, <1>2, <1>3
<1>5. NumBytes(t, v) \in Lengths(t, v)
  BY <1>4 DEF NumBytes, Min
<1> QED
  BY <1>2, <1>5

\* The number has no bits but those its bytes have room for.
LEMMA NoMoreBits ==
  ASSUME NEW t \in DOMAIN VarTypes, NEW v \in [negative : BOOLEAN, magnitude : AbsValue],
         NEW n \in 1..VarTypes[t].bytes, FitsBits(v.magnitude, MaxBits(t, n))
  PROVE  /\ \A p \in 0..(WideBits - 1) : p >= Room(t, n) => v.magnitude[p] = ZeroBit
         /\ n = VarTypes[t].bytes => FitsBits(v.magnitude, VarTypes[t].limit)
<1> DEFINE B == VarTypes[t].bytes
           S == VarTypes[t].signed
           room == Room(t, n)
           most == MaxBits(t, n)
<1>1. B \in {2, 4, 5, 8, 9} /\ S \in BOOLEAN /\ VarTypes[t].limit \in Nat
      /\ VarTypes[t].limit =< 7 * B + 1 - (IF S THEN 1 ELSE 0)
  BY TypeFacts
<1>2. room = 7 * n - (IF S THEN 1 ELSE 0) + (IF n = B THEN 1 ELSE 0)
  BY RoomIs
<1>3. most = IF n = B THEN VarTypes[t].limit ELSE (IF S THEN 6 ELSE 7) + 7 * (n - 1)
  BY DEF MaxBits, FirstBits
<1>4. most \in Nat /\ room \in Nat /\ most =< room
  BY <1>1, <1>2, <1>3
<1>5. \A p \in most..(WideBits - 1) : v.magnitude[p] = ZeroBit
  BY DEF FitsBits
<1> HIDE DEF most, room
<1>6. \A p \in 0..(WideBits - 1) : p >= room => v.magnitude[p] = ZeroBit
  BY <1>4, <1>5 DEF WideBits
<1> QED
  BY <1>3, <1>6 DEF room, most

-------------------------------------------------------------------------------
(* Decoding.                                                               *)

\* w is what the first c of the bytes s stand for.
Decodes(t, s, c, w) ==
  /\ w \in AbsValue
  /\ \A p \in 0..(WideBits - 1) : p >= VarTypes[t].width \/ p >= Room(t, c) => w[p] = ZeroBit
  /\ \A i \in 0..(c - 1) : \A q \in 0..(PayloadBits(t, i) - 1) :
       Shift(t, c, i) + q < VarTypes[t].width => w[Shift(t, c, i) + q] = s[i + 1][q]

\* One more byte, as readVarNum shifts it in.
Shifted(t, w, c, byte) ==
  IF IsLast(t, c) THEN ShiftIn(t, w, 8, byte, 8) ELSE ShiftIn(t, w, 7, byte, NextFlag(t, c))

NextWord(t, w, c, byte) ==
  LET m == IF c + 1 = VarTypes[t].bytes THEN 8 ELSE 7
  IN  [p \in 0..(WideBits - 1) |->
         IF p >= VarTypes[t].width THEN ZeroBit
         ELSE IF p < PayloadBits(t, c) THEN byte[p]
         ELSE IF p >= m THEN w[p - m] ELSE ZeroBit]

LEMMA ShiftedIs ==
  ASSUME NEW t \in DOMAIN VarTypes, NEW c \in 0..(VarTypes[t].bytes - 1), NEW w, NEW byte
  PROVE  Shifted(t, w, c, byte) = NextWord(t, w, c, byte)
<1>1. VarTypes[t].bytes \in {2, 4, 5, 8, 9}
  BY TypeFacts
<1>2. IsLast(t, c) <=> c + 1 = VarTypes[t].bytes
  BY <1>1 DEF IsLast
<1>3. CASE c + 1 = VarTypes[t].bytes
  <2>1. PayloadBits(t, c) = 8
    BY <1>1, <1>3 DEF PayloadBits
  <2> QED
    BY <1>2, <1>3, <2>1 DEF Shifted, ShiftIn, NextWord
<1>4. CASE c + 1 # VarTypes[t].bytes
  <2>1. PayloadBits(t, c) = NextFlag(t, c)
    BY <1>1, <1>4 DEF PayloadBits
  <2> QED
    BY <1>2, <1>4, <2>1 DEF Shifted, ShiftIn, NextWord
<1> QED
  BY <1>3, <1>4

\* Shifting in the next byte makes it the number of one byte more.
LEMMA DecodesOneMore ==
  ASSUME NEW t \in DOMAIN VarTypes, NEW s \in Seq(Byte), NEW c \in 0..(VarTypes[t].bytes - 1),
         c < Len(s), NEW w, Decodes(t, s, c, w)
  PROVE  Decodes(t, s, c + 1, Shifted(t, w, c, s[c + 1]))
<1> DEFINE B == VarTypes[t].bytes
           S == VarTypes[t].signed
           W == VarTypes[t].width
           m == IF c + 1 = B THEN 8 ELSE 7
           k == PayloadBits(t, c)
           z == Shifted(t, w, c, s[c + 1])
<1>1. B \in {2, 4, 5, 8, 9} /\ S \in BOOLEAN /\ W \in {16, 32, 64}
  BY TypeFacts
<1>2. k = IF c + 1 = B THEN 8 ELSE IF c = 0 /\ S THEN 6 ELSE 7
  BY <1>1, PayloadIs
<1>3. /\ DOMAIN z = 0..63 /\ z = [p \in 0..63 |-> z[p]]
      /\ \A p \in 0..63 : z[p] = IF p >= W THEN ZeroBit ELSE IF p < k THEN s[c + 1][p]
                               ELSE IF p >= m THEN w[p - m] ELSE ZeroBit
  <2>1. WideBits - 1 = 63
    BY DEF WideBits
  <2>2. z = NextWord(t, w, c, s[c + 1])
    BY ShiftedIs
  <2>3. z = [p \in 0..(WideBits - 1) |-> IF p >= W THEN ZeroBit ELSE IF p < k THEN s[c + 1][p]
               ELSE IF p >= m THEN w[p - m] ELSE ZeroBit]
    <3> HIDE DEF z
    <3> QED
      BY <2>2 DEF NextWord
  <2> HIDE DEF k, m, B, S, W, z
  <2> QED
    BY <2>1, <2>3
<1>4. s[c + 1] \in [0..7 -> Bit] /\ ZeroBit \in Bit
  BY <1>1, BitAssumption DEF Byte
<1>5. w \in [0..63 -> Bit]
  BY DEF Decodes, AbsValue, WideBits
<1>6. \A p \in 0..63 : p >= W \/ p >= Room(t, c) => w[p] = ZeroBit
  <2>1. WideBits - 1 = 63
    BY DEF WideBits
  <2> QED
    BY <2>1 DEF Decodes
<1>7. \A i \in 0..(c - 1) : \A q \in 0..(PayloadBits(t, i) - 1) :
        Shift(t, c, i) + q < W => w[Shift(t, c, i) + q] = s[i + 1][q]
  BY DEF Decodes
<1>8. Room(t, c) = (IF c = 0 THEN 0 ELSE 7 * c - (IF S THEN 1 ELSE 0))
      /\ Room(t, c + 1) = 7 * c + 7 - (IF S THEN 1 ELSE 0) + (IF c + 1 = B THEN 1 ELSE 0)
  <2>1. c \in 0..B /\ c + 1 \in 0..B /\ c # B /\ c + 1 # 0 /\ c \in Nat
    BY <1>1
  <2>2. Room(t, c) = IF c = 0 THEN 0 ELSE 7 * c - (IF S THEN 1 ELSE 0) + (IF c = B THEN 1 ELSE 0)
    BY <2>1, RoomIs
  <2>3. Room(t, c + 1) = IF c + 1 = 0 THEN 0
          ELSE 7 * (c + 1) - (IF S THEN 1 ELSE 0) + (IF c + 1 = B THEN 1 ELSE 0)
    BY <2>1, RoomIs
  <2> HIDE DEF B, S
  <2> QED
    BY <1>1, <2>1, <2>2, <2>3
<1>9. c \in Nat /\ c < B
  BY <1>1
<1>10. Shift(t, c + 1, c) = 0
  BY <1>9 DEF Shift
<1>11. \A i \in 0..(c - 1) : Shift(t, c, i) \in Nat /\ Shift(t, c + 1, i) = Shift(t, c, i) + m
  <2> TAKE i \in 0..(c - 1)
  <2>1. Shift(t, c, i) = (c - (i + 1)) * 7
    <3>1. Shift(t, c, i) = (c - (i + 1)) * 7 + (IF c = B /\ i < c - 1 THEN 1 ELSE 0)
      BY DEF Shift
    <3> HIDE DEF B
    <3>2. c # B /\ (c - (i + 1)) * 7 \in Int
      BY <1>1, <1>9
    <3> QED
      BY <3>1, <3>2
  <2>2. Shift(t, c + 1, i) = (c + 1 - (i + 1)) * 7 + (IF c + 1 = B THEN 1 ELSE 0)
    BY <1>9 DEF Shift
  <2> HIDE DEF B
  <2> QED
    BY <1>9, <2>1, <2>2
<1> HIDE DEF B, S, W, k, z
<1>12. k \in 6..8 /\ m \in 7..8 /\ k =< m
  BY <1>2
<1>13. z \in AbsValue
  <2>1. \A p \in 0..63 : p >= m => w[p - m] \in Bit
    <3> TAKE p \in 0..63
    <3> HAVE p >= m
    <3>1. p - m \in 0..63
      BY <1>12
    <3> HIDE DEF m
    <3> QED
      BY <1>5, <3>1
  <2>2. \A p \in 0..63 : p < k => s[c + 1][p] \in Bit
    BY <1>4, <1>12
  <2> HIDE DEF m
  <2>3. z \in [0..63 -> Bit]
    BY <1>3, <1>4, <2>1, <2>2
  <2> QED
    BY <2>3 DEF AbsValue, WideBits
<1>14. \A p \in 0..63 : p >= W \/ p >= Room(t, c + 1) => z[p] = ZeroBit
  <2>0. \A p \in 0..63 : p >= W => z[p] = ZeroBit
    <3> HIDE DEF m
    <3> QED
      BY <1>3
  <2> SUFFICES ASSUME NEW p \in 0..63, ~(p >= W), p >= Room(t, c + 1) PROVE z[p] = ZeroBit
    BY <1>1, <2>0
  <2>1. p >= k
    BY <1>2, <1>8, <1>9, <1>1
  <2>2. p >= m => p - m \in 0..63 /\ p - m >= Room(t, c)
    BY <1>1, <1>8, <1>9, <1>12
  <2>3. p >= m => w[p - m] = ZeroBit
    BY <1>6, <2>2
  <2>4. ~(p >= W) /\ ~(p < k)
    BY <1>1, <1>12, <2>1
  <2> HIDE DEF m
  <2> QED
    BY <1>3, <2>3, <2>4
<1>15. \A i \in 0..c : \A q \in 0..(PayloadBits(t, i) - 1) :
         Shift(t, c + 1, i) + q < W => z[Shift(t, c + 1, i) + q] = s[i + 1][q]
  <2> SUFFICES ASSUME NEW i \in 0..c, NEW q \in 0..(PayloadBits(t, i) - 1), Shift(t, c + 1, i) + q < W
               PROVE  z[Shift(t, c + 1, i) + q] = s[i + 1][q]
    OBVIOUS
  <2>0. PayloadBits(t, i) \in 6..8
    BY <1>9, PayloadIs
  <2>1. CASE i = c
    <3>1. q \in 0..63 /\ q < k /\ ~(q >= W) /\ Shift(t, c + 1, i) + q = q
      BY <1>1, <1>10, <1>12, <2>1, <2>0 DEF k
    <3> HIDE DEF m
    <3> QED
      BY <1>3, <2>1, <3>1
  <2>2. CASE i # c
    <3> DEFINE x == Shift(t, c, i) + q
    <3>1. i \in 0..(c - 1)
      BY <1>9, <2>2
    <3>2. Shift(t, c + 1, i) + q = x + m /\ x \in Nat
      BY <1>11, <1>12, <2>0, <3>1
    <3> DEFINE y == x + m
    <3>3. x < W /\ y \in 0..63 /\ ~(y >= W) /\ ~(y < k) /\ y >= m /\ y - m = x
      <4> HIDE DEF x, m
      <4> QED
        BY <1>1, <1>12, <3>2
    <3>4. w[x] = s[i + 1][q]
      BY <1>7, <3>1, <3>3
    <3>5. Shift(t, c + 1, i) + q = y
      BY <3>2
    <3> HIDE DEF x, m, y
    <3>6. z[y] = w[y - m]
      BY <1>3, <3>3
    <3> QED
      BY <3>3, <3>4, <3>5, <3>6
  <2> QED
    BY <2>1, <2>2
<1>16. c + 1 - 1 = c
  BY <1>9
<1> QED
  BY <1>13, <1>14, <1>15, <1>16 DEF Decodes, W, z, WideBits

\* Nothing is decoded from no byte.
LEMMA DecodesNothing ==
  ASSUME NEW t \in DOMAIN VarTypes, NEW s
  PROVE  Decodes(t, s, 0, Zero)
<1>1. Zero \in AbsValue
  BY BitAssumption DEF Zero, AbsValue
<1>2. \A p \in 0..(WideBits - 1) : Zero[p] = ZeroBit
  BY DEF Zero
<1> QED
  BY <1>1, <1>2 DEF Decodes

\* What is decoded is the payload of the bytes.
LEMMA DecodesThePayload ==
  ASSUME NEW t \in DOMAIN VarTypes, NEW s, NEW c \in 0..VarTypes[t].bytes, NEW w, Decodes(t, s, c, w),
         NEW p \in 0..(VarTypes[t].width - 1)
  PROVE  w[p] = PayloadBit(t, s, c, p)
<1> DEFINE Holds(i) == p \in BitsBehind(t, c, i)..(BitsBehind(t, c, i) + PayloadBits(t, i) - 1)
           at == {i \in 0..(c - 1) : Holds(i)}
<1>1. VarTypes[t].bytes \in {2, 4, 5, 8, 9} /\ VarTypes[t].width \in {16, 32, 64}
  BY TypeFacts
<1>2. p \in 0..(WideBits - 1) /\ p \in Nat /\ p < VarTypes[t].width
  BY <1>1 DEF WideBits
<1>3. \A i \in 0..(c - 1) : BitsBehind(t, c, i) = Shift(t, c, i)
  <2> TAKE i \in 0..(c - 1)
  <2>1. c \in 1..VarTypes[t].bytes
    BY <1>1
  <2> QED
    BY <2>1, BehindIs
<1>4. CASE at = {}
  <2>1. c # 0 => ~(p < Room(t, c))
    <3> SUFFICES ASSUME c # 0, p < Room(t, c) PROVE FALSE
      OBVIOUS
    <3>1. c \in 1..VarTypes[t].bytes
      BY <1>1
    <3>2. \E i \in 0..(c - 1) : p \in Shift(t, c, i)..(Shift(t, c, i) + PayloadBits(t, i) - 1)
      BY <1>2, <3>1, IsInAByte
    <3> QED
      BY <1>3, <1>4, <3>2
  <2>2. Room(t, c) \in Int /\ (c = 0 => Room(t, c) = 0)
    BY <1>1, RoomIs
  <2>3. p >= Room(t, c)
    BY <1>2, <2>1, <2>2
  <2>4. w[p] = ZeroBit
    BY <1>2, <2>3 DEF Decodes
  <2> QED
    BY <1>4, <2>4 DEF PayloadBit
<1>5. CASE at # {}
  <2> DEFINE i == CHOOSE j \in at : TRUE
  <2>1. i \in at
    BY <1>5
  <2>2. PayloadBit(t, s, c, p) = s[i + 1][p - BitsBehind(t, c, i)]
    BY <1>5 DEF PayloadBit
  <2> HIDE DEF i
  <2>3. i \in 0..(c - 1) /\ BitsBehind(t, c, i) = Shift(t, c, i)
        /\ p \in Shift(t, c, i)..(Shift(t, c, i) + PayloadBits(t, i) - 1)
    BY <1>3, <2>1
  <2>4. Shift(t, c, i) \in Int /\ PayloadBits(t, i) \in Int
    <3>1. i \in Nat /\ c \in Nat
      BY <1>1, <2>3
    <3> QED
      BY <3>1, PayloadIs DEF Shift
  <2>5. p - Shift(t, c, i) \in 0..(PayloadBits(t, i) - 1) /\ Shift(t, c, i) + (p - Shift(t, c, i)) = p
    BY <1>2, <2>3, <2>4
  <2>6. w[Shift(t, c, i) + (p - Shift(t, c, i))] = s[i + 1][p - Shift(t, c, i)]
    BY <1>2, <2>3, <2>5 DEF Decodes
  <2> QED
    BY <2>2, <2>3, <2>5, <2>6
<1> QED
  BY <1>4, <1>5

-------------------------------------------------------------------------------
(* What is written is what is read.                                        *)

\* The bytes s are the first c of those that v is written as.
Coded(t, v, s, c) ==
  \A i \in 0..(c - 1) :
    s[i + 1] = IF IsInt64Min(t, v) THEN MinusZero ELSE EncodedByte(t, v, NumBytes(t, v), i)

\* A number that is written: it is in the range of its type, and there is no -0.
Sends(t, v) ==
  /\ v \in [negative : BOOLEAN, magnitude : AbsValue]
  /\ v.negative => VarTypes[t].signed /\ ~FitsBits(v.magnitude, 0)
  /\ Lengths(t, v) # {}

Sent(t, v, s) == Sends(t, v) /\ Len(s) = NumBytes(t, v) /\ Coded(t, v, s, NumBytes(t, v))

\* The sign that is read with the first byte.
SignRead(t, s, c) == c > 0 /\ VarTypes[t].signed /\ s[1][7] # ZeroBit

\* The least value of 64 bits is a byte without payload; any other number has the bytes it
\* needs, and its bits are zero behind those that fit.
LEMMA LengthsAre ==
  ASSUME NEW t \in DOMAIN VarTypes, NEW v, Sends(t, v)
  PROVE  /\ IsInt64Min(t, v) => NumBytes(t, v) = 1
         /\ ~IsInt64Min(t, v) => FitsBits(v.magnitude, MaxBits(t, NumBytes(t, v)))
<1>1. NumBytes(t, v) \in Lengths(t, v)
  BY NumBytesFits DEF Sends
<1> QED
  BY <1>1 DEF Lengths

\* Decoding all of the bytes of a number returns its bits.
LEMMA DecodesTheNumber ==
  ASSUME NEW t \in DOMAIN VarTypes, NEW v, NEW s, Sent(t, v, s), ~IsInt64Min(t, v),
         NEW w, Decodes(t, s, NumBytes(t, v), w)
  PROVE  w = v.magnitude
<1> DEFINE n == NumBytes(t, v)
           B == VarTypes[t].bytes
           W == VarTypes[t].width
           m == v.magnitude
<1>1. B \in {2, 4, 5, 8, 9} /\ W \in {16, 32, 64} /\ VarTypes[t].limit \in 0..W /\ 7 * B =< W + 7
      /\ VarTypes[t].signed \in BOOLEAN
  BY TypeFacts
<1>2. n \in 1..B
  BY NumBytesFits DEF Sent, Sends
<1>3. v \in [negative : BOOLEAN, magnitude : AbsValue] /\ FitsBits(m, MaxBits(t, n))
  BY LengthsAre DEF Sent, Sends
<1>4. m \in AbsValue /\ w \in AbsValue
  BY <1>3 DEF Decodes
<1>5. \A i \in 0..(n - 1) : s[i + 1] = EncodedByte(t, v, n, i)
  BY DEF Sent, Coded
<1>6. /\ \A p \in 0..(WideBits - 1) : p >= Room(t, n) => m[p] = ZeroBit
      /\ n = B => FitsBits(m, VarTypes[t].limit)
  BY <1>2, <1>3, NoMoreBits
<1>7. Room(t, n) = 7 * n - (IF VarTypes[t].signed THEN 1 ELSE 0) + (IF n = B THEN 1 ELSE 0)
  <2>1. n \in 0..B /\ n # 0
    BY <1>1, <1>2
  <2> HIDE DEF n
  <2> QED
    BY <2>1, RoomIs
<1> HIDE DEF n, B, W, m
<1>8. \A p \in 0..(WideBits - 1) : p >= W => m[p] = ZeroBit
  <2> SUFFICES ASSUME NEW p \in 0..(WideBits - 1), p >= W PROVE m[p] = ZeroBit
    OBVIOUS
  <2>1. CASE n = B
    <3>1. p \in VarTypes[t].limit..(WideBits - 1)
      BY <1>1 DEF WideBits
    <3> QED
      BY <1>6, <2>1, <3>1 DEF FitsBits
  <2>2. CASE n # B
    <3>1. p >= Room(t, n)
      BY <1>1, <1>2, <1>7, <2>2 DEF WideBits
    <3> QED
      BY <1>6, <3>1
  <2> QED
    BY <2>1, <2>2
<1>9. ASSUME NEW p \in 0..(WideBits - 1), p < W, p < Room(t, n) PROVE w[p] = m[p]
  <2>1. p \in Nat
    BY <1>9 DEF WideBits
  <2>2. PICK i \in 0..(n - 1) : p \in Shift(t, n, i)..(Shift(t, n, i) + PayloadBits(t, i) - 1)
    BY <1>2, <1>9, <2>1, IsInAByte DEF B
  <2>3. Shift(t, n, i) \in Int /\ PayloadBits(t, i) \in Int
    <3>1. i \in Nat /\ n \in Nat
      BY <1>1, <1>2
    <3> QED
      BY <3>1, PayloadIs DEF Shift
  <2> DEFINE q == p - Shift(t, n, i)
  <2>4. q \in 0..(PayloadBits(t, i) - 1) /\ Shift(t, n, i) + q = p
    BY <2>1, <2>2, <2>3
  <2> HIDE DEF q
  <2>5. w[p] = s[i + 1][q]
    BY <1>9, <2>4 DEF Decodes, n, W
  <2>6. s[i + 1] = EncodedByte(t, v, n, i)
    BY <1>5
  <2>7. s[i + 1][q] = IF Shift(t, n, i) + q < WideBits THEN m[Shift(t, n, i) + q] ELSE ZeroBit
    BY <1>2, <1>3, <2>4, <2>6, EncodedIs DEF B, m
  <2>8. p < WideBits
    BY <1>9 DEF WideBits
  <2> QED
    BY <2>4, <2>5, <2>7, <2>8
<1>10. \A p \in 0..(WideBits - 1) : p >= W \/ p >= Room(t, n) => w[p] = ZeroBit
  BY DEF Decodes, n, W
<1>11. \A p \in 0..(WideBits - 1) : w[p] = m[p]
  <2> TAKE p \in 0..(WideBits - 1)
  <2>1. Room(t, n) \in Int /\ p \in Int
    BY <1>1, <1>2, <1>7 DEF WideBits
  <2>2. CASE p >= W
    BY <1>8, <1>10, <2>2
  <2>3. CASE p >= Room(t, n)
    BY <1>6, <1>10, <2>3
  <2>4. CASE ~(p >= W) /\ ~(p >= Room(t, n))
    BY <1>1, <1>9, <2>1, <2>4
  <2> QED
    BY <2>2, <2>3, <2>4
<1>12. w = m
  <2>1. w \in [0..(WideBits - 1) -> Bit] /\ m \in [0..(WideBits - 1) -> Bit]
    BY <1>4 DEF AbsValue
  <2>2. w = [p \in 0..(WideBits - 1) |-> w[p]] /\ m = [p \in 0..(WideBits - 1) |-> m[p]]
    BY <2>1
  <2> QED
    BY Zenon, <1>11, <2>2
<1> QED
  BY <1>12 DEF m

\* The reader stops behind the last byte of a number, with its sign and its bits.
LEMMA ReadsTheNumber ==
  ASSUME NEW t \in DOMAIN VarTypes, NEW v, NEW s \in Seq(Byte), Sent(t, v, s),
         NEW c \in 0..(NumBytes(t, v) - 1), NEW w, Decodes(t, s, c, w),
         NEW word, word = Shifted(t, w, c, s[c + 1]),
         NEW minus, minus = SignRead(t, s, c + 1),
         NEW more, more = (~IsLast(t, c) /\ s[c + 1][NextFlag(t, c)] # ZeroBit)
  PROVE  /\ more <=> c + 1 < NumBytes(t, v)
         /\ minus = v.negative
         /\ ~more => /\ ~OutOfRange(t, c, word)
                     /\ SameNumber(v.magnitude, IF t = "varint" /\ c = 0 /\ minus /\ word = Zero
                                                THEN Int64Min ELSE word)
<1> DEFINE n == NumBytes(t, v)
           B == VarTypes[t].bytes
<1>1. B \in {2, 4, 5, 8, 9} /\ VarTypes[t].signed \in BOOLEAN
      /\ (t = "varsize" => VarTypes[t].limit = 31 /\ B = 5)
      /\ (t = "varint" => B = 9 /\ VarTypes[t].width = 64 /\ VarTypes[t].signed)
  BY TypeFacts
<1>2. n \in 1..B /\ c \in 0..(n - 1) /\ c \in 0..(B - 1)
  <2>1. n \in 1..B
    BY NumBytesFits DEF Sent, Sends
  <2> HIDE DEF n
  <2> QED
    BY <1>1, <2>1 DEF n
<1>3. v \in [negative : BOOLEAN, magnitude : AbsValue] /\ Len(s) = n
      /\ (v.negative => VarTypes[t].signed /\ ~FitsBits(v.magnitude, 0))
  BY DEF Sent, Sends
<1>4. ZeroBit \in Bit /\ FlagBit \in Bit /\ FlagBit # ZeroBit
  BY BitAssumption, FlagAssumption
<1>5. Decodes(t, s, c + 1, word)
  BY <1>1, <1>2, <1>3, DecodesOneMore
<1>6. CASE IsInt64Min(t, v)
  <2>1. n = 1 /\ c = 0
    <3>1. n = 1
      BY <1>6, LengthsAre DEF Sent
    <3> QED
      BY <1>2, <3>1
  <2>2. s[1] = MinusZero
    BY <1>6, <2>1 DEF Sent, Coded
  <2>3. \A p \in 0..7 : s[1][p] = IF p = 7 THEN FlagBit ELSE ZeroBit
    BY <2>2 DEF MinusZero
  <2>4. t = "varint" /\ v.negative /\ VarTypes[t].signed /\ B = 9 /\ VarTypes[t].width = 64
    BY <1>1, <1>6 DEF IsInt64Min, IsLeast
  <2>5. NextFlag(t, 0) = 6 /\ ~IsLast(t, 0)
    BY <2>4 DEF NextFlag, IsLast
  <2>6. ~more /\ minus = TRUE
    <3>1. c + 1 = 1 /\ c + 1 > 0 /\ 6 \in 0..7 /\ 7 \in 0..7 /\ 6 # 7
      BY <2>1
    <3>2. s[1][6] = ZeroBit /\ s[1][7] # ZeroBit
      BY <1>4, <2>3, <3>1
    <3>3. ~more
      BY <2>1, <2>5, <3>1, <3>2
    <3>4. SignRead(t, s, c + 1)
      BY <2>4, <3>1, <3>2 DEF SignRead
    <3>5. SignRead(t, s, c + 1) \in BOOLEAN
      BY DEF SignRead
    <3> QED
      BY <3>3, <3>4, <3>5
  <2>7. PayloadBits(t, 0) = 6 /\ Shift(t, 1, 0) = 0 /\ Room(t, 1) = 6
    <3>1. PayloadBits(t, 0) = 6 /\ Shift(t, 1, 0) = 0
      BY <2>4, <2>5 DEF PayloadBits, Shift
    <3> QED
      BY <3>1 DEF Room
  <2>8. \A p \in 0..(WideBits - 1) : word[p] = ZeroBit
    <3> TAKE p \in 0..(WideBits - 1)
    <3>1. CASE p >= 6
      BY <1>5, <2>1, <2>7, <3>1 DEF Decodes
    <3>2. CASE p < 6
      <4>1. p \in 0..(PayloadBits(t, 0) - 1) /\ Shift(t, 1, 0) + p = p /\ p < VarTypes[t].width /\ p \in 0..7
        BY <2>4, <2>7, <3>2
      <4>2. 0 \in 0..(0 + 1 - 1)
        OBVIOUS
      <4>3. word[p] = s[1][p]
        BY <1>5, <2>1, <4>1, <4>2 DEF Decodes
      <4> QED
        BY <2>3, <3>2, <4>1, <4>3
    <3> QED
      BY <3>1, <3>2 DEF WideBits
  <2>9. word = Zero
    BY <1>5, <2>8 DEF Decodes, AbsValue, Zero
  <2>10. SameNumber(v.magnitude, Int64Min)
    <3>1. IsLeast(t, v) /\ VarTypes[t].width - 1 = 63 /\ WideBits - 1 = 63
      BY <1>6, <2>4 DEF IsInt64Min, WideBits
    <3> DEFINE rest == [v.magnitude EXCEPT ![63] = ZeroBit]
    <3>2. v.magnitude[63] # ZeroBit /\ FitsBits(rest, 0)
      BY <3>1 DEF IsLeast
    <3>3. \A p \in 0..63 : rest[p] = ZeroBit
      <4> HIDE DEF rest
      <4> QED
        BY <3>1, <3>2 DEF FitsBits
    <3>4. v.magnitude \in [0..63 -> Bit]
      BY <1>3, <3>1 DEF AbsValue
    <3>5. \A p \in 0..63 : p # 63 => v.magnitude[p] = ZeroBit
      BY <3>3, <3>4
    <3>6. \A p \in 0..63 : Int64Min[p] = IF p = 63 THEN FlagBit ELSE ZeroBit
      BY <3>1 DEF Int64Min
    <3>7. ASSUME NEW p \in 0..63
          PROVE  v.magnitude[p] = Int64Min[p] \/ (v.magnitude[p] # ZeroBit /\ Int64Min[p] = FlagBit)
      <4>1. CASE p = 63
        <5>1. Int64Min[63] = FlagBit
          BY <3>6
        <5> QED
          BY <3>2, <4>1, <5>1
      <4>2. CASE p # 63
        <5>1. v.magnitude[p] = ZeroBit /\ Int64Min[p] = ZeroBit
          BY <3>5, <3>6, <3>7, <4>2
        <5> QED
          BY <5>1
      <4> QED
        BY <4>1, <4>2
    <3> QED
      BY <3>1, <3>7 DEF SameNumber
  <2>11. ~OutOfRange(t, c, word)
    BY <2>4 DEF OutOfRange
  <2>12. ~(c + 1 < n)
    BY <2>1
  <2>13. minus = v.negative
    BY <1>3, <2>4, <2>6
  <2>14. (IF t = "varint" /\ c = 0 /\ minus /\ word = Zero THEN Int64Min ELSE word) = Int64Min
    BY <2>1, <2>4, <2>6, <2>9
  <2> QED
    BY <2>6, <2>10, <2>11, <2>12, <2>13, <2>14
<1>7. CASE ~IsInt64Min(t, v)
  <2>1. \A i \in 0..(n - 1) : s[i + 1] = EncodedByte(t, v, n, i)
    BY <1>7 DEF Sent, Coded
  <2>2. s[c + 1] = EncodedByte(t, v, n, c) /\ s[1] = EncodedByte(t, v, n, 0)
    <3>1. 0 \in 0..(n - 1) /\ c \in 0..(n - 1) /\ 0 + 1 = 1
      BY <1>1, <1>2
    <3> HIDE DEF n
    <3> QED
      BY <2>1, <3>1
  <2>3. c # B - 1 => (s[c + 1][NextFlag(t, c)] # ZeroBit <=> c < n - 1)
    BY <1>2, <1>3, <2>2, EncodedIs
  <2>4. VarTypes[t].signed => (s[1][7] # ZeroBit <=> v.negative)
    <3>1. 0 \in 0..(n - 1)
      BY <1>1, <1>2
    <3> QED
      BY <1>2, <1>3, <2>2, <3>1, EncodedIs
  <2>5. minus = v.negative
    <3>1. c + 1 > 0
      BY <1>1, <1>2
    <3>2. v.negative \in BOOLEAN
      BY <1>3
    <3> QED
      BY <1>1, <1>3, <2>4, <3>1, <3>2 DEF SignRead
  <2>6. more <=> c + 1 < n
    <3>1. n \in Int /\ c \in Int /\ n =< B /\ c < n
      BY <1>1, <1>2
    <3>2. IsLast(t, c) <=> c = B - 1
      BY DEF IsLast
    <3>3. (c < n - 1 <=> c + 1 < n) /\ (c = B - 1 => ~(c + 1 < n))
      <4> HIDE DEF n, B
      <4> QED
        BY <1>1, <3>1
    <3> HIDE DEF n, B
    <3> QED
      BY <2>3, <3>2, <3>3
  <2>7. ASSUME ~more
        PROVE  /\ ~OutOfRange(t, c, word)
               /\ SameNumber(v.magnitude, IF t = "varint" /\ c = 0 /\ minus /\ word = Zero THEN Int64Min ELSE word)
    <3>1. c + 1 = n
      <4> HIDE DEF n
      <4> QED
        BY <1>1, <1>2, <2>6, <2>7
    <3>2. word = v.magnitude
      BY <1>5, <1>7, <3>1, DecodesTheNumber
    <3>3. ~OutOfRange(t, c, word)
      <4> SUFFICES ASSUME t = "varsize", c = 4, word[31] # ZeroBit PROVE FALSE
        BY DEF OutOfRange
      <4>1. n = B /\ VarTypes[t].limit = 31
        BY <1>1, <3>1
      <4>2. FitsBits(v.magnitude, MaxBits(t, n))
        BY <1>7, LengthsAre DEF Sent
      <4>3. FitsBits(v.magnitude, 31)
        BY <1>2, <1>3, <4>1, <4>2, NoMoreBits
      <4> QED
        <5>1. 31 \in 31..(WideBits - 1)
          BY DEF WideBits
        <5>2. v.magnitude[31] = ZeroBit
          BY <4>3, <5>1 DEF FitsBits
        <5> QED
          BY <3>2, <5>2
    <3>4. ~(minus /\ word = Zero)
      <4> SUFFICES ASSUME minus, word = Zero PROVE FALSE
        OBVIOUS
      <4>1. ~FitsBits(v.magnitude, 0)
        BY <1>3, <2>5
      <4>2. FitsBits(Zero, 0)
        BY DEF FitsBits, Zero
      <4> QED
        BY <3>2, <4>1, <4>2
    <3>5. SameNumber(v.magnitude, word)
      BY <3>2 DEF SameNumber
    <3> QED
      BY <3>3, <3>4, <3>5
  <2> QED
    BY <2>5, <2>6, <2>7
<1> QED
  BY <1>6, <1>7

-------------------------------------------------------------------------------
(* The steps of writer and reader.                                         *)

\* While a number is written, its first bytes are there; while bytes are read, the result is
\* what the first of them stand for; and what was written is read back.
NumberInv ==
  /\ VarNumTypeOK
  /\ varStatus = "writing" => /\ Sends(varType, value)
                              /\ count < NumBytes(varType, value) /\ Len(encoded) = count
                              /\ Coded(varType, value, encoded, count)
                              /\ result = Zero /\ ~sign
  /\ varStatus \in {"reading", "done"} /\ value # NoValue => Sent(varType, value, encoded)
  /\ varStatus = "reading" => /\ count < VarTypes[varType].bytes /\ count < Len(encoded)
                              /\ Decodes(varType, encoded, count, result)
                              /\ sign = SignRead(varType, encoded, count)
                              /\ IF value = NoValue THEN Len(encoded) >= VarTypes[varType].bytes
                                 ELSE count < NumBytes(varType, value)
  /\ varStatus = "done" /\ ~(sign /\ result = Int64Min) => Decodes(varType, encoded, count, result)
  /\ RoundTrip
  /\ RefusedIfOutOfRange

LEMMA ConstantWords == Zero \in AbsValue /\ Int64Min \in AbsValue /\ MinusZero \in Byte
BY BitAssumption, FlagAssumption DEF Zero, Int64Min, MinusZero, AbsValue, Byte

LEMMA WriteInv ==
  ASSUME NumberInv, NEW t \in DOMAIN VarTypes, NEW w \in Magnitudes, NEW n \in BOOLEAN,
         Write(t, [negative |-> n, magnitude |-> w])
  PROVE  NumberInv'
<1> DEFINE v == [negative |-> n, magnitude |-> w]
<1>1. /\ varType' = t /\ value' = v /\ encoded' = <<>> /\ count' = 0 /\ sign' = FALSE /\ result' = Zero
      /\ varStatus' = IF Lengths(t, v) = {} THEN "thrown" ELSE "writing"
      /\ IsValueOf(t, v)
  BY DEF Write
<1>2. v \in [negative : BOOLEAN, magnitude : AbsValue]
  BY NumbersAssumption
<1>3. VarTypes[t].bytes \in 1..9
  BY TypeFacts
<1> HIDE DEF v
<1>4. VarNumTypeOK'
  <2>1. encoded' \in Seq(Byte)
    BY <1>1
  <2>2. count' \in 0..VarTypes[t].bytes
    BY <1>1, <1>3
  <2> QED
    BY <1>1, <1>2, <2>1, <2>2, ConstantWords DEF VarNumTypeOK
<1>5. CASE Lengths(t, v) = {}
  <2>1. ~FitsBits(v.magnitude, VarTypes[t].limit)
    <3>1. ~IsInt64Min(t, v)
      BY <1>5 DEF Lengths
    <3>2. VarTypes[t].bytes \in 1..VarTypes[t].bytes
      BY <1>3
    <3>3. ~FitsBits(v.magnitude, MaxBits(t, VarTypes[t].bytes))
      BY <1>5, <3>1, <3>2 DEF Lengths
    <3> QED
      BY <3>3 DEF MaxBits
  <2>2. varStatus' = "thrown"
    BY <1>1, <1>5
  <2>3. RefusedIfOutOfRange' /\ RoundTrip'
    BY <1>1, <2>1, <2>2 DEF RefusedIfOutOfRange, RoundTrip
  <2> QED
    BY <1>4, <2>2, <2>3 DEF NumberInv
<1>6. CASE Lengths(t, v) # {}
  <2>1. varStatus' = "writing"
    BY <1>1, <1>6
  <2>2. Sends(t, v)
    BY <1>1, <1>2, <1>6 DEF Sends, IsValueOf
  <2>3. NumBytes(t, v) \in 1..VarTypes[t].bytes
    BY <1>6, NumBytesFits
  <2>4. count' < NumBytes(t, v) /\ Len(encoded') = count'
    BY <1>1, <1>3, <2>3
  <2>5. Coded(t, v, encoded', count')
    <3>1. 0..(0 - 1) = {}
      OBVIOUS
    <3> QED
      BY <1>1, <3>1 DEF Coded
  <2>6. RefusedIfOutOfRange' /\ RoundTrip'
    BY <2>1 DEF RefusedIfOutOfRange, RoundTrip
  <2> QED
    BY <1>1, <1>4, <2>1, <2>2, <2>4, <2>5, <2>6 DEF NumberInv
<1> QED
  BY <1>5, <1>6

LEMMA WriteByteInv == NumberInv /\ WriteByte => NumberInv'
<1> SUFFICES ASSUME NumberInv, WriteByte PROVE NumberInv'
  OBVIOUS
<1> DEFINE t == varType
           v == value
           n == NumBytes(varType, value)
           b == IF IsInt64Min(t, v) THEN MinusZero ELSE EncodedByte(t, v, n, count)
<1>1. /\ varStatus = "writing" /\ encoded' = Append(encoded, b)
      /\ count' = IF count + 1 = n THEN 0 ELSE count + 1
      /\ varStatus' = IF count + 1 = n THEN "reading" ELSE "writing"
      /\ varType' = t /\ value' = v /\ sign' = sign /\ result' = result
  BY DEF WriteByte
<1>2. /\ VarNumTypeOK /\ Sends(t, v) /\ count < n /\ Len(encoded) = count /\ Coded(t, v, encoded, count)
      /\ result = Zero /\ ~sign
  BY <1>1 DEF NumberInv
<1>3. t \in DOMAIN VarTypes /\ encoded \in Seq(Byte) /\ count \in Nat /\ VarTypes[t].bytes \in 2..9
  <2>1. t \in DOMAIN VarTypes /\ encoded \in Seq(Byte) /\ count \in 0..VarTypes[t].bytes
    BY <1>2 DEF VarNumTypeOK
  <2> QED
    BY <2>1, TypeFacts
<1>4. n \in 1..VarTypes[t].bytes
  BY <1>2, <1>3, NumBytesFits DEF Sends
<1>5. b \in Byte
  <2>1. count \in 0..(n - 1)
    BY <1>2, <1>3, <1>4
  <2> QED
    BY <1>2, <1>3, <1>4, <2>1, ConstantWords, EncodedIs DEF Sends
<1> HIDE DEF t, v, n, b
<1>6. encoded' \in Seq(Byte) /\ Len(encoded') = count + 1
      /\ encoded'[count + 1] = b /\ \A i \in 1..count : encoded'[i] = encoded[i]
  BY <1>1, <1>2, <1>3, <1>5
<1>7. Coded(t, v, encoded', count + 1)
  <2> DEFINE Right(i) == encoded'[i + 1] = IF IsInt64Min(t, v) THEN MinusZero ELSE EncodedByte(t, v, NumBytes(t, v), i)
  <2>1. ASSUME NEW i \in 0..count PROVE Right(i)
    <3>1. CASE i = count
      BY <1>6, <3>1 DEF b, n, t, v
    <3>2. CASE i # count
      <4>1. i \in 0..(count - 1) /\ i + 1 \in 1..count
        BY <1>3, <3>2
      <4>2. encoded'[i + 1] = encoded[i + 1]
        BY <1>6, <4>1
      <4> QED
        BY <1>2, <4>1, <4>2 DEF Coded
    <3> QED
      BY <3>1, <3>2
  <2>2. (count + 1) - 1 = count
    BY <1>3
  <2> HIDE DEF Right
  <2>3. \A i \in 0..((count + 1) - 1) : Right(i)
    BY <2>1, <2>2
  <2> QED
    BY <2>3 DEF Coded, Right
<1>8. VarNumTypeOK'
  <2>1. count' \in 0..VarTypes[t].bytes
    BY <1>1, <1>2, <1>3, <1>4
  <2>2. varStatus' \in {"writing", "reading", "done", "thrown"}
    BY <1>1
  <2>3. varType \in DOMAIN VarTypes /\ result \in AbsValue /\ sign \in BOOLEAN
        /\ (value = NoValue \/ value \in [negative : BOOLEAN, magnitude : AbsValue])
    BY <1>2 DEF VarNumTypeOK
  <2> QED
    BY <1>1, <1>6, <2>1, <2>2, <2>3 DEF VarNumTypeOK, t, v
<1>9. CASE count + 1 = n
  <2>1. count' = 0 /\ varStatus' = "reading"
    BY <1>1, <1>9
  <2>2. Sent(t, v, encoded')
    <3>1. Len(encoded') = n /\ Coded(t, v, encoded', n)
      BY <1>6, <1>7, <1>9
    <3> QED
      BY <1>2, <3>1 DEF Sent, n, t, v
  <2>3. count' < VarTypes[t].bytes /\ count' < Len(encoded') /\ count' < n
    BY <1>3, <1>4, <1>6, <2>1
  <2>4. Decodes(t, encoded', count', result')
    BY <1>1, <1>2, <1>3, <2>1, DecodesNothing
  <2>5. sign' = SignRead(t, encoded', count')
    <3>1. sign = FALSE
      BY <1>2 DEF VarNumTypeOK
    <3>2. ~(0 > 0)
      OBVIOUS
    <3> QED
      BY <1>1, <2>1, <3>1, <3>2 DEF SignRead
  <2>6. RefusedIfOutOfRange' /\ RoundTrip'
    BY <2>1 DEF RefusedIfOutOfRange, RoundTrip
  <2>7. varType' = t /\ value' = v /\ NumBytes(t, v) = n
    BY <1>1 DEF n, t, v
  <2>8. v # NoValue
    <3>1. v.magnitude \in [0..63 -> Bit]
      BY <1>2 DEF Sends, AbsValue, WideBits
    <3>2. NoValue.magnitude = <<>>
      BY DEF NoValue
    <3>3. <<>> \notin [0..63 -> Bit]
      OBVIOUS
    <3> QED
      BY <3>1, <3>2, <3>3
  <2>9. /\ Sent(varType', value', encoded') /\ count' < VarTypes[varType'].bytes /\ count' < Len(encoded')
        /\ Decodes(varType', encoded', count', result') /\ sign' = SignRead(varType', encoded', count')
        /\ value' # NoValue /\ count' < NumBytes(varType', value')
    BY <2>2, <2>3, <2>4, <2>5, <2>7, <2>8
  <2> QED
    BY <1>8, <2>1, <2>6, <2>9 DEF NumberInv
<1>10. CASE count + 1 # n
  <2>1. count' = count + 1 /\ varStatus' = "writing"
    BY <1>1, <1>10
  <2>2. count' < n /\ Len(encoded') = count'
    BY <1>2, <1>3, <1>4, <1>6, <1>10, <2>1
  <2>3. RefusedIfOutOfRange' /\ RoundTrip'
    BY <2>1 DEF RefusedIfOutOfRange, RoundTrip
  <2>4. varType' = t /\ value' = v /\ NumBytes(t, v) = n
    BY <1>1 DEF n, t, v
  <2> QED
    BY <1>1, <1>2, <1>7, <1>8, <2>1, <2>2, <2>3, <2>4 DEF NumberInv
<1> QED
  BY <1>9, <1>10

LEMMA ReadInv ==
  ASSUME NumberInv, NEW t \in DOMAIN VarTypes, NEW s \in Streams, Read(t, s)
  PROVE  NumberInv'
<1>1. /\ varType' = t /\ value' = NoValue /\ encoded' = s /\ count' = 0 /\ sign' = FALSE /\ result' = Zero
      /\ varStatus' = "reading" /\ Len(s) >= VarTypes[t].bytes
  BY DEF Read
<1>2. s \in Seq(Byte)
  BY NumbersAssumption
<1>3. VarTypes[t].bytes \in 2..9
  BY TypeFacts
<1>4. VarNumTypeOK'
  <2>1. count' \in 0..VarTypes[t].bytes
    BY <1>1, <1>3
  <2> QED
    BY <1>1, <1>2, <2>1, ConstantWords DEF VarNumTypeOK
<1>5. count' < VarTypes[t].bytes /\ count' < Len(encoded')
  BY <1>1, <1>2, <1>3
<1>6. Decodes(t, encoded', count', result')
  BY <1>1, DecodesNothing
<1>7. sign' = SignRead(t, encoded', count')
  <2>1. ~(0 > 0)
    OBVIOUS
  <2> QED
    BY <1>1, <2>1 DEF SignRead
<1>8. RefusedIfOutOfRange' /\ RoundTrip'
  BY <1>1 DEF RefusedIfOutOfRange, RoundTrip
<1> QED
  BY <1>1, <1>4, <1>5, <1>6, <1>7, <1>8 DEF NumberInv

LEMMA ReadByteInv == NumberInv /\ ReadByte => NumberInv'
<1> SUFFICES ASSUME NumberInv, ReadByte PROVE NumberInv'
  OBVIOUS
<1> DEFINE t == varType
           v == value
           s == encoded
           word == Shifted(t, result, count, s[count + 1])
           minus == SignRead(t, s, count + 1)
           more == ~IsLast(t, count) /\ s[count + 1][NextFlag(t, count)] # ZeroBit
           least == t = "varint" /\ count = 0 /\ ~more /\ minus /\ word = Zero
<1>1. /\ VarNumTypeOK /\ varStatus = "reading"
      /\ v # NoValue => Sent(t, v, s) /\ count < NumBytes(t, v)
      /\ v = NoValue => Len(s) >= VarTypes[t].bytes
      /\ count < VarTypes[t].bytes /\ count < Len(s) /\ Decodes(t, s, count, result)
      /\ sign = SignRead(t, s, count)
  BY DEF NumberInv, ReadByte
<1>2. t \in DOMAIN VarTypes /\ s \in Seq(Byte) /\ count \in 0..(VarTypes[t].bytes - 1) /\ count \in Nat
      /\ VarTypes[t].bytes \in 2..9
  <2>1. t \in DOMAIN VarTypes /\ s \in Seq(Byte) /\ count \in 0..VarTypes[t].bytes
    BY <1>1 DEF VarNumTypeOK
  <2>2. VarTypes[t].bytes \in {2, 4, 5, 8, 9}
    BY <2>1, TypeFacts
  <2> QED
    BY <1>1, <2>1, <2>2
<1>3. minus = IF count = 0 THEN VarTypes[t].signed /\ s[count + 1][7] # ZeroBit ELSE sign
  <2>1. CASE count = 0
    BY <2>1 DEF SignRead
  <2>2. CASE count # 0
    <3>1. count + 1 > 0 /\ count > 0
      BY <1>2, <2>2
    <3> QED
      BY <1>1, <2>2, <3>1 DEF SignRead
  <2> QED
    BY <2>1, <2>2
<1>4. /\ count' = count + 1 /\ sign' = minus
      /\ result' = IF least THEN Int64Min ELSE word
      /\ varStatus' = IF more THEN "reading" ELSE IF OutOfRange(t, count, word) THEN "thrown" ELSE "done"
      /\ varType' = t /\ value' = v /\ encoded' = s
  <2> HIDE DEF minus
  <2> QED
    BY <1>3 DEF ReadByte, Shifted
<1>5. Decodes(t, s, count + 1, word)
  BY <1>1, <1>2, DecodesOneMore
<1>6. v # NoValue => /\ Sent(t, v, s)
                     /\ more <=> count + 1 < NumBytes(t, v)
                     /\ minus = v.negative
                     /\ ~more => /\ ~OutOfRange(t, count, word)
                                 /\ SameNumber(v.magnitude, IF t = "varint" /\ count = 0 /\ minus /\ word = Zero
                                                            THEN Int64Min ELSE word)
  <2> SUFFICES ASSUME v # NoValue
               PROVE  /\ Sent(t, v, s)
                      /\ more <=> count + 1 < NumBytes(t, v)
                      /\ minus = v.negative
                      /\ ~more => /\ ~OutOfRange(t, count, word)
                                  /\ SameNumber(v.magnitude, IF t = "varint" /\ count = 0 /\ minus /\ word = Zero
                                                             THEN Int64Min ELSE word)
    OBVIOUS
  <2>1. Sent(t, v, s) /\ count < NumBytes(t, v)
    BY <1>1
  <2>2. NumBytes(t, v) \in 1..VarTypes[t].bytes
    BY <1>2, <2>1, NumBytesFits DEF Sent, Sends
  <2>3. count \in 0..(NumBytes(t, v) - 1)
    BY <1>2, <2>1, <2>2
  <2> HIDE DEF word, minus, more, t, v, s
  <2>4. word = Shifted(t, result, count, s[count + 1]) /\ minus = SignRead(t, s, count + 1)
        /\ more = (~IsLast(t, count) /\ s[count + 1][NextFlag(t, count)] # ZeroBit)
    BY DEF word, minus, more
  <2> QED
    BY <1>1, <1>2, <2>1, <2>3, <2>4, ReadsTheNumber
<1> HIDE DEF word, minus, t, v, s
<1>7. word \in AbsValue /\ minus \in BOOLEAN
  BY <1>5 DEF Decodes, minus, SignRead
<1>8. VarNumTypeOK'
  <2>1. count' \in 0..VarTypes[t].bytes
    BY <1>2, <1>4
  <2>2. varStatus' \in {"writing", "reading", "done", "thrown"} /\ result' \in AbsValue
    BY <1>4, <1>7, ConstantWords
  <2>3. v = NoValue \/ v \in [negative : BOOLEAN, magnitude : AbsValue]
    BY <1>1 DEF VarNumTypeOK, v
  <2> QED
    BY <1>2, <1>4, <1>7, <2>1, <2>2, <2>3 DEF VarNumTypeOK
<1>9. CASE more
  <2>1. varStatus' = "reading" /\ result' = word
    BY <1>4, <1>9
  <2>2. count + 1 < VarTypes[t].bytes
    <3>1. ~IsLast(t, count)
      BY <1>9
    <3> QED
      BY <1>2, <3>1 DEF IsLast
  <2>3. v # NoValue => count + 1 < NumBytes(t, v)
    BY <1>6, <1>9
  <2>4. count + 1 < Len(s)
    <3>1. v # NoValue => Len(s) = NumBytes(t, v)
      BY <1>6 DEF Sent
    <3>2. v = NoValue => Len(s) >= VarTypes[t].bytes
      BY <1>1
    <3> QED
      BY <1>2, <2>2, <2>3, <3>1, <3>2
  <2>5. RefusedIfOutOfRange' /\ RoundTrip'
    BY <2>1 DEF RefusedIfOutOfRange, RoundTrip
  <2>6. sign' = SignRead(t, s, count + 1)
    BY <1>4 DEF minus
  <2>7. /\ value' # NoValue => Sent(varType', value', encoded')
        /\ count' < VarTypes[varType'].bytes /\ count' < Len(encoded')
        /\ Decodes(varType', encoded', count', result') /\ sign' = SignRead(varType', encoded', count')
    BY <1>4, <1>5, <1>6, <2>1, <2>2, <2>4, <2>6
  <2>8. IF value' = NoValue THEN Len(encoded') >= VarTypes[varType'].bytes
        ELSE count' < NumBytes(varType', value')
    BY <1>1, <1>4, <2>3
  <2> QED
    BY <1>8, <2>1, <2>5, <2>7, <2>8 DEF NumberInv
<1>10. CASE ~more
  <2>1. CASE OutOfRange(t, count, word)
    <3>1. varStatus' = "thrown" /\ v = NoValue
      BY <1>4, <1>6, <1>10, <2>1
    <3>2. RefusedIfOutOfRange' /\ RoundTrip'
      BY <1>4, <3>1 DEF RefusedIfOutOfRange, RoundTrip
    <3> QED
      BY <1>4, <1>8, <3>1, <3>2 DEF NumberInv
  <2>2. CASE ~OutOfRange(t, count, word)
    <3>1. varStatus' = "done"
      BY <1>4, <1>10, <2>2
    <3>2. v # NoValue => count + 1 = NumBytes(t, v) /\ Len(s) = NumBytes(t, v)
      <4> SUFFICES ASSUME v # NoValue PROVE count + 1 = NumBytes(t, v) /\ Len(s) = NumBytes(t, v)
        OBVIOUS
      <4>1. Sent(t, v, s) /\ ~(count + 1 < NumBytes(t, v)) /\ count < NumBytes(t, v)
        BY <1>1, <1>6, <1>10
      <4>2. NumBytes(t, v) \in 1..VarTypes[t].bytes
        BY <1>2, <4>1, NumBytesFits DEF Sent, Sends
      <4>3. Len(s) = NumBytes(t, v)
        BY <4>1 DEF Sent
      <4> QED
        BY <1>2, <4>1, <4>2, <4>3
    <3>3. v # NoValue => SameNumber(v.magnitude, result') /\ sign' = v.negative
      BY <1>4, <1>6, <1>10
    <3>4. RefusedIfOutOfRange' /\ RoundTrip'
      BY <1>4, <3>1, <3>2, <3>3 DEF RefusedIfOutOfRange, RoundTrip
    <3>5. ~(sign' /\ result' = Int64Min) => Decodes(t, s, count + 1, result')
      BY <1>4, <1>5
    <3>6. v # NoValue => Sent(t, v, s)
      BY <1>6
    <3> QED
      BY <1>4, <1>8, <3>1, <3>4, <3>5, <3>6 DEF NumberInv
  <2> QED
    BY <2>1, <2>2
<1> QED
  BY <1>9, <1>10

LEMMA NumberInvHolds == VarNumSpec => []NumberInv
<1>1. VarNumInit => NumberInv
  <2> SUFFICES ASSUME VarNumInit PROVE NumberInv
    OBVIOUS
  <2>1. "varsize" \in DOMAIN VarTypes
    BY DEF VarTypes
  <2>2. VarTypes["varsize"].bytes \in 2..9
    BY <2>1, TypeFacts
  <2>3. VarNumTypeOK
    <3>1. 0 \in 0..VarTypes["varsize"].bytes /\ <<>> \in Seq(Byte)
      BY <2>2
    <3> QED
      BY <2>1, <3>1, ConstantWords DEF VarNumInit, VarNumTypeOK
  <2>4. Decodes(varType, encoded, count, result)
    BY <2>1, DecodesNothing DEF VarNumInit
  <2>5. RefusedIfOutOfRange /\ RoundTrip
    BY DEF VarNumInit, RefusedIfOutOfRange, RoundTrip
  <2> QED
    BY <2>3, <2>4, <2>5 DEF VarNumInit, NumberInv
<1>2. NumberInv /\ [VarNumNext]_varNumVars => NumberInv'
  <2> SUFFICES ASSUME NumberInv, [VarNumNext]_varNumVars PROVE NumberInv'
    OBVIOUS
  <2>1. ASSUME NEW t \in DOMAIN VarTypes, NEW w \in Magnitudes, NEW n \in BOOLEAN,
               Write(t, [negative |-> n, magnitude |-> w])
        PROVE  NumberInv'
    BY <2>1, WriteInv
  <2>2. ASSUME NEW t \in DOMAIN VarTypes, NEW s \in Streams, Read(t, s)
        PROVE  NumberInv'
    BY <2>2, ReadInv
  <2>3. CASE WriteByte
    BY <2>3, WriteByteInv
  <2>4. CASE ReadByte
    BY <2>4, ReadByteInv
  <2>5. CASE UNCHANGED varNumVars
    <3>1. /\ varType' = varType /\ value' = value /\ encoded' = encoded /\ count' = count /\ sign' = sign
          /\ result' = result /\ varStatus' = varStatus
      BY <2>5 DEF varNumVars
    <3>2. VarNumTypeOK' /\ RefusedIfOutOfRange' /\ RoundTrip'
      BY <3>1 DEF NumberInv, VarNumTypeOK, RefusedIfOutOfRange, RoundTrip
    <3> QED
      BY <3>1, <3>2 DEF NumberInv
  <2> QED
    BY <2>1, <2>2, <2>3, <2>4, <2>5 DEF VarNumNext
<1> QED
  BY <1>1, <1>2, PTL DEF VarNumSpec

\* A number that is written is read back, one out of range is refused, and whatever bytes are
\* read, the result is the number their payload stands for.
THEOREM NumbersStayTheSame == VarNumSpec => [](VarNumTypeOK /\ NumbersAgree)
<1>1. NumberInv => VarNumTypeOK /\ NumbersAgree
  <2> SUFFICES ASSUME NumberInv PROVE VarNumTypeOK /\ NumbersAgree
    OBVIOUS
  <2>1. VarNumTypeOK /\ RoundTrip /\ RefusedIfOutOfRange
    BY DEF NumberInv
  <2>2. varType \in DOMAIN VarTypes /\ count \in 0..VarTypes[varType].bytes
    BY <2>1 DEF VarNumTypeOK
  <2>3. DecodesPayload
    <3> SUFFICES ASSUME varStatus = "done", ~(sign /\ result = Int64Min),
                        NEW p \in 0..(VarTypes[varType].width - 1)
                 PROVE  result[p] = PayloadBit(varType, encoded, count, p)
      BY DEF DecodesPayload
    <3>1. Decodes(varType, encoded, count, result)
      BY DEF NumberInv
    <3> QED
      BY <2>2, <3>1, DecodesThePayload
  <2> QED
    BY <2>1, <2>3 DEF NumbersAgree
<1> QED
  BY <1>1, NumberInvHolds, PTL

-------------------------------------------------------------------------------
(* All of them.                                                            *)

\* Whichever of them is used and however they are run side by side, reader, writer and numbers
\* behave as they do alone.
LEMMA StreamsInBehaviours == MCSpec => Spec /\ WriterSpec /\ VarNumSpec
<1>1. MCInit => Init /\ WriterInit /\ VarNumInit
  BY DEF MCInit
<1>2. [MCNext]_<<stream, readerVars, writerVars, varNumVars>>
      => [Next]_vars /\ [WriterNext]_writerVars /\ [VarNumNext]_varNumVars
  BY DEF MCNext, UseReader, UseWriter, UseNumbers, readerVars
<1> QED
  BY <1>1, <1>2, PTL DEF MCSpec, Spec, WriterSpec, VarNumSpec

\* Reader, writer and numbers are of their types.
THEOREM StreamTypesOK == MCSpec => []TypesOK
<1>1. IInv /\ WriterInv /\ VarNumTypeOK => TypesOK
  BY DEF IInv, WriterInv, TypesOK
<1> QED
  BY <1>1, StreamsInBehaviours, ReaderInvariant, WriterInvariant, NumbersStayTheSame, PTL

\* Sizes, encoder and decoder of the numbers of variable length agree.
THEOREM NumbersInStreams == MCSpec => []NumbersAgree
BY StreamsInBehaviours, NumbersStayTheSame, PTL
===============================================================================
