----------------------------- MODULE MCBitStreams -----------------------------
(***************************************************************************)
(* BitStreamReader and BitStreamWriter on small buffers, and the numbers   *)
(* of variable length they write and read, one of them in every behaviour. *)
(* Every bit of a buffer and of the data written is a symbol of its own,   *)
(* so a bit that is lost, repeated, taken from or put to the wrong place   *)
(* cannot be mistaken for the right one.                                   *)
(*                                                                         *)
(* The numbers have every bit length from 0 to 64, all bits below the      *)
(* first one set; the byte strings hold up to four leading zero bytes of   *)
(* payload.                                                                *)
(***************************************************************************)
EXTENDS BitStreamReader, BitStreamWriter, VarNum

CONSTANT
  Used    \* what is used: a subset of {"reader", "writer", "number"}

VARIABLE
  stream  \* which of them is used

readerVars == vars

-------------------------------------------------------------------------------
(* The reader.                                                             *)

MCBit == 0..400
MCZeroBit == 0

MCBuffer(n) == [bytes |-> n, bits |-> [i \in 0..(n * 8 - 1) |-> i + 1]]

\* One buffer that ends inside a word, one that is a byte longer than two words.
MCBuffers == {MCBuffer(7), MCBuffer(9)}

-------------------------------------------------------------------------------
(* The writer. The buffer has its symbols from 301.                        *)

WrittenBuffer == [bytes |-> 12, bits |-> [i \in 0..95 |-> 301 + i]]
MCWriterBuffers == {WrittenBuffer}

\* A value of 64 bits, and the two's complement representation of one of 7 bits.
Unsigned64 == [p \in 0..63 |-> 100 + p]
Signed7 == [p \in 0..63 |-> IF p < 7 THEN 100 + p ELSE 106]
MCWords == {Unsigned64, Signed7}

BitString(first, n) == [i \in 1..n |-> first + i - 1]
MCVarNums == {BitString(200, 16)}
MCBlocks == {<<>>, BitString(220, 19)}

-------------------------------------------------------------------------------
(* Numbers of variable length.                                             *)

MCFlagBit == 400

MCMagnitude(n) == [p \in 0..63 |-> IF p < n THEN p + 1 ELSE 0]
MCMagnitudes == {MCMagnitude(n) : n \in 0..64} \cup {[p \in 0..63 |-> IF p = n THEN n + 1 ELSE 0] : n \in {15, 31, 63}}

\* Nine bytes: the first n - 1 announce a successor, and all payload bits in front of byte
\* k are zero; the bits of byte i are the symbols from 10 * i.
MCStream(n, k) ==
  [i \in 1..9 |-> [p \in 0..7 |->
     IF p = 7 THEN (IF i < n THEN MCFlagBit ELSE 0)
     ELSE IF i < k THEN (IF i = 1 /\ p = 6 /\ n > 1 THEN MCFlagBit ELSE 0)
     ELSE 10 * i + p]]
MCStreams == {MCStream(n, k) : n \in 1..9, k \in 1..5}

-------------------------------------------------------------------------------
(* What is not used stays as it was constructed.                           *)

IdleReader == buffer = MCBuffer(7) /\ bufferBitSize = 53

IdleWriter == m_buffer = WrittenBuffer /\ hasWriteBuffer

MCInit ==
  /\ Init
  /\ WriterInit
  /\ VarNumInit
  /\ stream \in Used
  /\ stream # "writer" => IdleWriter
  /\ stream # "reader" => IdleReader

UseReader == stream = "reader" /\ Next /\ UNCHANGED <<stream, writerVars, varNumVars>>
UseWriter == stream = "writer" /\ WriterNext /\ UNCHANGED <<stream, readerVars, varNumVars>>
UseNumbers == stream = "number" /\ VarNumNext /\ UNCHANGED <<stream, readerVars, writerVars>>

MCNext == UseReader \/ UseWriter \/ UseNumbers

MCSpec == MCInit /\ [][MCNext]_<<stream, readerVars, writerVars, varNumVars>>

-------------------------------------------------------------------------------
\* All are of their types.
TypesOK == TypeOK /\ WriterTypeOK /\ VarNumTypeOK
===============================================================================
