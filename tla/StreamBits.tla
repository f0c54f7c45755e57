------------------------------ MODULE StreamBits ------------------------------
(***************************************************************************)
(* What the reader and the writer of bit streams have in common: the bits  *)
(* of the streams, which may be any symbols, and the widths they are moved *)
(* in.                                                                     *)
(***************************************************************************)
EXTENDS Integers, Sequences

CONSTANTS
  Bit,      \* the symbols of a stream
  ZeroBit   \* the one a shift or a mask fills with

ASSUME BitAssumption == ZeroBit \in Bit

ByteBits == 8
NarrowBits == 32
WideBits == 64

\* Values of type uint8_t, which the reader and the writer use to count bits.
UInt8(n) == n % 256
===============================================================================
