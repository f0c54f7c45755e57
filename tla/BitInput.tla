------------------------------- MODULE BitInput -------------------------------
(***************************************************************************)
(* What a reader of a bit stream promises, without any cache: a position   *)
(* in a finite string of bits and the bits delivered to the operation in   *)
(* progress.  The promise is void from a delivery that ran off the end     *)
(* until the next successful Seek.                                         *)
(***************************************************************************)
EXTENDS Integers, Sequences

CONSTANTS
  Bit,       \* the symbols the stream is made of
  MaxChunk   \* the largest number of bits one delivery may ask for

VARIABLES
  bits,      \* the stream, a function from bit offsets to symbols
  size,      \* the number of its bits that may be delivered
  pos,       \* the offset of the next bit to deliver
  out,       \* the bits delivered to the current operation, first bit first
  valid      \* FALSE once a delivery ran off the end

vars == <<bits, size, pos, out, valid>>

\* The n bits of the stream that start at offset p.
Slice(p, n) == [i \in 1..n |-> bits[p + i - 1]]

Init ==
  /\ size \in Nat
  /\ bits \in [0..(size - 1) -> Bit]
  /\ pos = 0
  /\ out = <<>>
  /\ valid = TRUE

\* A new operation starts at the current position.
Start ==
  /\ out' = <<>>
  /\ UNCHANGED <<bits, size, pos, valid>>

\* The next n bits are handed to the operation in progress.
Deliver(n) ==
  /\ valid
  /\ pos + n =< size
  /\ out' = out \o Slice(pos, n)
  /\ pos' = pos + n
  /\ UNCHANGED <<bits, size, valid>>

\* More bits were asked for than are left.
RunOff ==
  /\ \E n \in 1..MaxChunk : pos + n > size
  /\ valid' = FALSE
  /\ UNCHANGED <<bits, size>>

Seek(p) ==
  /\ p =< size
  /\ pos' = p
  /\ out' = <<>>
  /\ valid' = TRUE
  /\ UNCHANGED <<bits, size>>

\* Nothing is promised about a reader used after RunOff.
Undefined ==
  /\ ~valid
  /\ ~valid'
  /\ UNCHANGED <<bits, size>>

Next ==
  \/ Start
  \/ \E n \in 0..size : Deliver(n) \/ Seek(n)
  \/ RunOff
  \/ Undefined

Spec == Init /\ [][Next]_vars
===============================================================================
