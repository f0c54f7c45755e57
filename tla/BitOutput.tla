------------------------------- MODULE BitOutput -------------------------------
(***************************************************************************)
(* What a writer of a bit stream promises: a string of bits that is        *)
(* overwritten from the current position onwards and nowhere else.  An     *)
(* output without storage only measures: it has no bits and no limit.      *)
(***************************************************************************)
EXTENDS Integers, Sequences

VARIABLES
  bits,     \* the storage, a function from bit offsets to symbols
  size,     \* how many of them may be written
  limited,  \* FALSE for an output that only measures
  pos,      \* the offset of the next bit
  put       \* the bits written by the current operation, first bit first

vars == <<bits, size, limited, pos, put>>

\* The storage with s written at offset p.
Overwrite(p, s) ==
  [i \in DOMAIN bits |-> IF i \in p..(p + Len(s) - 1) THEN s[i - p + 1] ELSE bits[i]]

Init ==
  /\ size \in Nat
  /\ limited \in BOOLEAN
  /\ pos = 0
  /\ put = <<>>

\* A new operation starts at the current position.
Start ==
  /\ put' = <<>>
  /\ UNCHANGED <<bits, size, limited, pos>>

\* The operation in progress writes some more bits, all of them or none.
Put ==
  LET new == SubSeq(put', Len(put) + 1, Len(put'))
  IN  /\ put' = put \o new
      /\ limited => pos + Len(new) =< size
      /\ bits' = IF limited THEN Overwrite(pos, new) ELSE bits
      /\ pos' = pos + Len(new)
      /\ UNCHANGED <<size, limited>>

Seek ==
  /\ limited => pos' =< size
  /\ put' = <<>>
  /\ UNCHANGED <<bits, size, limited>>

Next == Start \/ Put \/ Seek

Spec == Init /\ [][Next]_vars
===============================================================================
