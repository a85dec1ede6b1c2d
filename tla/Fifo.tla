-------------------------------- MODULE Fifo --------------------------------
(* What the kernel does with a write to a FIFO, in bytes: up to PipeBuf    *)
(* bytes go in at once and wait for room, more of them in pieces.          *)
EXTENDS Integers, Sequences

CONSTANTS
  PipeBuf,   \* PIPE_BUF
  Capacity   \* of a FIFO

ASSUME FifoAssumption ==
  /\ PipeBuf \in Nat /\ Capacity \in Nat
  /\ 4 <= PipeBuf /\ PipeBuf <= Capacity

Take(b, n) == SubSeq(b, 1, n)
Drop(b, n) == SubSeq(b, n + 1, Len(b))

\* How many of the bytes b one write may put into a FIFO that holds f.
Pieces(b, f) ==
  LET room == Capacity - Len(f)
  IN  IF Len(b) <= PipeBuf THEN {n \in {Len(b)} : n <= room}
      ELSE {n \in 1 .. Len(b) : n <= room}
=============================================================================
