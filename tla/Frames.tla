------------------------------- MODULE Frames -------------------------------
(* The framing of both FIFOs of a connection: a 4-byte little-endian       *)
(* length, then that many bytes of UTF-8.  Bytes are numbers.              *)
EXTENDS Integers, Sequences

CONSTANT MaxFrame  \* MAX_FRAME_BYTES

ASSUME MaxFrameAssumption == MaxFrame \in Nat \ {0} /\ MaxFrame <= 256 * 65536

Byte == 0 .. 255

\* The length n in four bytes, the least significant first.
Header(n) == <<n % 256, (n \div 256) % 256, (n \div 65536) % 256, n \div (256 * 65536)>>

\* The length that the first four bytes of b give.  From 2^25 on, far beyond
\* the limit, lengths are not told apart (TLC's integers end at 2^31).
LengthIn(b) == b[1] + 256 * b[2] + 65536 * b[3]
                 + 256 * 65536 * (IF b[4] <= 2 THEN b[4] ELSE 2)

TooLong(n) == n > MaxFrame

Frame(text) == Header(Len(text)) \o text

\* UTF-8, as far as characters of one and of two bytes go.
Lead == 194 .. 223
Trail == 128 .. 191
IsText(b) ==
  \A k \in DOMAIN b :
    \/ b[k] < 128
    \/ b[k] \in Lead /\ k < Len(b) /\ b[k + 1] \in Trail
    \/ b[k] \in Trail /\ k > 1 /\ b[k - 1] \in Lead

-----------------------------------------------------------------------------
(* What the front of a buffer holds.                                       *)

HasHeader(b) == Len(b) >= 4
Whole(b) == HasHeader(b) /\ ~ TooLong(LengthIn(b)) /\ Len(b) >= 4 + LengthIn(b)
Body(b) == SubSeq(b, 5, 4 + LengthIn(b))
Behind(b) == SubSeq(b, 5 + LengthIn(b), Len(b))

\* A front that no further byte can repair.
Bad(b) == \/ HasHeader(b) /\ TooLong(LengthIn(b))
          \/ Whole(b) /\ ~ IsText(Body(b))

\* A defect to compare with: one frame per call.
ExtractOne(buffer) ==
  IF Whole(buffer) /\ ~ Bad(buffer)
    THEN [frames |-> <<Body(buffer)>>, rest |-> Behind(buffer)]
    ELSE [frames |-> <<>>, rest |-> buffer]

\* The frames at the front of the buffer, one after another, and the bytes
\* left when the next one is not complete or bad.
Extract(buffer) ==
  LET from[k \in 1 .. Len(buffer) + 1] ==
        LET b == SubSeq(buffer, k, Len(buffer))
        IN  IF Whole(b) /\ ~ Bad(b)
              THEN LET more == from[k + 4 + LengthIn(b)]
                   IN  [more EXCEPT !.frames = <<Body(b)>> \o @]
              ELSE [frames |-> <<>>, rest |-> b]
  IN  from[1]
=============================================================================
