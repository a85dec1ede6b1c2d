--------------------------- MODULE MCOutboundPipe ---------------------------
(* OutboundPipe for TLC: an answer with two messages has the limit's       *)
(* length, one with three is over it.                                      *)
EXTENDS OutboundPipe, TLC

Symmetry == Permutations(Poll)
=============================================================================
