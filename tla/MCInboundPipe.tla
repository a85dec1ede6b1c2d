---------------------------- MODULE MCInboundPipe ----------------------------
(* InboundPipe for TLC: a text of exactly the limit, one that is a single  *)
(* character of two bytes, one over the limit, and an ordinary one.        *)
EXTENDS InboundPipe, TLC

CONSTANTS r1, r2, r3, r4

MCText == r1 :> <<65, 66, 67, 68, 69>> @@ r2 :> <<195, 169>>
            @@ r3 :> <<65, 66, 67, 68, 69, 70>> @@ r4 :> <<71>>
=============================================================================
