------------------------------ MODULE MCSimClock ------------------------------
(* SimClock for TLC: a rate that is no whole number, and one that no       *)
(* factor may have.                                                        *)
EXTENDS SimClock, TLC

Symmetry == Permutations(Reader)

Rates == {Number([num |-> 5, den |-> 2]), Number([num |-> 0 - 1, den |-> 1])}
===============================================================================
