----------------------------- MODULE MCSingleton -----------------------------
(* A small instance of Singleton for TLC: three process slots, of which no *)
(* two differ.                                                             *)
EXTENDS Singleton, TLC

Symmetry == Permutations(Instance)
=============================================================================
