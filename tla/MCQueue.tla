------------------------------- MODULE MCQueue ------------------------------
(* Queue for TLC.                                                          *)
EXTENDS Queue, TLC

Symmetry == Permutations(Threads) \cup Permutations(Nodes)
=============================================================================
