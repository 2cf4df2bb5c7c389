------------------------------- MODULE MCList -------------------------------
(* TLC's instances of List.                                                *)
EXTENDS List, TLC

Symmetry == Permutations(Threads) \cup Permutations(Data) \cup Permutations(Entries)
=============================================================================
