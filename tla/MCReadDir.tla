----------------------------- MODULE MCReadDir -----------------------------
(* TLC's instances of ReadDir.                                             *)
EXTENDS ReadDir, TLC

Symmetry == Permutations(Clients)
=============================================================================
