---------------------------- MODULE MCRootVnode ----------------------------
(* TLC's instances of RootVnode.                                           *)
EXTENDS RootVnode, TLC

\* Threads and vnode structures are interchangeable in the safety runs.
Symmetry == Permutations(Threads) \cup Permutations(Vnodes)
=============================================================================
