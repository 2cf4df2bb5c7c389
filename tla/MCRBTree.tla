------------------------------ MODULE MCRBTree ------------------------------
(* TLC's instances of RBTree.                                              *)
EXTENDS RBTree, TLC

MCData == 1..5
MCFewData == 1..3
NodeSymmetry == Permutations(Nodes)
=============================================================================
