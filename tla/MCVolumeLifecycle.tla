------------------------- MODULE MCVolumeLifecycle -------------------------
(* TLC's instances of VolumeLifecycle.                                     *)
EXTENDS VolumeLifecycle, TLC

Symmetry == Permutations(Mounts) \cup Permutations(Volumes) \cup Permutations(Labels)
=============================================================================
