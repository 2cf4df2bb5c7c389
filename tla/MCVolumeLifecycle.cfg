\* Two mounts whose calls interleave, on three structures: one can leak and
\* both mounts still go on.  One refused update per volume.
SPECIFICATION Spec
CONSTANTS
  Mounts = {m1, m2}
  Volumes = {v1, v2, v3}
  Labels = {l1, l2}
  NULL = NULL
  MaxUpdates = 1
SYMMETRY Symmetry
INVARIANTS
  TypeOK
  OwnVolume
  NoOrphanLocks
  EntriesAreSafe
