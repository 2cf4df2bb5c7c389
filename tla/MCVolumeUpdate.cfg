\* A second refused update of one volume.
SPECIFICATION Spec
CONSTANTS
  Mounts = {m1, m2}
  Volumes = {v1, v2, v3}
  Labels = {l1, l2}
  NULL = NULL
  MaxUpdates = 2
SYMMETRY Symmetry
INVARIANTS
  NoFreedLock
