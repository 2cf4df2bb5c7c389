\* An unmount does not release the volume.
SPECIFICATION Spec
CONSTANTS
  Mounts = {m1, m2}
  Volumes = {v1, v2, v3}
  Labels = {l1, l2}
  NULL = NULL
  MaxUpdates = 0
SYMMETRY Symmetry
INVARIANTS
  VolumesBelongToMounts
