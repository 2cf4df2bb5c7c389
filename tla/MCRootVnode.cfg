\* Three threads: one attaches while two sleep, or two callers race a reclaim.
\* Two vnode structures: one can be reused by another file system while the
\* other becomes the new root.
SPECIFICATION Spec
CONSTANTS
  Threads = {t1, t2, t3}
  Vnodes = {v1, v2}
  NULL = NULL
  MaxVid = 2
SYMMETRY Symmetry
INVARIANTS
  TypeOK
  NoUnexpectedBug
  HeldRootIsCurrent
  SingleRoot
  SleepersAnnounced
  IInv
PROPERTY ServiceSpec
