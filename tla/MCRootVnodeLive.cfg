\* Liveness: no symmetry, two threads, and each vnode structure reused once.
SPECIFICATION FairSpec
CONSTANTS
  Threads = {t1, t2}
  Vnodes = {v1, v2}
  NULL = NULL
  MaxVid = 1
PROPERTIES
  SleepersWoken
  RootCallReturns
  ForcedUnmountEnds
