\* Two threads, and three addresses, which are used again.
SPECIFICATION Spec
CONSTANTS
  Threads = {t1, t2}
  Data = {d1, d2}
  Entries = {e1, e2, e3}
  NULL = NULL
SYMMETRY Symmetry
INVARIANTS
  TypeOK
  SizeIsLength
  NoEntryLost
  RefsFollowData
PROPERTY ImplementsDeque
