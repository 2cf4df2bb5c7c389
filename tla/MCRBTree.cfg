\* Five addresses for five data, at most two removals more than failed inserts.
SPECIFICATION Spec
CONSTANTS
  Data <- MCData
  Nodes = {n1, n2, n3, n4, n5}
  NULL = NULL
  HEAD = HEAD
  MaxSize = 1
  MaxRemoves = 2
SYMMETRY NodeSymmetry
INVARIANTS
  TypeOK
  SearchTree
  Balanced
  BlackRootNeverPanics
PROPERTIES
  LoopsEnd
  ImplementsOrderedSet
