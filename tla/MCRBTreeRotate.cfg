\* The second insertion is enough.
SPECIFICATION Spec
CONSTANTS
  Data <- MCFewData
  Nodes = {n1, n2, n3}
  NULL = NULL
  HEAD = HEAD
  MaxSize = 1
  MaxRemoves = 1
INVARIANT RotationsHaveANode
