\* Two clients, and offsets up to the one after the end.
SPECIFICATION Spec
CONSTANTS
  Clients = {c1, c2}
  MaxOffset = 21
SYMMETRY Symmetry
INVARIANTS
  TypeOK
  
  OnlyStrayOffsetsPanic
