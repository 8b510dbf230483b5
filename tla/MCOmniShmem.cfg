\* Two backends and one module with two names.
CONSTANTS
  Backends = {b1, b2}
  Modules = {m1}
  Names = {n1, n2}
  Blocks = {p1, p2, p3}
  NoBlock = NoBlock
  RefIds = {i1, i2, i3}
  MaxRefcounter = 4
SYMMETRY Symmetry
SPECIFICATION Spec
INVARIANTS
  ChunkOwnership
  NoDanglingReference
  RefcounterCovers
