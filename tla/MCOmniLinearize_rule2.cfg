CONSTANTS
  b1 = b1
  b2 = b2
  b3 = b3
  Backends = {b1, b2}
  Rels = {"r"}
  NoRel = NoRel
  MaxConflicts = 2
  LockTargets = {"relation", "index"}
  Writers = {"modify", "with"}
  MaxTxn <- Once
SYMMETRY Symmetry
SPECIFICATION Spec
INVARIANTS
  Rule2
