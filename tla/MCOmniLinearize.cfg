CONSTANTS
  b1 = b1
  b2 = b2
  b3 = b3
  Backends = {b1, b2}
  Rels = {"r"}
  NoRel = NoRel
  MaxConflicts = 1
  LockTargets = {"relation", "index"}
  Writers = {"modify", "with"}
  MaxTxn <- TwiceOnce
SPECIFICATION Spec
INVARIANTS
  ReadBeforeCommitDetected
  OpenReaderDetected
