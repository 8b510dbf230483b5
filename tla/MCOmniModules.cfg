CONSTANTS
  LoadingBackends = {b1, b2}
  Extensions = {"fun", "nofun"}
  NoFun = {"nofun"}
  Installed = {"fun"}
  SqlInit = {"nofun"}
  Versions <- MCVersions
  MaxChanges = 2
  MaxFailures = 1
SYMMETRY Symmetry
SPECIFICATION LoadSpec
CHECK_DEADLOCK FALSE
INVARIANTS
  ModulesMatch
  InitializedOnce
