\* Two sessions, one of which has yet to load the module
SPECIFICATION FairSpec
CONSTANTS
  b1 = b1
  b2 = b2
  Backends <- Sessions
  Connecting = {b2}
  Masters <- Numbers
  MaxCalls = 3
  MaxFailures = 1
INVARIANT AtMostOneMaster
INVARIANT FlagsTruthful
PROPERTY CallsReturn
