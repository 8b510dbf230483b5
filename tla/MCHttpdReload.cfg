\* Two workers, three listeners of which two can be listed, two changes of the
\* listeners and any one irregular event
CONSTANTS
  w1 = w1
  w2 = w2
  f1 = f1
  f2 = f2
  f3 = f3
  f4 = f4
  Workers = {w1, w2}
  Ids = {1, 2, 3}
  Tables = {{}, {2}, {1, 2}, {1, 2, 3}}
  InitialListeners = {1}
  Fds = {f1, f2, f3, f4}
  MaxFds = 2
  MaxChanges = 2
  Events = {"start", "open", "reuse", "limit", "restart", "interrupt", "drop"}
  MaxEvents = 1
SPECIFICATION FairSpec
INVARIANTS
  
  ServesOpenSockets
PROPERTIES
  ReloadEnds
  WorkersConverge
