CONSTANTS
  w1 = w1
  w2 = w2
  c1 = c1
  c2 = c2
  c3 = c3
  Workers = {w1, w2}
  leader = w1
  Calls = {c1, c2, c3}
  Functions <- MCFunctions
  Role <- MCRole
  Cancellable = {0}
  None = None
  Capacity = 1
  MaxEvents = 1
SPECIFICATION FairSpec
INVARIANTS
  AnswerHonest
  RunsOnce
  CancelStops
  AutostartOnce
PROPERTIES
  WorkDone
