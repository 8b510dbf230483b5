\* Two requests with every outcome, clients that leave at any time, and SIGUSR2 (after
\* the reload that the worker starts with) or SIGTERM at any point of both threads
CONSTANTS
  r1 = r1
  r2 = r2
  Requests = {r1, r2}
  MaxSignals = 1
  MaxRequests = 2
SPECIFICATION WorkerFairSpec
INVARIANTS
  NotBothWaiting
  InFlightExact
  ReleasedUnused
PROPERTIES
  SignalsTaken
  RequestsAnswered
  PausedResumes
