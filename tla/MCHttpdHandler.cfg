\* Messages of every kind, one after another; up to three routes
CONSTANTS
  SessionUser = SessionUser
  NoRole = NoRole
  Null = Null
  Roles = {"role"}
  MaxRoutes = 3
  Tables <- MCTables
SPECIFICATION Spec
INVARIANTS
  AnswerTruthful
  CleanBetweenMessages
  EnforcedRole
  RoutesByPriority
