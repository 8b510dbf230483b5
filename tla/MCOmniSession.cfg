\* retry(): an ordinary statement, one whose preparation may fail, one that resets the
\* plans.  Variables: savepoints five deep over three transactions; one to three portals
\* per message, suspended, resumed and nested in any order.  Hooks: omni and another
\* module have wrapping hooks, two have plain ones.
CONSTANTS
  s1 = s1
  s2 = s2
  s3 = s3
  Statements = {s1, s2, s3}
  Broken = {s2}
  Resetting = {s3}
  MaxAttempts = {0, 1, 3}
  Linearize = {FALSE, TRUE}
  MaxCalls = 3
  Cap = 5
  Base = 1
  Names = {"x"}
  Values = {1, 2}
  NoValue = NoValue
  MaxTxn = 3
  MaxSub = 5
  Portals = {1, 2, 3}
  MaxMessages = 3
  HookModules = {"omni", "wrapping", "plain", "other"}
  HookType <- MCHookType
  Wrapping = {"omni", "wrapping"}
  Types = {"process_utility", "xact_callback"}
  DefaultTypes = {"process_utility"}
  Self = "omni"
  Default = Default
  Null = Null
  Garbage = Garbage
  MaxDepth = 2
  MaxLoads = 3
SPECIFICATION SessionSpec
INVARIANTS
  TakesEffectOnce
  BackoffsOfCall
  PlannedWhenRun
  NoRolledBackValue
  RestoredUnlessRepeated
  CarriedOnlyWithinMessage
  TableOfOwnStatement
  UpgradeHookRunsTwice
  HooksRunInOrder
