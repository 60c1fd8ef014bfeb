CONSTANTS
  Contracts = {"a", "b"}
  NewContract = "n"
  Codes = {"ofA", "ofB", "good", "shadow", "junk"}
  Shape <- MCShape
  InitialCode <- MCInitialCode
  NewCodes = {"good"}
  Reserved = {"hook"}
  DCDTImports = {"dcdt"}
  Settings <- Both
  DCDTFunctions = TRUE
  maxWasmerInstances = 4
  CallAfterUpgrade = FALSE
  MaxTxs = 2
  MaxSteps = 3
SPECIFICATION Spec
INVARIANTS InstancesInUseAreAlive
CHECK_DEADLOCK FALSE
