CONSTANTS
  Contracts = {"a", "b"}
  NewContract = "n"
  Codes = {"ofA", "ofB", "good", "shadow", "junk"}
  Shape <- MCShape
  InitialCode <- MCInitialCode
  NewCodes = {"good", "shadow", "junk"}
  Reserved = {"hook"}
  DCDTImports = {"dcdt"}
  Settings <- Separate
  DCDTFunctions = TRUE
  maxWasmerInstances = 2
  CallAfterUpgrade = FALSE
  MaxTxs = 2
  MaxSteps = 2
SPECIFICATION Spec
INVARIANTS InstancesInUseAreAlive InstancesAreReleased ExecutionsRunTheirCode DeployedCodeIsVerified
CHECK_DEADLOCK FALSE
