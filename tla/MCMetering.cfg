CONSTANTS
  Contracts = {"a", "b", "n"}
  NewContract = "n"
  HasCallback = {"a"}
  GetCode = 1
  CodeCost <- MCCodeCost
  ApiCost = 1
  AsyncCallStep = 1
  AsyncCallbackGasLock = 3
  Limits = {3, 61}
  MaxInt64 = 30
  MaxUint64 = 61
  Workloads <- MCWorkloads
SPECIFICATION Spec
INVARIANTS NoFreeGas OutputGasAddsUp
PROPERTIES LockedGasStartsCallback
CHECK_DEADLOCK FALSE
