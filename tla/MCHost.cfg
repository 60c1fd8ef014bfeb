CONSTANTS
  Addresses <- MCAddresses
  Balance <- MCBalance
  ChainCode <- MCChainCode
  ChainNonce <- MCChainNonce
  Owner <- MCOwner
  NewAddr <- MCNewAddr
  Payable = {"u", "b"}
  Codes = {"codeA", "codeB", "codeN"}
  NewCodes = {"codeN"}
  Values = {0, 1}
  Targets = {"b"}
  InitTargets = {}
  MaxInstances = 3
  MaxOps = 3
SPECIFICATION Spec
INVARIANTS BalancesConserved NoOverdraft ContextsAligned SuccessIsReported
PROPERTIES FailedCallRestores
CHECK_DEADLOCK FALSE
