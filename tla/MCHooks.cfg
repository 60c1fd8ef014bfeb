CONSTANTS
  Base = 4
  IntLen = 2
  PageSize = 3
  MaxPages = 2
  AddressLen = 1
  BalanceLen = 2
  HashLen = 1
  Offsets <- MCOffsets
  Places <- MCPlaces
  Addresses <- MCAddresses
  Amounts = {0, 5}
  Strings <- MCStrings
  Written = {1}
  Hooks = {"call", "payment", "chain", "storage", "token", "crypto", "result", "log", "write", "dest", "same", "readOnly"}
  MaxDepth = 2
  MaxHookOps = 3
SPECIFICATION HooksSpec
INVARIANTS MemoryIsExact ArgumentsAreContiguous ResultsInOrder
