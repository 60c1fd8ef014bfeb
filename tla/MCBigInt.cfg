CONSTANTS
  Base = 4
  IntBytes = 2
  Handles = {0, 1}
  Smalls <- MCSmalls
  Strings <- MCStrings
  Shifts <- MCShifts
  StorageKeys = {"k"}
  HookSet = {"new", "setInt64", "argument", "amount", "setBytes", "read", "arithmetic", "divide", "unary", "not", "bitwise", "shift", "bigStore", "bigLoad", "bigFinish", "smallFinish", "smallStore", "smallLoad", "smallArgument", "dest", "same"}
  MaxDepth = 2
  MaxMagnitude = 1024
  MaxOps = 4
SPECIFICATION NumbersSpec
INVARIANTS ValuesAreComputed NumbersAreExact
PROPERTY NewHandleIsFresh
