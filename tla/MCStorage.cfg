CONSTANTS
  Addresses = {"a", "b"}
  Readable = {"b"}
  BaseKeys <- MCBaseKeys
  ProtectedKeyPrefix = "NUMBAT"
  TimeLockKeyPrefix = "TIMELOCK"
  Values = {0, 1, 2}
  Length <- MCLength
  StoredValues = {2}
  Timestamps <- MCTimestamps
  StorePerByte = 2
  PersistPerByte = 1
  ReleasePerByte = 2
  Hooks = {"store", "lock", "load", "loadFrom", "builtin", "dest", "transferExecute", "same", "readOnly"}
  MaxDepth = 2
  MaxOps = 4
SPECIFICATION Spec
INVARIANTS StorageIsWritten ReadsAreCurrent RefundOfSuccess RefundIsEarned
CHECK_DEADLOCK FALSE
