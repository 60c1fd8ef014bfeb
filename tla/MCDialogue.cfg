CONSTANTS
  Threads = {t1, t2}
  Schedules = {s0, bad}
  ValidSchedules = {s0}
  InitialSchedule = s0
  MaxLoopTime = 1
  MaxOps = 2
  MaxFaults = 1
  MaxStartFaults = 2
  MaxHooks = 2
SPECIFICATION NodeFairSpec
INVARIANT DialogueInStep
PROPERTIES OperationsTimeOut OperationsReturn
CHECK_DEADLOCK FALSE
