CONSTANTS
  Threads = {t1, t2}
  Schedules = {s0, s1, bad}
  ValidSchedules = {s0, s1}
  InitialSchedule = s0
  MaxLoopTime = 1
  MaxOps = 3
  MaxFaults = 1
  MaxStartFaults = 1
  MaxHooks = 1
SPECIFICATION Spec
SYMMETRY Symmetry
INVARIANTS TypeOK AnswersOwnRequest QuietBetweenOperations CompiledCodeIsOwn
PROPERTIES ScheduleInForce ImplementsService
CHECK_DEADLOCK FALSE
