SPECIFICATION Spec
CONSTANTS
  Existing = {"full", "bare"}
  Bare = {"bare"}
  Missing = "missing"
  Failing = "failing"
  Keys = {"k", "e"}
  EmptyKeys = {"e"}
  Nil = Nil
  Empty = Empty
  Zero = Zero
  Marshalizers = {"JSON", "Gob"}
  Outputs <- MCOutputs
  MaxCalls = 2
  MaxDialogues = 2
  MaxFaults = 2
INVARIANTS HookAnswersAreExact StandInsAreDiscarded AcceptedRunsAreExact
CHECK_DEADLOCK FALSE
