CONSTANTS
  Contracts = {"a", "b", "c"}
  ShardOf <- MCShardOf
  HasCallback = {"a", "c"}
  Values = {1}
  MaxCalls = 3
  MaxTxs = 1
  MaxDepth = 3
  MaxHooks = 2
SPECIFICATION Spec
INVARIANTS CallsAreAnsweredOnce AnswersTellOutcome
PROPERTY CallsAreAnswered
