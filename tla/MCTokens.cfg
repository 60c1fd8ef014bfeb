CONSTANTS
  Contracts = {"a", "b"}
  Users = {"u"}
  Remote = {"r"}
  Root = "a"
  Nonce = 2
  Amounts = {1}
  Supply <- MCSupply
  AsyncNFTAbroad = FALSE
  MaxNest = 3
  MaxTransfers = 3
SPECIFICATION TokensSpec
INVARIANTS TokensConserved AttachedTokensAreOwned
PROPERTY FailedTransfersAreReturned
