SPECIFICATION FairSpec
CONSTANTS
  AppData = {"a", "b", "join"}
  ValidData = {"a", "b", "join"}
  UpdatingData = {"join"}
  UpdatesOf <- MCUpdates
  InitialValidatorSet <- MCPowers
  Client = 1
  Servers = {2, 3}
  Honest = {2}
  Contents <- MCContents
  MainChain = {1, 2, 3, 4, 5}
  ProposedToClient = {1, 5}
  Responses <- MCResponses
  Promises = {2}
  ValidStored = {"a", "b", "join"}
  RequestLimit = 4
  ServerLimit = 1
  MinViewDifference = 2
  ValidatorSets <- MCValidatorSets
INVARIANTS ChainsAgree PromiseCoversStart BlacklistedNotAsked
PROPERTIES  CatchesUp
