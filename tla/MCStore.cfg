SPECIFICATION SpecWithoutRollback
CONSTANTS
  AppData = {"a", "b", "c", "join"}
  ValidData = {"a", "b", "c", "join"}
  UpdatingData = {"join"}
  UpdatesOf <- MCUpdates
  InitialValidatorSet <- MCPowers
  DatumsOf <- MCDatums
  AppUpdatesOf <- MCAppUpdates
  InitialAppState <- MCInitialAppState
  Replica = 1
  Contents <- MCContents
  Certificates <- MCCertificates
  Views = {0, 7, 8}
  MaxVotes = 2
  TimeoutViews = {7}
  MaxSiblings = 2
INVARIANTS AppSeesParentState BlocksAreWhole VotesNeverGoBack EnteredViewsVotedOnce ServedBlocksAreAChain
PROPERTY ImplementsBlockTree
CHECK_DEADLOCK FALSE
