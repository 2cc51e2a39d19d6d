SPECIFICATION SpecInStep
CONSTANTS
  AppData = {"a", "b"}
  ValidData = {"a", "b"}
  UpdatingData = {}
  UpdatesOf <- MCNoUpdates
  InitialValidatorSet <- MCPowers
  Produces <- MCProduces
  Powers = {1, 5}
  Faulty = {}
  Replicas = {1, 2, 3}
  EntryViews <- MCEntryViews
INVARIANTS Agreement HighestPCInTree CommittedIsLockedByQuorum TreeIsIndexed
PROPERTY ImplementsCommonChain
CHECK_DEADLOCK FALSE
