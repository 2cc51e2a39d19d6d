SPECIFICATION SpecInRounds
CONSTANTS
  AppData = {"a", "b"}
  ValidData = {"a", "b"}
  UpdatingData = {}
  UpdatesOf <- MCNoUpdates
  InitialValidatorSet <- MCPowers
  Produces <- MCProduces
  Powers = {1, 7}
  Faulty = {}
  Replicas = {1, 2, 3, 4}
  EntryViews <- MCEntryViews
INVARIANT Agreement
CHECK_DEADLOCK FALSE
