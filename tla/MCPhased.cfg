SPECIFICATION Spec
CONSTANTS
  AppData = {"join"}
  ValidData = {"join"}
  UpdatingData = {"join"}
  UpdatesOf <- MCUpdates
  InitialValidatorSet <- MCPowers
  Produces <- MCProduces
  Powers = {1}
  Faulty = {}
  Replicas = {1, 2}
  EntryViews <- MCEntryViews
INVARIANTS TypeOK OneVotePerView Immediacy PhasesAreConsecutive ValidatorSetFollowsChain
CHECK_DEADLOCK FALSE
