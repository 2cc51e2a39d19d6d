SPECIFICATION Spec
CONSTANTS
  AppData = {"a"}
  ValidData = {"a"}
  UpdatingData = {}
  UpdatesOf <- MCNoUpdates
  InitialValidatorSet <- MCPowers
  Produces <- MCProduces
  Powers = {1, 5}
  Faulty = {}
  Replicas = {1, 2}
  EntryViews <- MCEntryViews
INVARIANTS CommitsAreCertified CommittedBlocksKept ChainIsLinked AppStateFollowsChain
PROPERTY CommitsArePermanent
CHECK_DEADLOCK FALSE
