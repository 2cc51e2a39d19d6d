SPECIFICATION Spec
CONSTANTS
  AppData = {"a", "b", "invalid"}
  ValidData = {"a", "b"}
  UpdatingData = {}
  UpdatesOf <- MCNoUpdates
  InitialValidatorSet <- MCPowers
  Produces <- MCProduces
  Powers = {1, 2}
  Faulty = {2}
  Replicas = {1, 2, 3}
  EntryViews <- MCEntryViews
INVARIANTS OneCertificatePerView CertificatesAreVotedFor
CHECK_DEADLOCK FALSE
