SPECIFICATION FairSpec
CONSTANTS
  Replicas = {1, 2}
  Faulty = {}
  EpochLength = 2
  MaxView = 3
  CertifiedViews = {}
  ForgedViews = {}
  MaxRestarts = 0
  History <- MCHistory
INVARIANTS EpochsLeftByQuorum TimeoutCertificatesAreVotedFor ViewsIncrease
PROPERTY ReplicasGetGoing
CHECK_DEADLOCK FALSE
