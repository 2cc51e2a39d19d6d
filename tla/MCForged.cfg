SPECIFICATION Spec
CONSTANTS
  Replicas = {1, 2}
  Faulty = {2}
  EpochLength = 2
  MaxView = 3
  CertifiedViews = {1, 2}
  ForgedViews = {2}
  MaxRestarts = 1
  History <- MCHistory
INVARIANTS TypeOK EpochsLeftByQuorum DeadlineKnown
CHECK_DEADLOCK FALSE
