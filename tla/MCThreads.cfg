SPECIFICATION FairSpec
CONSTANTS
  UserHandlers = {"InsertBlock"}
  LogEvents = TRUE
  AlgorithmEvents = {"InsertBlock"}
  ServerEvents = {"ReceiveSyncRequest"}
  Unreliable = {"poller", "server", "algorithm", "bus"}
  MaxMessages = 2
  MaxEvents = 2
INVARIANT PanicsHaveACause
PROPERTY DropEnds
CHECK_DEADLOCK FALSE
