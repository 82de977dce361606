SPECIFICATION FairSpec
CONSTANTS
  Names = {k1, k2}
  WithConn = {k1}
  WithTimeout = {k1}
  MonitorImage = TRUE
  Clients = {}
  Requests = {r1, r2}
  Ops = {"create", "delete", "shutdownAll", "list", "get", "connect", "check", "contains"}
  MaxUid = 3
  MaxActs = 0
  MaxFaults = 1
INVARIANTS
  TypeOK
  NoLeak
  DeletedIsGone
  ShutdownStopsAll
  CreatesAnew
PROPERTIES
  CleanupSparesOthers
  EveryRequestIsAnswered
CHECK_DEADLOCK FALSE
