SPECIFICATION FairSpec
CONSTANTS
  Names = {k1}
  WithConn = {k1}
  WithTimeout = {k1}
  MonitorImage = TRUE
  Clients = {"activity", "culler"}
  Self = k1
  IdleTimeout = 2
  Interval = 1
  CanCrash = TRUE
  MaxUid = 2
  MaxActs = 3
  MaxFaults = 1
  MaxWrites = 2
INVARIANTS
  TypeOK
PROPERTIES
  NoLostUpdate
  IdleIsLabelled
CHECK_DEADLOCK FALSE
