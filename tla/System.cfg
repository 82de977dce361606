SPECIFICATION SystemFairSpec
CONSTANTS
  Names = {k1}
  WithConn = {k1}
  WithTimeout = {k1}
  MonitorImage = TRUE
  Clients = {"informer", "reconciler", "activity", "culler"}
  EventNamed = {}
  NoContainers = {}
  Self = k1
  IdleTimeout = 1
  Interval = 1
  CanCrash = FALSE
  MonitorFaults = 0
  MaxUid = 1
  MaxActs = 0
  MaxFaults = 1
PROPERTIES
  ControllerKeepsItsPromises
  IdleKernelsEnd
CHECK_DEADLOCK FALSE
