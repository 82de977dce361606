SPECIFICATION FairSpec
CONSTANTS
  Names = {k1, k2, k3}
  WithConn = {}
  WithTimeout = {}
  MonitorImage = FALSE
  Clients = {"informer", "reconciler"}
  EventNamed = {k2}
  NoContainers = {k3}
  MaxUid = 1
  MaxActs = 0
  MaxFaults = 1
PROPERTIES
  EveryKMIsServed
CHECK_DEADLOCK FALSE
