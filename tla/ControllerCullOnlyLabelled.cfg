SPECIFICATION Spec
CONSTANTS
  Names = {k1}
  WithConn = {k1}
  WithTimeout = {k1}
  MonitorImage = TRUE
  Clients = {"informer", "reconciler"}
  EventNamed = {}
  NoContainers = {}
  MaxUid = 2
  MaxActs = 0
  MaxFaults = 0
PROPERTIES
  CullOnlyLabelled
CHECK_DEADLOCK FALSE
