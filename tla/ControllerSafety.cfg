SPECIFICATION Spec
CONSTANTS
  Names = {k1}
  WithConn = {k1}
  WithTimeout = {k1}
  MonitorImage = TRUE
  Clients = {"informer", "reconciler"}
  EventNamed = {}
  NoContainers = {}
  MaxUid = 2
  MaxActs = 2
  MaxFaults = 1
INVARIANTS
  TypeOK
  NoLostWakeup
  NeverStaleConfig
PROPERTIES
  FollowsLifecycle
  CullSparesUnlabelled
CHECK_DEADLOCK FALSE
