SPECIFICATION RecordsSpec
CONSTANTS
  Names = {"k1", "k2"}
  Timeouts = {1, 3600}
  Images = {"kernel:0.1.1"}
  WorkDirs = {"/mnt/data"}
  Omissible = {"id", "volumes"}
INVARIANTS
  RequestedKernelsRead
  ReadsBackAsAsked
  EnvironmentIsText
