SPECIFICATION MirrorSpec
CONSTANTS
  Conditions = {"Ready"}
  MaxClock = 2
INVARIANTS
  StatusIsThePods
PROPERTIES
  RepeatedIsQuiet
