SPECIFICATION FairSpec

CONSTANTS
  Requests = {"r1", "r2", "r3"}
  Workers = 1

INVARIANTS
  RunnersArePrivate
  NobodyIsStuck

PROPERTIES
  EveryRequestIsAnswered

CHECK_DEADLOCK FALSE
