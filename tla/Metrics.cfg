SPECIFICATION FairSpec
CONSTANTS
  Namespaces = {n1}
  Scrapes = {s1, s2}
  MaxPods = 2
  MaxCounted = 2
INVARIANTS
  CreationsAreCounted
  SuccessesAreReal
PROPERTIES
  GaugeCatchesUp
