SPECIFICATION FairSpec
CONSTANTS
  Calls = {c1, c2}
  BootSubscribe = TRUE
  Stored = {"none", "alive", "dead"}
CHECK_DEADLOCK FALSE
INVARIANTS
  BacklogOnce
PROPERTIES
  FreshBootEnds
  CallsEnd
