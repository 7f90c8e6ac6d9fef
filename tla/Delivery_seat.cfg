SPECIFICATION FairSpec
CONSTANTS
  Kinds <- SeatKinds
  Intents <- SeatIntents
  Modes = {"defaults", "lazy"}
  Window = 1
  Capacity = 1
  Reach = 1
  MayFail = TRUE
  MaxPosts = 2
  MaxClock = 2
  MaxFaults = 2
CHECK_DEADLOCK FALSE
INVARIANTS
  CursorTellsTruth
  PumpShowsOnce
  OnlyTheFirstOfATopic
PROPERTIES
  MentionsAreHeard
