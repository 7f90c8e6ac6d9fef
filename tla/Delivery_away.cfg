SPECIFICATION Spec
CONSTANTS
  Kinds <- SeatKinds
  Intents <- SeatIntents
  Modes = {"defaults"}
  Window = 1
  Capacity = 1
  Reach = 1
  MayFail = FALSE
  MaxPosts = 2
  MaxClock = 2
  MaxFaults = 1
CHECK_DEADLOCK FALSE
INVARIANTS
  ToldHoweverFarBack
