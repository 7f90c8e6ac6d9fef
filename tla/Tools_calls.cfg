SPECIFICATION Spec
CONSTANTS
  Seats = {"s1"}
  Self = "s1"
  Names = {"me"}
  SelfName = "me"
  Fold <- MCFold
  Acquirable = {"me"}
  ChannelNames = {"c1"}
  Threads = {"t1", "t1long"}
  Kept <- MCKept
  Bodies <- MCBodies
  Emojis = {"e1"}
  Texts = {"long"}
  Storable = {}
  Askable <- MCAskable
  call1 = call1
  call2 = call2
  Calls = {call1, call2}
  RecentThreadsLimit = 1
  MaxMembers = 1
  MaxMessages = 2
  MaxStreams = 1
  MaxEvents = 3
SYMMETRY Symmetry
CHECK_DEADLOCK FALSE
INVARIANTS
  TypeOK
  EngagedIsHeard
