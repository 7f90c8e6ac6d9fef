SPECIFICATION Spec
CONSTANTS
  Channels = {chA, chB}
  Topics = {}
  Calls = {c1, c2}
  Faults = {"bind", "post", "delete", "register", "ask"}
  MaxJournal = 1
  MaxLives = 2
SYMMETRY SubscriptionsSymmetry
CONSTRAINT StillClaimed
INVARIANTS
  AskedIsHeard
  HeardIsAsked
  RowsAreWanted
