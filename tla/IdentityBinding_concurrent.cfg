SPECIFICATION FairSpec
CONSTANTS
  Sessions = {sA, sB}
  NoSession = NoSession
  Calls = {c1, c2}
  MaxEntries = 4
INVARIANTS
  TypeOK
  SingleFlight
  TruthUncrossed
  OwnNameUncrossed
PROPERTIES
  EveryCallEnds
