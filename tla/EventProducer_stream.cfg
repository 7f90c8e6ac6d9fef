SPECIFICATION Spec
CONSTANTS
  Identities = {botA}
  Nobody = Nobody
  Ephemeral = TRUE
  ReplayReach = 1
  MaxPosts = 3
  MaxQueues = 3
  MaxLives = 2
INVARIANTS
  TypeOK
  NoSilentLoss
  SubscribeIsObserved
  CandidateSurvivesBoot
PROPERTIES
  ImplementsInboxStream
