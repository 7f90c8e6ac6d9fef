SPECIFICATION FairSpec
CONSTANTS
  Identities = {botA}
  Nobody = Nobody
  Ephemeral = TRUE
  ReplayReach = 1
  MaxPosts = 3
  MaxQueues = 3
  MaxLives = 1
PROPERTIES
  VerdictSettles
  EventuallyHandedOver
