SPECIFICATION IdentitySpec
CONSTANTS
  Names = {"n1"}
  Short <- MCShort
  ChannelNames = {}
  TopicNames = {}
  Emojis = {}
  Asked = {}
  Kinds = {"human"}
  Clients = {}
  MaxUsers = 4
  MaxKeys = 5
  MaxPosts = 0
  MaxEdits = 0
  MaxQueues = 0
  MaxEvents = 0
  s1 = s1
  s2 = s2
  Seats = {s1, s2}
  NameOf <- MCNameOf
  Persistent = {s2}
  Attachable = {s2}
  MaxTries = 2
CHECK_DEADLOCK FALSE
INVARIANTS
  OneBotPerName
  NewlyMintedIsUnused
  KeysAreNotShared
