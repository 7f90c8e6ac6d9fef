SPECIFICATION Spec
CONSTANTS
  Names = {"n1"}
  Short <- MCShort
  ChannelNames = {"c1"}
  TopicNames = {"t1"}
  Emojis = {"e1"}
  req1 = req1
  req2 = req2
  Clients = {req1, req2}
  Asked = {{"message", "reaction"}}
  Kinds = {"bot"}
  MaxUsers = 3
  MaxKeys = 4
  MaxPosts = 1
  MaxEdits = 1
  MaxQueues = 1
  MaxEvents = 2
SYMMETRY Symmetry
CHECK_DEADLOCK FALSE
INVARIANTS
  QueueKeepsTheUnread
PROPERTIES
  SilentToTheDeactivated
