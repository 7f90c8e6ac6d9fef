SPECIFICATION Spec
CONSTANTS
  caller1 = caller1
  caller2 = caller2
  Callers = {caller1, caller2}
  Histories <- MCHistories
  Posts <- MCPosts
  Texts = {"", "about"}
  Reads <- MCReads
  Events <- MCEvents
  Budget = 1
  Asked = {0, 5}
  MinWait = 1
  DefaultLimit = 1
  MaxPages = 3
  MaxCalls = 2
  MaxChanges = 2
SYMMETRY Symmetry
INVARIANTS
  ForkNeedsRace
  StoredOnce
  RetriesAreBounded
  RefusalIsFresh
  ResolveMendsTheThread
  WalkLeavesNoHole
  MentionsAreTold
