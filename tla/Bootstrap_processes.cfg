SPECIFICATION BootSpec
CONSTANTS
  Sessions = {sA, sB}
  NoSession = NoSession
  Calls = {c1}
  MaxEntries = 4
  Envs <- MCEnvs
  Places <- MCPlaces
  RemoteName <- MCRemoteName
  RootName <- MCRootName
  BotNames = {"bot"}
  NamePart = 2
  DefaultIdle = 5
  MaxIdle = 7
SYMMETRY BootstrapSymmetry
INVARIANTS
  WanderingKeepsTheBot
  BotOwnsItsSubscriptions
