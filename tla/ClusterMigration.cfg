SPECIFICATION FairSpec
CONSTANTS
  Nodes = {1, 2, 3}
  Keys = {"k", "l"}
  Clients = {"a", "b"}
  Source = 1
  Target = 2
  Worlds <- mcWorlds
  MaxEpoch = 7
CHECK_DEADLOCK FALSE
INVARIANTS ServedFresh NothingLost OneAuthority
PROPERTIES MoveIsFinal ClientsGetThrough
