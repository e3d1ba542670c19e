SPECIFICATION Spec
CONSTANTS
  Clients = {c1, c2}
  NoClient = NoClient
  Threads = 2
  PerThread = 1
  MaxRequests = 3
  MaxFull = 1
  MaxKills = 1
INVARIANTS  OneThreadPerClient
PROPERTIES Answered
