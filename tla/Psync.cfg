SPECIFICATION FairSpec
CONSTANTS
  Nodes = {1, 2, 3}
  BacklogSize = 1
  Clients = {1, 2}
  Bounds <- mcBounds
CHECK_DEADLOCK FALSE
INVARIANTS ReplicationSound
PROPERTIES ReplicasCatchUp
