SPECIFICATION FairSpec
CONSTANTS
  Nodes = {1, 2, 3}
  Slots = {1, 2}
  Worlds <- mcWorlds
  MaxEpoch = 6
INVARIANTS EpochDominates
PROPERTIES SlotsMoveForward Settles
