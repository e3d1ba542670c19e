SPECIFICATION LiveSpec
CONSTANTS
    k1 = k1
    k2 = k2
    k3 = k3
    k4 = k4
    None = None
    Key <- mcKey
    InitialSize = 2
    ForceRatio = 1
    MinFill = 30
    EmptyVisits = 2
    CronSteps = 2
    CursorBits = 3
    Worlds <- mcWorlds
PROPERTIES ImplementsSet KeysInReach ScansSound RehashEnds
