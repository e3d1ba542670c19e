SPECIFICATION Spec
CONSTANTS
    a = a
    b = b
    d = d
    k = k
    l = l
    None = None
    Client <- mcClient
    Key <- mcKey
    Databases <- mcDatabases
    MaxTracked = 1
    Worlds <- mcWorlds
CHECK_DEADLOCK FALSE
INVARIANT NoWaiterForgotten
INVARIANT ElementsConserved
INVARIANT ReplicaAgrees
INVARIANT CacheFresh
PROPERTY ServedInOrder
PROPERTY WatchSound
