SPECIFICATION LiveSpec
CONSTANTS
    r1 = r1
    r2 = r2
    Replicas = {r1, r2}
    Environments <- mcAll
INVARIANTS SyncIsExact
PROPERTIES SyncEnds
