SPECIFICATION LiveSpec
CONSTANTS
    None = None
    s1 = s1
    s2 = s2
    s3 = s3
    m = m
    ra = ra
    rb = rb
    rc = rc
    rd = rd
    Sentinels = {s1, s2, s3}
    Instances = {m, ra, rb, rc, rd}
    Master0 = m
    Quorum = 1
    MaxPending = 1
    Environments <- mcAll
CHECK_DEADLOCK FALSE
INVARIANTS ElectionsHold EpochNamesMaster SyncsBounded
PROPERTIES FailoversSettle
