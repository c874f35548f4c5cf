SPECIFICATION FairSpec
CONSTANTS
    r1 = r1
    r2 = r2
    r3 = r3
    Runs = {r1, r2}
    MaxRenames = 2
    Absent = Absent
    Empty = Empty
    Garbled = Garbled
    None = None
INVARIANTS
    TypeOK
    OneDiscoveryPerRun
    StaleCacheIsInvisible
PROPERTIES
    CacheConverges
