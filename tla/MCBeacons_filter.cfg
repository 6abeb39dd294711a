SPECIFICATION Spec
CONSTANTS
    TOTAL_BEACONS = 4
    MAX_AP_BEACONS = 3
    MinTotal = 2
    MAX_VAP_PER_AP = 2
    MAX_VAP_PER_RQ = 3
    CACHE_AGE_THRESHOLD = 24
    CACHE_BEACON_THRESHOLD = 2
    CACHE_RSSI_THRESHOLD = 90
    CACHE_MATCH_THRESHOLD_ALL = 50
    CACHE_MATCH_THRESHOLD_USED = 50
    UintMod = 65536
    MaxNci = 268435456
    CharBit = 4
    NaN = NaN
    Children <- MCChildren
    GnssCall <- MCGnssCall
    Option <- MCOption
    Override <- MCOverride
    Scan <- MCScan
    Timestamp <- MCTimestamp
    RequestTime = {3, 12}
    Epoch = 10
    UsedMacs <- MCUsedMacs
INVARIANTS
    TypeOK
    Ordered
    NoDuplicates
    EvictsLowestPriority
    ServerReadsBeacons
    ServerReadsPosition
    VapsWithinLimit
    UsedReachesRightAp
PROPERTIES
    KeepsNewest
    VirtualGroupsCovered
    ImplementsList
    RoomKept
