SPECIFICATION Spec
CONSTANTS
    Rctx = {r1}
    Scan <- MCScan
    Group <- MCGroup
    Neighbour = {"n"}
    CacheSize = 2
    TOTAL_BEACONS = 4
    MAX_AP_BEACONS = 3
    MinTotal = 3
    MAX_VAP_PER_AP = 2
    MAX_VAP_PER_RQ = 3
    CACHE_AGE_THRESHOLD = 1
    CACHE_BEACON_THRESHOLD = 2
    CACHE_RSSI_THRESHOLD = 90
    CACHE_MATCH_THRESHOLD_ALL = 50
    CACHE_MATCH_THRESHOLD_USED = 50
    UintMod = 65536
    Option <- MCOption
    Override <- MCOverride
    MaxHits = 2
    MaxSearches = 1
    Epoch = 10
    ColdClock = 0
    MaxNow = 3
INVARIANTS
    TypeOK
    SentBeaconsFit
    HitsCounted
PROPERTIES
    SearchFindsBestMatch
    SavesToEmptyFirst
