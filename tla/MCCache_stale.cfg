SPECIFICATION Spec
CONSTANTS
    Rctx = {r1}
    Scan <- MCSearchAgain
    Group <- MCGroup
    Neighbour = {}
    CacheSize = 1
    TOTAL_BEACONS = 4
    MAX_AP_BEACONS = 3
    MinTotal = 3
    MAX_VAP_PER_AP = 2
    MAX_VAP_PER_RQ = 3
    CACHE_AGE_THRESHOLD = 1
    CACHE_BEACON_THRESHOLD = 1
    CACHE_RSSI_THRESHOLD = 90
    CACHE_MATCH_THRESHOLD_ALL = 50
    CACHE_MATCH_THRESHOLD_USED = 50
    UintMod = 65536
    Option <- MCStricter
    Override = {}
    MaxHits = 1
    MaxSearches = 2
    Epoch = 10
    ColdClock = 0
    MaxNow = 1
PROPERTIES
    HitIsMatch
