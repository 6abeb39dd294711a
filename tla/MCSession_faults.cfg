SPECIFICATION Spec
CONSTANTS
    Rctx = {"r1"}
    Sku <- MCSkuMaybe
    Partner = {0, 1}
    Key = {"k"}
    Token = {7}
    Hours8 = 1
    Hours16 = 2
    Hours24 = 3
    ConfigInterval = 0
    Epoch = 100
    ColdClock = 5
    Faults = {"restart", "corrupt", "clock"}
    MaxNow = 1
INVARIANT TypeOK
INVARIANT RegisteredNotBlocked
PROPERTY ResponsesMatchRequests
