SPECIFICATION Spec
CONSTANTS
    Rctx = {r1, r2}
    Sku <- MCSkuTbr
    Partner = {1}
    Key = {"k"}
    Token = {7}
    Hours8 = 1
    Hours16 = 2
    Hours24 = 3
    ConfigInterval = 3
    Epoch = 100
    ColdClock = 0
    Faults = {}
    MaxNow = 3
PROPERTY ResponsesMatchRequests
