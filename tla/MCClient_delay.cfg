SPECIFICATION ClientSpec
CONSTANTS
    Rctx = {"r1"}
    Sku <- MCSku
    Partner = {1}
    Key = {"k"}
    Token = {7}
    Hours8 = 1
    Hours16 = 2
    Hours24 = 3
    ConfigInterval = 5
    Epoch = 100
    ColdClock = 0
    Faults = {"restart"}
    MaxNow = 4
    MaxRefused = 3
PROPERTY
    DelayedRetryAdmitted
