CONSTANTS
    w1 = w1
    w2 = w2
    w3 = w3
    Writers = {w1, w2}
    IOTimeout = 2
    Timeouts <- TimeoutsDef
    MaxTime = 6
SPECIFICATION Spec
PROPERTIES
    DeadlineHolds
