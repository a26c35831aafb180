CONSTANTS
    w1 = w1
    w2 = w2
    w3 = w3
    Writers = {w1, w2, w3}
    IOTimeout = 0
    Timeouts <- TimeoutsDef
    MaxTime = 5
SPECIFICATION Spec
INVARIANTS
    DeadlineIsSomeones
