CONSTANTS
    s1 = s1
    s2 = s2
    a1 = a1
    q1 = q1
    Calls <- DeliveryCalls
    Op <- DeliveryOp
    Queue <- DeliveryQueue
    Queues = {q1}
    Q = q1
    Closers = {}
    Msgs = {1, 2}
    Last = 2
    Hasty = {s1}
    ReplyTypes = {"OK", "ERR"}
    BufCap = 2
    MaxTaken = 8
    None = None
SPECIFICATION DeliveryFairSpec
INVARIANTS
    NothingLost
    PushFindsRoom
    ReadInOrder
PROPERTIES
    Delivered
CHECK_DEADLOCK FALSE
