CONSTANTS
    s1 = s1
    s2 = s2
    p1 = p1
    n1 = n1
    d1 = d1
    q1 = q1
    m1 = m1
    m2 = m2
    k1 = k1
    k2 = k2
    Calls <- SubCalls
    Op <- SubOp
    Queue <- SubQueue
    Queues = {q1}
    Closers = {k1, k2}
    Msgs = {m1}
    ReplyTypes = {"OK", "ERR"}
    BufCap = 1
    MaxTaken = 3
    None = None
SPECIFICATION Spec
INVARIANTS
    TypeOK
    PendingUnanswered
    NoStranded
    ClosedDrained
    RegisteredOpen
    LockedCodeNeverPanics
    NoOrphanChannel
PROPERTIES
    RequestReplySpec
