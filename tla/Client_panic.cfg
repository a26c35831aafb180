CONSTANTS
    s1 = s1
    s2 = s2
    p1 = p1
    n1 = n1
    d1 = d1
    q1 = q1
    m1 = m1
    m2 = m2
    k1 = k1
    k2 = k2
    Calls <- PairCalls
    Op <- PairOp
    Queue <- PairQueue
    Queues = {q1}
    Closers = {k1}
    Msgs = {m1}
    ReplyTypes = {"OK"}
    BufCap = 1
    MaxTaken = 2
    None = None
SPECIFICATION Spec
INVARIANTS
    NoPanic
