CONSTANTS
    Configs <- ConfigsDef
    ca = ca
    other = other
    Chains <- ChainsDef
    Certs = {ca, other}
    Pinned = {ca}
    Versions = {5, 6, 7, 8}
    Sessions = {s1, s2}
    OwnKeys = {"nil", "good", "short"}
    MaxTime = 10
SPECIFICATION FairSpec
CHECK_DEADLOCK FALSE
INVARIANTS
    TypeOK
    NothingLeftOpen
    OnlyToTheRightServer
    BothAgree
    EachItsOwnDeadline
    InTime
PROPERTIES
    DialReturns
