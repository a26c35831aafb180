CONSTANTS
    Versions = {6, 7, 9}
    Session <- SessionDef
    OtherSession <- OtherSessionDef
    Requests <- RequestsDef
    Answers <- AnswersDef
    MaxBatch = 3
    MaxCount = 2
    BlockSize = 480
    ClientKey = 2
    ServerKey = 3
SPECIFICATION Spec
CHECK_DEADLOCK FALSE
INVARIANTS
    RoundTrip
    DamageIsRefused
    AuthorizationCovers
    AuthorizedOnce
    AnswersAreRead
