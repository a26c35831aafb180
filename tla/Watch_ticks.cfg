CONSTANTS
    near = near
    near2 = near2
    pluses = pluses
    Procs = {p1, p2}
    Names = {a, b}
    Grids = {near, near2, pluses}
    Coarse <- CoarseDef
    NoGrid = NoGrid
    Size <- SizeDef
    Exclusive = FALSE
    MaxStarts = 3
    NoState = NoState
    NoFile = NoFile
    MaxEdits = 1
SPECIFICATION WatchSpec
CHECK_DEADLOCK FALSE
INVARIANTS
    TypeOK
    NoNameTwice
    ReadableAtRest
    OncePerTick
PROPERTIES
    UnreadableIsKept
    WholeTick
