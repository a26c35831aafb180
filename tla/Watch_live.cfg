CONSTANTS
    near = near
    near2 = near2
    pluses = pluses
    Procs = {p1}
    Names = {a, b}
    Grids = {near, near2}
    Coarse <- CoarseDef
    NoGrid = NoGrid
    Size <- SizeDef
    Exclusive = TRUE
    MaxStarts = 3
    NoState = NoState
    NoFile = NoFile
    MaxEdits = 2
SPECIFICATION FairSpec
CHECK_DEADLOCK FALSE
PROPERTIES
    NearIsTold
    StopsOnSignal
    StoreSpec
