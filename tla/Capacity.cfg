SPECIFICATION Spec
CONSTANTS
    Runs = {1, 2}
    ShortRuns = {2}
    Checkers = {1}
    Boards = {}
    Capacities = {3, 4}
    MaxCapacity = 4
    Frees = {9}
    Floors = {1}
    FloorKeep = 0
    Sizes = {2, 5}
    BoardKinds <- NoBoardKinds
    Writable = {TRUE, FALSE}
    MaxNow = 1
    SmallRequest = 1
    ShortOwn = 2
    KicadCheck = 1
    DrainAfter = 1
    DrainMax = 1
    StaleAfter = 1
INVARIANTS TypeOK OnlyTheOldestOvercommits FileSaysWhatRunsHold
