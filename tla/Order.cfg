SPECIFICATION Spec
CONSTANTS
    Runs = {1}
    ShortRuns = {}
    Checkers = {}
    Boards = {11, 12, 13}
    Capacities = {4}
    MaxCapacity = 4
    Frees = {4, 8}
    Floors = {1}
    FloorKeep = 0
    Sizes = {2}
    BoardKinds <- OrderBoardKinds
    Writable = {TRUE}
    MaxNow = 1
    SmallRequest = 1
    ShortOwn = 2
    KicadCheck = 1
    DrainAfter = 1
    DrainMax = 0
    StaleAfter = 1
INVARIANT OnlyTheOldestOvercommits
PROPERTIES FirstWaiterKeepsItsRoom
