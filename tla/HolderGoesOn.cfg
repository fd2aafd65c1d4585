SPECIFICATION LiveSpec
CONSTANTS
    Runs = {1, 2}
    ShortRuns = {}
    Checkers = {}
    Boards = {}
    Capacities = {4}
    MaxCapacity = 4
    Frees = {9}
    Floors = {0}
    FloorKeep = 0
    Sizes = {2, 3}
    BoardKinds <- NoBoardKinds
    Writable = {TRUE}
    MaxNow = 0
    SmallRequest = 0
    ShortOwn = 1
    KicadCheck = 1
    DrainAfter = 1
    DrainMax = 1
    StaleAfter = 1
PROPERTIES EveryHolderGoesOn
