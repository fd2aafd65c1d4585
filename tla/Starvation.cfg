SPECIFICATION LiveSpec
CONSTANTS
    Runs = {1, 2}
    ShortRuns = {}
    Checkers = {}
    Boards = {11}
    Capacities = {4}
    MaxCapacity = 4
    Frees = {5}
    Floors = {2}
    FloorKeep = 0
    Sizes = {1}
    BoardKinds <- LongBoardOnly
    Writable = {TRUE}
    MaxNow = 0
    SmallRequest = 0
    ShortOwn = 1
    KicadCheck = 1
    DrainAfter = 1
    DrainMax = 1
    StaleAfter = 1
PROPERTIES EveryBoardStarts
