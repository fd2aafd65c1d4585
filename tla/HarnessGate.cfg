SPECIFICATION Spec
CONSTANTS
    Boards = {1, 2}
    Capacity = 4
    Peaks = {2}
    AfterRun = 2
    Sizes = {1, 2}
    SmallRequest = 0
    ShortOwn = 1
    KicadCheck = 1
    DrainAfter = 1
    DrainMax = 1
    StaleAfter = 1
INVARIANTS TypeOK BinariesAreCovered GrantIsKept ReservedOnce
PROPERTIES GrantedGoesOn
