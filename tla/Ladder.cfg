SPECIFICATION WavesSpec
CONSTANTS
    Runs <- LadderRuns
    Boards <- SomeBoards
    Sizes <- Lattices
    Budget = 20
    Bound = 21
    RefineBudget = 16
    DeadlineWork = 20
    ProbeWork = 1
    CheckWork = 1
    RetrySeeds = 2
    FirstIteration = 1
    Over = 1
    Grain = 50
    SeedRounds = 1
    Unfinished = {0, 3}
INVARIANTS WavesTypeOK BestIsLeast OutputIsBest WithinBound ReserveIsThere CompleteEnds NoRungDirectoryLeft
PROPERTIES AsOneAfterAnother
