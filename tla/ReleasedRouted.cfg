SPECIFICATION Spec
CONSTANTS
    Nets <- AllNets
    Cells <- Row
    Zone <- Near
    Links <- AllLinks
    StandsFor <- LinkStandsFor
    Plan <- Board
    Stubs <- FixedStubs
    StuckWhole = 2
    Window <- Windows
    MaxBatch = 2
    MaxIterations = 4
    PriceCap = 2
    Rule <- Rules
    ForceRounds = 2
    MaxInvolved = 3
    ProbesGiveUp = TRUE
INVARIANT ReleasedStayOut
