SPECIFICATION Spec
CONSTANTS
    p1 = p1
    p2 = p2
    Procs = {p1, p2}
    Versions = {1, 2, 3}
    MaxEntries = 2
    MaxRuns = 3
    MaxFaults = 1
INVARIANTS TypeOK PublishedIsWhole PublishedIsOfTheInputs WithinBoundAfterStores
PROPERTIES NeverFailsADrc
SYMMETRY Symmetry
CHECK_DEADLOCK FALSE
