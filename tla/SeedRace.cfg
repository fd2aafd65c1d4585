SPECIFICATION Spec
CONSTANTS
    Seeds = 5
    Minimum = 2
    Works = {0, 2, 3}
    Limits = {NoLimit, 4, 7}
    NoLimit = NoLimit
    Pools = {1, 3}
    Reference = 2
INVARIANTS TypeOK EachSeedOnce
PROPERTIES KeptInOrder ClockOfThePool
