SPECIFICATION Spec
CONSTANTS
    Worker = {w1, w2, w3}
    None = None
    Stranger = Stranger
    Interval = 1
    Lease = 2
    MaxWait = 1
    MaxCrashes = 1
INVARIANTS
    TypeOK
    OneTickInTime
    RanAlone
PROPERTY KeepsTicking
