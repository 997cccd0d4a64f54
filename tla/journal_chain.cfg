CONSTANTS
    Procs = {p1, p2}
    MaxRecords = 4
    MaxDay = 2
    NoProc = NoProc
SPECIFICATION Spec
SYMMETRY Symmetry
INVARIANTS
    ChainIsIntact
    HeadIsLastRecord
    OneSnapshotPerDay
PROPERTY
    LossNeedsTwoCrashes
