SPECIFICATION Spec
CONSTANTS
    k1 = k1
    k2 = k2
    j1 = j1
    j2 = j2
    Key = {k1}
    Job = {j1}
    RunMode = {"normal", "readonly"}
    LevelMerge = FALSE
    ReadFault = FALSE
    MaxSeq = 3
    MaxFile = 2
    MaxSnap = 1
    MaxRead = 1
    MaxCompact = 0
    MaxFault = 0
INVARIANTS
    SnapshotReadable
    ReadsServed
PROPERTIES
    ImplementsStore
SYMMETRY Symmetry
