SPECIFICATION Spec
CONSTANTS
    k1 = k1
    k2 = k2
    j1 = j1
    j2 = j2
    Key = {k1}
    Job = {j1}
    RunMode = {"normal", "fallback"}
    LevelMerge = TRUE
    ReadFault = FALSE
    MaxSeq = 2
    MaxFile = 2
    MaxSnap = 1
    MaxRead = 0
    MaxCompact = 1
    MaxFault = 0
INVARIANTS
    IInv
    ValueInv
SYMMETRY Symmetry
