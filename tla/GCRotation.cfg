SPECIFICATION Spec
CONSTANTS
    k1 = k1
    k2 = k2
    j1 = j1
    j2 = j2
    Key = {k1, k2}
    Job = {j1, j2}
    RunMode = {"normal"}
    LevelMerge = FALSE
    ReadFault = FALSE
    MaxSeq = 4
    MaxFile = 3
    MaxSnap = 0
    MaxRead = 0
    MaxCompact = 0
    MaxFault = 0
INVARIANTS
    TypeOK
    ReadsLastWrite
PROPERTIES
    IndexAfterManifest
SYMMETRY Symmetry
