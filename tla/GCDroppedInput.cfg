SPECIFICATION Spec
CONSTANTS
    k1 = k1
    k2 = k2
    j1 = j1
    j2 = j2
    Key = {k1}
    Job = {j1}
    RunMode = {"normal"}
    LevelMerge = FALSE
    ReadFault = TRUE
    MaxSeq = 3
    MaxFile = 2
    MaxSnap = 0
    MaxRead = 0
    MaxCompact = 0
    MaxFault = 1
PROPERTIES
    OnlyStaleFilesDropped
SYMMETRY Symmetry
