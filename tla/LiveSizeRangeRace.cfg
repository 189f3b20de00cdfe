SPECIFICATION Spec
CONSTANTS
    Options <- MCLevelMerge
    NumLevels = 3
    MaxValue = 2
    MaxFile = 2
    MaxJob = 3
    MaxOther = 1
INVARIANTS
    NoLiveFileDeleted
CHECK_DEADLOCK FALSE
