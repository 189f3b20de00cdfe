SPECIFICATION FairSpec
CONSTANTS
    Options <- MCOptions
    NumLevels = 3
    MaxValue = 2
    MaxFile = 2
    MaxJob = 3
    MaxOther = 1
INVARIANTS
    LiveSizeTracks
    LiveFilesKept
    CastsSafe
    SizeAssertsHold
    LiveInv
PROPERTIES
    OutputsSettle
CHECK_DEADLOCK FALSE
