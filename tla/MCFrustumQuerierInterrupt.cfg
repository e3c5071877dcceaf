\* The final snapshot of a generation stopped by the budget check.
CONSTANTS
    R1 = R1
    R2 = R2
    TreesInfo <- MCTreesInfo
    Cells <- MCCells
    Classify <- MCClassify
    Need <- MCNeed
    DesiredCounts = {4}
    InitDesired = 4
    KFloor <- MCKFloor
    KMax = 2
    CacheCapacity = 6
    YieldAfter = 1
    MaxUIEvents = 0
    FetchCanFail = FALSE

SPECIFICATION Spec

INVARIANT AllSnapshotsCoherent

\* Once the user stops acting and every timer and request is done the page
\* waits for input: that end state is real, and the liveness runs check
\* that nothing gets stuck before it.
CHECK_DEADLOCK FALSE
