\* A failed fetch: the generation it belongs to never completes.
CONSTANTS
    R1 = R1
    R2 = R2
    TreesInfo <- MCTreesInfo
    Cells <- MCCells
    Classify <- MCClassify
    Need <- MCNeed
    DesiredCounts = {7}
    InitDesired = 7
    KFloor <- MCKFloor
    KMax = 2
    CacheCapacity = 6
    YieldAfter = 1
    MaxUIEvents = 0
    FetchCanFail = TRUE

SPECIFICATION Spec

PROPERTY EventuallyQuiescent

\* Once the user stops acting and every timer and request is done the page
\* waits for input: that end state is real, and the liveness runs check
\* that nothing gets stuck before it.
CHECK_DEADLOCK FALSE
