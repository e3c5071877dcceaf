\* A single tree that the user may switch off.
CONSTANTS
    R1 = R1
    R2 = R2
    TreesInfo <- MCOneTree
    Cells <- MCCells
    Classify <- MCClassify
    Need <- MCNeed
    DesiredCounts = {7}
    InitDesired = 7
    KFloor <- MCKFloor
    KMax = 2
    CacheCapacity = 6
    YieldAfter = 1
    MaxUIEvents = 2
    FetchCanFail = FALSE

SPECIFICATION Spec

PROPERTY EventuallyOnlyEnabledTrees

\* Once the user stops acting and every timer and request is done the page
\* waits for input: that end state is real, and the liveness runs check
\* that nothing gets stuck before it.
CHECK_DEADLOCK FALSE
