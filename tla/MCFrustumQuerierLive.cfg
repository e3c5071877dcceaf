\* The self-retriggering loop settles: no failed fetches, two user actions,
\* one tree whose seven cells do not fit a three-entry cache, so that later
\* generations find the root evicted and its children cached, and the
\* re-entrant processQueue of a synchronous cache hit runs.
CONSTANTS
    R1 = R1
    R2 = R2
    TreesInfo <- MCOneTree
    Cells <- MCCells
    Classify <- MCClassify
    Need <- MCNeed
    DesiredCounts = {4, 7}
    InitDesired = 4
    KFloor <- MCKFloor
    KMax = 2
    CacheCapacity = 3
    YieldAfter = 1
    MaxUIEvents = 2
    FetchCanFail = FALSE

SPECIFICATION Spec

PROPERTY EventuallyQuiescent

\* Once the user stops acting and every timer and request is done the page
\* waits for input: that end state is real, and the liveness runs check
\* that nothing gets stuck before it.
CHECK_DEADLOCK FALSE
