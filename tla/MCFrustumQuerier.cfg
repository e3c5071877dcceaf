\* Safety of the query engine under one user action (slider or tree toggle),
\* retriggers, yields, cache hits and evictions, and failing fetches.
CONSTANTS
    R1 = R1
    R2 = R2
    TreesInfo <- MCTreesInfo
    Cells <- MCCells
    Classify <- MCClassify
    Need <- MCNeed
    DesiredCounts = {4, 7}
    InitDesired = 4
    KFloor <- MCKFloor
    KMax = 2
    CacheCapacity = 6
    YieldAfter = 1
    MaxUIEvents = 1
    FetchCanFail = TRUE

SPECIFICATION Spec

INVARIANT TypeOK
INVARIANT SnapshotCoherent
INVARIANT ReentryDepthBounded
INVARIANT FrustumTestCorrect

\* Once the user stops acting and every timer and request is done the page
\* waits for input: that end state is real, and the liveness runs check
\* that nothing gets stuck before it.
CHECK_DEADLOCK FALSE
