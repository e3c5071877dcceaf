\* Two URL trees (or none), two metadata files, two shader URLs, two
\* window heights and two user events (resize, near-plane key or wheel).
CONSTANTS
    T1 = T1
    T2 = T2
    TreeList <- MCTreeList
    MetaFiles <- MCMetaFiles
    NumShaders = 2
    Wins = {500, 700}
    InitCss = {300, 480}
    InitBuf = {150}
    NearMax = 4
    MaxUser = 3

SPECIFICATION Spec

INVARIANT TypeOK
INVARIANT ShadersReportedOnce
INVARIANT ViewportSynced
INVARIANT RootBoxesSubdivide
PROPERTY EventuallyShadersReported
PROPERTY EventuallyAllTreesQueried
PROPERTY EventuallyViewQueried

\* Once every answer is in, the timer has fired and the user has stopped,
\* the page waits for input: a real end state.
CHECK_DEADLOCK FALSE
