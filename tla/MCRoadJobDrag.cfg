\* One job, and the mouse and keys in any order around it.
CONSTANTS
    MaxJobs = 1

SPECIFICATION Spec

INVARIANT DragHasSelection

CHECK_DEADLOCK FALSE
