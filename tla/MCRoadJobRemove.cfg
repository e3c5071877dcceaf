\* Removing a job while its tree is being served.
CONSTANTS
    MaxJobs = 1

SPECIFICATION Spec

INVARIANT RemovedJobShowsNoTree

CHECK_DEADLOCK FALSE
