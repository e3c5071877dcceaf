\* Three user actions (goto or drag) against running profiles on 4 poses,
\* beside the file server's connection checker with three timer names and
\* two retry clicks.
CONSTANTS
    Poses = {0, 1, 2, 3}
    MaxUser = 3
    Threshold = 1
    t1 = t1
    t2 = t2
    t3 = t3
    TimerIds = {t1, t2, t3}
    NoTimer = NoTimer
    MaxClicks = 1

SPECIFICATION CamSpec

INVARIANT CamTypeOK
INVARIANT NeverStops
INVARIANT ProfilesReachGoal
INVARIANT AngleDiffCorrect
INVARIANT QueriedViewNearPose
INVARIANT SettlesNearGoal
PROPERTY EventuallyStill
