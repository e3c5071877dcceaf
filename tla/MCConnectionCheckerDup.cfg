\* A retry click while a ping is in flight starts a second chain for good.
CONSTANTS
    t1 = t1
    t2 = t2
    t3 = t3
    NoTimer = NoTimer
    TimerIds = {t1, t2, t3}
    MaxClicks = 1

SPECIFICATION Spec



PROPERTY EventuallySingleChain
