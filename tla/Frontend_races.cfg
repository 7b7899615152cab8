SPECIFICATION Spec
CONSTANTS
    Tab = {t1, t2}
    MaxLapses = 1
    MaxLost = 1
    MaxFaults = 1
    MaxClicks = 2
    MaxSubmits = 1
    MaxTyped = 1
    Home = "notifications"
    Volatile = {"notifications", "login"}
INVARIANTS
    RefusedForCause
    CallsRunOnce
    PagesShowTheirWrites
    LocksFollowWrites
PROPERTIES
    Settled
    EditsAreKept
CHECK_DEADLOCK FALSE
