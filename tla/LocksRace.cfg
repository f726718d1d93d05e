\* Two processes, two jobs, full interleaving, signals, crashes.
SPECIFICATION FairSpec
CONSTANTS
    Proc = {p1, p2}
    Job = {j1, j2}
    Leaky = {j2}
    NoProc = NoProc
    IfElapsedMinutes = 1
    ExpireAfterMinutes = 1
    IfElapsed <- MCIfElapsed
    ExpireAfter <- MCExpireAfter
    SecondsPerMinute = 1
    Epoch = 1
    MaxTime = 2
INVARIANTS
    NoLeakedLock
    LockedJobHasLast
PROPERTY LockEventuallyReleased
CHECK_DEADLOCK FALSE
