\* Two processes race for one job.
SPECIFICATION HSpec
CONSTANTS
    Proc = {p1, p2}
    Job = {j1}
    Leaky = {}
    NoProc = NoProc
    IfElapsedMinutes = 1
    ExpireAfterMinutes = 2
    IfElapsed <- MCIfElapsed
    ExpireAfter <- MCExpireAfter
    SecondsPerMinute = 1
    Epoch = 2
    MaxTime = 4
INVARIANT MutualExclusion
CHECK_DEADLOCK FALSE
