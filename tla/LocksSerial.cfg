\* Processes take turns.
SPECIFICATION SerialSpec
CONSTANTS
    Proc = {p1, p2, p3}
    Job = {j1}
    Leaky = {j1}
    NoProc = NoProc
    IfElapsedMinutes = 1
    ExpireAfterMinutes = 1
    IfElapsed <- MCIfElapsed
    ExpireAfter <- MCExpireAfter
    SecondsPerMinute = 1
    Epoch = 1
    MaxTime = 3
INVARIANT MutualExclusion
PROPERTIES
    GrantedOnlyWhenDue
    
CHECK_DEADLOCK FALSE
