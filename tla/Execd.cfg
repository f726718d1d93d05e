\* Two cfexecd daemons that are started, replaced and killed at any time.
CONSTANTS
    d1 = d1
    d2 = d2
    Daemon <- Daemons
    None = none
    ExecIfElapsed = 2
    ExecExpireAfter = 4
    SecondsPerMinute = 2
    Period = 5
    Schedule <- TheSchedule
    MaxStuff = 3
    MaxTime = 14
    MaxStarts = 3
SPECIFICATION Spec
SYMMETRY Symmetric
INVARIANTS
    WindowServed
PROPERTY RunsSpaced
\* The administrator may stop every daemon for good.
CHECK_DEADLOCK FALSE
