\* Reports of concurrent runs, any of which may be killed.
CONSTANTS
    r1 = r1
    r2 = r2
    r3 = r3
    r4 = r4
    x = x
    y = y
    Run <- Runs
    Text <- Texts
    Empty = empty
    None = none
SPECIFICATION Spec
SYMMETRY Symmetric
INVARIANTS
    SuppressedHasTwin
