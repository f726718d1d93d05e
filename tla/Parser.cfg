\* Two promises in any sections and classes, of one file or of two.
CONSTANTS
    Section <- Sections
    Class <- Classes
    Option <- Options
    Any = "any"
    Heap = {"any"}
    Made = {"made"}
    MaxPromises = 2
    MaxOptions = 2
    MaxMarks = 5
SPECIFICATION Spec
INVARIANTS
    InstalledAsWritten
    OptionsReachPromise
    OptionsStayWithPromise
\* The text ends.
CHECK_DEADLOCK FALSE
