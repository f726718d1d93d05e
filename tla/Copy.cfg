CONSTANTS
    Name = {a, b}
    Version = {1, 2}
    Size <- Sizes
    Promise <- Promises
    Absent = absent
    Garbage = garbage
    MaxChanges = 2
    MaxFaults = 1
SPECIFICATION BoundedSpec
INVARIANTS
    
    NothingLost
PROPERTIES
    PurgesUnlisted
    Converges
