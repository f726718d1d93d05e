\* Two hosts, two connections, one of them answered at a time.
CONSTANTS
    h1 = h1
    h2 = h2
    Host <- Hosts
    MaxConn = 2
    MaxHours = 1
    PurgeHours = 0
    MaxConnections = 2
    File <- Files
    RunCommand = "run"
    Path <- Paths
    Inside <- IsInside
    Prefixed <- IsPrefixed
    Exists <- ThereAre
    Policy <- Policies
    None = none
SPECIFICATION BoundedSpec
INVARIANTS
    
    GrantsHold
    OneConnectionPerHost
    ListFollowsConnections
    DiesOnlyStarved
 
\* The server may give up, and the connections it is given are finite.
CHECK_DEADLOCK FALSE
