CONSTANTS
    Program <- Programs
    Convergent <- KeepingActions
    Contents <- Files
    Script <- LeftByScript
    LoopLines <- LinesOfLoop
    Bodies = {"", "a", "b", "none"}
    NoLine <- No
    MaxRuns = 2
    MaxFaults = 1
    Agent = {1, 2}
    Promises <- Policy
    Local = {"x", "y"}
    Directory <- Readings
    MaxCalls = 3
    MaxPulls = 1
    MaxKills = 1
    None = None
    Plan <- Plans
    Tree <- Trees
    Deeds <- UserDeeds
    Garbage <- Unfilled
    Store <- Repos
    MaxRounds = 2
    MaxDeeds = 1
    MaxFailures = 1
    Setups <- Hosts
    Self = "me"
    Servers = {"s"}
    Protected = {"/", "/usr"}
    Within <- PathWithin
    UserLine <- ByHand
    MaxMountRuns = 2
    MaxTroubles = 1
    Watches <- Policies
    Populations <- Crowds
    Pid = {1, 2, 4, 5, 6, 7}
    Own = 5
    MaxStirs = 1
    AlertLists <- Alertings
    Class <- Sorted2
    Guards = {{"g", "h"}}
    Anomalies = {"a"}
    Lifetime = 1
    Runner = {1, 2}
    MaxMinute = 2
    MaxStarts = 3
    ClassQuestions <- OnClasses
    PackageQuestions <- OnPackages
    AddressQuestions <- OnAddresses
    HostQuestions <- OnHosts
    ListQuestions <- OnLists
    ModeQuestions <- OnModes
    Item = {"a", "b", "c"}
    VarStrings <- Strings
    HostNames <- SomeHosts
SPECIFICATION LocalSpec
INVARIANTS CursorInList RunOncePerCall AnsweredUnlessDisturbed
     AnnouncesChanges MountsAsPromised ProcessesAsPromised
    ClassesRemembered 
PROPERTIES ChangesReported Converged ResultsInOrder ContentsSurvive
CHECK_DEADLOCK FALSE
