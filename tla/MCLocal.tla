------------------------------- MODULE MCLocal -------------------------------
(* What cfagent does on its own host, in one run of TLC whose parts have no  *)
(* state in common: the editing of files (part "edit"); links, modes,        *)
(* tidying and disabling ("files"); methods, with two agents that share the  *)
(* directory of the packages ("shared") or with one that is killed and       *)
(* copies from a peer ("alone"); file systems ("mounts"); processes          *)
(* ("processes"); persistent classes ("classes"); and what is decided about  *)
(* classes, packages and addresses ("decisions").                            *)
EXTENDS MCEdit, MCTree, Methods, MCMounts, MCProcesses, MCPersistence,
        MCDecisions

VARIABLE part       \* which of the parts is looked at

(* Methods: two local ones and one of a peer, in an order in which they are  *)
(* not sorted, and a directory that is read in one order or another.         *)
Policy == <<"x", "z", "y">>
ByName == [x |-> 0, y |-> 1, z |-> 2, call |-> 0, reply |-> 1, localhost |-> 0,
         peer |-> 1]
ByMethod(f) == 2 * (2 * (2 * ByName[f.m] + ByName[f.from]) + ByName[f.kind]) + f.part
ByKind(f) == 2 * (2 * (3 * ByName[f.kind] + ByName[f.m]) + ByName[f.from]) + f.part
Sorted(key(_)) ==
    [n \in 1..Cardinality(Package) |->
        CHOOSE f \in Package : Cardinality({g \in Package : key(g) < key(f)}) = n - 1]
OneReading == Sorted(ByKind)
Readings == {OneReading, Reverse(Sorted(ByMethod))}

\* Bounds: with two agents nothing is copied, the second alone is refused a
\* lock, that the first holds, and the first alone is killed, while its child
\* runs.
Purpose == [dispatch |-> "dispatch", exec |-> "exec", fetch |-> "receive"]
HeldByOther == ~LockFree(Purpose[at[2]], MethodAt(Purpose[at[2]], 2))
Shared == /\ called' <= 2 /\ pulls' = 0 /\ (called' = 1 => at'[2] = "idle")
          /\ ~Refused(1) /\ (Refused(2) => HeldByOther)
          /\ kills' # kills => at[1] = "wait" /\ at' # at /\ at'[2] = at[2]
Alone == /\ at'[2] = "idle" /\ pulls' + kills' <= 1
         /\ called' <= 2
         /\ pulls' # pulls => \A p \in Agent : ~Busy(p)
         /\ Refused(1) => ~disturbed[1] \/ pulls = 1

AllVars == <<vars, treeVars, methodVars, mountVars, processVars, stateVars,
             decisionVars>>
(* The parts that are not looked at: no files, no directory of packages.     *)
NoFiles ==
    /\ plan = <<>> /\ tree = <<>> /\ start = <<>> /\ clean = TRUE
    /\ sums = <<>> /\ agenda = <<>> /\ keeping = 0 /\ round = 0
    /\ killold = FALSE /\ masked = TRUE /\ backup = TRUE
    /\ repos = {} /\ tidied = {} /\ said = {} /\ deeds = 0 /\ failures = 0
NoMethods ==
    /\ order = <<>> /\ in = <<>> /\ out = {} /\ child = [p \in Agent |-> NoChild]
    /\ at = [p \in Agent |-> "idle"] /\ todo = [p \in Agent |-> {}]
    /\ bundle = <<>> /\ returnfile = <<>> /\ calls = <<>> /\ result = <<>>
    /\ ran = [m \in Local |-> <<>>] /\ orphans = Local /\ disturbed = <<>>
    /\ called = 0 /\ pulls = 0 /\ kills = 0
LocalInit ==
    /\ part \in {"edit", "files", "shared", "alone", "mounts", "processes", "classes",
                "decisions"}
    /\ IF part \in {"shared", "alone"} THEN MethodsInit ELSE NoMethods
    /\ part = "shared" => order = OneReading
    /\ IF part = "files" THEN TreeInit ELSE NoFiles
    /\ part = "processes" \/ (watch = <<Watching>> /\ running = AtRest)
    /\ part = "classes" \/ valerts = OneClass
    /\ ProcessesInit /\ PersistenceInit
    /\ part = "mounts" \/ setup = Settled
    /\ MountsInit
    /\ part = "edit" \/ (program = <<>> /\ disk = <<>>)
    /\ Init
    /\ IF part = "decisions" THEN DecisionsInit ELSE NoDecision
LocalNext ==
    /\ UNCHANGED part
    /\ \/ /\ part = "edit" /\ Next
          /\ UNCHANGED <<treeVars, methodVars, mountVars, processVars, stateVars,
                         decisionVars>>
       \/ /\ part = "files" /\ TreeNext /\ deeds' + failures' <= 1
          /\ UNCHANGED <<vars, methodVars, mountVars, processVars, stateVars,
                         decisionVars>>
       \/ /\ part = "shared" /\ MethodsNext /\ Shared
          /\ UNCHANGED <<vars, treeVars, mountVars, processVars, stateVars,
                         decisionVars>>
       \/ /\ part = "alone" /\ MethodsNext /\ Alone
          /\ UNCHANGED <<vars, treeVars, mountVars, processVars, stateVars,
                         decisionVars>>
       \/ /\ part = "mounts" /\ MountsNext
          /\ UNCHANGED <<vars, treeVars, methodVars, processVars, stateVars,
                         decisionVars>>
       \/ /\ part = "processes" /\ ProcessesNext
          /\ UNCHANGED <<vars, treeVars, methodVars, mountVars, stateVars,
                         decisionVars>>
       \/ /\ part = "classes" /\ PersistenceNext
          /\ UNCHANGED <<vars, treeVars, methodVars, mountVars, processVars,
                         decisionVars>>
       \/ /\ part = "decisions" /\ DecisionsNext
          /\ UNCHANGED <<vars, treeVars, methodVars, mountVars, processVars,
                         stateVars>>
LocalSpec == LocalInit /\ [][LocalNext]_<<part, AllVars>>
===============================================================================
