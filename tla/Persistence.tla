----------------------------- MODULE Persistence -----------------------------
(* Persistent classes (state.c): classes that a program puts into a database *)
(* for a number of minutes, where the agents that start later find them.     *)
(* They are set and unset by alerts (alerts.c, functions.c), and set by      *)
(* cfenvd when it sees an anomaly.                                           *)
(*                                                                           *)
(* Each access to the database is a step.  AddPersistentClass looks at the   *)
(* record and puts another one without a transaction; an agent that loads    *)
(* the classes deletes those that are over, from a cursor.  UnsetState takes *)
(* effect when the policy is read, whether its class is defined or not, and  *)
(* also in a dry run.  Left out: the time for which an alert is not repeated *)
(* (ifelapsed), and databases that cannot be opened.                         *)
EXTENDS Integers, Sequences, SequencesExt, FiniteSetsExt

CONSTANTS
    AlertLists,     \* the alerts of the policies that are tried
    Class,          \* a sequence: the keys in the order of the database
    Guards,         \* sets of classes that agents may have defined otherwise
    Anomalies,      \* classes of cfenvd
    Lifetime,       \* of the classes of cfenvd
    Runner,         \* agents that may run at the same time
    MaxMinute,      \* bound: the clock
    MaxStarts       \* bound: runs of agents and measurements of cfenvd

(* HandleSetState refuses a time of 0 minutes (functions.c:1084).            *)
ASSUME PersistenceAssumption ==
    /\ DOMAIN Class = 1..Len(Class) /\ Len(Class) \in Nat
    /\ \A alerts \in AlertLists :
          /\ DOMAIN alerts = 1..Len(alerts) /\ Len(alerts) \in Nat
          /\ \A k \in DOMAIN alerts :
                alerts[k].class \in ToSet(Class) /\ alerts[k].ttl \in Nat
    /\ Anomalies \subseteq ToSet(Class) /\ Lifetime \in Nat

VARIABLES
    valerts,        \* g_valerts
    minute,
    statedb,        \* the database: expiry and policy of classes
    runner,         \* the programs: the agents and cfenvd (0)
    starts,
    kept, meddled   \* history: until when each class was to be preserved, and
                    \* the classes at which two programs were at work at a time

stateVars == <<valerts, minute, statedb, runner, starts, kept, meddled>>

Keys == ToSet(Class)
Nobody == [phase |-> "idle", now |-> 0, dry |-> FALSE, heap |-> {}, due |-> {}, n |-> 1,
           set |-> <<>>]
PersistenceInit ==
    /\ valerts \in AlertLists
    /\ minute = 0 /\ statedb = <<>> /\ starts = 0
    /\ runner = [r \in Runner \cup {0} |-> Nobody]
    /\ kept = [c \in Keys |-> -1] /\ meddled = {}

R(r) == runner[r]
In(r, phase) == R(r).phase = phase
Turns(r, what) == runner' = [runner EXCEPT ![r] = what]
(* Another program has looked at the record and is about to change it. *)
Meddles(r, c) ==
    meddled' = meddled \cup
        {c : q \in {q \in DOMAIN runner \ {r} :
                        \/ In(q, "put") /\ R(q).set.class = c
                        \/ In(q, "delete") /\ Class[R(q).n] = c}}

---------------------------------------------------------------------------
(* AddPersistentClass in two steps, and DeletePersistentClass               *)

(* MUTANT: the policy of the record is not looked at. *)
PreservedNever(c, now) == FALSE
Preserved(c, now) ==
    c \in DOMAIN statedb /\ statedb[c].policy = "preserve" /\ now < statedb[c].expires
GoesOn(r, n) ==
    IF r = 0 THEN Nobody
    ELSE [R(r) EXCEPT !.phase = "alerts", !.n = n, !.set = <<>>, !.now = 0]
AddPersistentClass(r, n, set, now) ==
    /\ Turns(r, IF Preserved(set.class, now) THEN GoesOn(r, n + 1)
                ELSE [R(r) EXCEPT !.phase = "put", !.n = n, !.set = set, !.now = now])
    /\ UNCHANGED <<statedb, kept, meddled>>
Put(r) ==
    LET c == R(r).set.class
        record == [expires |-> R(r).now + R(r).set.ttl, policy |-> R(r).set.policy]
    IN  /\ In(r, "put") /\ Turns(r, GoesOn(r, R(r).n + 1))
        /\ statedb' = [k \in DOMAIN statedb \cup {c} |-> IF k = c THEN record ELSE statedb[k]]
        /\ kept' = [kept EXCEPT ![c] = IF record.policy = "preserve" THEN Max({@, record.expires})
                                       ELSE @]
        /\ Meddles(r, c)
        /\ UNCHANGED <<valerts, minute, starts>>
Removed(c) == statedb' = [k \in DOMAIN statedb \ {c} |-> statedb[k]]
(* The program goes on as next; nobody is due to find the class any more.    *)
Forgets(r, next, c) ==
    runner' = [q \in DOMAIN runner |->
                  LET was == IF q = r THEN next ELSE R(q) IN [was EXCEPT !.due = @ \ {c}]]
DeletePersistentClass(r, c, next) ==
    /\ Removed(c) /\ kept' = [kept EXCEPT ![c] = -1] /\ Meddles(r, c)
    /\ Forgets(r, next, c)

---------------------------------------------------------------------------
(* A run of cfagent *)

StartRunner(r) ==
    /\ r # 0 /\ In(r, "idle") /\ starts < MaxStarts
    /\ \A q \in Runner : q < r => ~In(q, "idle")        \* they are all alike
    /\ \E dry \in BOOLEAN, guards \in Guards :
          Turns(r, [Nobody EXCEPT !.phase = "load", !.now = minute, !.dry = dry,
                                  !.heap = guards,
                                  !.due = {c \in Keys : kept[c] >= minute}])
    /\ starts' = starts + 1
    /\ UNCHANGED <<valerts, minute, statedb, kept, meddled>>
(* PersistentClassesToHeap: the cursor comes to the next class, which is     *)
(* defined, or over.                                                         *)
PersistentClassesToHeap(r) ==
    /\ In(r, "load")
    /\ LET left == {n \in R(r).n..Len(Class) : Class[n] \in DOMAIN statedb}
           n == Min(left)
       IN  Turns(r, IF left = {} THEN [R(r) EXCEPT !.phase = "parse", !.n = 1]
                    ELSE IF R(r).now > statedb[Class[n]].expires
                    THEN [R(r) EXCEPT !.phase = "delete", !.n = n]
                    ELSE [R(r) EXCEPT !.n = n + 1, !.heap = @ \cup {Class[n]}])
    /\ UNCHANGED <<valerts, minute, statedb, starts, kept, meddled>>
DeleteExpired(r) ==
    /\ In(r, "delete")
    /\ LET c == Class[R(r).n]
           next == [R(r) EXCEPT !.phase = "load", !.n = R(r).n + 1]
       IN  /\ Removed(c) /\ Meddles(r, c)
           /\ IF kept[c] < R(r).now THEN Forgets(r, next, c) ELSE Turns(r, next)
    /\ UNCHANGED <<valerts, minute, starts, kept>>

(* The alerts the agent has yet to look at. *)
Alerts(r) == R(r).n..Len(valerts)
(* HandleFunctionObject evaluates the functions of alerts as they are read:  *)
(* SetState waits, UnsetState does not.                                      *)
ParseAlert(r) ==
    /\ In(r, "parse")
    /\ LET left == {k \in Alerts(r) : valerts[k].policy = "unset"}
           n == Min(left)
       IN  IF left = {}
           THEN /\ Turns(r, [R(r) EXCEPT !.phase = "alerts", !.n = 1, !.now = 0, !.due = {}])
                /\ UNCHANGED <<statedb, kept, meddled>>
           ELSE DeletePersistentClass(r, valerts[n].class, [R(r) EXCEPT !.n = n + 1, !.due = {}])
    /\ UNCHANGED <<valerts, minute, starts>>
(* DoAlerts.  The lock of an alert is refused while another agent has it.    *)
DoAlerts(r) ==
    /\ In(r, "alerts")
    /\ LET left == {k \in Alerts(r) : valerts[k].guard \in R(r).heap}
           n == Min(left)
           locked == \E q \in Runner \ {r} : In(q, "put") /\ R(q).n = n
       IN  IF left = {} THEN Turns(r, Nobody) /\ UNCHANGED <<statedb, kept, meddled>>
           ELSE IF valerts[n].policy = "unset"
           THEN DeletePersistentClass(r, valerts[n].class, GoesOn(r, n + 1))
           ELSE IF locked \/ R(r).dry
           THEN Turns(r, GoesOn(r, n + 1)) /\ UNCHANGED <<statedb, kept, meddled>>
           ELSE AddPersistentClass(r, n, valerts[n], minute)
    /\ UNCHANGED <<valerts, minute, starts>>

(* cfenvd: SetClasses finds that a value is an anomaly.                      *)
SetClasses ==
    /\ In(0, "idle") /\ starts < MaxStarts /\ starts' = starts + 1
    /\ \E c \in Anomalies :
          AddPersistentClass(0, 1, [class |-> c, ttl |-> Lifetime, policy |-> "preserve"], minute)
    /\ UNCHANGED <<valerts, minute>>

Minute ==
    /\ minute < MaxMinute /\ minute' = minute + 1
    /\ UNCHANGED <<valerts, statedb, runner, starts, kept, meddled>>

PersistenceNext ==
    \/ \E r \in DOMAIN runner :
          \/ StartRunner(r) \/ PersistentClassesToHeap(r) \/ DeleteExpired(r)
          \/ ParseAlert(r) \/ DoAlerts(r) \/ Put(r)
    \/ SetClasses \/ Minute
PersistenceSpec == PersistenceInit /\ [][PersistenceNext]_stateVars

---------------------------------------------------------------------------
(* Properties *)

(* A class that was set to be preserved, by whatever program, is defined in  *)
(* every agent that starts before its time is over, whatever the other       *)
(* alerts set in between, unless it was unset, which the mere reading of a   *)
(* policy does, or two programs were at work on its record at a time.        *)
ClassesRemembered ==
    \A r \in Runner : In(r, "parse") =>
        \A c \in R(r).due : c \in R(r).heap \/ c \in meddled
=============================================================================
