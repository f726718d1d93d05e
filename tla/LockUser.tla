------------------------------ MODULE LockUser ------------------------------
(***************************************************************************)
(* What Locks takes for granted of a program that uses locks.c: one lock   *)
(* at a time, given back under the name it was got by, except on the early *)
(* returns of leaky jobs.  A caller may also reach ReleaseCurrentLock      *)
(* without a lock; it then releases whatever name an earlier GetLock left  *)
(* in g_cflock.  Crashes and signals are left to Locks.                    *)
(***************************************************************************)
CONSTANTS
    Job,      \* what locks are asked for
    Leaky,    \* jobs whose code has a way out past ReleaseCurrentLock
    NoJob     \* "pre-lock-state" or "no_active_lock" in g_cflock

VARIABLES
    working,  \* between a GetLock that succeeded and the release
    cflock    \* the job g_cflock names

luvars == <<working, cflock>>

Init == working = FALSE /\ cflock = NoJob

\* GetLock returns false, but has named the lock.
Refused(j) ==
    /\ ~working
    /\ cflock' = j
    /\ UNCHANGED working

Granted(j) ==
    /\ ~working
    /\ working' = TRUE
    /\ cflock' = j

\* ReleaseCurrentLock, with or without a lock.
Release ==
    /\ working' = FALSE
    /\ cflock' = NoJob

LeaveLocked ==
    /\ working
    /\ cflock \in Leaky
    /\ working' = FALSE
    /\ UNCHANGED cflock

Next ==
    \/ \E j \in Job : Refused(j) \/ Granted(j)
    \/ Release
    \/ LeaveLocked

Spec == Init /\ [][Next]_luvars

=============================================================================
