------------------------------- MODULE Locks -------------------------------
(***************************************************************************)
(* The lock database of cfng (src/src/locks.c) and the processes that use  *)
(* it.  Every cfagent, cfexecd and cfenvd process on a host shares one     *)
(* Berkeley DB file, state/cfng_lock.db.  For every atomic operation (a    *)
(* "job": operator plus operand) it holds at most two records:             *)
(*   lock.<job>   pid and time of the process that is doing the job,       *)
(*   last.<job>   the time the job was last completed.                     *)
(* A process opens the file anew for each record it reads, deletes or      *)
(* writes; no transaction spans two accesses.  One action of this module   *)
(* therefore makes at most one access, and everything between two accesses *)
(* of a process, other processes, the clock, signals and crashes, may      *)
(* interleave.                                                             *)
(***************************************************************************)
EXTENDS Integers

CONSTANTS
    Proc,              \* process ids
    Job,               \* operator.operand pairs that have locks
    Leaky,             \* jobs whose code has a way out past ReleaseCurrentLock
    NoProc,            \* the -1 that GetLockPid returns when there is no record
    IfElapsed,         \* minutes that must pass before a job is done again
    ExpireAfter,       \* minutes after which a lock may be taken over
    SecondsPerMinute,  \* 60 in the code
    Epoch,             \* the time at which the model starts, in seconds
    MaxTime            \* bound on the clock

ASSUME NoProcAssumption == NoProc \notin Proc
ASSUME JobAssumption == {"", "pre-lock-state", "no_active_lock"} \cap Job = {}
ASSUME LeakyAssumption == Leaky \subseteq Job
ASSUME ScheduleAssumption ==
    /\ IfElapsed \in [Job -> Nat]
    /\ ExpireAfter \in [Job -> Nat]
ASSUME TimeAssumption ==
    /\ SecondsPerMinute \in Nat \ {0}
    /\ Epoch \in Nat \ {0}
    /\ MaxTime \in Nat

VARIABLES
    clock,    \* time(NULL)
    lock,     \* the lock.<job> records
    last,     \* the last.<job> records, -1 when there is none
    pc,       \* where each process stands between two accesses
    start,    \* g_cfstarttime of each process
    cflock,   \* g_cflock: the lock record the process would delete
    cflast,   \* g_cflast: the last record the process would write
    victim,   \* the pid that GetLock read from an expired lock
    sig,      \* a SIGINT, SIGTERM or SIGHUP is pending
    exiting,  \* the process releases its lock on the way to exit()
    crashed   \* the process vanished without running any handler

vars == <<clock, lock, last, pc, start, cflock, cflast, victim, sig, exiting,
          crashed>>

-----------------------------------------------------------------------------
\* The value of GetLockTime, and of GetLastLock's variable, without a record.
NoTime == -1
LockData == [pid : Proc, time : Nat]
NoLock == [pid |-> NoProc, time |-> NoTime]

\* Integer division of C: it truncates toward zero, also below zero.
Quotient(a, b) == IF a >= 0 THEN a \div b ELSE -((-a) \div b)

\* elapsedtime of GetLock, in minutes.
Elapsed(now, then) == Quotient(now - then, SecondsPerMinute)

\* GetLock goes on past its two tests of the last completion.
Scheduled(j, now, completed) ==
    /\ ~(Elapsed(now, completed) < 0)
    /\ ~(Elapsed(now, completed) < IfElapsed[j])

Expired(j, now, since) == Elapsed(now, since) >= ExpireAfter[j]

Alive(p) == pc[p] \notin {"off", "exited"} /\ ~crashed[p]

\* Process p runs its program, not a signal handler or FatalError.
Running(p, at) == Alive(p) /\ pc[p] = at

Goto(p, at) == pc' = [pc EXCEPT ![p] = at]

Init ==
    /\ clock = Epoch
    /\ lock = [j \in Job |-> NoLock]
    /\ last = [j \in Job |-> NoTime]
    /\ pc = [p \in Proc |-> "off"]
    /\ start = [p \in Proc |-> 0]
    /\ cflock = [p \in Proc |-> ""]
    /\ cflast = [p \in Proc |-> ""]
    /\ victim = [p \in Proc |-> NoProc]
    /\ sig = [p \in Proc |-> FALSE]
    /\ exiting = [p \in Proc |-> FALSE]
    /\ crashed = [p \in Proc |-> FALSE]

-----------------------------------------------------------------------------
(* The life of a process.                                                  *)

\* main: PreLockState names no lock yet, SetReferenceTime reads the clock once.
StartAgent(p) ==
    /\ pc[p] = "off"
    /\ start' = [start EXCEPT ![p] = clock]
    /\ cflock' = [cflock EXCEPT ![p] = "pre-lock-state"]
    /\ Goto(p, "idle")
    /\ UNCHANGED <<clock, lock, last, cflast, victim, sig, exiting, crashed>>

ExitAgent(p) ==
    /\ Running(p, "idle")
    /\ Goto(p, "exited")
    /\ UNCHANGED <<clock, lock, last, start, cflock, cflast, victim, sig,
                   exiting, crashed>>

\* SIGKILL, a power failure or a fault: nothing is released.
Crash(p) ==
    /\ Alive(p)
    /\ crashed' = [crashed EXCEPT ![p] = TRUE]
    /\ UNCHANGED <<clock, lock, last, pc, start, cflock, cflast, victim, sig,
                   exiting>>

Tick ==
    /\ clock < MaxTime
    /\ clock' = clock + 1
    /\ UNCHANGED <<lock, last, pc, start, cflock, cflast, victim, sig, exiting,
                   crashed>>

-----------------------------------------------------------------------------
(* GetLock(operator, operand, ifelapsed, expireafter, host, now) with now  *)
(* = g_cfstarttime.                                                        *)

\* GetLock names its two records, whatever it will return, and GetLastLock
\* reads the second.
ReadLast(p, j) ==
    /\ Running(p, "idle")
    /\ cflock' = [cflock EXCEPT ![p] = j]
    /\ cflast' = [cflast EXCEPT ![p] = j]
    /\ \/ last[j] = NoTime /\ Goto(p, "initLastDel")
       \/ last[j] # NoTime /\ Scheduled(j, start[p], last[j]) /\ Goto(p, "checkLock")
       \/ last[j] # NoTime /\ ~Scheduled(j, start[p], last[j]) /\ Goto(p, "idle")
    /\ UNCHANGED <<clock, lock, last, start, victim, sig, exiting, crashed>>

\* GetLastLock found no record and writes one: PutLock deletes, then puts.
InitLastDel(p) ==
    /\ Running(p, "initLastDel")
    /\ last' = [last EXCEPT ![cflast[p]] = NoTime]
    /\ Goto(p, "initLastPut")
    /\ UNCHANGED <<clock, lock, start, cflock, cflast, victim, sig, exiting,
                   crashed>>

\* MUTANT of InitLastPut: GetLastLock returns 0 without writing a record.
InitLastForgotten(p) ==
    /\ Running(p, "initLastPut")
    /\ IF Scheduled(cflast[p], start[p], 0) THEN Goto(p, "checkLock")
                                            ELSE Goto(p, "idle")
    /\ UNCHANGED <<clock, lock, last, start, cflock, cflast, victim, sig,
                   exiting, crashed>>

\* GetLastLock then returns 0, not the time it has just written.
InitLastPut(p) ==
    /\ Running(p, "initLastPut")
    /\ last' = [last EXCEPT ![cflast[p]] = clock]
    /\ IF Scheduled(cflast[p], start[p], 0) THEN Goto(p, "checkLock")
                                            ELSE Goto(p, "idle")
    /\ UNCHANGED <<clock, lock, start, cflock, cflast, victim, sig, exiting,
                   crashed>>

\* MUTANT of CheckOldLock: a lock that is there is not looked at.
CheckOldLockBlind(p) ==
    /\ Running(p, "checkLock")
    /\ Goto(p, "setLockDel")
    /\ UNCHANGED <<clock, lock, last, start, cflock, cflast, victim, sig,
                   exiting, crashed>>

\* MUTANT of CheckOldLock: any lock counts as expired.
CheckOldLockHasty(p) ==
    /\ Running(p, "checkLock")
    /\ IF lock[cflock[p]].time = NoTime THEN Goto(p, "setLockDel")
                                        ELSE Goto(p, "readPid")
    /\ UNCHANGED <<clock, lock, last, start, cflock, cflast, victim, sig,
                   exiting, crashed>>

CheckOldLock(p) ==
    /\ Running(p, "checkLock")
    /\ LET since == lock[cflock[p]].time
       IN \/ since = NoTime /\ Goto(p, "setLockDel")
          \/ since # NoTime /\ Expired(cflock[p], start[p], since) /\ Goto(p, "readPid")
          \/ since # NoTime /\ ~Expired(cflock[p], start[p], since) /\ Goto(p, "idle")
    /\ UNCHANGED <<clock, lock, last, start, cflock, cflast, victim, sig,
                   exiting, crashed>>

\* A second access: the record need not be the one CheckOldLock has seen.
\* A record that is gone by now is a "corrupt lock" and is ignored.
GetLockPid(p) ==
    /\ Running(p, "readPid")
    /\ victim' = [victim EXCEPT ![p] = lock[cflock[p]].pid]
    /\ IF lock[cflock[p]].pid = NoProc THEN Goto(p, "setLockDel")
                                       ELSE Goto(p, "kill")
    /\ UNCHANGED <<clock, lock, last, start, cflock, cflast, sig, exiting,
                   crashed>>

\* kill(pid, SIGINT) succeeds, or the process is gone and errno is ESRCH.
\* The unlink() that follows names a file that does not exist.
KillOwner(p) ==
    /\ Running(p, "kill")
    /\ sig' = [sig EXCEPT ![victim[p]] = @ \/ (Alive(victim[p]) /\ ~exiting[victim[p]])]
    /\ victim' = [victim EXCEPT ![p] = NoProc]
    /\ Goto(p, "setLockDel")
    /\ UNCHANGED <<clock, lock, last, start, cflock, cflast, exiting, crashed>>

\* The pid belongs by now to a process that may not be signalled: FatalError.
KillRefused(p) ==
    /\ Running(p, "kill")
    /\ ~Alive(victim[p])
    /\ exiting' = [exiting EXCEPT ![p] = TRUE]
    /\ victim' = [victim EXCEPT ![p] = NoProc]
    /\ Goto(p, "relLock")
    /\ UNCHANGED <<clock, lock, last, start, cflock, cflast, sig, crashed>>

\* SetLock: PutLock deletes the old record, then puts the new one.
SetLockDel(p) ==
    /\ Running(p, "setLockDel")
    /\ lock' = [lock EXCEPT ![cflock[p]] = NoLock]
    /\ Goto(p, "setLockPut")
    /\ UNCHANGED <<clock, last, start, cflock, cflast, victim, sig, exiting,
                   crashed>>

SetLockPut(p) ==
    /\ Running(p, "setLockPut")
    /\ lock' = [lock EXCEPT ![cflock[p]] = [pid |-> p, time |-> clock]]
    /\ Goto(p, "work")
    /\ UNCHANGED <<clock, last, start, cflock, cflast, victim, sig, exiting,
                   crashed>>

\* A caller comes to ReleaseCurrentLock without a lock of its own: g_cflock
\* and g_cflast stay what an earlier call made them.  mountresources calls
\* GetLock with now = 0, which returns TRUE at once; MakeImages releases when
\* it cannot stat the source, before it has called GetLock.
WorkWithoutLock(p) ==
    /\ Running(p, "idle")
    /\ Goto(p, "workBare")
    /\ UNCHANGED <<clock, lock, last, start, cflock, cflast, victim, sig,
                   exiting, crashed>>

-----------------------------------------------------------------------------
(* ReleaseCurrentLock, called when the work is done, by FatalError and by  *)
(* HandleSignal.                                                           *)

\* MUTANT of FinishWork: an early return that forgets ReleaseCurrentLock.
FinishWorkEarly(p) ==
    /\ Running(p, "work") \/ Running(p, "workBare")
    /\ Goto(p, "idle")
    /\ UNCHANGED <<clock, lock, last, start, cflock, cflast, victim, sig,
                   exiting, crashed>>

FinishWork(p) ==
    /\ Running(p, "work") \/ Running(p, "workBare")
    /\ IF cflast[p] = "" THEN Goto(p, "idle") ELSE Goto(p, "relLock")
    /\ UNCHANGED <<clock, lock, last, start, cflock, cflast, victim, sig,
                   exiting, crashed>>

\* The tidy and files wrappers, the scan for arrivals and ConfigureInterfaces
\* return early, past ReleaseCurrentLock.
LeaveLocked(p) ==
    /\ Running(p, "work")
    /\ cflock[p] \in Leaky
    /\ Goto(p, "idle")
    /\ UNCHANGED <<clock, lock, last, start, cflock, cflast, victim, sig,
                   exiting, crashed>>

\* DeleteLock: a g_cflock that names no job deletes nothing.
ReleaseLock(p) ==
    /\ Running(p, "relLock")
    /\ lock' = [j \in Job |-> IF j = cflock[p] THEN NoLock ELSE lock[j]]
    /\ Goto(p, "relLastDel")
    /\ UNCHANGED <<clock, last, start, cflock, cflast, victim, sig, exiting,
                   crashed>>

ReleaseLastDel(p) ==
    /\ Running(p, "relLastDel")
    /\ last' = [last EXCEPT ![cflast[p]] = NoTime]
    /\ Goto(p, "relLastPut")
    /\ UNCHANGED <<clock, lock, start, cflock, cflast, victim, sig, exiting,
                   crashed>>

\* MUTANT of ReleaseLastPut: the run counts from its start, not its end.
ReleaseLastStarted(p) ==
    /\ Running(p, "relLastPut")
    /\ last' = [last EXCEPT ![cflast[p]] = start[p]]
    /\ cflock' = [cflock EXCEPT ![p] = "no_active_lock"]
    /\ IF exiting[p] THEN Goto(p, "exited") ELSE Goto(p, "idle")
    /\ UNCHANGED <<clock, lock, start, cflast, victim, sig, exiting, crashed>>

ReleaseLastPut(p) ==
    /\ Running(p, "relLastPut")
    /\ last' = [last EXCEPT ![cflast[p]] = clock]
    /\ cflock' = [cflock EXCEPT ![p] = "no_active_lock"]
    /\ IF exiting[p] THEN Goto(p, "exited") ELSE Goto(p, "idle")
    /\ UNCHANGED <<clock, lock, start, cflast, victim, sig, exiting, crashed>>

\* An operator, or cfexecd, interrupts the process.
Interrupt(p) ==
    /\ Alive(p)
    /\ ~sig[p]
    /\ ~exiting[p]
    /\ sig' = [sig EXCEPT ![p] = TRUE]
    /\ UNCHANGED <<clock, lock, last, pc, start, cflock, cflast, victim,
                   exiting, crashed>>

\* MUTANT of HandleSignal: exit(0) without ReleaseCurrentLock.
HandleSignalAbruptly(p) ==
    /\ Alive(p)
    /\ sig[p]
    /\ ~exiting[p]
    /\ sig' = [sig EXCEPT ![p] = FALSE]
    /\ Goto(p, "exited")
    /\ UNCHANGED <<clock, lock, last, start, cflock, cflast, victim, exiting,
                   crashed>>

\* HandleSignal cuts in between any two accesses, releases and exits.  What
\* GetLock had read is lost with its frame.
HandleSignal(p) ==
    /\ Alive(p)
    /\ sig[p]
    /\ ~exiting[p]
    /\ exiting' = [exiting EXCEPT ![p] = TRUE]
    /\ sig' = [sig EXCEPT ![p] = FALSE]
    /\ victim' = [victim EXCEPT ![p] = NoProc]
    /\ IF cflast[p] = "" THEN Goto(p, "exited") ELSE Goto(p, "relLock")
    /\ UNCHANGED <<clock, lock, last, start, cflock, cflast, crashed>>

-----------------------------------------------------------------------------
GetLock(p) ==
    \/ \E j \in Job : ReadLast(p, j)
    \/ InitLastDel(p)
    \/ InitLastPut(p)
    \/ CheckOldLock(p)
    \/ GetLockPid(p)
    \/ KillOwner(p)
    \/ KillRefused(p)
    \/ SetLockDel(p)
    \/ SetLockPut(p)
    \/ WorkWithoutLock(p)

ReleaseCurrentLock(p) ==
    \/ FinishWork(p)
    \/ ReleaseLock(p)
    \/ ReleaseLastDel(p)
    \/ ReleaseLastPut(p)

\* What process p does of its own accord.
Step(p) ==
    \/ StartAgent(p)
    \/ ExitAgent(p)
    \/ GetLock(p)
    \/ ReleaseCurrentLock(p)
    \/ LeaveLocked(p)
    \/ HandleSignal(p)

Next ==
    \/ Tick
    \/ \E p \in Proc : Step(p) \/ Interrupt(p) \/ Crash(p)

Spec == Init /\ [][Next]_vars

\* The operating system runs every process, delivers every signal, and the
\* work done under a lock ends.  Nothing obliges a process to start, to ask
\* for a lock or to be signalled.
Fairness ==
    \A p \in Proc :
        /\ WF_vars(HandleSignal(p))
        /\ WF_vars(ReleaseCurrentLock(p))
        /\ WF_vars(pc[p] # "idle" /\ GetLock(p))

FairSpec == Spec /\ Fairness

-----------------------------------------------------------------------------
Location ==
    {"off", "idle", "initLastDel", "initLastPut", "checkLock", "readPid",
     "kill", "setLockDel", "setLockPut", "work", "workBare", "relLock",
     "relLastDel", "relLastPut", "exited"}

TypeOK ==
    /\ clock \in Nat
    /\ lock \in [Job -> LockData \cup {NoLock}]
    /\ last \in [Job -> Nat \cup {NoTime}]
    /\ pc \in [Proc -> Location]
    /\ start \in [Proc -> Nat]
    /\ cflock \in [Proc -> Job \cup {"", "pre-lock-state", "no_active_lock"}]
    /\ cflast \in [Proc -> Job \cup {""}]
    /\ victim \in [Proc -> Proc \cup {NoProc}]
    /\ sig \in [Proc -> BOOLEAN]
    /\ exiting \in [Proc -> BOOLEAN]
    /\ crashed \in [Proc -> BOOLEAN]

\* Process p has put its lock on j and has not yet reached the deletion.
Holds(p, j) == cflock[p] = j /\ pc[p] \in {"work", "relLock"}

(* The only leaks are the callers' early returns: the lock record of any   *)
(* other job belongs to a process that still works under it or is about to *)
(* delete it (at "relLock", perhaps from the signal handler), or that      *)
(* crashed there.  Every other path out of GetLock's success, errors and   *)
(* signals included, passes DeleteLock with the name the lock was put      *)
(* under.                                                                  *)
NoLeakedLock ==
    \A p \in Proc, j \in Job \ Leaky : lock[j].pid = p => Holds(p, j)

(* Process p is between deleting the last record of j and writing it back; *)
(* a handler that is to release j still has the writing before it.         *)
RewritesLast(p, j) ==
    /\ cflast[p] = j
    /\ pc[p] \in {"initLastPut", "relLock", "relLastDel", "relLastPut"}

(* No job is locked without a record of its last run: GetLastLock writes   *)
(* one "to prevent deadlock loops from surviving".  The record is missing  *)
(* only while some process is inside PutLock, or for good once one crashed *)
(* there.                                                                  *)
LockedJobHasLast ==
    \A j \in Job :
        lock[j] # NoLock => last[j] # NoTime \/ \E p \in Proc : RewritesLast(p, j)

(* A lock is not kept for ever: the process that put a record deletes it,  *)
(* is robbed of it by one that found it expired, or crashes.  This needs   *)
(* ReleaseCurrentLock on every path, signals and fatal errors included.    *)
LockEventuallyReleased ==
    \A p \in Proc, j \in Job \ Leaky :
        lock[j].pid = p ~> lock[j].pid # p \/ crashed[p]

=============================================================================
