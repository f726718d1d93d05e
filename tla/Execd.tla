------------------------------- MODULE Execd -------------------------------
(***************************************************************************)
(* cfexecd (src/src/cfexecd.c): daemons that start cfagent when a time     *)
(* class of the schedule holds, and the two locks they use.  The daemon    *)
(* lock has IfElapsed and ExpireAfter 0, so that a new cfexecd always      *)
(* takes it over from the old one and kills it.  The exec lock keeps runs  *)
(* ExecIfElapsed minutes apart.  GetLock and ReleaseCurrentLock are one    *)
(* step here, module Locks has their parts; what becomes of a run that has *)
(* been started is in module Report.                                       *)
(***************************************************************************)
EXTENDS Integers

CONSTANTS
    Daemon,            \* cfexecd processes
    None,              \* the pid in no lock
    ExecIfElapsed,     \* CF_EXEC_IFELAPSED, minutes
    ExecExpireAfter,   \* CF_EXEC_EXPIREAFTER, minutes
    SecondsPerMinute,  \* 60 in the code, fewer in the runs
    Period,            \* minutes after which the schedule repeats
    Schedule,          \* minutes of the period at which a class holds
    MaxStuff,          \* seconds that GetCfStuff may take
    MaxTime,           \* bound on the clock, seconds
    MaxStarts          \* bound on the daemons started, one after the other

ASSUME NoneAssumption == None \notin Daemon
ASSUME ScheduleAssumption ==
    /\ {ExecIfElapsed, ExecExpireAfter, MaxStuff, MaxTime,
       MaxStarts} \subseteq Nat
    /\ {SecondsPerMinute, Period} \subseteq Nat \ {0}
    /\ Schedule \subseteq 0 .. Period - 1

\* GetCfStuff is done before the exec lock can be granted again.
ASSUME StuffAssumption ==
    /\ MaxStuff \div SecondsPerMinute < ExecIfElapsed
    /\ ExecIfElapsed <= ExecExpireAfter

VARIABLES
    clock,   \* time(NULL)
    lock,    \* the lock records "execd" and "exec"
    last,    \* and their last records, NoTime when there is none
    pc,      \* where each daemon stands
    cflock,  \* the lock its g_cflock names
    cflast,  \* the last record its g_cflast names
    since,   \* when it began to sleep, or its GetCfStuff
    sig,     \* SIGINT or SIGTERM is pending
    begun,   \* history: when the last run that was started got its lock
    starts,  \* daemons started so far
    steady   \* history: since when each daemon has worked undisturbed

vars == <<clock, lock, last, pc, cflock, cflast, since, sig, begun, starts,
          steady>>

-----------------------------------------------------------------------------
NoTime == -1
NoLock == [pid |-> None, time |-> NoTime]
Names == {"execd", "exec"}
IfElapsed == [execd |-> 0, exec |-> ExecIfElapsed]
ExpireAfter == [execd |-> 0, exec |-> ExecExpireAfter]

Elapsed(then) == (clock - then) \div SecondsPerMinute
Alive(d) == pc[d] # "off"
Goto(d, where) == pc' = [pc EXCEPT ![d] = where]

\* The schedule of the agent holds at second t (AddTimeClass).
IsScheduled(t) == (t \div SecondsPerMinute) % Period \in Schedule

\* A window of the schedule lasts longer than the daemon sleeps, and begins
\* ExecIfElapsed minutes after the one before.
ASSUME WindowAssumption ==
    /\ \A t \in 1 .. MaxTime, u \in 1 .. MaxTime :
          /\ t < u /\ ~IsScheduled(t - 1) /\ ~IsScheduled(u)
          /\ \A v \in t .. u - 1 : IsScheduled(v)
          => u > t + SecondsPerMinute + 1
    /\ \A t \in 0 .. MaxTime, u \in 0 .. MaxTime :
          t < u /\ IsScheduled(t) /\ ~IsScheduled(u - 1) /\ IsScheduled(u)
          => u - t >= ExecIfElapsed * SecondsPerMinute

Init ==
    /\ clock = 0
    /\ lock = [n \in Names |-> NoLock]
    /\ last = [n \in Names |-> NoTime]
    /\ pc = [d \in Daemon |-> "off"]
    /\ cflock = [d \in Daemon |-> "pre-lock-state"]
    /\ cflast = [d \in Daemon |-> ""]
    /\ since = [d \in Daemon |-> 0]
    /\ sig = [d \in Daemon |-> FALSE]
    /\ begun = NoTime
    /\ starts = 0
    /\ steady = [d \in Daemon |-> 0]

\* sleep(60) and prompt steps may take a second more, not two; signals are
\* handled at once; only GetCfStuff takes its time.
Tick ==
    /\ clock < MaxTime
    /\ \A d \in Daemon :
        /\ ~sig[d]
        /\ pc[d] \notin {"boot", "getlock", "release"}
        /\ pc[d] = "sleep" => clock < since[d] + SecondsPerMinute + 1
        /\ pc[d] = "stuff" => clock < since[d] + MaxStuff
    /\ clock' = clock + 1
    /\ steady' = [d \in Daemon |->
                    IF \E e \in Daemon : pc[e] = "stuff" THEN clock'
                                                         ELSE steady[d]]
    /\ UNCHANGED <<lock, last, pc, cflock, cflast, since, sig, begun, starts>>

-----------------------------------------------------------------------------
NotElapsed(n) == last[n] # NoTime /\ Elapsed(last[n]) < IfElapsed[n]
Held(n) == lock[n] # NoLock /\ Elapsed(lock[n].time) < ExpireAfter[n]

\* A refusal by the first test leaves the last record that GetLastLock has
\* written, if there was none.
RefuseLock(d, n) ==
    /\ NotElapsed(n) \/ Held(n)
    /\ cflock' = [cflock EXCEPT ![d] = n]
    /\ cflast' = [cflast EXCEPT ![d] = n]
    /\ last' = IF last[n] = NoTime THEN [last EXCEPT ![n] = clock] ELSE last
    /\ UNCHANGED <<lock, sig>>

\* An expired lock is taken over and its holder, if it lives, is sent SIGINT.
GrantLock(d, n) ==
    /\ ~NotElapsed(n) /\ ~Held(n)
    /\ cflock' = [cflock EXCEPT ![d] = n]
    /\ cflast' = [cflast EXCEPT ![d] = n]
    /\ last' = IF last[n] = NoTime THEN [last EXCEPT ![n] = clock] ELSE last
    /\ lock' = [lock EXCEPT ![n] = [pid |-> d, time |-> clock]]
    /\ sig' = [e \in Daemon |->
                 sig[e] \/ (e # d /\ e = lock[n].pid /\ Alive(e))]

\* MUTANT of ReleaseCurrentLock: the time of the release is not recorded.
ReleaseUnrecorded(d) ==
    /\ cflast[d] # ""
    /\ lock' = [n \in Names |-> IF n = cflock[d] THEN NoLock ELSE lock[n]]
    /\ cflock' = [cflock EXCEPT ![d] = "no_active_lock"]
    /\ UNCHANGED <<last, cflast>>

\* It writes the last record of g_cflast even when g_cflock names no lock.
ReleaseCurrentLock(d) ==
    /\ cflast[d] # ""
    /\ lock' = [n \in Names |-> IF n = cflock[d] THEN NoLock ELSE lock[n]]
    /\ last' = [last EXCEPT ![cflast[d]] = clock]
    /\ cflock' = [cflock EXCEPT ![d] = "no_active_lock"]
    /\ UNCHANGED cflast

\* Another daemon may have touched the exec lock: none is undisturbed.
Disturbed == steady' = [d \in Daemon |-> clock]

-----------------------------------------------------------------------------
\* StartServer up to ActAsDaemon; the signal handlers are not installed yet.
StartServer(d) ==
    /\ ~Alive(d) /\ starts < MaxStarts
    /\ starts' = starts + 1
    /\ GrantLock(d, "execd")
    /\ Goto(d, "boot")
    /\ Disturbed
    /\ UNCHANGED <<clock, since, begun>>

\* The handlers are installed, GetCfStuff reads the schedule.
InstallHandlers(d) ==
    /\ pc[d] = "boot" /\ ~sig[d]
    /\ Goto(d, "sleep")
    /\ since' = [since EXCEPT ![d] = clock]
    /\ UNCHANGED <<clock, lock, last, cflock, cflast, sig, begun,
                   steady, starts>>

\* MUTANT of ScheduleRun: it sleeps a minute more.
ScheduleRunLate(d) ==
    /\ pc[d] = "sleep" /\ clock > since[d] + SecondsPerMinute
    /\ IF IsScheduled(clock - SecondsPerMinute)
       THEN Goto(d, "getlock") /\ UNCHANGED since
       ELSE since' = [since EXCEPT ![d] = clock] /\ UNCHANGED pc
    /\ UNCHANGED <<clock, lock, last, cflock, cflast, sig, begun,
                   steady, starts>>

\* sleep(60), then the time classes are compared with the schedule.
ScheduleRun(d) ==
    /\ pc[d] = "sleep" /\ clock >= since[d] + SecondsPerMinute
    /\ IF IsScheduled(clock)
       THEN Goto(d, "getlock") /\ UNCHANGED since
       ELSE since' = [since EXCEPT ![d] = clock] /\ UNCHANGED pc
    /\ UNCHANGED <<clock, lock, last, cflock, cflast, sig, begun,
                   steady, starts>>

ExecRefused(d) ==
    /\ pc[d] = "getlock"
    /\ RefuseLock(d, "exec")
    /\ Goto(d, "sleep")
    /\ since' = [since EXCEPT ![d] = clock]
    /\ UNCHANGED <<clock, begun, steady, starts>>

ExecGranted(d) ==
    /\ pc[d] = "getlock"
    /\ GrantLock(d, "exec")
    /\ Goto(d, "stuff")
    /\ since' = [since EXCEPT ![d] = clock]
    /\ UNCHANGED <<clock, begun, steady, starts>>

\* GetCfStuff, then pthread_create of LocalExec.
Spawn(d) ==
    /\ pc[d] = "stuff"
    /\ Goto(d, "release")
    /\ begun' = since[d]
    /\ UNCHANGED <<clock, lock, last, cflock, cflast, since, sig, steady, starts>>

\* Released as soon as the run has begun.
ReleaseExec(d) ==
    /\ pc[d] = "release"
    /\ ReleaseCurrentLock(d)
    /\ Goto(d, "sleep")
    /\ since' = [since EXCEPT ![d] = clock]
    /\ UNCHANGED <<clock, sig, begun, steady, starts>>

\* SIGTERM of the administrator or of the system that goes down.
Terminate(d) ==
    /\ Alive(d) /\ ~sig[d]
    /\ sig' = [sig EXCEPT ![d] = TRUE]
    /\ UNCHANGED <<clock, lock, last, pc, cflock, cflast, since, begun,
                   steady, starts>>

Vanish(d) ==
    /\ Goto(d, "off")
    /\ sig' = [sig EXCEPT ![d] = FALSE]
    /\ Disturbed
    /\ UNCHANGED <<clock, since, begun, starts>>

\* ExitCleanly: releases what g_cflock names, which need not be the daemon
\* lock, and exits.
ExitCleanly(d) ==
    /\ sig[d] /\ pc[d] # "boot"
    /\ ReleaseCurrentLock(d)
    /\ Vanish(d)

\* SIGKILL, a power failure, or a signal before the handlers are installed.
Crash(d) ==
    /\ Alive(d)
    /\ Vanish(d)
    /\ UNCHANGED <<lock, last, cflock, cflast>>

DaemonStep(d) ==
    \/ StartServer(d)
    \/ InstallHandlers(d)
    \/ ScheduleRun(d)
    \/ ExecRefused(d)
    \/ ExecGranted(d)
    \/ Spawn(d)
    \/ ReleaseExec(d)
    \/ Terminate(d)
    \/ ExitCleanly(d)
    \/ Crash(d)

Next ==
    \/ Tick
    \/ \E d \in Daemon : DaemonStep(d)

Spec == Init /\ [][Next]_vars

-----------------------------------------------------------------------------
\* Runs of the agent that daemons start are ExecIfElapsed minutes apart,
\* counted from when the earlier one got its lock, also when a daemon is
\* replaced, killed or crashes at any point, as long as GetCfStuff takes no
\* longer than MaxStuff.  (From when the earlier one started it may be less:
\* a daemon that was refused deletes the lock when it exits during
\* GetCfStuff, and the one that started the run crashes before its release.)
RunsSpaced ==
    [][ \A d \in Daemon :
          Spawn(d) /\ begun # NoTime => Elapsed(begun) >= ExecIfElapsed ]_vars

\* When the stretch of scheduled time that ends at the clock began.
WindowBegin ==
    CHOOSE s \in 0 .. clock - 1 :
        /\ \A t \in s .. clock - 1 : IsScheduled(t)
        /\ s = 0 \/ ~IsScheduled(s - 1)

\* No scheduled window passes without a run if a daemon has worked undisturbed
\* for ExecExpireAfter minutes before it: sleeping a minute or a little more
\* does not step over the window, and neither the run of the window before
\* nor a lock left by a crash stands in its way.
WindowServed ==
    clock > 0 /\ IsScheduled(clock - 1) /\ ~IsScheduled(clock) =>
        \A d \in Daemon :
            Alive(d) /\ steady[d] + ExecExpireAfter * SecondsPerMinute
                            <= WindowBegin
            => begun >= WindowBegin
=============================================================================
