---------------------------- MODULE LockHistory ----------------------------
(***************************************************************************)
(* What the lock protocol of Locks is for: the comment at the head of      *)
(* locks.c promises that a job is never executed twice at a time and that  *)
(* the time between two runs is counted from the end of the first.  Two    *)
(* history variables say what really happened, as opposed to what the      *)
(* database records.                                                       *)
(*                                                                         *)
(* HSpec adds them to Locks.  SerialSpec is the part of HSpec that keeps   *)
(* to three assumptions, which the code makes silently:                    *)
(*   - processes do not overlap inside GetLock and ReleaseCurrentLock and  *)
(*     do not crash there (splay times, one cfexecd per host);             *)
(*   - a signalled process runs its handler before anybody else moves;     *)
(*   - a process that was refused a lock is not interrupted, is not killed *)
(*     for a lock it left behind, and does not do mountresources, before   *)
(*     its next GetLock: g_cflock still names the lock of the process that *)
(*     made it fail.                                                       *)
(***************************************************************************)
EXTENDS Locks

VARIABLES
    granted,   \* the job whose lock GetLock gave to a process, or ""
    completed  \* who last ended the work on a job, and when (-1: nobody yet)

hvars == <<vars, granted, completed>>

Granted(p) ==
    IF pc[p] = "setLockPut" /\ pc'[p] = "work" THEN cflock[p]
    ELSE IF pc'[p] \in {"idle", "exited"} THEN ""
    ELSE granted[p]

Completes(p, j) == granted[p] = j /\ pc[p] = "work" /\ pc'[p] = "relLock" /\ ~exiting'[p]

Record ==
    /\ granted' = [p \in Proc |-> Granted(p)]
    /\ completed' = [j \in Job |->
            IF \E p \in Proc : Completes(p, j)
            THEN [pid |-> CHOOSE p \in Proc : Completes(p, j), time |-> clock]
            ELSE completed[j]]

HInit ==
    /\ Init
    /\ granted = [p \in Proc |-> ""]
    /\ completed = [j \in Job |-> NoLock]

HNext == Next /\ Record

HSpec == HInit /\ [][HNext]_hvars

-----------------------------------------------------------------------------
\* Process p is inside GetLock or ReleaseCurrentLock.
InProtocol(p) ==
    Alive(p) /\ pc[p] \notin {"idle", "work", "workBare"}

Dying(p) == Alive(p) /\ (sig[p] \/ exiting[p])

\* Whose turn it is when processes take turns: a dying process goes first,
\* then the process that is inside the protocol, then any.
Turn(p) ==
    IF \E q \in Proc : Dying(q)
    THEN Dying(p)
    ELSE \A q \in Proc \ {p} : ~InProtocol(q)

\* A release by p now would delete the lock of somebody else.
NamesForeignLock(p) == cflock[p] \in Job /\ granted[p] # cflock[p]

\* The process that p is about to kill would do so.
KillsForeignLock(p) ==
    LET v == victim[p] IN NamesForeignLock(v) /\ lock[cflock[v]].pid # v

SerialNext ==
    /\ \/ Tick
       \/ \E p \in Proc :
             /\ Turn(p)
             /\ IF sig[p] /\ ~exiting[p] THEN HandleSignal(p) ELSE Step(p)
             /\ NamesForeignLock(p) => pc'[p] # "workBare"
             /\ pc[p] = "kill" => ~KillsForeignLock(p)
       \/ \E p \in Proc :
             /\ \A q \in Proc : ~InProtocol(q)
             /\ ~NamesForeignLock(p)
             /\ Interrupt(p)
       \/ \E p \in Proc : ~InProtocol(p) /\ Crash(p)
    /\ Record

SerialSpec == HInit /\ [][SerialNext]_hvars

-----------------------------------------------------------------------------
(* locks.c:50-52, "to actually prevent execution of an atom which is       *)
(* already being executed": of two processes that were granted the same    *)
(* job and are working, one is already signalled to die.                   *)
MutualExclusion ==
    \A p, q \in Proc :
        p # q /\ granted[p] # "" /\ granted[p] = granted[q]
          => ~(Running(p, "work") /\ Running(q, "work") /\ ~sig[p] /\ ~sig[q])

(* locks.c:43-44, "the elapsed time is from the time at which the last     *)
(* operation of this type FINISHED": nobody is granted a job unless        *)
(* IfElapsed minutes lie between the end of the last run and his start.    *)
GrantedOnlyWhenDue ==
    [][\A p \in Proc, j \in Job :
          granted[p] # j /\ granted'[p] = j
            => \/ completed[j] = NoLock
               \/ Elapsed(start[p], completed[j].time) >= IfElapsed[j]]_hvars

(* locks.c:52-54, "If this lock has existed for longer than the ExpireAfter*)
(* time, the process owning the lock is killed": GetLock signals nobody    *)
(* whose lock record is younger than that.                                 *)
KillsOnlyExpired ==
    [][\A p \in Proc :
          KillOwner(p) /\ lock[cflock[p]].pid = victim[p]
            => Expired(cflock[p], start[p], lock[cflock[p]].time)]_hvars

(* locks.c:41-42, the last record "keeps the time at which is last         *)
(* completed": an existing record is only moved by a process that was      *)
(* granted the job.                                                        *)
LastMovedOnlyByWorker ==
    [][\A p \in Proc, j \in Job :
          ReleaseLastPut(p) /\ cflast[p] = j => granted[p] = j]_hvars

=============================================================================
