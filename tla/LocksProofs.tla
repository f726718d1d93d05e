---------------------------- MODULE LocksProofs ----------------------------
(***************************************************************************)
(* Proofs about Locks, for every set of processes, every set of jobs and   *)
(* every schedule.                                                         *)
(*                                                                         *)
(* The inductive invariant adds to the type invariant what GetLock keeps   *)
(* true of the two names a process holds (Names), and says that what       *)
(* LockedJobHasLast states of a locked job already holds of a job whose    *)
(* lock a process is about to take (WantedJobHasLast).  The records of     *)
(* last runs are handled by one lemma: that a job's last run is known is   *)
(* stable, because a process that deletes the record has its rewriting     *)
(* ahead of it, whatever signal it catches.                                *)
(***************************************************************************)
EXTENDS LockHistory, TLAPS

\* The process is between naming its records and putting its lock.
Taking == {"checkLock", "readPid", "kill", "setLockDel", "setLockPut"}

Names ==
    \A p \in Proc :
        /\ pc[p] \in Taking \cup {"initLastDel", "initLastPut", "work"}
              => cflock[p] \in Job /\ cflast[p] = cflock[p]
        /\ pc[p] \in {"relLock", "relLastDel", "relLastPut"} => cflast[p] \in Job

LastKnown(j) == last[j] # NoTime \/ \E p \in Proc : RewritesLast(p, j)

WantedJobHasLast ==
    \A p \in Proc : pc[p] \in Taking => LastKnown(cflock[p])

IInv ==
    /\ TypeOK
    /\ Names
    /\ NoLeakedLock
    /\ LockedJobHasLast
    /\ WantedJobHasLast

-----------------------------------------------------------------------------
LEMMA NoLockNotProc == NoLock.pid = NoProc /\ NoLock.pid \notin Proc
BY NoProcAssumption DEF NoLock

LEMMA NamesAreNoJobs ==
    "" \notin Job /\ "pre-lock-state" \notin Job /\ "no_active_lock" \notin Job
BY JobAssumption

LEMMA EpochIsTime == Epoch \in Nat
BY TimeAssumption

LEMMA ClockIsTime == clock \in Nat => clock # NoTime
BY DEF NoTime

LEMMA LockPidType ==
  ASSUME TypeOK, NEW j \in Job PROVE lock[j].pid \in Proc \cup {NoProc}
<1>1. lock[j] \in LockData \cup {NoLock}
  BY DEF TypeOK
<1>. QED
  BY <1>1 DEF LockData, NoLock

LEMMA TickIsTime == clock \in Nat /\ Tick => clock' \in Nat
BY DEF Tick

(* The initial database is empty.                                          *)
LEMMA TypeInit == Init => TypeOK
<1> SUFFICES ASSUME Init PROVE TypeOK
  OBVIOUS
<1>1. clock \in Nat
  BY EpochIsTime DEF Init
<1>2. \A p \in Proc : start[p] = 0 /\ 0 \in Nat
  BY DEF Init
<1>. QED
  BY <1>1, <1>2 DEF Init, TypeOK, Location

\* Every step keeps the types.
LEMMA TypeStep == TypeOK /\ Names /\ [Next]_vars => TypeOK'
<1> SUFFICES ASSUME TypeOK, Names, [Next]_vars PROVE TypeOK'
  OBVIOUS
<1> USE NoProcAssumption DEF TypeOK, Location, Running, Goto, LockData, NoLock
<1>1. CASE UNCHANGED vars
  BY <1>1 DEF vars
<1>2. CASE Tick
  <2>1. clock' \in Nat
    BY <1>2, TickIsTime
  <2>2. UNCHANGED <<lock, last, pc, start, cflock, cflast, victim, sig, exiting, crashed>>
    BY <1>2 DEF Tick
  <2>. QED
    BY <2>1, <2>2
<1>3. ASSUME NEW p \in Proc, NEW j \in Job, ReadLast(p, j) PROVE TypeOK'
  BY <1>3 DEF ReadLast
<1>4. ASSUME NEW p \in Proc, StartAgent(p) PROVE TypeOK'
  BY <1>4 DEF StartAgent
<1>5. ASSUME NEW p \in Proc, ExitAgent(p) PROVE TypeOK'
  BY <1>5 DEF ExitAgent
<1>6. ASSUME NEW p \in Proc, Crash(p) PROVE TypeOK'
  BY <1>6 DEF Crash
<1>7. ASSUME NEW p \in Proc, Interrupt(p) PROVE TypeOK'
  BY <1>7 DEF Interrupt
<1>8. ASSUME NEW p \in Proc, InitLastDel(p) PROVE TypeOK'
  BY <1>8 DEF InitLastDel
<1>9. ASSUME NEW p \in Proc, InitLastPut(p) PROVE TypeOK'
  BY <1>9 DEF InitLastPut
<1>10. ASSUME NEW p \in Proc, CheckOldLock(p) PROVE TypeOK'
  BY <1>10 DEF CheckOldLock
<1>11. ASSUME NEW p \in Proc, GetLockPid(p) PROVE TypeOK'
  <2>1. cflock[p] \in Job
    BY <1>11 DEF GetLockPid, Names, Taking
  <2>2. lock[cflock[p]].pid \in Proc \cup {NoProc}
    BY <2>1, LockPidType
  <2>. QED
    BY <1>11, <2>2 DEF GetLockPid
<1>12. ASSUME NEW p \in Proc, KillOwner(p) PROVE TypeOK'
  BY <1>12 DEF KillOwner, Names, Taking
<1>13. ASSUME NEW p \in Proc, KillRefused(p) PROVE TypeOK'
  BY <1>13 DEF KillRefused
<1>14. ASSUME NEW p \in Proc, SetLockDel(p) PROVE TypeOK'
  BY <1>14 DEF SetLockDel, Names, Taking
<1>15. ASSUME NEW p \in Proc, SetLockPut(p) PROVE TypeOK'
  BY <1>15 DEF SetLockPut
<1>16. ASSUME NEW p \in Proc, WorkWithoutLock(p) PROVE TypeOK'
  BY <1>16 DEF WorkWithoutLock
<1>17. ASSUME NEW p \in Proc, FinishWork(p) PROVE TypeOK'
  BY <1>17 DEF FinishWork
<1>18. ASSUME NEW p \in Proc, ReleaseLock(p) PROVE TypeOK'
  BY <1>18 DEF ReleaseLock
<1>19. ASSUME NEW p \in Proc, ReleaseLastDel(p) PROVE TypeOK'
  BY <1>19 DEF ReleaseLastDel
<1>20. ASSUME NEW p \in Proc, ReleaseLastPut(p) PROVE TypeOK'
  BY <1>20 DEF ReleaseLastPut
<1>21. ASSUME NEW p \in Proc, HandleSignal(p) PROVE TypeOK'
  BY <1>21 DEF HandleSignal
<1>22. ASSUME NEW p \in Proc, LeaveLocked(p) PROVE TypeOK'
  BY <1>22 DEF LeaveLocked
<1>23. QED
  BY <1>1, <1>2, <1>3, <1>4, <1>5, <1>6, <1>7, <1>8, <1>9, <1>10, <1>11, <1>12, <1>13, <1>14, <1>15, <1>16, <1>17, <1>18, <1>19, <1>20, <1>21, <1>22
  DEF Next, Step, GetLock, ReleaseCurrentLock

(* A process names both records before it acts on one of them.             *)
LEMMA NamesStep == TypeOK /\ Names /\ [Next]_vars => Names'
<1> SUFFICES ASSUME TypeOK, Names, [Next]_vars PROVE Names'
  OBVIOUS
<1> USE NamesAreNoJobs DEF TypeOK, Location, Running, Goto, Names, Taking
<1>1. CASE UNCHANGED vars
  BY <1>1 DEF vars
<1>2. CASE Tick
  BY <1>2 DEF Tick
<1>3. ASSUME NEW p \in Proc, NEW j \in Job, ReadLast(p, j) PROVE Names'
  BY <1>3 DEF ReadLast
<1>4. ASSUME NEW p \in Proc, StartAgent(p) PROVE Names'
  BY <1>4 DEF StartAgent
<1>5. ASSUME NEW p \in Proc, ExitAgent(p) PROVE Names'
  BY <1>5 DEF ExitAgent
<1>6. ASSUME NEW p \in Proc, Crash(p) PROVE Names'
  BY <1>6 DEF Crash
<1>7. ASSUME NEW p \in Proc, Interrupt(p) PROVE Names'
  BY <1>7 DEF Interrupt
<1>8. ASSUME NEW p \in Proc, InitLastDel(p) PROVE Names'
  BY <1>8 DEF InitLastDel
<1>9. ASSUME NEW p \in Proc, InitLastPut(p) PROVE Names'
  BY <1>9 DEF InitLastPut
<1>10. ASSUME NEW p \in Proc, CheckOldLock(p) PROVE Names'
  BY <1>10 DEF CheckOldLock
<1>11. ASSUME NEW p \in Proc, GetLockPid(p) PROVE Names'
  BY <1>11 DEF GetLockPid
<1>12. ASSUME NEW p \in Proc, KillOwner(p) PROVE Names'
  BY <1>12 DEF KillOwner
<1>13. ASSUME NEW p \in Proc, KillRefused(p) PROVE Names'
  BY <1>13 DEF KillRefused
<1>14. ASSUME NEW p \in Proc, SetLockDel(p) PROVE Names'
  BY <1>14 DEF SetLockDel
<1>15. ASSUME NEW p \in Proc, SetLockPut(p) PROVE Names'
  BY <1>15 DEF SetLockPut
<1>16. ASSUME NEW p \in Proc, WorkWithoutLock(p) PROVE Names'
  BY <1>16 DEF WorkWithoutLock
<1>17. ASSUME NEW p \in Proc, FinishWork(p) PROVE Names'
  BY <1>17 DEF FinishWork
<1>18. ASSUME NEW p \in Proc, ReleaseLock(p) PROVE Names'
  BY <1>18 DEF ReleaseLock
<1>19. ASSUME NEW p \in Proc, ReleaseLastDel(p) PROVE Names'
  BY <1>19 DEF ReleaseLastDel
<1>20. ASSUME NEW p \in Proc, ReleaseLastPut(p) PROVE Names'
  BY ZenonT(40), <1>20 DEF ReleaseLastPut
<1>21. ASSUME NEW p \in Proc, HandleSignal(p) PROVE Names'
  <2>1. pc' = [pc EXCEPT ![p] = IF cflast[p] = "" THEN "exited" ELSE "relLock"]
    BY <1>21 DEF HandleSignal
  <2>2. cflock' = cflock /\ cflast' = cflast
    BY <1>21 DEF HandleSignal
  <2>. QED
    BY <2>1, <2>2
<1>22. ASSUME NEW p \in Proc, LeaveLocked(p) PROVE Names'
  BY <1>22 DEF LeaveLocked
<1>23. QED
  BY <1>1, <1>2, <1>3, <1>4, <1>5, <1>6, <1>7, <1>8, <1>9, <1>10, <1>11, <1>12, <1>13, <1>14, <1>15, <1>16, <1>17, <1>18, <1>19, <1>20, <1>21, <1>22
  DEF Next, Step, GetLock, ReleaseCurrentLock

(* Once the last run of a job is known it stays known, but for the crash   *)
(* of a process that is rewriting it.                                      *)
LEMMA LastKnownStep ==
  ASSUME TypeOK, Names, [Next]_vars, NEW i \in Job, LastKnown(i)
  PROVE  LastKnown(i)'
<1> USE NamesAreNoJobs, ClockIsTime
    DEF TypeOK, Location, Running, Goto, Names, Taking, LastKnown, RewritesLast
<1>1. CASE UNCHANGED vars
  BY <1>1 DEF vars
<1>2. CASE Tick
  BY <1>2 DEF Tick
<1>3. ASSUME NEW p \in Proc, NEW j \in Job, ReadLast(p, j) PROVE LastKnown(i)'
  BY <1>3 DEF ReadLast
<1>4. ASSUME NEW p \in Proc, StartAgent(p) PROVE LastKnown(i)'
  BY <1>4 DEF StartAgent
<1>5. ASSUME NEW p \in Proc, ExitAgent(p) PROVE LastKnown(i)'
  BY <1>5 DEF ExitAgent
<1>6. ASSUME NEW p \in Proc, Crash(p) PROVE LastKnown(i)'
  BY <1>6 DEF Crash
<1>7. ASSUME NEW p \in Proc, Interrupt(p) PROVE LastKnown(i)'
  BY <1>7 DEF Interrupt
<1>8. ASSUME NEW p \in Proc, InitLastDel(p) PROVE LastKnown(i)'
  BY <1>8 DEF InitLastDel
<1>9. ASSUME NEW p \in Proc, InitLastPut(p) PROVE LastKnown(i)'
  <2>1. CASE cflast[p] = i
    <3>1. last'[i] = clock
      BY <1>9, <2>1 DEF InitLastPut
    <3>. QED
      BY <3>1
  <2>2. CASE cflast[p] # i
    <3>1. last'[i] = last[i] /\ cflast' = cflast
      BY <1>9, <2>2 DEF InitLastPut
    <3>2. \A q \in Proc : q # p => pc'[q] = pc[q]
      BY <1>9 DEF InitLastPut
    <3>. QED
      BY <3>1, <3>2, <2>2
  <2>. QED
    BY <2>1, <2>2
<1>10. ASSUME NEW p \in Proc, CheckOldLock(p) PROVE LastKnown(i)'
  BY <1>10 DEF CheckOldLock
<1>11. ASSUME NEW p \in Proc, GetLockPid(p) PROVE LastKnown(i)'
  BY <1>11 DEF GetLockPid
<1>12. ASSUME NEW p \in Proc, KillOwner(p) PROVE LastKnown(i)'
  BY <1>12 DEF KillOwner
<1>13. ASSUME NEW p \in Proc, KillRefused(p) PROVE LastKnown(i)'
  BY <1>13 DEF KillRefused
<1>14. ASSUME NEW p \in Proc, SetLockDel(p) PROVE LastKnown(i)'
  BY <1>14 DEF SetLockDel
<1>15. ASSUME NEW p \in Proc, SetLockPut(p) PROVE LastKnown(i)'
  BY <1>15 DEF SetLockPut
<1>16. ASSUME NEW p \in Proc, WorkWithoutLock(p) PROVE LastKnown(i)'
  BY <1>16 DEF WorkWithoutLock
<1>17. ASSUME NEW p \in Proc, FinishWork(p) PROVE LastKnown(i)'
  BY <1>17 DEF FinishWork
<1>18. ASSUME NEW p \in Proc, ReleaseLock(p) PROVE LastKnown(i)'
  BY <1>18 DEF ReleaseLock
<1>19. ASSUME NEW p \in Proc, ReleaseLastDel(p) PROVE LastKnown(i)'
  BY <1>19 DEF ReleaseLastDel
<1>20. ASSUME NEW p \in Proc, ReleaseLastPut(p) PROVE LastKnown(i)'
  <2>1. CASE cflast[p] = i
    <3>1. last'[i] = clock
      BY <1>20, <2>1 DEF ReleaseLastPut
    <3>. QED
      BY <3>1
  <2>2. CASE cflast[p] # i
    <3>1. last'[i] = last[i] /\ cflast' = cflast
      BY <1>20, <2>2 DEF ReleaseLastPut
    <3>2. \A q \in Proc : q # p => pc'[q] = pc[q]
      BY <1>20 DEF ReleaseLastPut
    <3>. QED
      BY <3>1, <3>2, <2>2
  <2>. QED
    BY <2>1, <2>2
<1>21. ASSUME NEW p \in Proc, HandleSignal(p) PROVE LastKnown(i)'
  BY ZenonT(120), <1>21 DEF HandleSignal
<1>22. ASSUME NEW p \in Proc, LeaveLocked(p) PROVE LastKnown(i)'
  BY <1>22 DEF LeaveLocked
<1>23. QED
  BY <1>1, <1>2, <1>3, <1>4, <1>5, <1>6, <1>7, <1>8, <1>9, <1>10, <1>11, <1>12, <1>13, <1>14, <1>15, <1>16, <1>17, <1>18, <1>19, <1>20, <1>21, <1>22
  DEF Next, Step, GetLock, ReleaseCurrentLock

(* Nobody puts a lock but under the name he will delete it by.             *)
LEMMA NoLeakedLockStep ==
  TypeOK /\ Names /\ NoLeakedLock /\ [Next]_vars => NoLeakedLock'
<1> SUFFICES ASSUME TypeOK, Names, NoLeakedLock, [Next]_vars,
                    NEW q \in Proc, NEW i \in Job \ Leaky, lock'[i].pid = q
             PROVE  Holds(q, i)'
  BY DEF NoLeakedLock
<1>a. /\ lock \in [Job -> LockData \cup {NoLock}]
      /\ pc \in [Proc -> Location]
      /\ cflock \in [Proc -> Job \cup {"", "pre-lock-state", "no_active_lock"}]
      /\ cflast \in [Proc -> Job \cup {""}]
  BY DEF TypeOK
<1>b. lock[i].pid = q => Holds(q, i)
  BY DEF NoLeakedLock
<1>c. /\ pc[q] \in Taking \cup {"initLastDel", "initLastPut", "work"}
            => cflock[q] \in Job /\ cflast[q] = cflock[q]
      /\ pc[q] \in {"relLock", "relLastDel", "relLastPut"} => cflast[q] \in Job
  BY DEF Names
<1> USE <1>a, <1>b, <1>c, NoLockNotProc, NamesAreNoJobs DEF Running, Goto, Taking, Holds
<1>1. CASE UNCHANGED vars
  BY <1>1 DEF vars
<1>2. CASE Tick
  BY <1>2 DEF Tick
<1>3. ASSUME NEW p \in Proc, NEW j \in Job, ReadLast(p, j) PROVE Holds(q, i)'
  BY <1>3 DEF ReadLast
<1>4. ASSUME NEW p \in Proc, StartAgent(p) PROVE Holds(q, i)'
  BY <1>4 DEF StartAgent
<1>5. ASSUME NEW p \in Proc, ExitAgent(p) PROVE Holds(q, i)'
  BY <1>5 DEF ExitAgent
<1>6. ASSUME NEW p \in Proc, Crash(p) PROVE Holds(q, i)'
  BY <1>6 DEF Crash
<1>7. ASSUME NEW p \in Proc, Interrupt(p) PROVE Holds(q, i)'
  BY <1>7 DEF Interrupt
<1>8. ASSUME NEW p \in Proc, InitLastDel(p) PROVE Holds(q, i)'
  BY <1>8 DEF InitLastDel
<1>9. ASSUME NEW p \in Proc, InitLastPut(p) PROVE Holds(q, i)'
  BY <1>9 DEF InitLastPut
<1>10. ASSUME NEW p \in Proc, CheckOldLock(p) PROVE Holds(q, i)'
  BY <1>10 DEF CheckOldLock
<1>11. ASSUME NEW p \in Proc, GetLockPid(p) PROVE Holds(q, i)'
  BY <1>11 DEF GetLockPid
<1>12. ASSUME NEW p \in Proc, KillOwner(p) PROVE Holds(q, i)'
  BY <1>12 DEF KillOwner
<1>13. ASSUME NEW p \in Proc, KillRefused(p) PROVE Holds(q, i)'
  BY <1>13 DEF KillRefused
<1>14. ASSUME NEW p \in Proc, SetLockDel(p) PROVE Holds(q, i)'
  BY <1>14 DEF SetLockDel
<1>15. ASSUME NEW p \in Proc, SetLockPut(p) PROVE Holds(q, i)'
  BY <1>15 DEF SetLockPut
<1>16. ASSUME NEW p \in Proc, WorkWithoutLock(p) PROVE Holds(q, i)'
  BY <1>16 DEF WorkWithoutLock
<1>17. ASSUME NEW p \in Proc, FinishWork(p) PROVE Holds(q, i)'
  BY <1>17 DEF FinishWork
<1>18. ASSUME NEW p \in Proc, ReleaseLock(p) PROVE Holds(q, i)'
  BY <1>18 DEF ReleaseLock
<1>19. ASSUME NEW p \in Proc, ReleaseLastDel(p) PROVE Holds(q, i)'
  BY <1>19 DEF ReleaseLastDel
<1>20. ASSUME NEW p \in Proc, ReleaseLastPut(p) PROVE Holds(q, i)'
  BY ZenonT(40), <1>20 DEF ReleaseLastPut
<1>21. ASSUME NEW p \in Proc, HandleSignal(p) PROVE Holds(q, i)'
  <2>1. pc' = [pc EXCEPT ![p] = IF cflast[p] = "" THEN "exited" ELSE "relLock"]
    BY <1>21 DEF HandleSignal
  <2>2. lock' = lock /\ cflock' = cflock
    BY <1>21 DEF HandleSignal
  <2>. QED
    BY <2>1, <2>2
<1>22. ASSUME NEW p \in Proc, LeaveLocked(p) PROVE Holds(q, i)'
  BY <1>22 DEF LeaveLocked
<1>23. QED
  BY <1>1, <1>2, <1>3, <1>4, <1>5, <1>6, <1>7, <1>8, <1>9, <1>10, <1>11, <1>12, <1>13, <1>14, <1>15, <1>16, <1>17, <1>18, <1>19, <1>20, <1>21, <1>22
  DEF Next, Step, GetLock, ReleaseCurrentLock

-----------------------------------------------------------------------------
LEMMA InitIInv == Init => IInv
<1> SUFFICES ASSUME Init PROVE IInv
  OBVIOUS
<1>1. TypeOK
  BY TypeInit
<1>2. Names /\ WantedJobHasLast
  BY DEF Init, Names, WantedJobHasLast, Taking
<1>3. NoLeakedLock /\ LockedJobHasLast
  BY NoLockNotProc DEF Init, NoLeakedLock, LockedJobHasLast
<1>. QED
  BY <1>1, <1>2, <1>3 DEF IInv

(* A process is about to take a lock because it was before, or because it  *)
(* has just found the record of the last run or made one.                  *)
LEMMA TakingStep ==
  ASSUME TypeOK, Names, [Next]_vars, NEW q \in Proc, pc'[q] \in Taking
  PROVE  \/ pc[q] \in Taking /\ cflock'[q] = cflock[q]
         \/ \E j \in Job : ReadLast(q, j)
         \/ InitLastPut(q)
<1> DEFINE Goal == \/ pc[q] \in Taking /\ cflock'[q] = cflock[q]
                   \/ \E j \in Job : ReadLast(q, j)
                   \/ InitLastPut(q)
<1> USE DEF TypeOK, Location, Running, Goto, Taking
<1>1. ASSUME UNCHANGED vars PROVE Goal
  BY <1>1 DEF vars
<1>2. ASSUME Tick PROVE Goal
  BY <1>2 DEF Tick
<1>3. ASSUME NEW p \in Proc, NEW j \in Job, ReadLast(p, j) PROVE Goal
  BY <1>3 DEF ReadLast
<1>4. ASSUME NEW p \in Proc, StartAgent(p) PROVE Goal
  BY <1>4 DEF StartAgent
<1>5. ASSUME NEW p \in Proc, ExitAgent(p) PROVE Goal
  BY <1>5 DEF ExitAgent
<1>6. ASSUME NEW p \in Proc, Crash(p) PROVE Goal
  BY <1>6 DEF Crash
<1>7. ASSUME NEW p \in Proc, Interrupt(p) PROVE Goal
  BY <1>7 DEF Interrupt
<1>8. ASSUME NEW p \in Proc, InitLastDel(p) PROVE Goal
  BY <1>8 DEF InitLastDel
<1>9. ASSUME NEW p \in Proc, InitLastPut(p) PROVE Goal
  BY <1>9 DEF InitLastPut
<1>10. ASSUME NEW p \in Proc, CheckOldLock(p) PROVE Goal
  BY <1>10 DEF CheckOldLock
<1>11. ASSUME NEW p \in Proc, GetLockPid(p) PROVE Goal
  BY <1>11 DEF GetLockPid
<1>12. ASSUME NEW p \in Proc, KillOwner(p) PROVE Goal
  BY <1>12 DEF KillOwner
<1>13. ASSUME NEW p \in Proc, KillRefused(p) PROVE Goal
  BY <1>13 DEF KillRefused
<1>14. ASSUME NEW p \in Proc, SetLockDel(p) PROVE Goal
  BY <1>14 DEF SetLockDel
<1>15. ASSUME NEW p \in Proc, SetLockPut(p) PROVE Goal
  BY <1>15 DEF SetLockPut
<1>16. ASSUME NEW p \in Proc, WorkWithoutLock(p) PROVE Goal
  BY <1>16 DEF WorkWithoutLock
<1>17. ASSUME NEW p \in Proc, FinishWork(p) PROVE Goal
  BY <1>17 DEF FinishWork
<1>18. ASSUME NEW p \in Proc, ReleaseLock(p) PROVE Goal
  BY <1>18 DEF ReleaseLock
<1>19. ASSUME NEW p \in Proc, ReleaseLastDel(p) PROVE Goal
  BY <1>19 DEF ReleaseLastDel
<1>20. ASSUME NEW p \in Proc, ReleaseLastPut(p) PROVE Goal
  BY ZenonT(40), <1>20 DEF ReleaseLastPut
<1>21. ASSUME NEW p \in Proc, HandleSignal(p) PROVE Goal
  BY ZenonT(40), <1>21 DEF HandleSignal
<1>22. ASSUME NEW p \in Proc, LeaveLocked(p) PROVE Goal
  BY <1>22 DEF LeaveLocked
<1>23. QED
  BY <1>1, <1>2, <1>3, <1>4, <1>5, <1>6, <1>7, <1>8, <1>9, <1>10, <1>11, <1>12, <1>13, <1>14, <1>15, <1>16, <1>17, <1>18, <1>19, <1>20, <1>21, <1>22
  DEF Next, Step, GetLock, ReleaseCurrentLock

(* Who is about to lock a job knows of its last run: GetLastLock has found *)
(* the record or made one.                                                 *)
LEMMA WantedJobHasLastStep == IInv /\ [Next]_vars => WantedJobHasLast'
<1> SUFFICES ASSUME IInv, [Next]_vars, NEW q \in Proc, pc'[q] \in Taking
             PROVE  LastKnown(cflock[q])'
  BY DEF WantedJobHasLast
<1>1. TypeOK /\ Names /\ WantedJobHasLast
  BY DEF IInv
<1>2. CASE pc[q] \in Taking /\ cflock'[q] = cflock[q]
  <2>1. cflock[q] \in Job /\ LastKnown(cflock[q])
    BY <1>1, <1>2 DEF Names, WantedJobHasLast
  <2>2. ASSUME NEW i \in Job, LastKnown(i) PROVE LastKnown(i)'
    BY <1>1, <2>2, LastKnownStep
  <2>3. ASSUME NEW i \in Job, i = cflock[q], i = cflock'[q] PROVE LastKnown(cflock[q])'
    <3>1. LastKnown(i)'
      BY <2>1, <2>2, <2>3
    <3>. QED
      BY <2>3, <3>1 DEF LastKnown
  <2>. QED
    BY <1>2, <2>1, <2>3
<1>3. ASSUME NEW j \in Job, ReadLast(q, j) PROVE LastKnown(cflock[q])'
  <2>1. cflock'[q] = j /\ last' = last
    BY <1>1, <1>3 DEF ReadLast, TypeOK
  <2>2. last[j] # NoTime
    BY <1>1, <1>3 DEF ReadLast, TypeOK, Goto, Taking
  <2>. QED
    BY <2>1, <2>2 DEF LastKnown
<1>4. CASE InitLastPut(q)
  <2>1. cflock[q] \in Job /\ cflast[q] = cflock[q]
    BY <1>1, <1>4 DEF InitLastPut, Running, Names
  <2>2. clock # NoTime
    BY <1>1, ClockIsTime DEF TypeOK
  <2>3. cflock' = cflock /\ last'[cflock[q]] = clock
    BY <1>1, <1>4, <2>1 DEF InitLastPut, TypeOK
  <2>. QED
    BY <2>2, <2>3 DEF LastKnown
<1>. QED
  BY <1>1, <1>2, <1>3, <1>4, TakingStep

(* A lock that is there was there before, or has just been put.            *)
LEMMA LockedJobHasLastStep == IInv /\ [Next]_vars => LockedJobHasLast'
<1> SUFFICES ASSUME IInv, [Next]_vars, NEW i \in Job, lock'[i] # NoLock
             PROVE  LastKnown(i)'
  BY DEF LockedJobHasLast, LastKnown
<1>1. TypeOK /\ Names /\ WantedJobHasLast /\ LockedJobHasLast
  BY DEF IInv
<1>2. CASE lock[i] # NoLock
  <2>1. LastKnown(i)
    BY <1>1, <1>2 DEF LockedJobHasLast, LastKnown
  <2>. QED
    BY <1>1, <2>1, LastKnownStep
<1>3. CASE lock[i] = NoLock
  <2>1. PICK p \in Proc : SetLockPut(p)
    <3>1. lock' # lock
      BY <1>3
    <3>2. \A p \in Proc : ~SetLockDel(p) /\ ~ReleaseLock(p)
      BY <1>1, <1>3 DEF SetLockDel, ReleaseLock, TypeOK
    <3>. QED
      BY <3>1, <3>2 DEF Next, Step, GetLock, ReleaseCurrentLock, vars, Tick,
         StartAgent, ExitAgent, Crash, Interrupt, ReadLast, InitLastDel,
         InitLastPut, CheckOldLock, GetLockPid, KillOwner, KillRefused,
         WorkWithoutLock, FinishWork, LeaveLocked, ReleaseLastDel, ReleaseLastPut, HandleSignal
  <2>2. cflock[p] = i
    BY <1>1, <1>3, <2>1 DEF SetLockPut, TypeOK
  <2>3. pc[p] \in Taking
    BY <2>1 DEF SetLockPut, Running, Taking
  <2>4. LastKnown(i)
    BY <1>1, <2>2, <2>3 DEF WantedJobHasLast
  <2>. QED
    BY <1>1, <2>4, LastKnownStep
<1>. QED
  BY <1>2, <1>3

LEMMA StepIInv == IInv /\ [Next]_vars => IInv'
BY TypeStep, NamesStep, NoLeakedLockStep, WantedJobHasLastStep, LockedJobHasLastStep
   DEF IInv

THEOREM InvariantHolds == Spec => []IInv
BY InitIInv, StepIInv, PTL DEF Spec

(* Every value a process or the database holds is of the kind the code     *)
(* gives it: g_cflock and g_cflast name a job or one of the placeholders,  *)
(* records hold a process and a time.                                      *)
THEOREM TypeCorrect == Spec => []TypeOK
BY InvariantHolds, PTL DEF IInv

(* But for the early returns of leaky jobs, a lock record never outlives   *)
(* its owner's work: DeleteLock is ahead of the process that put it on     *)
(* every path, signals and fatal errors included.                          *)
THEOREM LocksNeverLeak == Spec => []NoLeakedLock
BY InvariantHolds, PTL DEF IInv

(* A locked job has a record of its last run, or somebody is just writing  *)
(* it: GetLastLock's "deadlock loops" cannot survive.                      *)
THEOREM LockedImpliesLast == Spec => []LockedJobHasLast
BY InvariantHolds, PTL DEF IInv

---------------------------------------------------------------------------
(***************************************************************************)
(* Proofs about LockHistory: when processes take turns as SerialSpec says, *)
(* the lock protocol keeps the promises of the comment at the head of      *)
(* locks.c, for every number of processes, every set of jobs and every     *)
(* schedule.                                                               *)
(*                                                                         *)
(* The database knows less than the history: a lock record may be missing  *)
(* or stale.  The heart of the invariant is therefore that the record of a *)
(* job somebody works on is his (Owned), and that nobody who is about to   *)
(* delete or overwrite a record, in GetLock or in a handler, names such a  *)
(* job (TakersApart, DyingApart).  The rest says why a process that is     *)
(* about to take a lock may do so: what it read is still true, because     *)
(* nobody else moves in between (Quiet, SeenExpired, Remembered, Due).     *)
(***************************************************************************)

\* The process still reads records; it has not yet decided to take the lock.
Reading == {"initLastDel", "initLastPut", "checkLock", "readPid", "kill"}
Putting == {"setLockDel", "setLockPut"}
Releasing == {"relLock", "relLastDel", "relLastPut"}

\* Process p does the job j, and nobody has told it to stop.
Works(p, j) ==
    /\ granted[p] = j
    /\ pc[p] \in {"work", "relLock"}
    /\ Alive(p) /\ ~sig[p] /\ ~exiting[p]

HistoryType ==
    /\ granted \in [Proc -> Job \cup {""}]
    /\ completed \in [Job -> LockData \cup {NoLock}]
    /\ \A j \in Job : completed[j].time <= clock

\* Where the two flags of a process may be set, and what GetLock gave it.
Flags ==
    \A p \in Proc :
        /\ exiting[p] => pc[p] \in Releasing \cup {"exited"}
        /\ crashed[p] => pc[p] \in {"idle", "work", "workBare"}

Grants ==
    \A p \in Proc :
        /\ pc[p] = "work" => granted[p] = cflock[p]
        /\ pc[p] = "workBare" => cflock[p] \notin Job
        /\ pc[p] = "relLock" /\ ~exiting[p] /\ cflock[p] \in Job
              => granted[p] = cflock[p]
        /\ pc[p] \notin Releasing \cup {"work"} => granted[p] = ""

Owned == \A p \in Proc, j \in Job : Works(p, j) => lock[j].pid = p

DyingApart ==
    \A r, p \in Proc, j \in Job : Dying(r) /\ cflock[r] = j => ~Works(p, j)

TakersApart ==
    \A r, p \in Proc, j \in Job :
        Alive(r) /\ pc[r] \in Putting /\ cflock[r] = j => ~Works(p, j)

\* Nobody dies while somebody reads records.
Quiet ==
    \A q, r \in Proc : Alive(q) /\ pc[q] \in Reading => ~Dying(r)

SeenExpired ==
    \A q \in Proc, j \in Job :
        Alive(q) /\ cflock[q] = j =>
            /\ pc[q] = "kill" => victim[q] = lock[j].pid
            /\ pc[q] \in {"readPid", "kill"} =>
                   /\ lock[j].time # NoTime
                   /\ Expired(j, start[q], lock[j].time)

\* Process p is about to write when j was last completed.
WillWriteLast(p, j) == Alive(p) /\ cflast[p] = j /\ pc[p] \in Releasing

Remembered ==
    \A j \in Job :
        completed[j] # NoLock =>
            \/ last[j] # NoTime /\ completed[j].time <= last[j]
            \/ \E p \in Proc : WillWriteLast(p, j)

IsDue(q, j) ==
    \/ completed[j] = NoLock
    \/ Elapsed(start[q], completed[j].time) >= IfElapsed[j]

Due ==
    \A q \in Proc, j \in Job :
        cflock[q] = j =>
            /\ pc[q] \in {"initLastDel", "initLastPut"} => completed[j] = NoLock
            /\ pc[q] \in Taking => IsDue(q, j)

SerialInv ==
    /\ TypeOK /\ Names
    /\ HistoryType /\ Flags /\ Grants
    /\ Owned /\ DyingApart /\ TakersApart
    /\ Quiet /\ SeenExpired
    /\ Remembered /\ Due

-----------------------------------------------------------------------------
(* Division of C, for every divisor the code may be built with.            *)

LEMMA QuotientMonotone ==
  ASSUME NEW b \in Nat \ {0}, NEW x \in Int, NEW y \in Int, x <= y
  PROVE  Quotient(x, b) <= Quotient(y, b)
BY DEF Quotient

LEMMA QuotientType ==
  ASSUME NEW b \in Nat \ {0}, NEW x \in Int PROVE Quotient(x, b) \in Int
BY DEF Quotient

(* More time has passed since an earlier moment.                           *)
LEMMA ElapsedSinceEarlier ==
  ASSUME NEW now \in Nat, NEW then \in Int, NEW before \in Int, before <= then,
         NEW j \in Job, Scheduled(j, now, then)
  PROVE  Elapsed(now, before) >= IfElapsed[j]
<1>1. SecondsPerMinute \in Nat \ {0} /\ IfElapsed[j] \in Nat
  BY TimeAssumption, ScheduleAssumption
<1>2. now - then <= now - before /\ now - then \in Int /\ now - before \in Int
  OBVIOUS
<1>3. Elapsed(now, then) <= Elapsed(now, before)
  BY <1>1, <1>2, QuotientMonotone DEF Elapsed
<1>4. Elapsed(now, then) \in Int /\ Elapsed(now, before) \in Int
  BY <1>1, <1>2, QuotientType DEF Elapsed
<1>. QED
  BY <1>1, <1>3, <1>4 DEF Scheduled

-----------------------------------------------------------------------------
(* What a step is.                                                         *)

LEMMA SerialIsNext == SerialNext => Next
BY DEF SerialNext, Next, Step

\* A process on its way out: its handler, and the release the handler does.
DyingStep(p) ==
    /\ Dying(p)
    /\ \/ HandleSignal(p)
       \/ exiting[p] /\ ReleaseLock(p)
       \/ exiting[p] /\ ReleaseLastDel(p)
       \/ exiting[p] /\ ReleaseLastPut(p)

\* Nobody is on his way out, and nobody else is inside the protocol.
Alone(p) ==
    /\ \A q \in Proc : ~Dying(q)
    /\ \A q \in Proc \ {p} : ~InProtocol(q)

LivingStep(p) ==
    /\ Alone(p)
    /\ StartAgent(p) \/ ExitAgent(p) \/ GetLock(p) \/ ReleaseCurrentLock(p) \/ LeaveLocked(p)
    /\ WorkWithoutLock(p) => ~NamesForeignLock(p)
    /\ KillOwner(p) => ~KillsForeignLock(p)

LEMMA SerialCases ==
  ASSUME TypeOK, Flags, SerialNext
  PROVE  /\ Record
         /\ \/ Tick
            \/ \E p \in Proc : DyingStep(p)
            \/ \E p \in Proc : LivingStep(p)
            \/ \E p \in Proc : Interrupt(p) /\ ~NamesForeignLock(p)
                               /\ \A q \in Proc : ~InProtocol(q)
            \/ \E p \in Proc : Crash(p) /\ ~InProtocol(p)
<1>1. Record
  BY DEF SerialNext
<1>2. ASSUME NEW p \in Proc, Turn(p),
             IF sig[p] /\ ~exiting[p] THEN HandleSignal(p) ELSE Step(p),
             NamesForeignLock(p) => pc'[p] # "workBare",
             pc[p] = "kill" => ~KillsForeignLock(p)
      PROVE  DyingStep(p) \/ LivingStep(p)
  <2>1. CASE Dying(p)
    <3>1. CASE sig[p] /\ ~exiting[p]
      BY <1>2, <2>1, <3>1 DEF DyingStep
    <3>2. CASE exiting[p]
      <4>1. Step(p) /\ pc[p] \in Releasing
        BY <1>2, <2>1, <3>2 DEF Flags, Dying, Alive
      <4>. QED
        BY <2>1, <3>2, <4>1 DEF DyingStep, Step, GetLock, ReleaseCurrentLock,
           Releasing, Running, StartAgent, ExitAgent, ReadLast, InitLastDel,
           InitLastPut, CheckOldLock, GetLockPid, KillOwner, KillRefused,
           SetLockDel, SetLockPut, WorkWithoutLock, FinishWork, LeaveLocked
    <3>. QED
      BY <2>1, <3>1, <3>2 DEF Dying
  <2>2. CASE ~Dying(p)
    <3>1. Alone(p)
      BY <1>2, <2>2 DEF Turn, Alone
    <3>2. ~HandleSignal(p)
      BY <2>2 DEF HandleSignal, Dying
    <3>3. StartAgent(p) \/ ExitAgent(p) \/ GetLock(p) \/ ReleaseCurrentLock(p) \/ LeaveLocked(p)
      BY <1>2, <3>2 DEF Step
    <3>4. WorkWithoutLock(p) => pc'[p] = "workBare"
      BY DEF WorkWithoutLock, Goto, TypeOK
    <3>5. KillOwner(p) => pc[p] = "kill"
      BY DEF KillOwner, Running
    <3>. QED
      BY <1>2, <3>1, <3>3, <3>4, <3>5 DEF LivingStep
  <2>. QED
    BY <2>1, <2>2
<1>. QED
  BY <1>1, <1>2 DEF SerialNext

(* The history of a process changes only with its own pc.                  *)
LEMMA GrantedStep ==
  ASSUME HistoryType, Grants, Record, NEW p \in Proc
  PROVE  /\ pc'[p] = pc[p] => granted'[p] = granted[p]
         /\ pc'[p] \in {"idle", "exited"} => granted'[p] = ""
         /\ pc[p] = "setLockPut" /\ pc'[p] = "work" => granted'[p] = cflock[p]
         /\ pc'[p] \notin {"idle", "exited"} /\ ~(pc[p] = "setLockPut" /\ pc'[p] = "work")
               => granted'[p] = granted[p]
<1>1. granted'[p] = Granted(p)
  BY DEF Record
<1>2. pc[p] \in {"idle", "exited"} => granted[p] = ""
  BY DEF Grants, Releasing
<1>. QED
  BY <1>1, <1>2 DEF Granted

LEMMA CompletedStep ==
  ASSUME HistoryType, Record, clock \in Nat, NEW j \in Job
  PROVE  \/ completed'[j] = completed[j]
         \/ \E p \in Proc : Completes(p, j) /\ completed'[j] = [pid |-> p, time |-> clock]
<1>1. completed'[j] = IF \E p \in Proc : Completes(p, j)
                        THEN [pid |-> CHOOSE p \in Proc : Completes(p, j), time |-> clock]
                        ELSE completed[j]
  BY DEF Record
<1>2. CASE \E p \in Proc : Completes(p, j)
  <2>1. PICK p \in Proc : p = CHOOSE q \in Proc : Completes(q, j)
    BY <1>2
  <2>2. Completes(p, j)
    BY <1>2, <2>1
  <2>. QED
    BY <1>1, <1>2, <2>1, <2>2
<1>. QED
  BY <1>1, <1>2

(* Every step is of one process, and touches another one only by a signal. *)
Untouched(q) ==
    /\ pc'[q] = pc[q] /\ start'[q] = start[q] /\ victim'[q] = victim[q]
    /\ cflock'[q] = cflock[q] /\ cflast'[q] = cflast[q]
    /\ exiting'[q] = exiting[q] /\ crashed'[q] = crashed[q]

LEMMA DyingTouches ==
  ASSUME TypeOK, NEW p \in Proc, DyingStep(p), NEW q \in Proc, q # p
  PROVE  Untouched(q) /\ sig'[q] = sig[q]
<1> USE DEF TypeOK, Goto, Untouched
<1>1. CASE HandleSignal(p)
  BY <1>1 DEF HandleSignal
<1>2. CASE ReleaseLock(p)
  BY <1>2 DEF ReleaseLock
<1>3. CASE ReleaseLastDel(p) \/ ReleaseLastPut(p)
  BY <1>3 DEF ReleaseLastDel, ReleaseLastPut
<1>. QED
  BY <1>1, <1>2, <1>3 DEF DyingStep

LEMMA LivingTouches ==
  ASSUME TypeOK, NEW p \in Proc, LivingStep(p), NEW q \in Proc, q # p
  PROVE  Untouched(q) /\ (sig'[q] = sig[q] \/ (KillOwner(p) /\ victim[p] = q))
<1> USE DEF TypeOK, Goto, Untouched
<1>1. CASE StartAgent(p) \/ ExitAgent(p) \/ LeaveLocked(p) \/ ReleaseCurrentLock(p)
  BY <1>1 DEF StartAgent, ExitAgent, LeaveLocked, ReleaseCurrentLock, FinishWork,
     ReleaseLock, ReleaseLastDel, ReleaseLastPut
<1>2. ASSUME NEW j \in Job, ReadLast(p, j)
      PROVE  Untouched(q) /\ (sig'[q] = sig[q] \/ (KillOwner(p) /\ victim[p] = q))
  BY <1>2 DEF ReadLast
<1>3. CASE InitLastDel(p) \/ InitLastPut(p) \/ CheckOldLock(p) \/ GetLockPid(p)
           \/ KillRefused(p) \/ SetLockDel(p) \/ SetLockPut(p) \/ WorkWithoutLock(p)
  BY <1>3 DEF InitLastDel, InitLastPut, CheckOldLock, GetLockPid, KillRefused,
     SetLockDel, SetLockPut, WorkWithoutLock
<1>4. CASE KillOwner(p)
  BY <1>4 DEF KillOwner
<1>. QED
  BY <1>1, <1>2, <1>3, <1>4 DEF LivingStep, GetLock

-----------------------------------------------------------------------------
LEMMA SerialInit == HInit => SerialInv
<1> SUFFICES ASSUME HInit PROVE SerialInv
  OBVIOUS
<1>1. TypeOK /\ Names
  BY InitIInv DEF HInit, IInv
<1>2. HistoryType
  <2>1. clock \in Nat
    BY <1>1 DEF TypeOK
  <2>2. NoLock.time <= clock
    BY <2>1 DEF NoLock, NoTime
  <2>. QED
    BY <2>2 DEF HInit, HistoryType
<1>3. \A p \in Proc : ~Alive(p) /\ pc[p] = "off" /\ ~exiting[p] /\ ~crashed[p]
  BY DEF HInit, Init, Alive
<1>4. Flags /\ Grants
  BY <1>3 DEF HInit, Flags, Grants, Releasing
<1>5. Owned /\ DyingApart /\ TakersApart /\ Quiet /\ SeenExpired
  BY <1>3 DEF Owned, DyingApart, TakersApart, Quiet, SeenExpired, Works, Dying
<1>6. Remembered /\ Due
  BY <1>3 DEF HInit, Remembered, Due, Taking
<1>. QED
  BY <1>1, <1>2, <1>4, <1>5, <1>6 DEF SerialInv

LEMMA HistoryTypeStep ==
  ASSUME SerialInv, SerialNext PROVE HistoryType'
<1>1. TypeOK /\ TypeOK' /\ HistoryType /\ Grants /\ Record
  BY TypeStep, SerialIsNext DEF SerialInv, SerialNext
<1>2. clock \in Nat /\ clock' \in Nat /\ clock <= clock'
  <2>1. ASSUME NEW p \in Proc, GetLock(p) PROVE clock' = clock
    <3>1. ASSUME NEW j \in Job, ReadLast(p, j) PROVE clock' = clock
      BY <3>1 DEF ReadLast
    <3>. QED
      BY <2>1, <3>1 DEF GetLock, InitLastDel, InitLastPut, CheckOldLock,
         GetLockPid, KillOwner, KillRefused, SetLockDel, SetLockPut, WorkWithoutLock
  <2>2. ASSUME NEW p \in Proc, ReleaseCurrentLock(p) PROVE clock' = clock
    BY <2>2 DEF ReleaseCurrentLock, FinishWork, ReleaseLock, ReleaseLastDel,
       ReleaseLastPut
  <2>3. ASSUME NEW p \in Proc, StartAgent(p) \/ ExitAgent(p) \/ Crash(p)
               \/ Interrupt(p) \/ LeaveLocked(p) \/ HandleSignal(p)
        PROVE  clock' = clock
    BY <2>3 DEF StartAgent, ExitAgent, Crash, Interrupt, LeaveLocked, HandleSignal
  <2>4. clock' = clock \/ Tick
    BY <2>1, <2>2, <2>3, SerialIsNext DEF Next, Step
  <2>5. clock \in Nat /\ clock' \in Nat
    BY <1>1 DEF TypeOK
  <2>. QED
    BY <2>4, <2>5 DEF Tick
<1>3. granted' \in [Proc -> Job \cup {""}]
  <2>1. ASSUME NEW p \in Proc PROVE Granted(p) \in Job \cup {""}
    <3>1. granted[p] \in Job \cup {""}
      BY <1>1 DEF HistoryType
    <3>2. pc[p] = "setLockPut" => cflock[p] \in Job
      BY DEF SerialInv, Names, Taking
    <3>. QED
      BY <3>1, <3>2 DEF Granted
  <2>. QED
    BY <1>1, <2>1 DEF Record
<1>4. ASSUME NEW j \in Job
      PROVE  completed'[j] \in LockData \cup {NoLock} /\ completed'[j].time <= clock'
  <2>1. completed[j] \in LockData \cup {NoLock} /\ completed[j].time <= clock
    BY <1>1 DEF HistoryType
  <2>2. completed[j].time \in Int
    BY <2>1 DEF LockData, NoLock, NoTime
  <2>3. CASE completed'[j] = completed[j]
    BY <1>2, <2>1, <2>2, <2>3
  <2>4. ASSUME NEW p \in Proc, completed'[j] = [pid |-> p, time |-> clock]
        PROVE  completed'[j] \in LockData /\ completed'[j].time <= clock'
    BY <1>2, <2>4 DEF LockData
  <2>. QED
    BY <1>1, <1>2, <2>3, <2>4, CompletedStep
<1>5. completed' = [j \in Job |-> completed'[j]]
  BY <1>1 DEF Record
<1>. QED
  BY <1>3, <1>4, <1>5 DEF HistoryType

(* A living process that moves is neither dead nor on its way out, and     *)
(* only FatalError sets it on that way.                                    *)
LEMMA LivingSelf ==
  ASSUME TypeOK, Flags, NEW p \in Proc, LivingStep(p)
  PROVE  /\ crashed' = crashed /\ ~crashed[p] /\ ~exiting[p]
         /\ \/ StartAgent(p) /\ pc'[p] = "idle"
            \/ Alive(p) /\ ~sig[p]
         /\ exiting' = exiting \/ (KillRefused(p) /\ pc'[p] = "relLock")
         /\ sig' = sig \/ (KillOwner(p) /\ pc'[p] = "setLockDel")
<1>1. ASSUME Alive(p) PROVE ~crashed[p] /\ ~sig[p] /\ ~exiting[p]
  BY <1>1 DEF LivingStep, Alone, Dying, Alive
<1>2. CASE StartAgent(p)
  BY <1>2 DEF StartAgent, Flags, Releasing, Goto, TypeOK
<1>3. CASE ExitAgent(p) \/ LeaveLocked(p)
  BY <1>1, <1>3 DEF ExitAgent, LeaveLocked, Running
<1>4. CASE ReleaseCurrentLock(p)
  BY <1>1, <1>4 DEF ReleaseCurrentLock, FinishWork, ReleaseLock, ReleaseLastDel,
     ReleaseLastPut, Running
<1>5. ASSUME NEW j \in Job, ReadLast(p, j)
      PROVE  Alive(p) /\ crashed' = crashed /\ exiting' = exiting /\ sig' = sig
  BY <1>5 DEF ReadLast, Running
<1>6. CASE InitLastDel(p) \/ InitLastPut(p) \/ CheckOldLock(p) \/ GetLockPid(p)
           \/ SetLockDel(p) \/ SetLockPut(p) \/ WorkWithoutLock(p)
  BY <1>1, <1>6 DEF InitLastDel, InitLastPut, CheckOldLock, GetLockPid,
     SetLockDel, SetLockPut, WorkWithoutLock, Running
<1>7. CASE KillOwner(p) \/ KillRefused(p)
  BY <1>1, <1>7 DEF KillOwner, KillRefused, Running, Goto, TypeOK
<1>. QED
  BY <1>1, <1>2, <1>3, <1>4, <1>5, <1>6, <1>7 DEF LivingStep, GetLock

LEMMA FlagsStep ==
  ASSUME SerialInv, SerialNext PROVE Flags'
<1> DEFINE Kept(q) == /\ exiting[q] => pc[q] \in Releasing \cup {"exited"}
                      /\ crashed[q] => pc[q] \in {"idle", "work", "workBare"}
<1> SUFFICES ASSUME NEW q \in Proc PROVE Kept(q)'
  BY DEF Flags
<1>1. TypeOK /\ Names /\ Flags
  BY DEF SerialInv
<1>2. Kept(q)
  BY <1>1 DEF Flags
<1>3. CASE Tick
  BY <1>2, <1>3 DEF Tick
<1>4. ASSUME NEW p \in Proc, DyingStep(p) PROVE Kept(q)'
  <2>1. CASE q # p
    BY <1>1, <1>2, <1>4, <2>1, DyingTouches DEF Untouched
  <2>2. CASE q = p
    <3>1. ~crashed[p]
      BY <1>4 DEF DyingStep, Dying, Alive
    <3>2. crashed' = crashed /\ pc'[p] \in Releasing \cup {"exited"}
      BY ZenonT(40), <1>1, <1>4 DEF DyingStep, HandleSignal, ReleaseLock, ReleaseLastDel,
         ReleaseLastPut, Goto, TypeOK, Releasing
    <3>. QED
      BY <2>2, <3>1, <3>2
  <2>. QED
    BY <2>1, <2>2
<1>5. ASSUME NEW p \in Proc, LivingStep(p) PROVE Kept(q)'
  <2>1. CASE q # p
    BY <1>1, <1>2, <1>5, <2>1, LivingTouches DEF Untouched
  <2>2. CASE q = p
    BY <1>1, <1>5, <2>2, LivingSelf DEF Releasing
  <2>. QED
    BY <2>1, <2>2
<1>6. ASSUME NEW p \in Proc, Interrupt(p) PROVE Kept(q)'
  BY <1>2, <1>6 DEF Interrupt
<1>7. ASSUME NEW p \in Proc, Crash(p), ~InProtocol(p) PROVE Kept(q)'
  BY <1>1, <1>2, <1>7 DEF Crash, InProtocol, TypeOK
<1>. QED
  BY <1>1, <1>3, <1>4, <1>5, <1>6, <1>7, SerialCases

(* Where a living process can go from where it is.                         *)
LEMMA LivingMoves ==
  ASSUME TypeOK, NEW p \in Proc, LivingStep(p)
  PROVE  /\ pc'[p] = "work" => SetLockPut(p)
         /\ pc'[p] = "workBare" => WorkWithoutLock(p)
         /\ pc'[p] = "relLock" => FinishWork(p) \/ KillRefused(p)
         /\ pc'[p] = "relLastDel" => ReleaseLock(p)
         /\ pc'[p] = "relLastPut" => ReleaseLastDel(p)
         /\ pc'[p] \in Putting => CheckOldLock(p) \/ GetLockPid(p) \/ KillOwner(p)
                                  \/ SetLockDel(p)
         /\ pc'[p] = "kill" => GetLockPid(p)
         /\ pc'[p] = "readPid" => CheckOldLock(p)
         /\ pc'[p] = "initLastPut" => InitLastDel(p)
         /\ pc'[p] \in {"initLastDel", "checkLock"}
                => InitLastPut(p) \/ \E j \in Job : ReadLast(p, j)
         /\ pc'[p] \in {"idle", "exited"} \/ pc'[p] # pc[p]
<1> USE DEF TypeOK, Goto, Running, Putting
<1>1. CASE StartAgent(p) \/ ExitAgent(p) \/ LeaveLocked(p)
  BY <1>1 DEF StartAgent, ExitAgent, LeaveLocked
<1>2. CASE FinishWork(p)
  <2>1. pc'[p] \in {"idle", "relLock"} /\ pc[p] \in {"work", "workBare"}
    BY <1>2 DEF FinishWork
  <2>. QED
    BY <1>2, <2>1
<1>3. CASE ReleaseLock(p) \/ ReleaseLastDel(p) \/ ReleaseLastPut(p)
  BY ZenonT(120), <1>3 DEF ReleaseLock, ReleaseLastDel, ReleaseLastPut
<1>4. ASSUME NEW j \in Job, ReadLast(p, j)
      PROVE  pc[p] = "idle" /\ pc'[p] \in {"idle", "initLastDel", "checkLock"}
  BY <1>4 DEF ReadLast
<1>5. CASE InitLastDel(p) \/ GetLockPid(p) \/ KillOwner(p) \/ KillRefused(p)
           \/ SetLockDel(p) \/ SetLockPut(p) \/ WorkWithoutLock(p)
  BY ZenonT(40), <1>5 DEF InitLastDel, GetLockPid, KillOwner, KillRefused, SetLockDel,
     SetLockPut, WorkWithoutLock
<1>6. CASE InitLastPut(p)
  <2>1. pc'[p] \in {"idle", "checkLock"} /\ pc[p] = "initLastPut"
    BY <1>6 DEF InitLastPut
  <2>. QED
    BY <1>6, <2>1
<1>7. CASE CheckOldLock(p)
  <2>1. pc'[p] \in {"idle", "readPid", "setLockDel"} /\ pc[p] = "checkLock"
    BY <1>7 DEF CheckOldLock
  <2>. QED
    BY <1>7, <2>1
<1>. QED
  BY <1>1, <1>2, <1>3, <1>4, <1>5, <1>6, <1>7
  DEF LivingStep, GetLock, ReleaseCurrentLock

LEMMA GrantsStep ==
  ASSUME SerialInv, SerialNext PROVE Grants'
<1> DEFINE Kept(q) ==
      /\ pc[q] = "work" => granted[q] = cflock[q]
      /\ pc[q] = "workBare" => cflock[q] \notin Job
      /\ pc[q] = "relLock" /\ ~exiting[q] /\ cflock[q] \in Job
            => granted[q] = cflock[q]
      /\ pc[q] \notin Releasing \cup {"work"} => granted[q] = ""
<1> SUFFICES ASSUME NEW q \in Proc PROVE Kept(q)'
  BY DEF Grants
<1>1. TypeOK /\ HistoryType /\ Flags /\ Grants /\ Record
  BY DEF SerialInv, SerialNext
<1>2. Kept(q)
  BY <1>1 DEF Grants
<1>3. ASSUME Untouched(q) PROVE Kept(q)'
  BY <1>1, <1>2, <1>3, GrantedStep DEF Untouched
<1>4. CASE Tick
  BY <1>3, <1>4 DEF Tick, Untouched
<1>5. ASSUME NEW p \in Proc, DyingStep(p) PROVE Kept(q)'
  <2>1. CASE q = p
    <3>1. exiting'[p] /\ pc'[p] \in Releasing \cup {"exited"}
      BY ZenonT(40), <1>1, <1>5 DEF DyingStep, HandleSignal, ReleaseLock, ReleaseLastDel,
         ReleaseLastPut, Goto, TypeOK, Releasing
    <3>. QED
      BY <1>1, <2>1, <3>1, GrantedStep DEF Releasing
  <2>. QED
    BY <1>1, <1>3, <1>5, <2>1, DyingTouches
<1>6. ASSUME NEW p \in Proc, LivingStep(p) PROVE Kept(q)'
  <2>1. ASSUME q = p PROVE Kept(p)'
    <3>1. pc'[p] = "work" => granted'[p] = cflock'[p]
      BY <1>1, <1>6, GrantedStep, LivingMoves DEF SetLockPut, Running
    <3>2. pc'[p] = "workBare" => cflock'[p] \notin Job
      <4>1. CASE WorkWithoutLock(p)
        <5>1. pc[p] = "idle" /\ cflock' = cflock
          BY <4>1 DEF WorkWithoutLock, Running
        <5>. QED
          BY <1>1, <1>6, <4>1, <5>1, NamesAreNoJobs
          DEF LivingStep, NamesForeignLock, Grants, Releasing
      <4>. QED
        BY <1>1, <1>6, <4>1, LivingMoves
    <3>3. pc'[p] = "relLock" /\ ~exiting'[p] /\ cflock'[p] \in Job
             => granted'[p] = cflock'[p]
      <4>1. CASE FinishWork(p)
        <5>1. pc[p] \in {"work", "workBare"} /\ cflock' = cflock
          BY <4>1 DEF FinishWork, Running
        <5>. QED
          BY <1>1, <5>1, GrantedStep DEF Grants
      <4>2. CASE KillRefused(p)
        BY <1>1, <4>2 DEF KillRefused, TypeOK
      <4>. QED
        BY <1>1, <1>6, <4>1, <4>2, LivingMoves
    <3>4. pc'[p] \notin Releasing \cup {"work"} => granted'[p] = ""
      <4>1. CASE pc[p] \notin Releasing \cup {"work"}
        BY <1>1, <4>1, GrantedStep DEF Grants
      <4>2. CASE pc[p] \in Releasing \cup {"work"}
        <5>1. pc'[p] \in Releasing \cup {"idle", "exited"}
          BY <1>1, <1>6, <4>2 DEF LivingStep, GetLock, ReleaseCurrentLock, Releasing,
             Running, Goto, TypeOK, StartAgent, ExitAgent, LeaveLocked, FinishWork,
             ReleaseLock, ReleaseLastDel, ReleaseLastPut, ReadLast, InitLastDel,
             InitLastPut, CheckOldLock, GetLockPid, KillOwner, KillRefused,
             SetLockDel, SetLockPut, WorkWithoutLock
        <5>. QED
          BY <1>1, <5>1, GrantedStep
      <4>. QED
        BY <4>1, <4>2
    <3>. QED
      BY <3>1, <3>2, <3>3, <3>4
  <2>. QED
    BY <1>1, <1>3, <1>6, <2>1, LivingTouches
<1>7. ASSUME NEW p \in Proc, Interrupt(p) PROVE Kept(q)'
  BY <1>3, <1>7 DEF Interrupt, Untouched
<1>8. ASSUME NEW p \in Proc, Crash(p) PROVE Kept(q)'
  BY <1>1, <1>2, <1>8, GrantedStep DEF Crash
<1>. QED
  BY <1>1, <1>4, <1>5, <1>6, <1>7, <1>8, SerialCases

-----------------------------------------------------------------------------
(* Who works on a job did so before, or has just put its lock.             *)
LEMMA WorksStep ==
  ASSUME SerialInv, SerialNext, NEW q \in Proc, NEW j \in Job, Works(q, j)'
  PROVE  \/ Works(q, j)
         \/ SetLockPut(q) /\ LivingStep(q) /\ cflock[q] = j
<1> DEFINE Goal == \/ Works(q, j)
                   \/ SetLockPut(q) /\ LivingStep(q) /\ cflock[q] = j
<1>1. TypeOK /\ HistoryType /\ Flags /\ Grants /\ Record
  BY DEF SerialInv, SerialNext
<1>2. /\ granted'[q] = j /\ j # "" /\ pc'[q] \in {"work", "relLock"}
      /\ ~crashed'[q] /\ ~sig'[q] /\ ~exiting'[q]
  BY NamesAreNoJobs DEF Works, Alive
<1>3. ASSUME Untouched(q), ~sig[q] PROVE Goal
  BY <1>1, <1>2, <1>3, GrantedStep DEF Untouched, Works, Alive
<1>4. CASE Tick
  BY <1>2, <1>3, <1>4 DEF Tick, Untouched
<1>5. ASSUME NEW p \in Proc, DyingStep(p) PROVE Goal
  <2>1. CASE q = p
    BY <1>1, <1>2, <1>5, <2>1 DEF DyingStep, HandleSignal, ReleaseLock,
       ReleaseLastDel, ReleaseLastPut, TypeOK
  <2>. QED
    BY <1>1, <1>2, <1>3, <1>5, <2>1, DyingTouches
<1>6. ASSUME NEW p \in Proc, LivingStep(p) PROVE Goal
  <2>1. CASE q = p
    <3>1. CASE SetLockPut(q)
      <4>1. granted'[q] = cflock[q]
        BY <1>1, <3>1, GrantedStep DEF SetLockPut, Running, Goto, TypeOK
      <4>. QED
        BY <1>2, <1>6, <2>1, <3>1, <4>1
    <3>2. CASE FinishWork(q)
      <4>1. pc[q] \in {"work", "workBare"} /\ Alive(q)
        BY <3>2 DEF FinishWork, Running
      <4>2. granted[q] = j
        BY <1>1, <1>2, GrantedStep, <4>1
      <4>3. pc[q] = "work"
        BY <1>1, <1>2, <4>1, <4>2 DEF Grants, Releasing
      <4>. QED
        BY <1>1, <1>6, <2>1, <4>1, <4>2, <4>3, LivingSelf DEF Works, StartAgent
    <3>3. ~KillRefused(q)
      BY <1>1, <1>2 DEF KillRefused, TypeOK
    <3>. QED
      BY <1>1, <1>2, <1>6, <2>1, <3>1, <3>2, <3>3, LivingMoves
  <2>2. CASE q # p
    <3>1. Untouched(q) /\ (sig'[q] = sig[q] \/ (KillOwner(p) /\ victim[p] = q))
      BY <1>1, <1>6, <2>2, LivingTouches
    <3>2. KillOwner(p) => (sig[q] => sig'[q])
      BY <1>1 DEF KillOwner, TypeOK
    <3>. QED
      BY <1>2, <1>3, <3>1, <3>2
  <2>. QED
    BY <2>1, <2>2
<1>7. ASSUME NEW p \in Proc, Interrupt(p) PROVE Goal
  BY <1>1, <1>2, <1>3, <1>7 DEF Interrupt, Untouched, TypeOK
<1>8. ASSUME NEW p \in Proc, Crash(p) PROVE Goal
  <2>1. pc' = pc /\ sig' = sig /\ exiting' = exiting /\ (crashed[q] => crashed'[q])
    BY <1>1, <1>8 DEF Crash, TypeOK
  <2>. QED
    BY <1>1, <1>2, <2>1, GrantedStep DEF Works, Alive
<1>. QED
  BY <1>1, <1>4, <1>5, <1>6, <1>7, <1>8, SerialCases

(* A lock record changes in PutLock and DeleteLock only, in the hands of a *)
(* process that names it.                                                  *)
LEMMA LockStep ==
  ASSUME SerialInv, SerialNext, NEW j \in Job, lock'[j] # lock[j]
  PROVE  \E p \in Proc :
            /\ cflock[p] = j /\ Alive(p)
            /\ \/ LivingStep(p) /\ (SetLockDel(p) \/ SetLockPut(p))
               \/ ReleaseLock(p) /\ (LivingStep(p) \/ DyingStep(p))
<1>1. TypeOK /\ Flags
  BY DEF SerialInv
<1>2. ASSUME NEW p \in Proc, SetLockDel(p) \/ SetLockPut(p) \/ ReleaseLock(p)
      PROVE  cflock[p] = j /\ Alive(p)
  BY <1>1, <1>2 DEF SetLockDel, SetLockPut, ReleaseLock, Running, TypeOK
<1>3. ~Tick
  BY DEF Tick
<1>4. \A p \in Proc : ~Interrupt(p) /\ ~Crash(p)
  BY DEF Interrupt, Crash
<1>5. ASSUME NEW p \in Proc, DyingStep(p) PROVE ReleaseLock(p)
  BY <1>5 DEF DyingStep, HandleSignal, ReleaseLastDel, ReleaseLastPut
<1>6. ASSUME NEW p \in Proc, LivingStep(p)
      PROVE  SetLockDel(p) \/ SetLockPut(p) \/ ReleaseLock(p)
  <2>1. \A i \in Job : ~ReadLast(p, i)
    BY DEF ReadLast
  <2>2. ~StartAgent(p) /\ ~ExitAgent(p) /\ ~LeaveLocked(p) /\ ~FinishWork(p)
        /\ ~ReleaseLastDel(p) /\ ~ReleaseLastPut(p)
    BY DEF StartAgent, ExitAgent, LeaveLocked, FinishWork, ReleaseLastDel, ReleaseLastPut
  <2>3. ~InitLastDel(p) /\ ~InitLastPut(p) /\ ~CheckOldLock(p) /\ ~GetLockPid(p)
        /\ ~KillOwner(p) /\ ~KillRefused(p) /\ ~WorkWithoutLock(p)
    BY DEF InitLastDel, InitLastPut, CheckOldLock, GetLockPid, KillOwner,
       KillRefused, WorkWithoutLock
  <2>. QED
    BY <1>6, <2>1, <2>2, <2>3 DEF LivingStep, GetLock, ReleaseCurrentLock
<1>. QED
  BY <1>1, <1>2, <1>3, <1>4, <1>5, <1>6, SerialCases

LEMMA OwnedStep == ASSUME SerialInv, SerialNext PROVE Owned'
<1> SUFFICES ASSUME NEW q \in Proc, NEW j \in Job, Works(q, j)'
             PROVE  lock'[j].pid = q
  BY DEF Owned
<1>1. TypeOK /\ Flags /\ Grants /\ Owned /\ DyingApart /\ TakersApart
  BY DEF SerialInv
<1>2. CASE SetLockPut(q) /\ cflock[q] = j
  BY <1>1, <1>2 DEF SetLockPut, TypeOK
<1>3. ASSUME Works(q, j), lock'[j] # lock[j] PROVE FALSE
  <2>1. PICK p \in Proc :
          /\ cflock[p] = j /\ Alive(p)
          /\ \/ LivingStep(p) /\ (SetLockDel(p) \/ SetLockPut(p))
             \/ ReleaseLock(p) /\ (LivingStep(p) \/ DyingStep(p))
    BY <1>3, LockStep
  <2>2. CASE SetLockDel(p) \/ SetLockPut(p)
    BY <1>1, <1>3, <2>1, <2>2 DEF SetLockDel, SetLockPut, Running, Putting, TakersApart
  <2>3. CASE DyingStep(p)
    BY <1>1, <1>3, <2>1, <2>3 DEF DyingStep, DyingApart
  <2>4. CASE ReleaseLock(p) /\ LivingStep(p)
    <3>1. pc[p] = "relLock" /\ pc'[p] = "relLastDel"
      BY <1>1, <2>4 DEF ReleaseLock, Running, Goto, TypeOK
    <3>2. ~exiting[p] /\ ~sig[p]
      BY <1>1, <2>4, <3>1, LivingSelf
    <3>3. Works(p, j)
      BY <1>1, <2>1, <3>1, <3>2 DEF Grants, Works
    <3>4. p = q
      BY <1>1, <1>3, <3>3 DEF Owned
    <3>. QED
      BY <3>1, <3>4 DEF Works
  <2>. QED
    BY <2>1, <2>2, <2>3, <2>4
<1>4. CASE Works(q, j) /\ lock'[j] = lock[j]
  BY <1>1, <1>4 DEF Owned
<1>. QED
  BY <1>2, <1>3, <1>4, WorksStep

(* How a process comes to be on its way out.                               *)
LEMMA DyingArises ==
  ASSUME SerialInv, SerialNext, NEW r \in Proc, Dying(r)'
  PROVE  \/ Dying(r) /\ cflock'[r] \in {cflock[r], "no_active_lock"}
                     /\ \A p \in Proc : ~LivingStep(p)
         \/ Interrupt(r) /\ ~NamesForeignLock(r) /\ \A q \in Proc : ~InProtocol(q)
         \/ \E p \in Proc : LivingStep(p) /\ KillOwner(p) /\ victim[p] = r
         \/ LivingStep(r) /\ KillRefused(r)
         \/ LivingStep(r) /\ StartAgent(r)
<1> DEFINE Before == Dying(r) /\ cflock'[r] \in {cflock[r], "no_active_lock"}
<1>1. TypeOK /\ Flags
  BY DEF SerialInv
<1>2. Alive(r)' /\ (sig'[r] \/ exiting'[r])
  BY DEF Dying
<1>3. \A p \in Proc : Dying(r) => ~LivingStep(p)
  BY DEF LivingStep, Alone
<1>4. CASE Tick
  BY <1>2, <1>3, <1>4 DEF Tick, Dying, Alive
<1>5. ASSUME NEW p \in Proc, DyingStep(p) PROVE Before
  <2>1. CASE r = p
    <3>1. Dying(p)
      BY <1>5 DEF DyingStep
    <3>2. cflock'[p] \in {cflock[p], "no_active_lock"}
      BY <1>1, <1>5 DEF DyingStep, HandleSignal, ReleaseLock, ReleaseLastDel,
         ReleaseLastPut, TypeOK
    <3>. QED
      BY <2>1, <3>1, <3>2
  <2>. QED
    BY <1>1, <1>2, <1>5, <2>1, DyingTouches DEF Untouched, Dying, Alive
<1>6. ASSUME NEW p \in Proc, LivingStep(p)
      PROVE  \/ Before
             \/ KillOwner(p) /\ victim[p] = r
             \/ p = r /\ (KillRefused(r) \/ StartAgent(r))
  <2>1. CASE r = p
    <3>1. CASE KillOwner(p) /\ sig' # sig
      <4>1. sig'[r] => victim[p] = r \/ sig[r]
        BY <1>1, <3>1 DEF KillOwner, TypeOK
      <4>2. exiting' = exiting /\ Alive(r)
        BY <3>1, <2>1 DEF KillOwner, Running
      <4>3. ~sig[r] /\ ~exiting[r]
        BY <1>6, <2>1, <4>2 DEF LivingStep, Alone, Dying
      <4>. QED
        BY <1>2, <3>1, <4>1, <4>2, <4>3
    <3>. QED
      BY <1>1, <1>2, <1>6, <2>1, <3>1, LivingSelf
  <2>2. CASE r # p
    BY <1>1, <1>2, <1>6, <2>2, LivingTouches DEF Untouched, Dying, Alive
  <2>. QED
    BY <2>1, <2>2
<1>7. ASSUME NEW p \in Proc, Interrupt(p) PROVE p = r \/ Before
  BY <1>1, <1>2, <1>7 DEF Interrupt, Dying, Alive, TypeOK
<1>8. ASSUME NEW p \in Proc, Crash(p) PROVE Before
  BY <1>1, <1>2, <1>8 DEF Crash, Dying, Alive, TypeOK
<1>. QED
  BY <1>1, <1>3, <1>4, <1>5, <1>6, <1>7, <1>8, SerialCases

(* A handler that starts names a lock of its own process, or none.         *)
LEMMA DyingApartStep == ASSUME SerialInv, SerialNext PROVE DyingApart'
<1> SUFFICES ASSUME NEW r \in Proc, NEW q \in Proc, NEW j \in Job,
                    Dying(r)', cflock'[r] = j, Works(q, j)'
             PROVE  FALSE
  BY DEF DyingApart
<1>1. /\ TypeOK /\ Flags /\ Grants /\ Owned /\ DyingApart /\ SeenExpired
  BY DEF SerialInv
<1>2. Works(q, j) \/ (SetLockPut(q) /\ LivingStep(q) /\ cflock[q] = j)
  BY WorksStep
<1>3. j # "no_active_lock" /\ j # "pre-lock-state"
  BY NamesAreNoJobs
<1>4. CASE Dying(r) /\ cflock'[r] \in {cflock[r], "no_active_lock"}
           /\ \A p \in Proc : ~LivingStep(p)
  BY <1>1, <1>2, <1>3, <1>4 DEF DyingApart
<1>5. CASE Interrupt(r) /\ ~NamesForeignLock(r) /\ \A p \in Proc : ~InProtocol(p)
  <2>1. cflock[r] = j /\ Alive(r) /\ ~sig[r] /\ ~exiting[r] /\ lock' = lock
    BY <1>5 DEF Interrupt
  <2>2. ~SetLockPut(q)
    BY <1>5 DEF SetLockPut, Running, InProtocol
  <2>3. granted[r] = j
    BY <1>5, <2>1 DEF NamesForeignLock
  <2>4. pc[r] = "work"
    BY <1>1, <1>5, <2>1, <2>3, NamesAreNoJobs DEF Grants, InProtocol, Releasing
  <2>5. Works(r, j) /\ Works(q, j)
    BY <1>2, <2>1, <2>2, <2>3, <2>4 DEF Works
  <2>6. r = q
    BY <1>1, <2>5 DEF Owned
  <2>. QED
    BY <2>6 DEF Works, Dying
<1>6. ASSUME NEW p \in Proc, LivingStep(p), KillOwner(p), victim[p] = r PROVE FALSE
  <2>1. pc[p] = "kill" /\ Alive(p) /\ cflock[r] = j /\ lock' = lock
    BY <1>6 DEF KillOwner, Running
  <2>2. ~(SetLockPut(q) /\ LivingStep(q))
    BY <2>1 DEF LivingStep, Alone, InProtocol, SetLockPut, Running
  <2>3. Works(q, j) /\ lock[j].pid = q
    BY <1>1, <1>2, <2>2 DEF Owned
  <2>4. CASE lock[j].pid = r
    BY <2>3, <2>4 DEF Works, Dying
  <2>5. CASE ~NamesForeignLock(r)
    <3>1. granted[r] = j
      BY <2>1, <2>5 DEF NamesForeignLock
    <3>2. pc[r] \in {"work", "relLock", "relLastDel", "relLastPut"}
      BY <1>1, <3>1, NamesAreNoJobs DEF Grants, Releasing
    <3>3. r # p /\ Alive(r)
      <4>1. r # p
        BY <2>1, <3>2
      <4>2. Untouched(r)
        BY <1>1, <1>6, <4>1, LivingTouches
      <4>. QED
        BY <4>1, <4>2 DEF Untouched, Dying, Alive
    <3>4. pc[r] = "work" /\ ~sig[r] /\ ~exiting[r]
      BY <1>6, <3>2, <3>3 DEF LivingStep, Alone, InProtocol, Dying
    <3>5. Works(r, j)
      BY <3>1, <3>3, <3>4 DEF Works
    <3>. QED
      BY <1>1, <2>3, <2>4, <3>5 DEF Owned
  <2>. QED
    BY <1>6, <2>1, <2>4, <2>5 DEF LivingStep, KillsForeignLock
<1>7. CASE LivingStep(r) /\ KillRefused(r)
  <2>1. pc[r] = "kill" /\ Alive(r) /\ cflock[r] = j /\ ~Alive(victim[r])
    BY <1>7 DEF KillRefused, Running
  <2>2. ~(SetLockPut(q) /\ LivingStep(q))
    BY <2>1 DEF LivingStep, Alone, InProtocol, SetLockPut, Running
  <2>3. Works(q, j) /\ lock[j].pid = q
    BY <1>1, <1>2, <2>2 DEF Owned
  <2>4. victim[r] = q
    BY <1>1, <2>1, <2>3 DEF SeenExpired
  <2>. QED
    BY <2>1, <2>3, <2>4 DEF Works
<1>8. CASE LivingStep(r) /\ StartAgent(r)
  BY <1>1, <1>3, <1>8 DEF StartAgent, TypeOK
<1>. QED
  BY <1>4, <1>5, <1>6, <1>7, <1>8, DyingArises

(* Who has decided to take a lock found it free, or has just signalled its *)
(* owner.                                                                  *)
LEMMA TakersApartStep == ASSUME SerialInv, SerialNext PROVE TakersApart'
<1> SUFFICES ASSUME NEW r \in Proc, NEW q \in Proc, NEW j \in Job,
                    Alive(r)', pc'[r] \in Putting, cflock'[r] = j, Works(q, j)'
             PROVE  FALSE
  BY DEF TakersApart
<1>1. TypeOK /\ Flags /\ Grants /\ Owned /\ TakersApart /\ SeenExpired
  BY DEF SerialInv
<1>2. Works(q, j) \/ (SetLockPut(q) /\ LivingStep(q) /\ cflock[q] = j)
  BY WorksStep
<1>3. ASSUME Untouched(r), Alive(r) PROVE FALSE
  <2>1. pc[r] \in Putting /\ cflock[r] = j
    BY <1>3 DEF Untouched
  <2>2. ~Works(q, j)
    BY <1>1, <1>3, <2>1 DEF TakersApart
  <2>3. r # q
    BY <2>1 DEF Works, Putting
  <2>. QED
    BY <1>2, <1>3, <2>1, <2>2, <2>3 DEF LivingStep, Alone, InProtocol, Putting
<1>4. CASE Tick
  BY <1>3, <1>4 DEF Tick, Untouched, Alive
<1>5. ASSUME NEW p \in Proc, DyingStep(p) PROVE FALSE
  <2>1. CASE r = p
    BY ZenonT(40), <1>1, <1>5, <2>1 DEF DyingStep, HandleSignal, ReleaseLock, ReleaseLastDel,
       ReleaseLastPut, Goto, TypeOK, Putting
  <2>. QED
    BY <1>1, <1>3, <1>5, <2>1, DyingTouches DEF Untouched, Alive
<1>6. ASSUME NEW p \in Proc, LivingStep(p) PROVE FALSE
  <2>1. CASE r = p
    <3>1. CASE CheckOldLock(p)
      <4>1. cflock[p] = j /\ lock[j].time = NoTime
        BY <1>1, <2>1, <3>1 DEF CheckOldLock, Goto, TypeOK, Putting
      <4>2. lock[j] = NoLock
        <5>1. lock[j] \in LockData \cup {NoLock}
          BY <1>1 DEF TypeOK
        <5>2. lock[j] \in LockData => lock[j].time \in Nat
          BY DEF LockData
        <5>. QED
          BY <4>1, <5>1, <5>2 DEF NoTime
      <4>3. ~Works(q, j)
        BY <1>1, <4>2, NoLockNotProc DEF Owned
      <4>4. ~SetLockPut(p)
        BY <3>1 DEF CheckOldLock, SetLockPut, Running
      <4>. QED
        BY <1>2, <1>6, <3>1, <4>3, <4>4 DEF LivingStep, Alone, InProtocol,
           CheckOldLock, SetLockPut, Running
    <3>2. CASE GetLockPid(p)
      <4>1. cflock[p] = j /\ lock[j].pid = NoProc
        BY <1>1, <2>1, <3>2 DEF GetLockPid, Goto, TypeOK, Putting
      <4>2. ~Works(q, j)
        BY <1>1, <4>1, NoProcAssumption DEF Owned
      <4>. QED
        BY <1>2, <1>6, <3>2, <4>2 DEF LivingStep, Alone, InProtocol,
           GetLockPid, SetLockPut, Running
    <3>3. CASE KillOwner(p)
      <4>1. cflock[p] = j /\ victim[p] = lock[j].pid
        BY <1>1, <2>1, <3>3 DEF KillOwner, Running, SeenExpired
      <4>2. Works(q, j)
        BY <1>2, <1>6, <3>3 DEF LivingStep, Alone, InProtocol, KillOwner,
           SetLockPut, Running
      <4>3. victim[p] = q
        BY <1>1, <4>1, <4>2 DEF Owned
      <4>4. sig'[q]
        BY <1>1, <3>3, <4>2, <4>3 DEF KillOwner, Works, TypeOK
      <4>. QED
        BY <4>4 DEF Works
    <3>4. CASE SetLockDel(p)
      <4>1. pc[p] \in Putting /\ cflock[p] = j /\ Alive(p)
        BY <2>1, <3>4 DEF SetLockDel, Running, Putting
      <4>2. ~Works(q, j)
        BY <1>1, <4>1 DEF TakersApart
      <4>. QED
        BY <1>2, <1>6, <3>4, <4>2 DEF LivingStep, Alone, InProtocol,
           SetLockDel, SetLockPut, Running
    <3>. QED
      BY <1>1, <1>6, <2>1, <3>1, <3>2, <3>3, <3>4, LivingMoves
  <2>. QED
    BY <1>1, <1>3, <1>6, <2>1, LivingTouches DEF Untouched, Alive
<1>7. ASSUME NEW p \in Proc, Interrupt(p) PROVE FALSE
  BY <1>3, <1>7 DEF Interrupt, Untouched, Alive
<1>8. ASSUME NEW p \in Proc, Crash(p) PROVE FALSE
  <2>1. Alive(r) /\ pc[r] \in Putting /\ cflock[r] = j
    BY <1>1, <1>8 DEF Crash, Alive, TypeOK
  <2>2. ~Works(q, j)
    BY <1>1, <2>1 DEF TakersApart
  <2>3. ~SetLockPut(q)
    BY <1>1, <1>8 DEF Crash, SetLockPut, Running, Goto, TypeOK
  <2>. QED
    BY <1>2, <2>2, <2>3
<1>. QED
  BY <1>1, <1>4, <1>5, <1>6, <1>7, <1>8, SerialCases

LEMMA QuietStep == ASSUME SerialInv, SerialNext PROVE Quiet'
<1> SUFFICES ASSUME NEW q \in Proc, NEW r \in Proc,
                    Alive(q)', pc'[q] \in Reading, Dying(r)'
             PROVE  FALSE
  BY DEF Quiet
<1>1. TypeOK /\ Flags /\ Quiet
  BY DEF SerialInv
<1>2. CASE Tick
  BY <1>1, <1>2 DEF Tick, Quiet, Dying, Alive
<1>3. ASSUME NEW p \in Proc, DyingStep(p) PROVE FALSE
  <2>1. CASE q = p
    BY ZenonT(40), <1>1, <1>3, <2>1 DEF DyingStep, HandleSignal, ReleaseLock, ReleaseLastDel,
       ReleaseLastPut, Goto, TypeOK, Reading
  <2>2. CASE q # p
    <3>1. Alive(q) /\ pc[q] \in Reading
      BY <1>1, <1>3, <2>2, DyingTouches DEF Untouched, Alive
    <3>. QED
      BY <1>1, <1>3, <3>1 DEF Quiet, DyingStep
  <2>. QED
    BY <2>1, <2>2
<1>4. ASSUME NEW p \in Proc, LivingStep(p) PROVE FALSE
  <2>1. CASE q # p
    <3>1. Alive(q) /\ pc[q] \in Reading
      BY <1>1, <1>4, <2>1, LivingTouches DEF Untouched, Alive
    <3>. QED
      BY <1>4, <2>1, <3>1 DEF LivingStep, Alone, InProtocol, Reading
  <2>2. CASE q = p
    <3>1. ~KillOwner(p) /\ ~KillRefused(p) /\ ~StartAgent(p)
      BY <1>1, <2>2 DEF KillOwner, KillRefused, StartAgent, Goto, TypeOK, Reading
    <3>2. exiting' = exiting /\ sig' = sig /\ crashed' = crashed /\ Alive(p)
      BY <1>1, <1>4, <3>1, LivingSelf
    <3>3. Alive(r)
      BY <1>1, <1>4, <3>2, LivingTouches DEF Untouched, Dying, Alive
    <3>. QED
      BY <1>4, <3>2, <3>3 DEF LivingStep, Alone, Dying
  <2>. QED
    BY <2>1, <2>2
<1>5. ASSUME NEW p \in Proc, Interrupt(p), \A i \in Proc : ~InProtocol(i) PROVE FALSE
  BY <1>5 DEF Interrupt, InProtocol, Alive, Reading
<1>6. ASSUME NEW p \in Proc, Crash(p) PROVE FALSE
  <2>1. Alive(q) /\ pc[q] \in Reading
    BY <1>1, <1>6 DEF Crash, Alive, TypeOK
  <2>2. Dying(r)
    BY <1>1, <1>6 DEF Crash, Dying, Alive, TypeOK
  <2>. QED
    BY <1>1, <2>1, <2>2 DEF Quiet
<1>. QED
  BY <1>1, <1>2, <1>3, <1>4, <1>5, <1>6, SerialCases

(* What GetLock has read of a lock that it finds expired stays true.       *)
LEMMA SeenExpiredStep == ASSUME SerialInv, SerialNext PROVE SeenExpired'
<1> DEFINE Looks == {"readPid", "kill"}
           Seen(q, j) == /\ pc[q] = "kill" => victim[q] = lock[j].pid
                         /\ lock[j].time # NoTime
                         /\ Expired(j, start[q], lock[j].time)
<1> SUFFICES ASSUME NEW q \in Proc, NEW j \in Job,
                    Alive(q)', cflock'[q] = j, pc'[q] \in Looks
             PROVE  Seen(q, j)'
  BY DEF SeenExpired
<1>1. TypeOK /\ Flags /\ Quiet /\ SeenExpired
  BY DEF SerialInv
<1>2. ASSUME Alive(q), pc[q] \in Looks PROVE lock'[j] = lock[j]
  <2>1. SUFFICES ASSUME NEW p \in Proc,
                        \/ /\ LivingStep(p)
                           /\ SetLockDel(p) \/ SetLockPut(p) \/ ReleaseLock(p)
                        \/ DyingStep(p)
                 PROVE  FALSE
    BY LockStep
  <2>2. ~DyingStep(p)
    BY <1>1, <1>2 DEF Quiet, Reading, DyingStep
  <2>3. p = q
    BY <1>2, <2>1, <2>2 DEF LivingStep, Alone, InProtocol
  <2>. QED
    BY <1>2, <2>1, <2>2, <2>3 DEF SetLockDel, SetLockPut, ReleaseLock, Running
<1>3. ASSUME Untouched(q), Alive(q) PROVE Seen(q, j)'
  BY <1>1, <1>2, <1>3 DEF Untouched, SeenExpired, Expired
<1>4. CASE Tick
  BY <1>3, <1>4 DEF Tick, Untouched, Alive
<1>5. ASSUME NEW p \in Proc, DyingStep(p) PROVE Seen(q, j)'
  <2>1. CASE q = p
    BY ZenonT(40), <1>1, <1>5, <2>1 DEF DyingStep, HandleSignal, ReleaseLock, ReleaseLastDel,
       ReleaseLastPut, Goto, TypeOK
  <2>. QED
    BY <1>1, <1>3, <1>5, <2>1, DyingTouches DEF Untouched, Alive
<1>6. ASSUME NEW p \in Proc, LivingStep(p) PROVE Seen(q, j)'
  <2>1. CASE q = p
    <3>1. CASE CheckOldLock(q)
      <4>1. /\ lock' = lock /\ start' = start /\ cflock[q] = j
            /\ pc'[q] = "readPid" /\ lock[j].time # NoTime
            /\ Expired(j, start[q], lock[j].time)
        BY <1>1, <3>1 DEF CheckOldLock, Goto, TypeOK
      <4>. QED
        BY <4>1 DEF Expired
    <3>2. CASE GetLockPid(q)
      <4>1. /\ lock' = lock /\ start' = start /\ cflock[q] = j
            /\ victim'[q] = lock[j].pid /\ pc[q] = "readPid" /\ Alive(q)
        BY <1>1, <3>2 DEF GetLockPid, Running, TypeOK
      <4>. QED
        BY <1>1, <4>1 DEF SeenExpired, Expired
    <3>. QED
      BY <1>1, <1>6, <2>1, <3>1, <3>2, LivingMoves
  <2>. QED
    BY <1>1, <1>3, <1>6, <2>1, LivingTouches DEF Untouched, Alive
<1>7. ASSUME NEW p \in Proc, Interrupt(p) PROVE Seen(q, j)'
  BY <1>3, <1>7 DEF Interrupt, Untouched, Alive
<1>8. ASSUME NEW p \in Proc, Crash(p) PROVE Seen(q, j)'
  <2>1. Alive(q)
    BY <1>1, <1>8 DEF Crash, Alive, TypeOK
  <2>2. /\ pc' = pc /\ cflock' = cflock /\ start' = start /\ victim' = victim /\ lock' = lock
    BY <1>8 DEF Crash
  <2>. QED
    BY <1>1, <2>1, <2>2 DEF SeenExpired, Expired
<1>. QED
  BY <1>1, <1>4, <1>5, <1>6, <1>7, <1>8, SerialCases

-----------------------------------------------------------------------------
(* Work is completed by a process that comes to ReleaseCurrentLock alive.  *)
LEMMA CompletesHow ==
  ASSUME SerialInv, SerialNext, NEW p \in Proc, NEW j \in Job, Completes(p, j)
  PROVE  FinishWork(p) /\ LivingStep(p) /\ pc[p] = "work" /\ cflast[p] = j
<1>1. TypeOK /\ Names /\ Flags /\ Grants
  BY DEF SerialInv
<1>2. pc[p] = "work" /\ pc'[p] = "relLock" /\ ~exiting'[p] /\ granted[p] = j
  BY DEF Completes
<1>3. cflast[p] = j
  BY <1>1, <1>2 DEF Names, Grants
<1>4. ~Tick /\ \A i \in Proc : ~Interrupt(i) /\ ~Crash(i)
  BY <1>2 DEF Tick, Interrupt, Crash
<1>5. ASSUME NEW i \in Proc, DyingStep(i) PROVE FALSE
  <2>1. i = p
    BY <1>1, <1>2, <1>5, DyingTouches DEF Untouched
  <2>. QED
    BY <1>1, <1>2, <1>5, <2>1 DEF DyingStep, HandleSignal, ReleaseLock,
       ReleaseLastDel, ReleaseLastPut, Running, TypeOK
<1>6. ASSUME NEW i \in Proc, LivingStep(i) PROVE FinishWork(p) /\ LivingStep(p)
  <2>1. i = p
    BY <1>1, <1>2, <1>6, LivingTouches DEF Untouched
  <2>2. ~KillRefused(p)
    BY <1>2 DEF KillRefused, Running
  <2>. QED
    BY <1>1, <1>2, <1>6, <2>1, <2>2, LivingMoves
<1>. QED
  BY <1>1, <1>2, <1>3, <1>4, <1>5, <1>6, SerialCases

(* The last record is written with the time of day, and deleted only by a  *)
(* process that is about to write it.                                      *)
LEMMA LastStep ==
  ASSUME SerialInv, SerialNext, NEW j \in Job, last'[j] # last[j]
  PROVE  \/ last'[j] = clock
         \/ \E p \in Proc : cflast[p] = j /\ (ReleaseLastDel(p) \/ InitLastDel(p))
<1> DEFINE Goal == \/ last'[j] = clock
                   \/ \E p \in Proc : cflast[p] = j /\ (ReleaseLastDel(p) \/ InitLastDel(p))
<1>1. TypeOK
  BY DEF SerialInv
<1>2. ASSUME NEW p \in Proc, InitLastDel(p) \/ ReleaseLastDel(p) PROVE cflast[p] = j
  BY <1>1, <1>2 DEF InitLastDel, ReleaseLastDel, TypeOK
<1>3. ASSUME NEW p \in Proc, InitLastPut(p) \/ ReleaseLastPut(p) PROVE last'[j] = clock
  BY <1>1, <1>3 DEF InitLastPut, ReleaseLastPut, TypeOK
<1>4. ~Tick /\ \A i \in Proc : ~Interrupt(i) /\ ~Crash(i)
  BY DEF Tick, Interrupt, Crash
<1>5. ASSUME NEW p \in Proc, GetLock(p) PROVE InitLastDel(p) \/ InitLastPut(p)
  <2>1. \A i \in Job : ~ReadLast(p, i)
    BY DEF ReadLast
  <2>. QED
    BY <1>5, <2>1 DEF GetLock, CheckOldLock, GetLockPid, KillOwner, KillRefused,
       SetLockDel, SetLockPut, WorkWithoutLock
<1>6. ASSUME NEW p \in Proc, ReleaseCurrentLock(p)
      PROVE  ReleaseLastDel(p) \/ ReleaseLastPut(p)
  BY <1>6 DEF ReleaseCurrentLock, FinishWork, ReleaseLock
<1>7. \A p \in Proc : ~StartAgent(p) /\ ~ExitAgent(p) /\ ~LeaveLocked(p) /\ ~HandleSignal(p)
  BY DEF StartAgent, ExitAgent, LeaveLocked, HandleSignal
<1>. QED
  BY <1>2, <1>3, <1>4, <1>5, <1>6, <1>7, SerialIsNext DEF Next, Step

LEMMA WillWriteLastStep ==
  ASSUME SerialInv, SerialNext, NEW p \in Proc, NEW j \in Job, WillWriteLast(p, j)
  PROVE  WillWriteLast(p, j)' \/ last'[j] = clock
<1>1. TypeOK /\ Names /\ Flags
  BY DEF SerialInv
<1>2. Alive(p) /\ cflast[p] = j /\ pc[p] \in Releasing
  BY DEF WillWriteLast
<1>3. ASSUME Untouched(p) PROVE WillWriteLast(p, j)'
  BY <1>2, <1>3 DEF Untouched, WillWriteLast, Alive
<1>4. CASE Tick
  BY <1>3, <1>4 DEF Tick, Untouched
<1>5. ASSUME HandleSignal(p) PROVE WillWriteLast(p, j)'
  <2>1. pc'[p] = "relLock" /\ cflast' = cflast /\ crashed' = crashed
    BY <1>1, <1>2, <1>5, NamesAreNoJobs DEF HandleSignal, Goto, TypeOK
  <2>. QED
    BY <1>2, <2>1 DEF WillWriteLast, Alive, Releasing
<1>6. ASSUME ReleaseLock(p) \/ ReleaseLastDel(p) PROVE WillWriteLast(p, j)'
  BY <1>1, <1>2, <1>6 DEF ReleaseLock, ReleaseLastDel, Goto, TypeOK, WillWriteLast,
     Alive, Releasing
<1>7. ASSUME ReleaseLastPut(p) PROVE last'[j] = clock
  BY <1>1, <1>2, <1>7 DEF ReleaseLastPut, TypeOK
<1>8. ASSUME NEW i \in Proc, DyingStep(i) PROVE WillWriteLast(p, j)' \/ last'[j] = clock
  <2>1. CASE i = p
    BY <1>5, <1>6, <1>7, <1>8, <2>1 DEF DyingStep
  <2>. QED
    BY <1>1, <1>3, <1>8, <2>1, DyingTouches
<1>9. ASSUME NEW i \in Proc, LivingStep(i) PROVE WillWriteLast(p, j)' \/ last'[j] = clock
  <2>1. CASE i = p
    <3>1. ReleaseLock(p) \/ ReleaseLastDel(p) \/ ReleaseLastPut(p)
      BY <1>2, <1>9, <2>1 DEF LivingStep, GetLock, ReleaseCurrentLock, Releasing,
         Running, StartAgent, ExitAgent, LeaveLocked, FinishWork, ReadLast,
         InitLastDel, InitLastPut, CheckOldLock, GetLockPid, KillOwner,
         KillRefused, SetLockDel, SetLockPut, WorkWithoutLock
    <3>. QED
      BY <1>6, <1>7, <3>1
  <2>. QED
    BY <1>1, <1>3, <1>9, <2>1, LivingTouches
<1>10. ASSUME NEW i \in Proc, Interrupt(i) PROVE WillWriteLast(p, j)'
  BY <1>3, <1>10 DEF Interrupt, Untouched
<1>11. ASSUME NEW i \in Proc, Crash(i), ~InProtocol(i) PROVE WillWriteLast(p, j)'
  <2>1. i # p
    BY <1>2, <1>11 DEF InProtocol, Releasing
  <2>. QED
    BY <1>1, <1>3, <1>11, <2>1 DEF Crash, Untouched, TypeOK
<1>. QED
  BY <1>1, <1>4, <1>8, <1>9, <1>10, <1>11, SerialCases

(* Nobody's completion is forgotten: the last record of a job is at least  *)
(* as young, or is just being written.                                     *)
LEMMA RememberedStep == ASSUME SerialInv, SerialNext PROVE Remembered'
<1> SUFFICES ASSUME NEW j \in Job, completed'[j] # NoLock
             PROVE  \/ last'[j] # NoTime /\ completed'[j].time <= last'[j]
                    \/ \E p \in Proc : WillWriteLast(p, j)'
  BY DEF Remembered
<1>1. TypeOK /\ Names /\ HistoryType /\ Remembered /\ Due /\ Record
  BY DEF SerialInv, SerialNext
<1>2. clock \in Nat /\ clock # NoTime /\ completed[j].time <= clock
  BY <1>1, ClockIsTime DEF TypeOK, HistoryType
<1>3. ASSUME NEW p \in Proc, Completes(p, j) PROVE WillWriteLast(p, j)'
  <2>1. FinishWork(p) /\ cflast[p] = j /\ pc'[p] = "relLock"
    BY <1>3, CompletesHow DEF Completes
  <2>. QED
    BY <2>1 DEF FinishWork, Running, Alive, WillWriteLast, Releasing
<1>4. CASE completed'[j] = completed[j]
  <2>1. CASE last'[j] = clock
    BY <1>2, <1>4, <2>1
  <2>2. CASE last'[j] = last[j]
    BY <1>1, <1>4, <2>2, <2>1, WillWriteLastStep DEF Remembered
  <2>3. ASSUME NEW p \in Proc, cflast[p] = j, ReleaseLastDel(p)
        PROVE  WillWriteLast(p, j)'
    BY <1>1, <2>3 DEF ReleaseLastDel, Running, Goto, TypeOK, WillWriteLast, Alive,
       Releasing
  <2>4. ASSUME NEW p \in Proc, cflast[p] = j, InitLastDel(p) PROVE FALSE
    <3>1. cflock[p] = j /\ pc[p] = "initLastDel"
      BY <1>1, <2>4 DEF InitLastDel, Running, Names
    <3>. QED
      BY <1>1, <1>4, <3>1 DEF Due
  <2>. QED
    BY <2>1, <2>2, <2>3, <2>4, LastStep
<1>. QED
  BY <1>1, <1>2, <1>3, <1>4, CompletedStep

(* Inside GetLock nobody else completes the job.                           *)
LEMMA CompletedKept ==
  ASSUME SerialInv, SerialNext, NEW q \in Proc, NEW j \in Job,
         pc[q] \in Reading \cup Putting
  PROVE  completed'[j] = completed[j]
<1>1. HistoryType /\ Record /\ clock \in Nat /\ Flags
  BY DEF SerialInv, SerialNext, TypeOK
<1>2. InProtocol(q)
  BY <1>1 DEF Flags, Reading, Putting, InProtocol, Alive
<1>3. ASSUME NEW p \in Proc, Completes(p, j) PROVE FALSE
  <2>1. LivingStep(p) /\ pc[p] = "work"
    BY <1>3, CompletesHow
  <2>. QED
    BY <1>2, <2>1 DEF LivingStep, Alone, InProtocol
<1>. QED
  BY <1>1, <1>3, CompletedStep

(* A process sets its clock when it starts.                                *)
LEMMA StartStep ==
  ASSUME TypeOK, Next, NEW q \in Proc, pc[q] # "off"
  PROVE  start'[q] = start[q]
<1>1. ASSUME NEW p \in Proc, StartAgent(p) PROVE start'[q] = start[q]
  BY <1>1 DEF StartAgent, TypeOK
<1>2. ASSUME NEW p \in Proc, GetLock(p) PROVE start' = start
  <2>1. ASSUME NEW j \in Job, ReadLast(p, j) PROVE start' = start
    BY <2>1 DEF ReadLast
  <2>. QED
    BY <1>2, <2>1 DEF GetLock, InitLastDel, InitLastPut, CheckOldLock, GetLockPid,
       KillOwner, KillRefused, SetLockDel, SetLockPut, WorkWithoutLock
<1>3. ASSUME NEW p \in Proc, ReleaseCurrentLock(p) PROVE start' = start
  BY <1>3 DEF ReleaseCurrentLock, FinishWork, ReleaseLock, ReleaseLastDel,
     ReleaseLastPut
<1>4. ASSUME NEW p \in Proc, ExitAgent(p) \/ LeaveLocked(p) \/ HandleSignal(p)
             \/ Interrupt(p) \/ Crash(p)
      PROVE  start' = start
  BY <1>4 DEF ExitAgent, LeaveLocked, HandleSignal, Interrupt, Crash
<1>5. Tick => start' = start
  BY DEF Tick
<1>. QED
  BY <1>1, <1>2, <1>3, <1>4, <1>5 DEF Next, Step

(* GetLock's two tests of the last record are tests of the last completion.*)
LEMMA ReadLastFinds ==
  ASSUME SerialInv, SerialNext, NEW q \in Proc, NEW j \in Job, ReadLast(q, j)
  PROVE  /\ pc'[q] = "initLastDel" => completed[j] = NoLock
         /\ pc'[q] = "checkLock" => IsDue(q, j)
         /\ completed'[j] = completed[j]
<1>1. TypeOK /\ HistoryType /\ Flags /\ Remembered /\ Record
  BY DEF SerialInv, SerialNext
<1>2. pc[q] = "idle" /\ pc' = [pc EXCEPT ![q] = pc'[q]]
  BY <1>1 DEF ReadLast, Running, Goto, TypeOK
<1>3. \A p \in Proc : ~Completes(p, j)
  BY <1>1, <1>2 DEF Completes, TypeOK
<1>4. completed'[j] = completed[j]
  BY <1>1, <1>3, CompletedStep DEF TypeOK
<1>5. ASSUME pc'[q] # "idle" PROVE \A p \in Proc : ~WillWriteLast(p, j)
  <2>1. ASSUME NEW p \in Proc, LivingStep(p) PROVE p = q
    BY <1>1, <1>2, <1>5, <2>1, LivingTouches DEF Untouched
  <2>2. ASSUME NEW p \in Proc, DyingStep(p) PROVE FALSE
    <3>1. p = q
      BY <1>1, <1>2, <1>5, <2>2, DyingTouches DEF Untouched
    <3>2. pc'[p] \in Releasing \cup {"exited"}
      BY ZenonT(40), <1>1, <2>2 DEF DyingStep, HandleSignal, ReleaseLock, ReleaseLastDel,
         ReleaseLastPut, Goto, TypeOK, Releasing
    <3>3. pc'[q] \in {"initLastDel", "checkLock"}
      BY <1>1, <1>5 DEF ReadLast, Goto, TypeOK
    <3>. QED
      BY <3>1, <3>2, <3>3 DEF Releasing
  <2>3. ~Tick /\ \A p \in Proc : ~Interrupt(p) /\ ~Crash(p)
    BY <1>2, <1>5 DEF Tick, Interrupt, Crash
  <2>4. LivingStep(q)
    BY <1>1, <2>1, <2>2, <2>3, SerialCases
  <2>. QED
    BY <1>2, <2>4 DEF LivingStep, Alone, InProtocol, WillWriteLast, Releasing
<1>6. pc'[q] = "initLastDel" => last[j] = NoTime
  BY <1>1 DEF ReadLast, Goto, TypeOK
<1>7. ASSUME pc'[q] = "checkLock", completed[j] # NoLock PROVE IsDue(q, j)
  <2>1. last[j] # NoTime /\ Scheduled(j, start[q], last[j])
    BY <1>1, <1>7 DEF ReadLast, Goto, TypeOK
  <2>2. completed[j].time <= last[j]
    BY <1>1, <1>5, <1>7 DEF Remembered
  <2>3. last[j] \in Int /\ start[q] \in Nat
    <3>1. last[j] \in Nat \cup {NoTime} /\ start[q] \in Nat
      BY <1>1 DEF TypeOK
    <3>. QED
      BY <3>1 DEF NoTime
  <2>4. completed[j].time \in Int
    <3>1. completed[j] \in LockData
      BY <1>1, <1>7 DEF HistoryType
    <3>. QED
      BY <3>1 DEF LockData
  <2>. QED
    BY <2>1, <2>2, <2>3, <2>4, ElapsedSinceEarlier DEF IsDue
<1>. QED
  BY <1>1, <1>4, <1>5, <1>6, <1>7 DEF Remembered, IsDue

LEMMA DueStep == ASSUME SerialInv, SerialNext PROVE Due'
<1> DEFINE Fresh == {"initLastDel", "initLastPut"}
           Kept(q, j) == /\ pc[q] \in Fresh => completed[j] = NoLock
                         /\ pc[q] \in Taking => IsDue(q, j)
<1> SUFFICES ASSUME NEW q \in Proc, NEW j \in Job, cflock'[q] = j
             PROVE  Kept(q, j)'
  BY DEF Due
<1>1. TypeOK /\ Names /\ Flags /\ Due
  BY DEF SerialInv
<1>2. ASSUME pc[q] \in Fresh \cup Taking, cflock[q] = j
      PROVE  /\ completed'[j] = completed[j] /\ start'[q] = start[q]
             /\ pc[q] \in Fresh => completed[j] = NoLock
             /\ pc[q] \in Taking => IsDue(q, j)
  <2>1. completed'[j] = completed[j]
    BY <1>2, CompletedKept DEF Reading, Putting, Taking
  <2>2. start'[q] = start[q]
    BY <1>1, <1>2, StartStep, SerialIsNext DEF Taking
  <2>. QED
    BY <1>1, <1>2, <2>1, <2>2 DEF Due
<1>3. ASSUME pc[q] \in Taking, cflock[q] = j PROVE IsDue(q, j)'
  BY <1>2, <1>3 DEF IsDue
<1>4. ASSUME pc[q] \in Fresh, cflock[q] = j
      PROVE  completed'[j] = NoLock /\ IsDue(q, j)'
  BY <1>2, <1>4 DEF IsDue
<1>5. ASSUME ReadLast(q, j) PROVE Kept(q, j)'
  <2>1. start' = start /\ pc'[q] \in {"initLastDel", "checkLock", "idle"}
    BY <1>1, <1>5 DEF ReadLast, Goto, TypeOK
  <2>. QED
    BY <1>5, <2>1, ReadLastFinds DEF IsDue, Taking
<1>6. ASSUME NEW i \in Job, ReadLast(q, i) PROVE i = j
  BY <1>1, <1>6 DEF ReadLast, TypeOK
<1>7. ASSUME pc'[q] \in Taking PROVE IsDue(q, j)'
  <2>1. CASE pc[q] \in Taking /\ cflock'[q] = cflock[q]
    BY <1>3, <2>1
  <2>2. CASE InitLastPut(q)
    <3>1. pc[q] \in Fresh /\ cflock[q] = j
      BY <1>1, <2>2 DEF InitLastPut, Running
    <3>. QED
      BY <1>4, <3>1
  <2>3. CASE \E i \in Job : ReadLast(q, i)
    BY <1>5, <1>6, <1>7, <2>3
  <2>. QED
    BY <1>1, <1>7, <2>1, <2>2, <2>3, TakingStep, SerialIsNext
<1>8. ASSUME pc'[q] \in Fresh PROVE completed'[j] = NoLock
  <2>1. ASSUME pc[q] \in Fresh, cflock'[q] = cflock[q] PROVE completed'[j] = NoLock
    BY <1>4, <2>1
  <2>2. CASE Tick
    BY <1>8, <2>1, <2>2 DEF Tick
  <2>3. ASSUME NEW p \in Proc, DyingStep(p) PROVE completed'[j] = NoLock
    <3>1. CASE q = p
      BY ZenonT(40), <1>1, <1>8, <2>3, <3>1 DEF DyingStep, HandleSignal, ReleaseLock,
         ReleaseLastDel, ReleaseLastPut, Goto, TypeOK
    <3>. QED
      BY <1>1, <1>8, <2>1, <2>3, <3>1, DyingTouches DEF Untouched
  <2>4. ASSUME NEW p \in Proc, LivingStep(p) PROVE completed'[j] = NoLock
    <3>1. CASE q = p
      <4>1. CASE InitLastDel(q) \/ InitLastPut(q)
        BY <1>1, <2>1, <4>1 DEF InitLastDel, InitLastPut, Running
      <4>2. CASE \E i \in Job : ReadLast(q, i)
        BY <1>5, <1>6, <1>8, <4>2
      <4>. QED
        BY <1>1, <1>8, <2>4, <3>1, <4>1, <4>2, LivingMoves
    <3>. QED
      BY <1>1, <1>8, <2>1, <2>4, <3>1, LivingTouches DEF Untouched
  <2>5. ASSUME NEW p \in Proc, Interrupt(p) \/ Crash(p) PROVE completed'[j] = NoLock
    BY <1>8, <2>1, <2>5 DEF Interrupt, Crash
  <2>. QED
    BY <1>1, <2>2, <2>3, <2>4, <2>5, SerialCases
<1>. QED
  BY <1>7, <1>8

-----------------------------------------------------------------------------
LEMMA SerialStutter == SerialInv /\ UNCHANGED hvars => SerialInv'
<1> SUFFICES ASSUME SerialInv, UNCHANGED hvars PROVE SerialInv'
  OBVIOUS
<1>1. /\ UNCHANGED vars /\ UNCHANGED <<granted, completed>>
  BY DEF hvars
<1>2. TypeOK' /\ Names'
  BY <1>1, TypeStep, NamesStep DEF SerialInv
<1> USE <1>1 DEF vars, SerialInv
<1>3. HistoryType' /\ Flags' /\ Grants'
  BY DEF HistoryType, Flags, Grants
<1>4. Owned' /\ DyingApart' /\ TakersApart'
  BY DEF Owned, DyingApart, TakersApart, Works, Dying, Alive
<1>5. Quiet' /\ SeenExpired'
  BY DEF Quiet, SeenExpired, Dying, Alive, Expired
<1>6. Remembered' /\ Due'
  BY DEF Remembered, Due, WillWriteLast, IsDue, Alive
<1>. QED
  BY <1>2, <1>3, <1>4, <1>5, <1>6

LEMMA SerialStep == SerialInv /\ [SerialNext]_hvars => SerialInv'
<1>1. ASSUME SerialInv, SerialNext PROVE SerialInv'
  <2>1. TypeOK' /\ Names'
    BY <1>1, TypeStep, NamesStep, SerialIsNext DEF SerialInv
  <2>2. HistoryType' /\ Flags' /\ Grants'
    BY <1>1, HistoryTypeStep, FlagsStep, GrantsStep
  <2>3. Owned' /\ DyingApart' /\ TakersApart'
    BY <1>1, OwnedStep, DyingApartStep, TakersApartStep
  <2>4. Quiet' /\ SeenExpired'
    BY <1>1, QuietStep, SeenExpiredStep
  <2>5. Remembered' /\ Due'
    BY <1>1, RememberedStep, DueStep
  <2>. QED
    BY <2>1, <2>2, <2>3, <2>4, <2>5 DEF SerialInv
<1>. QED
  BY <1>1, SerialStutter

(* The database and the history agree as far as the protocol needs.        *)
THEOREM SerialInvariant == SerialSpec => []SerialInv
BY SerialInit, SerialStep, PTL DEF SerialSpec

(* locks.c:50-52: when processes take turns, no atom is executed by two    *)
(* processes at a time, unless one of them is already told to die.         *)
THEOREM NeverTwoAtATime == SerialSpec => []MutualExclusion
<1>1. SerialInv => MutualExclusion
  <2> SUFFICES ASSUME SerialInv, NEW p \in Proc, NEW q \in Proc, p # q,
                      granted[p] # "", granted[p] = granted[q],
                      Running(p, "work"), Running(q, "work"), ~sig[p], ~sig[q]
               PROVE  FALSE
    BY DEF MutualExclusion
  <2>1. granted[p] \in Job
    BY DEF SerialInv, HistoryType
  <2>2. ~exiting[p] /\ ~exiting[q]
    BY DEF SerialInv, Flags, Running, Releasing
  <2>3. Works(p, granted[p]) /\ Works(q, granted[p])
    BY <2>2 DEF Works, Running
  <2>. QED
    BY <2>1, <2>3 DEF SerialInv, Owned
<1>. QED
  BY <1>1, SerialInvariant, PTL

(* locks.c:43-44: a job is granted only when IfElapsed minutes lie between *)
(* the end of its last run and the start of the process that asks.         *)
THEOREM GrantsAreDue == SerialSpec => GrantedOnlyWhenDue
<1> DEFINE OnlyWhenDue ==
      \A p \in Proc, j \in Job :
          granted[p] # j /\ granted'[p] = j
            => \/ completed[j] = NoLock
               \/ Elapsed(start[p], completed[j].time) >= IfElapsed[j]
<1>1. SerialInv /\ [SerialNext]_hvars => [OnlyWhenDue]_hvars
  <2> SUFFICES ASSUME SerialInv, SerialNext, NEW p \in Proc, NEW j \in Job,
                      granted[p] # j, granted'[p] = j
               PROVE  IsDue(p, j)
    BY DEF IsDue
  <2>1. pc[p] = "setLockPut" /\ cflock[p] = j
    BY GrantedStep, NamesAreNoJobs DEF SerialInv, SerialNext
  <2>. QED
    BY <2>1 DEF SerialInv, Due, Taking
<1>. QED
  BY <1>1, SerialInvariant, PTL DEF SerialSpec, GrantedOnlyWhenDue

(* locks.c:52-54: GetLock kills nobody whose lock has not existed for the  *)
(* ExpireAfter time.                                                       *)
THEOREM KillsAreExpired == SerialSpec => KillsOnlyExpired
<1> DEFINE OnlyExpired ==
      \A p \in Proc :
          KillOwner(p) /\ lock[cflock[p]].pid = victim[p]
            => Expired(cflock[p], start[p], lock[cflock[p]].time)
<1>1. SerialInv /\ [SerialNext]_hvars => [OnlyExpired]_hvars
  <2> SUFFICES ASSUME SerialInv, NEW p \in Proc, KillOwner(p)
               PROVE  Expired(cflock[p], start[p], lock[cflock[p]].time)
    OBVIOUS
  <2>1. pc[p] = "kill" /\ Alive(p)
    BY DEF KillOwner, Running
  <2>2. cflock[p] \in Job
    BY <2>1 DEF SerialInv, Names, Taking
  <2>. QED
    BY <2>1, <2>2 DEF SerialInv, SeenExpired
<1>. QED
  BY <1>1, SerialInvariant, PTL DEF SerialSpec, KillsOnlyExpired

=============================================================================
