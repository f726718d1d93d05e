---------------------------- MODULE ExecdProofs ----------------------------
(***************************************************************************)
(* Proofs about Execd, for any number of daemons and starts, any schedule  *)
(* and any length of a minute.                                             *)
(*                                                                         *)
(* What keeps runs apart is that the database always remembers the last    *)
(* run, in one record or in the other: a daemon that dies without writing  *)
(* the last record leaves the lock behind (Recorded), and a daemon that    *)
(* deletes the lock, its own or another's, writes the last record.  The    *)
(* same holds of a run that is only being prepared (Preparing), and        *)
(* because preparing takes less than IfElapsed, there is never more than   *)
(* one (OneAtATime).                                                       *)
(*                                                                         *)
(* That no window of the schedule passes unserved rests on what the        *)
(* records hold while nobody is disturbed (Calm, in the last section).     *)
(***************************************************************************)
EXTENDS Execd, WellFoundedInduction, TLAPS

Where == {"off", "boot", "sleep", "getlock", "stuff", "release"}

LockData == [pid : Daemon \cup {None}, time : Nat \cup {NoTime}]

Types ==
    /\ clock \in Nat
    /\ lock \in [Names -> LockData]
    /\ last \in [Names -> Nat \cup {NoTime}]
    /\ pc \in [Daemon -> Where]
    /\ cflock \in [Daemon -> Names \cup {"pre-lock-state", "no_active_lock"}]
    /\ cflast \in [Daemon -> Names \cup {""}]
    /\ since \in [Daemon -> Nat]
    /\ sig \in [Daemon -> BOOLEAN]
    /\ begun \in Nat \cup {NoTime}

\* No moment that somebody has noted lies in the future.
Past ==
    /\ begun <= clock
    /\ \A d \in Daemon : since[d] <= clock
    /\ \A n \in Names : last[n] <= clock /\ lock[n].time <= clock

Typed == Types /\ Past

\* A release of the exec lock names its last record too.
NamesAgree == \A d \in Daemon : cflock[d] = "exec" => cflast[d] = "exec"

\* The database shows that somebody got the exec lock at t, or later.
Shows(t) ==
    \/ last["exec"] # NoTime /\ t <= last["exec"]
    \/ lock["exec"] # NoLock /\ t <= lock["exec"].time

Recorded == begun # NoTime => Shows(begun)

InRun(d) == pc[d] \in {"stuff", "release"}

Preparing ==
    \A d \in Daemon :
        InRun(d) =>
            /\ Shows(since[d])
            /\ clock <= since[d] + MaxStuff
            /\ pc[d] = "stuff" /\ begun # NoTime
                  => (since[d] - begun) \div SecondsPerMinute >= ExecIfElapsed

OneAtATime == \A d, e \in Daemon : InRun(d) /\ InRun(e) => d = e

IInv ==
    /\ Typed /\ NamesAgree
    /\ Recorded /\ Preparing /\ OneAtATime

-----------------------------------------------------------------------------
LEMMA Minutes ==
  /\ SecondsPerMinute \in Nat \ {0} /\ MaxStuff \in Nat
  /\ ExecIfElapsed \in Nat /\ ExecExpireAfter \in Nat
BY ScheduleAssumption

LEMMA DivMonotone ==
  ASSUME NEW x \in Nat, NEW y \in Nat, x <= y
  PROVE  /\ x \div SecondsPerMinute <= y \div SecondsPerMinute
         /\ x \div SecondsPerMinute \in Nat /\ y \div SecondsPerMinute \in Nat
BY Minutes

LEMMA QuotientMonotone ==
  ASSUME NEW x \in Int, NEW y \in Int, x <= y
  PROVE  x \div SecondsPerMinute <= y \div SecondsPerMinute
BY Minutes

LEMMA ExecSchedule ==
  /\ "exec" \in Names
  /\ IfElapsed["exec"] = ExecIfElapsed /\ ExpireAfter["exec"] = ExecExpireAfter
BY DEF Names, IfElapsed, ExpireAfter

LEMMA TimesAreNumbers == NoTime \in Int /\ \A t \in Nat : t # NoTime /\ ~(t <= NoTime)
                           /\ NoTime <= t
BY DEF NoTime

LEMMA LockDataType ==
  /\ NoLock \in LockData
  /\ \A d \in Daemon, t \in Nat : [pid |-> d, time |-> t] \in LockData
  /\ \A l \in LockData : l.time \in Nat \cup {NoTime}
BY DEF LockData, NoLock

\* What Typed says of the two records of "exec".
LEMMA ExecRecords ==
  ASSUME Typed
  PROVE  /\ clock \in Nat
         /\ last["exec"] # NoTime => last["exec"] \in Nat /\ last["exec"] <= clock
         /\ lock["exec"].time # NoTime =>
               lock["exec"].time \in Nat /\ lock["exec"].time <= clock
BY ExecSchedule, LockDataType DEF Typed, Types, Past

(* While the database shows a grant that is no older than MaxStuff, nobody *)
(* else gets the exec lock.                                                *)
LEMMA ShownIsRefused ==
  ASSUME Typed, NEW t \in Nat, Shows(t), clock <= t + MaxStuff
  PROVE  NotElapsed("exec") \/ Held("exec")
<1>1. ASSUME NEW u \in Nat, t <= u, u <= clock
      PROVE  Elapsed(u) < ExecIfElapsed /\ Elapsed(u) < ExecExpireAfter
  <2>1. clock \in Nat /\ clock - u \in Nat /\ clock - u <= MaxStuff
    BY <1>1, Minutes, ExecRecords
  <2>2. (clock - u) \div SecondsPerMinute <= MaxStuff \div SecondsPerMinute
        /\ (clock - u) \div SecondsPerMinute \in Nat
        /\ MaxStuff \div SecondsPerMinute \in Nat
    BY <2>1, Minutes, DivMonotone
  <2>. QED
    BY <2>2, Minutes, StuffAssumption DEF Elapsed
<1>2. CASE last["exec"] # NoTime /\ t <= last["exec"]
  BY <1>1, <1>2, ExecRecords, ExecSchedule DEF NotElapsed
<1>3. CASE lock["exec"] # NoLock /\ t <= lock["exec"].time
  <2>1. lock["exec"].time # NoTime
    BY <1>3, TimesAreNumbers
  <2>. QED
    BY <1>1, <1>3, <2>1, ExecRecords, ExecSchedule DEF Held
<1>. QED
  BY <1>2, <1>3 DEF Shows

(* Who gets the exec lock does so IfElapsed minutes after any grant that   *)
(* the database shows.                                                     *)
LEMMA GrantIsDue ==
  ASSUME Typed, NEW t \in Nat, Shows(t), ~NotElapsed("exec"), ~Held("exec")
  PROVE  (clock - t) \div SecondsPerMinute >= ExecIfElapsed
<1>1. ASSUME NEW u \in Nat, t <= u, u <= clock, Elapsed(u) >= ExecIfElapsed
      PROVE  (clock - t) \div SecondsPerMinute >= ExecIfElapsed
  <2>1. clock - u \in Nat /\ clock - t \in Nat /\ clock - u <= clock - t
    BY <1>1, ExecRecords
  <2>. QED
    BY <1>1, <2>1, DivMonotone, Minutes DEF Elapsed
<1>2. ASSUME NEW u \in Nat, u <= clock
      PROVE  Elapsed(u) \in Nat
  <2>1. clock - u \in Nat
    BY <1>2, ExecRecords
  <2>. QED
    BY <2>1, DivMonotone DEF Elapsed
<1>3. CASE last["exec"] # NoTime /\ t <= last["exec"]
  BY <1>1, <1>2, <1>3, ExecRecords, ExecSchedule, Minutes DEF NotElapsed
<1>4. CASE lock["exec"] # NoLock /\ t <= lock["exec"].time
  <2>1. lock["exec"].time \in Nat /\ lock["exec"].time <= clock
    BY <1>4, ExecRecords, TimesAreNumbers
  <2>2. Elapsed(lock["exec"].time) >= ExecExpireAfter
    BY <1>2, <1>4, <2>1, ExecSchedule, Minutes DEF Held
  <2>. QED
    BY <1>1, <1>2, <1>4, <2>1, <2>2, Minutes, StuffAssumption
<1>. QED
  BY <1>3, <1>4 DEF Shows

-----------------------------------------------------------------------------
(* The parts of the steps that touch the database.                         *)

DatabaseKept == lock' = lock /\ last' = last

LEMMA GrantDoes ==
  ASSUME Types, NEW d \in Daemon, NEW n \in Names, GrantLock(d, n)
  PROVE  /\ lock' = [lock EXCEPT ![n] = [pid |-> d, time |-> clock]]
         /\ last' = last \/ last' = [last EXCEPT ![n] = clock]
         /\ cflock' = [cflock EXCEPT ![d] = n] /\ cflast' = [cflast EXCEPT ![d] = n]
         /\ sig' \in [Daemon -> BOOLEAN]
BY DEF GrantLock, Types

LEMMA RefuseDoes ==
  ASSUME Types, NEW d \in Daemon, NEW n \in Names, RefuseLock(d, n)
  PROVE  /\ lock' = lock
         /\ last' = last \/ last' = [last EXCEPT ![n] = clock]
         /\ cflock' = [cflock EXCEPT ![d] = n] /\ cflast' = [cflast EXCEPT ![d] = n]
         /\ sig' = sig
BY DEF RefuseLock, Types

LEMMA ReleaseDoes ==
  ASSUME Types, NEW d \in Daemon, ReleaseCurrentLock(d)
  PROVE  /\ lock' = [n \in Names |-> IF n = cflock[d] THEN NoLock ELSE lock[n]]
         /\ cflast[d] \in Names
         /\ last' = [last EXCEPT ![cflast[d]] = clock]
         /\ cflock' = [cflock EXCEPT ![d] = "no_active_lock"] /\ cflast' = cflast
BY DEF ReleaseCurrentLock, Types

\* What a step does to the two records of every name.
LEMMA DatabaseStep ==
  ASSUME Types, Next
  PROVE  \/ DatabaseKept
         \/ \E d \in Daemon, n \in Names : GrantLock(d, n)
         \/ \E d \in Daemon : RefuseLock(d, "exec")
         \/ \E d \in Daemon : ReleaseCurrentLock(d)
<1>1. Tick => DatabaseKept
  BY DEF Tick, DatabaseKept
<1>2. ASSUME NEW d \in Daemon, DaemonStep(d)
      PROVE  \/ DatabaseKept
             \/ \E n \in Names : GrantLock(d, n)
             \/ RefuseLock(d, "exec")
             \/ ReleaseCurrentLock(d)
  BY <1>2, ExecSchedule DEF DaemonStep, DatabaseKept, StartServer, InstallHandlers,
     ScheduleRun, ExecRefused, ExecGranted, Spawn, ReleaseExec, Terminate,
     ExitCleanly, Crash, Names
<1>. QED
  BY <1>1, <1>2 DEF Next

DatabaseTypes ==
    /\ lock \in [Names -> LockData]
    /\ last \in [Names -> Nat \cup {NoTime}]
    /\ cflock \in [Daemon -> Names \cup {"pre-lock-state", "no_active_lock"}]
    /\ cflast \in [Daemon -> Names \cup {""}]

LEMMA DatabaseTypesStep ==
  ASSUME DatabaseTypes, clock \in Nat, NEW d \in Daemon, NEW n \in Names,
         GrantLock(d, n) \/ RefuseLock(d, n) \/ ReleaseCurrentLock(d)
  PROVE  DatabaseTypes'
<1> USE DEF DatabaseTypes
<1>1. CASE GrantLock(d, n)
  <2>1. lock' \in [Names -> LockData]
    BY <1>1, LockDataType DEF GrantLock
  <2>2. last' \in [Names -> Nat \cup {NoTime}]
    BY <1>1 DEF GrantLock
  <2>3. /\ cflock' \in [Daemon -> Names \cup {"pre-lock-state", "no_active_lock"}]
        /\ cflast' \in [Daemon -> Names \cup {""}]
    BY <1>1 DEF GrantLock
  <2>. QED
    BY <2>1, <2>2, <2>3
<1>2. CASE RefuseLock(d, n)
  BY <1>2 DEF RefuseLock
<1>3. CASE ReleaseCurrentLock(d)
  <2>1. lock' \in [Names -> LockData]
    BY <1>3, LockDataType DEF ReleaseCurrentLock
  <2>2. last' \in [Names -> Nat \cup {NoTime}]
    BY <1>3 DEF ReleaseCurrentLock
  <2>3. /\ cflock' \in [Daemon -> Names \cup {"pre-lock-state", "no_active_lock"}]
        /\ cflast' \in [Daemon -> Names \cup {""}]
    BY <1>3 DEF ReleaseCurrentLock
  <2>. QED
    BY <2>1, <2>2, <2>3
<1>. QED
  BY <1>1, <1>2, <1>3

LEMMA TypesStep == ASSUME Types, Next PROVE Types'
<1> USE DEF Where, Goto
<1>a. DatabaseTypes /\ clock \in Nat
  BY DEF Types, DatabaseTypes
<1>1. CASE Tick
  <2>1. clock' \in Nat
    <3>1. clock \in Nat
      BY DEF Types
    <3>. QED
      BY <1>1, <3>1 DEF Tick
  <2>. QED
    BY <1>1, <2>1 DEF Tick, Types
<1>2. ASSUME NEW d \in Daemon, StartServer(d) PROVE Types'
  <2>1. GrantLock(d, "execd") /\ "execd" \in Names
    BY <1>2 DEF StartServer, Names
  <2>2. DatabaseTypes'
    BY <1>a, <2>1, DatabaseTypesStep
  <2>3. sig' \in [Daemon -> BOOLEAN]
    BY <2>1 DEF GrantLock
  <2>. QED
    BY <1>2, <2>2, <2>3 DEF StartServer, Types, DatabaseTypes
<1>3. ASSUME NEW d \in Daemon, InstallHandlers(d) \/ Terminate(d) PROVE Types'
  <2>1. CASE InstallHandlers(d)
    BY ZenonT(40), <2>1 DEF InstallHandlers, Goto, Types
  <2>2. CASE Terminate(d)
    BY ZenonT(40), <2>2 DEF Terminate, Types
  <2>. QED
    BY <1>3, <2>1, <2>2
<1>4. ASSUME NEW d \in Daemon, ScheduleRun(d) PROVE Types'
  BY <1>4 DEF ScheduleRun, Types
<1>5. ASSUME NEW d \in Daemon, ExecRefused(d) PROVE Types'
  <2>1. RefuseLock(d, "exec") /\ "exec" \in Names
    BY <1>5, ExecSchedule DEF ExecRefused
  <2>2. DatabaseTypes'
    BY <1>a, <2>1, DatabaseTypesStep
  <2>3. sig' = sig
    BY <2>1 DEF RefuseLock
  <2>. QED
    BY <1>5, <2>2, <2>3 DEF ExecRefused, Types, DatabaseTypes
<1>6. ASSUME NEW d \in Daemon, ExecGranted(d) PROVE Types'
  <2>1. GrantLock(d, "exec") /\ "exec" \in Names
    BY <1>6, ExecSchedule DEF ExecGranted
  <2>2. DatabaseTypes'
    BY <1>a, <2>1, DatabaseTypesStep
  <2>3. sig' \in [Daemon -> BOOLEAN]
    BY <2>1 DEF GrantLock
  <2>. QED
    BY <1>6, <2>2, <2>3 DEF ExecGranted, Types, DatabaseTypes
<1>7. ASSUME NEW d \in Daemon, Spawn(d) PROVE Types'
  BY <1>7 DEF Spawn, Types
<1>8. ASSUME NEW d \in Daemon, ReleaseExec(d) \/ ExitCleanly(d) PROVE Types'
  <2>1. ReleaseCurrentLock(d)
    BY <1>8 DEF ReleaseExec, ExitCleanly
  <2>2. DatabaseTypes'
    BY <1>a, <2>1, DatabaseTypesStep, ExecSchedule
  <2>4. CASE ReleaseExec(d)
    BY <2>2, <2>4 DEF ReleaseExec, Types, DatabaseTypes
  <2>5. CASE ExitCleanly(d)
    BY <2>2, <2>5 DEF ExitCleanly, Vanish, Types, DatabaseTypes
  <2>. QED
    BY <1>8, <2>4, <2>5
<1>9. ASSUME NEW d \in Daemon, Crash(d) PROVE Types'
  BY <1>9 DEF Crash, Vanish, Types
<1>. QED
  BY <1>1, <1>2, <1>3, <1>4, <1>5, <1>6, <1>7, <1>8, <1>9 DEF Next, DaemonStep

(* Every moment that is noted is the present one.                          *)
LEMMA PastStep == ASSUME Types, Past, Next PROVE Past'
<1>1. clock \in Nat /\ clock' \in Nat /\ clock <= clock'
  <2>1. clock' = clock \/ Tick
    BY DEF Next, DaemonStep, StartServer, InstallHandlers, ScheduleRun, ExecRefused,
       ExecGranted, Spawn, ReleaseExec, Terminate, ExitCleanly, Crash, Vanish
  <2>2. clock \in Nat /\ clock' \in Nat
    BY TypesStep DEF Types
  <2>. QED
    BY <2>1, <2>2 DEF Tick
<1>2. ASSUME NEW x \in Int, x <= clock PROVE x <= clock'
  BY <1>1, <1>2
<1>3. ASSUME NEW d \in Daemon PROVE since'[d] <= clock'
  <2>1. since[d] \in Int /\ since[d] <= clock
    <3>1. since[d] \in Nat
      BY DEF Types
    <3>2. since[d] <= clock
      BY DEF Past
    <3>. QED
      BY <3>1, <3>2
  <2>2. since'[d] = since[d] \/ since'[d] = clock
    BY DEF Next, DaemonStep, Tick, StartServer, InstallHandlers, ScheduleRun,
       ExecRefused, ExecGranted, Spawn, ReleaseExec, Terminate, ExitCleanly, Crash,
       Vanish, Types
  <2>. QED
    BY <1>1, <1>2, <2>1, <2>2
<1>4. begun' <= clock'
  <2>1. /\ begun \in Nat \cup {NoTime} /\ \A d \in Daemon : since[d] \in Nat
        /\ begun <= clock /\ \A d \in Daemon : since[d] <= clock
    <3>1. begun \in Nat \cup {NoTime} /\ \A d \in Daemon : since[d] \in Nat
      BY DEF Types
    <3>2. begun <= clock /\ \A d \in Daemon : since[d] <= clock
      BY DEF Past
    <3>. QED
      BY <3>1, <3>2
  <2>2. begun' = begun \/ \E d \in Daemon : begun' = since[d]
    BY DEF Next, DaemonStep, Tick, StartServer, InstallHandlers, ScheduleRun,
       ExecRefused, ExecGranted, Spawn, ReleaseExec, Terminate, ExitCleanly, Crash,
       Vanish
  <2>. QED
    BY <1>2, <2>1, <2>2, TimesAreNumbers
<1>5. ASSUME NEW n \in Names PROVE last'[n] <= clock' /\ lock'[n].time <= clock'
  <2>1. last[n] \in Int /\ last[n] <= clock
    <3>1. last[n] \in Nat \cup {NoTime}
      BY DEF Types
    <3>2. last[n] <= clock
      BY DEF Past
    <3>. QED
      BY <3>1, <3>2, TimesAreNumbers
  <2>2. lock[n].time \in Int /\ lock[n].time <= clock
    <3>1. lock[n].time \in Nat \cup {NoTime}
      BY LockDataType DEF Types
    <3>2. lock[n].time <= clock
      BY DEF Past
    <3>. QED
      BY <3>1, <3>2, TimesAreNumbers
  <2>3. NoLock.time \in Int /\ NoLock.time <= clock
    BY <1>1, TimesAreNumbers DEF NoLock
  <2>4. CASE DatabaseKept
    BY <1>2, <2>1, <2>2, <2>4 DEF DatabaseKept
  <2>5. ASSUME NEW d \in Daemon, NEW m \in Names, GrantLock(d, m)
        PROVE  last'[n] <= clock' /\ lock'[n].time <= clock'
    <3>1. last'[n] = last[n] \/ last'[n] = clock
      BY <2>5, GrantDoes DEF Types
    <3>2. lock'[n] = lock[n] \/ lock'[n] = [pid |-> d, time |-> clock]
      <4>1. lock' = [lock EXCEPT ![m] = [pid |-> d, time |-> clock]]
        BY <2>5, GrantDoes
      <4>2. DOMAIN lock = Names
        BY DEF Types
      <4>. QED
        BY <4>1, <4>2
    <3>. QED
      BY <1>1, <1>2, <2>1, <2>2, <3>1, <3>2
  <2>6. ASSUME NEW d \in Daemon, RefuseLock(d, "exec")
        PROVE  last'[n] <= clock' /\ lock'[n].time <= clock'
    <3>1. last'[n] = last[n] \/ last'[n] = clock
      BY <2>6, RefuseDoes, ExecSchedule DEF Types
    <3>2. lock' = lock
      BY <2>6, RefuseDoes, ExecSchedule
    <3>. QED
      BY <1>1, <1>2, <2>1, <2>2, <3>1, <3>2
  <2>7. ASSUME NEW d \in Daemon, ReleaseCurrentLock(d)
        PROVE  last'[n] <= clock' /\ lock'[n].time <= clock'
    <3>1. last'[n] = last[n] \/ last'[n] = clock
      BY <2>7, ReleaseDoes DEF Types
    <3>2. lock'[n] = lock[n] \/ lock'[n] = NoLock
      BY <2>7, ReleaseDoes
    <3>. QED
      BY <1>1, <1>2, <2>1, <2>2, <2>3, <3>1, <3>2
  <2>. QED
    BY <2>4, <2>5, <2>6, <2>7, DatabaseStep
<1>. QED
  BY <1>3, <1>4, <1>5 DEF Past

LEMMA NamesAgreeStep == ASSUME Types, NamesAgree, Next PROVE NamesAgree'
<1> USE DEF NamesAgree
<1>1. CASE Tick
  BY <1>1 DEF Tick
<1>2. ASSUME NEW d \in Daemon, NEW n \in Names, GrantLock(d, n) \/ RefuseLock(d, n)
      PROVE  NamesAgree'
  BY <1>2 DEF GrantLock, RefuseLock, Types
<1>3. ASSUME NEW d \in Daemon, ReleaseCurrentLock(d) PROVE NamesAgree'
  BY <1>3 DEF ReleaseCurrentLock, Types
<1>4. ASSUME NEW d \in Daemon, cflock' = cflock, cflast' = cflast PROVE NamesAgree'
  BY <1>4
<1>. QED
  BY <1>1, <1>2, <1>3, <1>4, ExecSchedule DEF Next, DaemonStep, StartServer,
     InstallHandlers, ScheduleRun, ExecRefused, ExecGranted, Spawn, ReleaseExec,
     Terminate, ExitCleanly, Crash, Names

(* A grant that the database shows it goes on to show.                     *)
LEMMA ShowsStep ==
  ASSUME Types, NamesAgree, Next, NEW t \in Nat, t <= clock, Shows(t)
  PROVE  Shows(t)'
<1> USE DEF Shows
<1>1. clock \in Nat /\ clock # NoTime
  BY TimesAreNumbers DEF Types
<1>2. ASSUME DatabaseKept PROVE Shows(t)'
  BY <1>2 DEF DatabaseKept
<1>3. ASSUME NEW d \in Daemon, NEW n \in Names, GrantLock(d, n) PROVE Shows(t)'
  <2>1. lock'["exec"] = lock["exec"] \/ lock'["exec"] = [pid |-> d, time |-> clock]
    <3>1. lock' = [lock EXCEPT ![n] = [pid |-> d, time |-> clock]]
      BY <1>3, GrantDoes DEF Typed
    <3>2. DOMAIN lock = Names
      BY DEF Types
    <3>. QED
      BY <3>1, <3>2, ExecSchedule
  <2>2. last'["exec"] = last["exec"] \/ last'["exec"] = clock
    BY <1>3, GrantDoes, ExecSchedule DEF Types
  <2>3. [pid |-> d, time |-> clock] # NoLock
    BY <1>1 DEF NoLock
  <2>. QED
    BY <1>1, <2>1, <2>2, <2>3
<1>4. ASSUME NEW d \in Daemon, RefuseLock(d, "exec") PROVE Shows(t)'
  <2>1. lock' = lock /\ (last'["exec"] = last["exec"] \/ last'["exec"] = clock)
    BY <1>4, ExecSchedule DEF RefuseLock, Typed
  <2>. QED
    BY <1>1, <2>1
<1>5. ASSUME NEW d \in Daemon, ReleaseCurrentLock(d) PROVE Shows(t)'
  <2>1. CASE cflast[d] = "exec"
    <3>1. last'["exec"] = clock
      BY <1>5, <2>1, ReleaseDoes, ExecSchedule DEF Types
    <3>. QED
      BY <1>1, <3>1
  <2>2. CASE cflast[d] # "exec"
    <3>1. cflock[d] # "exec"
      BY <2>2 DEF NamesAgree
    <3>2. lock'["exec"] = lock["exec"]
      BY <1>5, <3>1, ReleaseDoes, ExecSchedule
    <3>3. last'["exec"] = last["exec"]
      BY <1>5, <2>2, ReleaseDoes, ExecSchedule DEF Types
    <3>. QED
      BY <3>2, <3>3
  <2>. QED
    BY <2>1, <2>2
<1>. QED
  BY <1>2, <1>3, <1>4, <1>5, DatabaseStep

LEMMA RecordedStep == ASSUME IInv, Next PROVE Recorded'
<1>1. Types /\ Past /\ Typed /\ NamesAgree /\ Recorded /\ Preparing
  BY DEF IInv, Typed
<1>2. /\ begun \in Nat \cup {NoTime} /\ begun <= clock
      /\ \A d \in Daemon : since[d] \in Nat /\ since[d] <= clock
  <2>1. begun \in Nat \cup {NoTime} /\ \A d \in Daemon : since[d] \in Nat
    BY <1>1 DEF Types
  <2>2. begun <= clock /\ \A d \in Daemon : since[d] <= clock
    BY <1>1 DEF Past
  <2>. QED
    BY <2>1, <2>2
<1>3. CASE begun' = begun
  <2>1. ASSUME begun # NoTime PROVE Shows(begun)'
    <3>1. PICK t \in Nat : t = begun
      BY <1>2, <2>1
    <3>2. Shows(t) /\ t <= clock
      BY <1>1, <1>2, <2>1, <3>1 DEF Recorded
    <3>3. Shows(t)'
      BY <1>1, <3>2, ShowsStep
    <3>. QED
      BY <1>3, <3>1, <3>3 DEF Shows
  <2>. QED
    BY <1>3, <2>1 DEF Recorded
<1>4. ASSUME NEW d \in Daemon, Spawn(d) PROVE Recorded'
  <2>1. begun' = since[d] /\ lock' = lock /\ last' = last /\ pc[d] = "stuff"
    BY <1>4 DEF Spawn
  <2>2. Shows(since[d])
    BY <1>1, <2>1 DEF Preparing, InRun
  <2>. QED
    BY <2>1, <2>2 DEF Recorded, Shows
<1>5. begun' = begun \/ \E d \in Daemon : Spawn(d)
  BY DEF Next, DaemonStep, Tick, StartServer, InstallHandlers, ScheduleRun,
     ExecRefused, ExecGranted, ReleaseExec, Terminate, ExitCleanly, Crash, Vanish
<1>. QED
  BY <1>3, <1>4, <1>5

(* A run is prepared because it was, or because the lock was just granted. *)
LEMMA InRunStep ==
  ASSUME Types, Next, NEW d \in Daemon, InRun(d)'
  PROVE  \/ /\ InRun(d) /\ since'[d] = since[d]
            /\ pc'[d] = "stuff" => pc[d] = "stuff"
         \/ ExecGranted(d)
<1> DEFINE Goal == \/ /\ InRun(d) /\ since'[d] = since[d]
                      /\ pc'[d] = "stuff" => pc[d] = "stuff"
                   \/ ExecGranted(d)
<1> USE DEF InRun, Goto
<1>a. pc \in [Daemon -> Where] /\ since \in [Daemon -> Nat]
  BY DEF Types
<1>1. Tick => Goal
  BY DEF Tick
<1>2. ASSUME NEW e \in Daemon, StartServer(e) \/ Terminate(e) PROVE Goal
  BY <1>a, <1>2 DEF StartServer, Terminate
<1>3. ASSUME NEW e \in Daemon, InstallHandlers(e) PROVE Goal
  BY <1>a, <1>3 DEF InstallHandlers
<1>4. ASSUME NEW e \in Daemon, ScheduleRun(e) PROVE Goal
  BY <1>a, <1>4 DEF ScheduleRun
<1>5. ASSUME NEW e \in Daemon, ExecRefused(e) \/ ReleaseExec(e) PROVE Goal
  BY <1>a, <1>5 DEF ExecRefused, ReleaseExec
<1>6. ASSUME NEW e \in Daemon, ExecGranted(e) PROVE Goal
  BY <1>a, <1>6 DEF ExecGranted
<1>7. ASSUME NEW e \in Daemon, Spawn(e) PROVE Goal
  BY <1>a, <1>7 DEF Spawn
<1>8. ASSUME NEW e \in Daemon, ExitCleanly(e) \/ Crash(e) PROVE Goal
  BY <1>a, <1>8 DEF ExitCleanly, Crash, Vanish
<1>. QED
  BY <1>1, <1>2, <1>3, <1>4, <1>5, <1>6, <1>7, <1>8 DEF Next, DaemonStep

(* Whoever is granted the exec lock is alone.                              *)
LEMMA GrantedAlone ==
  ASSUME IInv, NEW d \in Daemon, ExecGranted(d), NEW e \in Daemon
  PROVE  ~InRun(e)
<1>1. ~NotElapsed("exec") /\ ~Held("exec")
  BY DEF ExecGranted, GrantLock
<1>2. Typed /\ since[e] \in Nat
  BY DEF IInv, Typed, Types
<1>3. InRun(e) => Shows(since[e]) /\ clock <= since[e] + MaxStuff
  BY DEF IInv, Preparing
<1>. QED
  BY <1>1, <1>2, <1>3, ShownIsRefused

LEMMA OneAtATimeStep == ASSUME IInv, Next PROVE OneAtATime'
<1> SUFFICES ASSUME NEW d \in Daemon, NEW e \in Daemon, InRun(d)', InRun(e)'
             PROVE  d = e
  BY DEF OneAtATime
<1>1. Types /\ OneAtATime
  BY DEF IInv, Typed
<1>2. ASSUME NEW f \in Daemon, ExecGranted(f), NEW g \in Daemon, InRun(g)' PROVE g = f
  <2>1. ~InRun(g)
    BY <1>2, GrantedAlone
  <2>2. pc' = [pc EXCEPT ![f] = "stuff"]
    BY <1>2 DEF ExecGranted, Goto
  <2>. QED
    BY <1>1, <1>2, <2>1, <2>2 DEF InRun, Types
<1>3. CASE ExecGranted(d) \/ ExecGranted(e)
  BY <1>2, <1>3
<1>4. CASE InRun(d) /\ InRun(e)
  BY <1>1, <1>4 DEF OneAtATime
<1>. QED
  BY <1>1, <1>3, <1>4, InRunStep

LEMMA PreparingStep == ASSUME IInv, Next PROVE Preparing'
<1> SUFFICES ASSUME NEW d \in Daemon, InRun(d)'
             PROVE  /\ Shows(since[d])'
                    /\ clock' <= since'[d] + MaxStuff
                    /\ pc'[d] = "stuff" /\ begun' # NoTime
                         => (since'[d] - begun') \div SecondsPerMinute >= ExecIfElapsed
  BY DEF Preparing
<1>1. Types /\ Past /\ Typed /\ NamesAgree /\ Recorded /\ Preparing /\ OneAtATime
  BY DEF IInv, Typed
<1>2. clock \in Nat /\ since[d] \in Nat /\ begun \in Nat \cup {NoTime}
      /\ pc \in [Daemon -> Where] /\ since \in [Daemon -> Nat]
  BY <1>1 DEF Types
<1>3. since[d] <= clock
  BY <1>1 DEF Past
<1>4. CASE ExecGranted(d)
  <2>1. clock' = clock /\ since'[d] = clock /\ begun' = begun /\ GrantLock(d, "exec")
    BY <1>2, <1>4 DEF ExecGranted
  <2>2. lock'["exec"] = [pid |-> d, time |-> clock]
    <3>1. lock' = [lock EXCEPT !["exec"] = [pid |-> d, time |-> clock]]
      BY <1>1, <2>1, GrantDoes, ExecSchedule
    <3>2. DOMAIN lock = Names
      BY <1>1 DEF Types
    <3>. QED
      BY <3>1, <3>2, ExecSchedule
  <2>3. [pid |-> d, time |-> clock] # NoLock
    BY <1>2, TimesAreNumbers DEF NoLock
  <2>4. Shows(since[d])'
    BY <1>2, <2>1, <2>2, <2>3 DEF Shows
  <2>5. clock <= clock + MaxStuff
    BY <1>2, Minutes
  <2>6. ASSUME begun # NoTime
        PROVE  (clock - begun) \div SecondsPerMinute >= ExecIfElapsed
    <3>1. begun \in Nat /\ Shows(begun)
      BY <1>1, <1>2, <2>6 DEF Recorded
    <3>. QED
      BY <1>1, <2>1, <3>1, GrantIsDue DEF GrantLock
  <2>. QED
    BY <2>1, <2>4, <2>5, <2>6
<1>5. CASE InRun(d) /\ since'[d] = since[d] /\ (pc'[d] = "stuff" => pc[d] = "stuff")
  <2>1. Shows(since[d]) /\ clock <= since[d] + MaxStuff
    BY <1>1, <1>5 DEF Preparing
  <2>2. Shows(since[d])'
    <3>1. PICK t \in Nat : t = since[d]
      BY <1>2
    <3>2. Shows(t)'
      BY <1>1, <1>3, <2>1, <3>1, ShowsStep
    <3>. QED
      BY <1>5, <3>1, <3>2 DEF Shows
  <2>3. clock' <= since'[d] + MaxStuff
    <3>1. CASE Tick
      <4>1. pc[d] = "stuff" /\ clock < since[d] + MaxStuff /\ clock' = clock + 1
        BY <1>5, <3>1 DEF Tick, InRun
      <4>. QED
        BY <1>2, <1>5, <4>1, Minutes
    <3>2. clock' = clock \/ Tick
      BY DEF Next, DaemonStep, StartServer, InstallHandlers, ScheduleRun, ExecRefused,
         ExecGranted, Spawn, ReleaseExec, Terminate, ExitCleanly, Crash, Vanish
    <3>. QED
      BY <1>5, <2>1, <3>1, <3>2
  <2>4. ASSUME pc'[d] = "stuff" PROVE begun' = begun
    <3>1. ASSUME NEW e \in Daemon, Spawn(e) PROVE FALSE
      <4>1. InRun(e) /\ pc'[e] = "release"
        BY <1>2, <3>1 DEF Spawn, InRun, Goto
      <4>2. e = d
        BY <1>1, <1>5, <4>1 DEF OneAtATime
      <4>. QED
        BY <2>4, <4>1, <4>2
    <3>. QED
      BY <3>1 DEF Next, DaemonStep, Tick, StartServer, InstallHandlers, ScheduleRun,
         ExecRefused, ExecGranted, ReleaseExec, Terminate, ExitCleanly, Crash, Vanish
  <2>5. pc[d] = "stuff" /\ begun # NoTime
           => (since[d] - begun) \div SecondsPerMinute >= ExecIfElapsed
    BY <1>1, <1>5 DEF Preparing
  <2>. QED
    BY <1>5, <2>2, <2>3, <2>4, <2>5
<1>. QED
  BY <1>1, <1>4, <1>5, InRunStep

-----------------------------------------------------------------------------
LEMMA InitIInv == Init => IInv
<1> SUFFICES ASSUME Init PROVE IInv
  OBVIOUS
<1>1. Types
  BY LockDataType DEF Init, Types, Where
<1>2. Past
  <2>1. NoTime <= clock /\ clock = 0 /\ NoLock.time = NoTime
    BY TimesAreNumbers DEF Init, NoLock
  <2>2. \A d \in Daemon : since[d] <= clock
    <3>1. \A d \in Daemon : since[d] = 0
      BY DEF Init
    <3>2. 0 <= 0
      OBVIOUS
    <3>. QED
      BY <2>1, <3>1, <3>2
  <2>3. begun <= clock /\ \A n \in Names : last[n] <= clock /\ lock[n].time <= clock
    BY <2>1 DEF Init
  <2>. QED
    BY <2>2, <2>3 DEF Past
<1>3. NamesAgree /\ Recorded /\ Preparing /\ OneAtATime
  BY DEF Init, NamesAgree, Recorded, Preparing, OneAtATime, InRun
<1>. QED
  BY <1>1, <1>2, <1>3 DEF IInv, Typed

LEMMA StepIInv == IInv /\ [Next]_vars => IInv'
<1>1. ASSUME IInv, Next PROVE IInv'
  <2>1. Types' /\ Past' /\ NamesAgree'
    BY <1>1, TypesStep, PastStep, NamesAgreeStep DEF IInv, Typed
  <2>2. Recorded' /\ Preparing' /\ OneAtATime'
    BY <1>1, RecordedStep, PreparingStep, OneAtATimeStep
  <2>. QED
    BY <2>1, <2>2 DEF IInv, Typed
<1>2. ASSUME IInv, UNCHANGED vars PROVE IInv'
  BY <1>2 DEF vars, IInv, Typed, Types, Past, NamesAgree, Recorded, Preparing,
     OneAtATime, Shows, InRun
<1>. QED
  BY <1>1, <1>2

(* The database always remembers the last run and the one that is being    *)
(* prepared, and there is never more than one of those.                    *)
THEOREM ExecdInvariant == Spec => []IInv
BY InitIInv, StepIInv, PTL DEF Spec

(* cfexecd never starts runs of the agent less than ExecIfElapsed minutes  *)
(* apart, however many daemons there are and wherever they die.            *)
THEOREM RunsKeepTheirDistance == Spec => RunsSpaced
<1> DEFINE Spaced == \A d \in Daemon :
                        Spawn(d) /\ begun # NoTime => Elapsed(begun) >= ExecIfElapsed
<1>1. IInv /\ [Next]_vars => [Spaced]_vars
  <2> SUFFICES ASSUME IInv, NEW d \in Daemon, Spawn(d), begun # NoTime
               PROVE  Elapsed(begun) >= ExecIfElapsed
    OBVIOUS
  <2>1. (since[d] - begun) \div SecondsPerMinute >= ExecIfElapsed
    BY DEF IInv, Preparing, InRun, Spawn
  <2>2. begun \in Nat /\ since[d] \in Nat /\ clock \in Nat
    BY DEF IInv, Typed, Types
  <2>3. since[d] <= clock
    BY DEF IInv, Typed, Past
  <2>4. (since[d] - begun) \div SecondsPerMinute
          <= (clock - begun) \div SecondsPerMinute
    <3>1. since[d] - begun \in Int /\ clock - begun \in Int
      BY <2>2
    <3>2. since[d] - begun <= clock - begun
      BY <2>2, <2>3
    <3>. QED
      BY <3>1, <3>2, QuotientMonotone
  <2>5. /\ (since[d] - begun) \div SecondsPerMinute \in Int
        /\ (clock - begun) \div SecondsPerMinute \in Int
    BY <2>2, Minutes
  <2>. QED
    BY <2>1, <2>4, <2>5, Minutes DEF Elapsed
<1>. QED
  BY <1>1, ExecdInvariant, PTL DEF Spec, RunsSpaced

-----------------------------------------------------------------------------
(***************************************************************************)
(* No window passes unserved.  While nothing is disturbed, the record of   *)
(* the exec lock and its last record are what runs at scheduled moments    *)
(* left (LockCalm, LastCalm), so that a daemon that tries in a window and  *)
(* is refused finds that the run of the window has begun (Tried), and it   *)
(* does try, because it sleeps less than a window (Stands).                *)
(***************************************************************************)
Expiry == ExecExpireAfter * SecondsPerMinute
SomeRun == \E e \in Daemon : InRun(e)

SteadyPast ==
    /\ clock \in 0 .. MaxTime
    /\ steady \in [Daemon -> Nat]
    /\ \A d \in Daemon : steady[d] <= clock
    /\ \A d, e \in Daemon : steady[d] = steady[e]

Stands(d) ==
    /\ pc[d] = "boot" => steady[d] = clock
    /\ pc[d] = "getlock" => IsScheduled(clock)
    /\ pc[d] = "sleep" => clock <= since[d] + SecondsPerMinute + 1
    /\ InRun(d) => /\ IsScheduled(since[d])
                   /\ since[d] = clock \/ steady[d] = clock
                   /\ cflock[d] = "exec" /\ cflast[d] = "exec"
    /\ pc[d] = "release" => begun = since[d]

LockCalm ==
    \A d \in Daemon :
        lock["exec"] # NoLock /\ lock["exec"].time > steady[d]
            => lock["exec"].time = clock /\ SomeRun

LastCalm ==
    \A d \in Daemon :
        last["exec"] > steady[d] =>
            /\ IsScheduled(last["exec"])
            /\ \/ last["exec"] < steady[d] + Expiry
               \/ begun >= last["exec"]
               \/ last["exec"] = clock /\ SomeRun

\* The window that began at w has lasted until now.
Window(w) == ~IsScheduled(w - 1) /\ \A u \in w .. clock - 1 : IsScheduled(u)
Served(w) == begun >= w \/ \E e \in Daemon : InRun(e) /\ since[e] >= w

Tried ==
    \A d \in Daemon, w \in 1 .. clock :
        Alive(d) /\ steady[d] + Expiry <= w /\ Window(w)
            => Served(w) \/ since[d] <= w

Calm == /\ SteadyPast /\ LockCalm /\ LastCalm /\ Tried
        /\ \A d \in Daemon : Stands(d)

LEMMA ExpiryPositive == Expiry \in Nat /\ Expiry >= 1
  /\ ExecIfElapsed * SecondsPerMinute <= Expiry
<1>1. MaxStuff \div SecondsPerMinute \in Nat
  BY Minutes
<1>2. ExecExpireAfter >= 1 /\ ExecIfElapsed <= ExecExpireAfter
  BY <1>1, Minutes, StuffAssumption
<1>. QED
  BY <1>2, Minutes DEF Expiry

LEMMA LessMinutes ==
  ASSUME NEW x \in Nat, NEW n \in Nat, x \div SecondsPerMinute < n
  PROVE  x < n * SecondsPerMinute
<1> DEFINE q == x \div SecondsPerMinute
<1>1. q \in Nat /\ x < q * SecondsPerMinute + SecondsPerMinute
  BY Minutes
<1>2. q + 1 <= n
  BY <1>1
<1>3. (q + 1) * SecondsPerMinute <= n * SecondsPerMinute
  <2> HIDE DEF q
  <2>. QED
    BY <1>1, <1>2, Minutes
<1>. QED
  BY <1>1, <1>3, Minutes

(* What the types and the invariant say of the moments.                    *)
LEMMA Moments ==
  ASSUME IInv, Calm
  PROVE  /\ clock \in Nat /\ steady \in [Daemon -> Nat] /\ since \in [Daemon -> Nat]
         /\ \A d \in Daemon : since[d] <= clock /\ steady[d] <= clock
         /\ begun \in Int /\ begun <= clock
         /\ last["exec"] \in Int /\ last["exec"] <= clock
         /\ lock["exec"].time \in Int /\ lock["exec"].time <= clock
         /\ pc \in [Daemon -> Where]
<1>1. Typed
  BY DEF IInv
<1>2. /\ clock \in Nat /\ since \in [Daemon -> Nat] /\ pc \in [Daemon -> Where]
      /\ begun \in Nat \cup {NoTime} /\ last["exec"] \in Nat \cup {NoTime}
      /\ lock["exec"] \in LockData
  BY <1>1, ExecSchedule DEF Typed, Types
<1>3. /\ \A d \in Daemon : since[d] <= clock
      /\ begun <= clock /\ last["exec"] <= clock /\ lock["exec"].time <= clock
  BY <1>1, ExecSchedule DEF Typed, Past
<1>4. steady \in [Daemon -> Nat] /\ \A d \in Daemon : steady[d] <= clock
  BY DEF Calm, SteadyPast
<1>. QED
  BY <1>2, <1>3, <1>4, TimesAreNumbers, LockDataType

(* Whatever disturbs the daemons leaves nothing to be shown but where they *)
(* stand.                                                                  *)
LEMMA CalmDisturbed ==
  ASSUME IInv', Calm, clock' = clock, Disturbed, \A d \in Daemon : Stands(d)'
  PROVE  Calm'
<1>1. SteadyPast'
  BY DEF Calm, SteadyPast, Disturbed
<1>2. \A d \in Daemon : steady'[d] = clock'
  BY DEF Disturbed
<1>3. /\ clock' \in Nat /\ last'["exec"] \in Int /\ last'["exec"] <= clock'
      /\ lock'["exec"].time \in Int /\ lock'["exec"].time <= clock'
  <2>1. Typed'
    BY DEF IInv
  <2>2. /\ clock' \in Nat /\ last'["exec"] \in Nat \cup {NoTime}
        /\ lock'["exec"] \in LockData
    BY <2>1, ExecSchedule DEF Typed, Types
  <2>3. last'["exec"] <= clock' /\ lock'["exec"].time <= clock'
    BY <2>1, ExecSchedule DEF Typed, Past
  <2>. QED
    BY <2>2, <2>3, TimesAreNumbers, LockDataType
<1>4. LockCalm' /\ LastCalm'
  BY <1>2, <1>3 DEF LockCalm, LastCalm
<1>5. Tried'
  <2>. SUFFICES ASSUME NEW d \in Daemon, NEW w \in 1 .. clock',
                       (steady[d] + Expiry)' <= w
                PROVE  FALSE
    BY DEF Tried
  <2>1. Expiry' = Expiry
    BY DEF Expiry
  <2>. QED
    BY <1>2, <1>3, <2>1, ExpiryPositive
<1>. QED
  BY <1>1, <1>4, <1>5 DEF Calm

LEMMA StartCalm ==
  ASSUME IInv, IInv', Calm, NEW d \in Daemon,
         StartServer(d) \/ ExitCleanly(d) \/ Crash(d)
  PROVE  Calm'
<1>1. /\ clock' = clock /\ Disturbed /\ since' = since /\ begun' = begun
      /\ \A e \in Daemon \ {d} : cflock'[e] = cflock[e] /\ cflast'[e] = cflast[e]
      /\ pc' = [pc EXCEPT ![d] = "boot"] \/ pc' = [pc EXCEPT ![d] = "off"]
  <2>1. CASE StartServer(d)
    <3>1. cflock' = [cflock EXCEPT ![d] = "execd"] /\ cflast' = [cflast EXCEPT ![d] = "execd"]
      BY <2>1 DEF StartServer, GrantLock
    <3>2. DOMAIN cflock = Daemon /\ DOMAIN cflast = Daemon
      BY DEF IInv, Typed, Types
    <3>. QED
      BY <2>1, <3>1, <3>2 DEF StartServer, Goto
  <2>2. CASE ExitCleanly(d)
    <3>1. cflock' = [cflock EXCEPT ![d] = "no_active_lock"] /\ cflast' = cflast
      BY <2>2 DEF ExitCleanly, ReleaseCurrentLock
    <3>2. DOMAIN cflock = Daemon
      BY DEF IInv, Typed, Types
    <3>. QED
      BY <2>2, <3>1, <3>2 DEF ExitCleanly, Vanish, Goto
  <2>3. CASE Crash(d)
    BY <2>3 DEF Crash, Vanish, Goto
  <2>. QED
    BY <2>1, <2>2, <2>3
<1>2. pc'[d] \in {"boot", "off"} /\ \A e \in Daemon \ {d} : pc'[e] = pc[e]
  BY <1>1, Moments
<1>3. ASSUME NEW e \in Daemon PROVE Stands(e)'
  <2>1. steady'[e] = clock'
    BY <1>1 DEF Disturbed
  <2>2. CASE e = d
    BY <1>2, <2>1, <2>2 DEF Stands, InRun
  <2>3. CASE e # d
    <3>1. Stands(e)
      BY DEF Calm
    <3>2. pc'[e] = pc[e] /\ cflock'[e] = cflock[e] /\ cflast'[e] = cflast[e]
      BY <1>1, <1>2, <2>3
    <3>3. InRun(e)' = InRun(e) /\ IsScheduled(clock)' = IsScheduled(clock)
          /\ IsScheduled(since[e])' = IsScheduled(since[e])
      BY <1>1, <3>2 DEF InRun, IsScheduled
    <3>. QED
      BY <1>1, <2>1, <3>1, <3>2, <3>3 DEF Stands
  <2>. QED
    BY <2>2, <2>3
<1>. QED
  BY <1>1, <1>3, CalmDisturbed

LEMMA TickCalm ==
  ASSUME IInv, Calm, Tick
  PROVE  Calm'
<1>1. /\ clock < MaxTime /\ clock' = clock + 1
      /\ steady' = [d \in Daemon |-> IF \E e \in Daemon : pc[e] = "stuff"
                                     THEN clock' ELSE steady[d]]
      /\ UNCHANGED <<lock, last, pc, cflock, cflast, since, begun>>
      /\ \A d \in Daemon :
            /\ pc[d] \notin {"boot", "getlock", "release"}
            /\ pc[d] = "sleep" => clock < since[d] + SecondsPerMinute + 1
  BY DEF Tick
<1>2. SomeRun <=> \E e \in Daemon : pc[e] = "stuff"
  BY <1>1 DEF SomeRun, InRun
<1>3. \A d \in Daemon : steady'[d] = IF SomeRun THEN clock' ELSE steady[d]
  BY <1>1, <1>2
<1>a. MaxTime \in Nat /\ clock' \in Nat /\ SecondsPerMinute \in Nat
  BY <1>1, Moments, ScheduleAssumption
<1>4. SteadyPast'
  <2>1. steady' \in [Daemon -> Nat] /\ \A d \in Daemon : steady'[d] <= clock'
    BY <1>1, <1>3, <1>a, Moments
  <2>2. \A d, e \in Daemon : steady'[d] = steady'[e]
    BY <1>3 DEF Calm, SteadyPast
  <2>3. clock' \in 0 .. MaxTime
    BY <1>1, <1>a, Moments
  <2>. QED
    BY <2>1, <2>2, <2>3 DEF SteadyPast
<1>5. ASSUME NEW d \in Daemon PROVE Stands(d)'
  <2>1. Stands(d)
    BY DEF Calm
  <2>2. InRun(d) => SomeRun
    BY DEF SomeRun
  <2>3. pc[d] = "sleep" => clock' <= since'[d] + SecondsPerMinute + 1
    <3>1. since[d] \in Nat /\ clock \in Nat
      BY Moments
    <3>. QED
      BY <1>1, <1>a, <3>1
  <2>4. InRun(d)' = InRun(d) /\ IsScheduled(since[d])' = IsScheduled(since[d])
    BY <1>1 DEF InRun, IsScheduled
  <2>. QED
    BY <1>1, <1>3, <2>1, <2>2, <2>3, <2>4 DEF Stands
<1>6. LockCalm' /\ LastCalm'
  <2>1. CASE SomeRun
    <3>1. /\ lock'["exec"].time \in Int /\ lock'["exec"].time <= clock'
          /\ last'["exec"] \in Int /\ last'["exec"] <= clock'
      BY <1>1, Moments
    <3>. QED
      BY <1>3, <1>a, <2>1, <3>1 DEF LockCalm, LastCalm
  <2>2. CASE ~SomeRun
    <3>1. IsScheduled(last["exec"])' = IsScheduled(last["exec"]) /\ Expiry' = Expiry
      BY <1>1 DEF IsScheduled, Expiry
    <3>2. LockCalm'
      BY <1>1, <1>3, <2>2 DEF Calm, LockCalm
    <3>3. LastCalm'
      BY <1>1, <1>3, <2>2, <3>1 DEF Calm, LastCalm
    <3>. QED
      BY <3>2, <3>3
  <2>. QED
    BY <2>1, <2>2
<1>7. Tried'
  <2>. SUFFICES ASSUME NEW d \in Daemon, NEW w \in 1 .. clock', Alive(d)',
                       (steady[d] + Expiry)' <= w, Window(w)'
                PROVE  Served(w)' \/ since'[d] <= w
    BY DEF Tried
  <2>1. Expiry' = Expiry
    BY DEF Expiry
  <2>2. ~SomeRun /\ steady'[d] = steady[d]
    BY <1>1, <1>3, <1>a, <2>1, ExpiryPositive
  <2>3. CASE w = clock'
    <3>1. since[d] <= clock /\ since[d] \in Nat /\ clock \in Nat
      BY Moments
    <3>. QED
      BY <1>1, <2>3, <3>1
  <2>4. CASE w # clock'
    <3>1. w \in 1 .. clock /\ Alive(d) /\ steady[d] + Expiry <= w
      BY <1>1, <2>1, <2>2, <2>4, Moments DEF Alive
    <3>2. Window(w)
      <4>1. \A u \in w .. clock - 1 : u \in w .. clock' - 1
        BY <1>1, Moments
      <4>2. \A t : IsScheduled(t)' = IsScheduled(t)
        BY DEF IsScheduled
      <4>. QED
        BY <4>1, <4>2 DEF Window
    <3>3. Served(w) \/ since[d] <= w
      BY <3>1, <3>2 DEF Calm, Tried
    <3>. QED
      BY <1>1, <2>2, <3>3 DEF Served, SomeRun
  <2>. QED
    BY <2>3, <2>4
<1>. QED
  BY <1>4, <1>5, <1>6, <1>7 DEF Calm

(* Steps that take no time and disturb nobody: what remains to be shown.   *)
LEMMA CalmStep ==
  ASSUME Calm, clock' = clock, steady' = steady, LockCalm', LastCalm',
         \A d \in Daemon : Stands(d)',
         \A w \in 1 .. clock : Served(w) => Served(w)',
         \A d \in Daemon, w \in 1 .. clock :
            Alive(d)' /\ steady[d] + Expiry <= w /\ Window(w) /\ since'[d] # since[d]
              => Served(w)' \/ since'[d] <= w,
         \A d \in Daemon : Alive(d)' => Alive(d)
  PROVE  Calm'
<1>1. SteadyPast'
  BY DEF Calm, SteadyPast
<1>2. Tried'
  <2>. SUFFICES ASSUME NEW d \in Daemon, NEW w \in 1 .. clock, Alive(d)',
                       (steady[d] + Expiry)' <= w, Window(w)'
                PROVE  Served(w)' \/ since'[d] <= w
    BY DEF Tried
  <2>1. Expiry' = Expiry /\ Window(w)
    BY DEF Expiry, Window, IsScheduled
  <2>2. Alive(d) /\ steady[d] + Expiry <= w
    BY <2>1
  <2>3. Served(w) \/ since[d] <= w
    BY <2>1, <2>2 DEF Calm, Tried
  <2>. QED
    BY <2>1, <2>2, <2>3
<1>. QED
  BY <1>1, <1>2 DEF Calm

(* The same, when the records are left alone and no run begins or ends.    *)
LEMMA CalmAside ==
  ASSUME Calm, clock' = clock, steady' = steady,
         UNCHANGED <<lock, last, cflock, cflast, begun>>,
         \A d \in Daemon : InRun(d)' <=> InRun(d),
         \A d \in Daemon : InRun(d) => since'[d] = since[d],
         \A d \in Daemon : Stands(d)',
         \A d \in Daemon, w \in 1 .. clock :
            Alive(d)' /\ steady[d] + Expiry <= w /\ Window(w) /\ since'[d] # since[d]
              => Served(w) \/ since'[d] <= w,
         \A d \in Daemon : Alive(d)' => Alive(d)
  PROVE  Calm'
<1>1. \A w : Served(w) => Served(w)'
  BY DEF Served
<1>2. SomeRun' <=> SomeRun
  BY DEF SomeRun
<1>3. LockCalm' /\ LastCalm'
  BY <1>2 DEF Calm, LockCalm, LastCalm, Expiry, IsScheduled
<1>. QED
  BY <1>1, <1>3, CalmStep

LEMMA SleepCalm ==
  ASSUME IInv, Calm, NEW d \in Daemon,
         InstallHandlers(d) \/ ScheduleRun(d) \/ Terminate(d)
  PROVE  Calm'
<1>1. /\ clock' = clock /\ steady' = steady
      /\ UNCHANGED <<lock, last, cflock, cflast, begun>>
  BY DEF InstallHandlers, ScheduleRun, Terminate
<1>2. /\ \A e \in Daemon \ {d} : pc'[e] = pc[e] /\ since'[e] = since[e]
      /\ \/ pc'[d] = pc[d] /\ since'[d] = since[d]
         \/ pc[d] = "boot" /\ pc'[d] = "sleep" /\ since'[d] = clock
         \/ /\ pc[d] = "sleep" /\ pc'[d] = "getlock" /\ since'[d] = since[d]
            /\ IsScheduled(clock)
         \/ /\ pc[d] = "sleep" /\ pc'[d] = "sleep" /\ since'[d] = clock
            /\ ~IsScheduled(clock)
  BY Moments DEF InstallHandlers, ScheduleRun, Terminate, Goto
<1>3. \A e \in Daemon : (InRun(e)' <=> InRun(e)) /\ (InRun(e) => since'[e] = since[e])
                        /\ (Alive(e)' => Alive(e))
  BY <1>2 DEF InRun, Alive
<1>4. ASSUME NEW e \in Daemon PROVE Stands(e)'
  <2>1. Stands(e)
    BY DEF Calm
  <2>2. IsScheduled(clock)' = IsScheduled(clock)
    BY <1>1 DEF IsScheduled
  <2>3. CASE pc'[e] = pc[e] /\ since'[e] = since[e]
    <3>1. InRun(e)' = InRun(e) /\ IsScheduled(since[e])' = IsScheduled(since[e])
      BY <2>3 DEF InRun, IsScheduled
    <3>. QED
      BY <1>1, <2>1, <2>2, <2>3, <3>1 DEF Stands
  <2>4. CASE pc'[e] = "sleep" /\ since'[e] = clock
    <3>1. clock' <= since'[e] + SecondsPerMinute + 1
      BY <1>1, <2>4, Moments, Minutes
    <3>. QED
      BY <2>4, <3>1 DEF Stands, InRun
  <2>5. CASE pc'[e] = "getlock" /\ IsScheduled(clock)
    BY <2>2, <2>5 DEF Stands, InRun
  <2>. QED
    BY <1>2, <2>3, <2>4, <2>5
<1>5. ASSUME NEW e \in Daemon, NEW w \in 1 .. clock, Alive(e)',
             steady[e] + Expiry <= w, Window(w), since'[e] # since[e]
      PROVE  Served(w) \/ since'[e] <= w
  <2>1. e = d /\ since'[d] = clock /\ pc[d] \in {"boot", "sleep"}
        /\ (pc[d] = "sleep" => ~IsScheduled(clock))
    BY <1>2, <1>5
  <2>2. Stands(d)
    BY DEF Calm
  <2>3. CASE pc[d] = "boot"
    <3>1. steady[d] = clock /\ clock \in Nat
      BY <2>2, <2>3, Moments DEF Stands
    <3>. QED
      BY <1>5, <2>1, <3>1, ExpiryPositive
  <2>4. CASE pc[d] = "sleep" /\ w = clock
    BY <2>1, <2>4
  <2>5. CASE pc[d] = "sleep" /\ w # clock
    <3>1. Served(w) \/ since[d] <= w
      BY <1>5, <2>1, <2>5 DEF Calm, Tried, Alive
    <3>2. clock <= since[d] + SecondsPerMinute + 1 /\ ~IsScheduled(clock)
      BY <2>1, <2>2, <2>5 DEF Stands
    <3>3. clock > w + SecondsPerMinute + 1
      <4>1. w \in 1 .. MaxTime /\ clock \in 1 .. MaxTime /\ w < clock
        <5>1. clock \in 0 .. MaxTime /\ MaxTime \in Nat
          BY ScheduleAssumption DEF Calm, SteadyPast
        <5>. QED
          BY <1>5, <2>5, <5>1
      <4>2. ~IsScheduled(w - 1) /\ \A v \in w .. clock - 1 : IsScheduled(v)
        BY <1>5 DEF Window
      <4>. QED
        BY <3>2, <4>1, <4>2, WindowAssumption
    <3>4. ~(since[d] <= w)
      BY <1>5, <3>2, <3>3, Moments, Minutes
    <3>. QED
      BY <2>1, <3>1, <3>4
  <2>. QED
    BY <2>1, <2>3, <2>4, <2>5
<1>. QED
  BY <1>1, <1>3, <1>4, <1>5, CalmAside

(* The steps of a run: the lock is granted, the run begins, the lock is    *)
(* released.                                                               *)
LEMMA GrantCalm ==
  ASSUME IInv, Calm, NEW d \in Daemon, ExecGranted(d)
  PROVE  Calm'
<1>1. /\ clock' = clock /\ steady' = steady /\ begun' = begun
      /\ pc[d] = "getlock" /\ GrantLock(d, "exec")
      /\ pc' = [pc EXCEPT ![d] = "stuff"] /\ since' = [since EXCEPT ![d] = clock]
  BY DEF ExecGranted, Goto
<1>2. Types
  BY DEF IInv, Typed
<1>3. /\ pc'[d] = "stuff" /\ since'[d] = clock
      /\ cflock'[d] = "exec" /\ cflast'[d] = "exec"
      /\ \A e \in Daemon \ {d} : /\ pc'[e] = pc[e] /\ since'[e] = since[e]
                                 /\ cflock'[e] = cflock[e] /\ cflast'[e] = cflast[e]
  <2>1. cflock' = [cflock EXCEPT ![d] = "exec"] /\ cflast' = [cflast EXCEPT ![d] = "exec"]
    BY <1>1 DEF GrantLock
  <2>2. DOMAIN cflock = Daemon /\ DOMAIN cflast = Daemon
    BY <1>2 DEF Types
  <2>. QED
    BY <1>1, <2>1, <2>2, Moments
<1>4. \A e \in Daemon : ~InRun(e)
  BY GrantedAlone
<1>5. InRun(d)' /\ SomeRun' /\ IsScheduled(clock)
  <2>1. Stands(d)
    BY DEF Calm
  <2>. QED
    BY <1>1, <1>3, <2>1 DEF InRun, SomeRun, Stands
<1>6. LockCalm'
  <2>1. lock'["exec"] = [pid |-> d, time |-> clock]
    <3>1. lock' = [lock EXCEPT !["exec"] = [pid |-> d, time |-> clock]]
      BY <1>1 DEF GrantLock
    <3>2. DOMAIN lock = Names
      BY <1>2 DEF Types
    <3>. QED
      BY <3>1, <3>2, ExecSchedule
  <2>. QED
    BY <1>1, <1>5, <2>1 DEF LockCalm
<1>7. LastCalm'
  <2>1. last'["exec"] = last["exec"] \/ last'["exec"] = clock
    BY <1>1, <1>2, ExecSchedule DEF GrantLock, Types
  <2>2. \A t : IsScheduled(t)' = IsScheduled(t)
    BY DEF IsScheduled
  <2>3. Expiry' = Expiry
    BY DEF Expiry
  <2>4. CASE last'["exec"] = last["exec"]
    BY <1>1, <1>5, <2>2, <2>3, <2>4 DEF Calm, LastCalm
  <2>5. CASE last'["exec"] = clock
    BY <1>1, <1>5, <2>2, <2>5 DEF LastCalm
  <2>. QED
    BY <2>1, <2>4, <2>5
<1>8. ASSUME NEW e \in Daemon PROVE Stands(e)'
  <2>1. CASE e = d
    <3>1. IsScheduled(since[d])'
      BY <1>3, <1>5 DEF IsScheduled
    <3>. QED
      BY <1>1, <1>3, <2>1, <3>1 DEF Stands
  <2>2. CASE e # d
    <3>1. Stands(e) /\ pc'[e] = pc[e] /\ since'[e] = since[e] /\ ~InRun(e)
      BY <1>3, <1>4, <2>2 DEF Calm
    <3>2. ~InRun(e)' /\ IsScheduled(clock)' = IsScheduled(clock)
      BY <1>1, <3>1 DEF InRun, IsScheduled
    <3>3. pc'[e] # "release"
      BY <3>2 DEF InRun
    <3>. QED
      BY <1>1, <3>1, <3>2, <3>3 DEF Stands
  <2>. QED
    BY <2>1, <2>2
<1>9. \A w \in 1 .. clock : Served(w)'
  <2>1. \A w \in 1 .. clock : clock >= w
    BY Moments
  <2>. QED
    BY <1>3, <1>5, <2>1 DEF Served
<1>10. \A e \in Daemon : Alive(e)' => Alive(e)
  BY <1>1, <1>3 DEF Alive
<1>. QED
  BY <1>1, <1>6, <1>7, <1>8, <1>9, <1>10, CalmStep

LEMMA SpawnCalm ==
  ASSUME IInv, Calm, NEW d \in Daemon, Spawn(d)
  PROVE  Calm'
<1>1. /\ clock' = clock /\ steady' = steady /\ begun' = since[d] /\ pc[d] = "stuff"
      /\ UNCHANGED <<lock, last, cflock, cflast, since>>
      /\ pc' = [pc EXCEPT ![d] = "release"]
  BY DEF Spawn, Goto
<1>2. pc'[d] = "release" /\ \A e \in Daemon \ {d} : pc'[e] = pc[e]
  BY <1>1, Moments
<1>3. InRun(d) /\ \A e \in Daemon : (InRun(e)' <=> InRun(e)) /\ (InRun(e) => e = d)
  <2>1. InRun(d)
    BY <1>1 DEF InRun
  <2>2. \A e \in Daemon : InRun(e)' <=> InRun(e)
    BY <1>1, <1>2 DEF InRun
  <2>. QED
    BY <2>1, <2>2 DEF IInv, OneAtATime
<1>4. begun <= since[d] /\ begun \in Int /\ since[d] \in Nat
  <2>1. begun \in Nat \cup {NoTime} /\ since[d] \in Nat
    BY DEF IInv, Typed, Types
  <2>2. begun # NoTime => (since[d] - begun) \div SecondsPerMinute >= ExecIfElapsed
    BY <1>1, <1>3 DEF IInv, Preparing
  <2>3. ASSUME begun # NoTime PROVE begun <= since[d]
    <3>1. (since[d] - begun) \div SecondsPerMinute >= 0 /\ begun \in Nat
      <4>1. since[d] - begun \in Int /\ begun \in Nat
        BY <2>1, <2>3
      <4>2. (since[d] - begun) \div SecondsPerMinute \in Int
        BY <4>1, Minutes
      <4>. QED
        BY <2>2, <2>3, <4>1, <4>2, Minutes
    <3>. QED
      BY <2>1, <3>1, Minutes
  <2>. QED
    BY <2>1, <2>3, TimesAreNumbers
<1>5. SomeRun' /\ SomeRun
  BY <1>3 DEF SomeRun
<1>6. LockCalm'
  BY <1>1, <1>5 DEF Calm, LockCalm
<1>7. LastCalm'
  <2>1. last["exec"] \in Int
    BY Moments
  <2>2. IsScheduled(last["exec"])' = IsScheduled(last["exec"]) /\ Expiry' = Expiry
    BY <1>1 DEF IsScheduled, Expiry
  <2>3. begun >= last["exec"] => begun' >= last["exec"]
    BY <1>1, <1>4, <2>1
  <2>. QED
    BY <1>1, <1>5, <2>2, <2>3 DEF Calm, LastCalm
<1>8. ASSUME NEW e \in Daemon PROVE Stands(e)'
  <2>1. Stands(e)
    BY DEF Calm
  <2>2. IsScheduled(since[e])' = IsScheduled(since[e])
        /\ IsScheduled(clock)' = IsScheduled(clock)
    BY <1>1 DEF IsScheduled
  <2>3. CASE e = d
    BY <1>1, <1>2, <1>3, <2>1, <2>2, <2>3 DEF Stands
  <2>4. CASE e # d
    <3>1. ~InRun(e) /\ ~InRun(e)' /\ pc'[e] = pc[e] /\ pc'[e] # "release"
      BY <1>2, <1>3, <2>4 DEF InRun
    <3>. QED
      BY <1>1, <2>1, <2>2, <3>1 DEF Stands
  <2>. QED
    BY <2>3, <2>4
<1>9. ASSUME NEW w \in 1 .. clock, Served(w) PROVE Served(w)'
  <2>1. begun >= w => begun' >= w
    BY <1>1, <1>4
  <2>. QED
    BY <1>1, <1>3, <1>9, <2>1 DEF Served
<1>10. \A e \in Daemon : Alive(e)' => Alive(e)
  BY <1>1, <1>2 DEF Alive
<1>. QED
  BY <1>1, <1>6, <1>7, <1>8, <1>9, <1>10, CalmStep

LEMMA ReleaseCalm ==
  ASSUME IInv, Calm, NEW d \in Daemon, ReleaseExec(d)
  PROVE  Calm'
<1>1. /\ clock' = clock /\ steady' = steady /\ begun' = begun
      /\ pc[d] = "release" /\ ReleaseCurrentLock(d)
      /\ pc' = [pc EXCEPT ![d] = "sleep"] /\ since' = [since EXCEPT ![d] = clock]
  BY DEF ReleaseExec, Goto
<1>2. Types
  BY DEF IInv, Typed
<1>3. /\ InRun(d) /\ cflock[d] = "exec" /\ cflast[d] = "exec" /\ begun = since[d]
      /\ IsScheduled(since[d]) /\ (since[d] = clock \/ steady[d] = clock)
  <2>1. Stands(d) /\ InRun(d)
    BY <1>1 DEF Calm, InRun
  <2>. QED
    BY <1>1, <2>1 DEF Stands
<1>4. lock'["exec"] = NoLock /\ last'["exec"] = clock
      /\ cflast' = cflast /\ \A e \in Daemon \ {d} : cflock'[e] = cflock[e]
  <2>1. /\ lock' = [n \in Names |-> IF n = cflock[d] THEN NoLock ELSE lock[n]]
        /\ last' = [last EXCEPT ![cflast[d]] = clock]
        /\ cflock' = [cflock EXCEPT ![d] = "no_active_lock"] /\ cflast' = cflast
    BY <1>1 DEF ReleaseCurrentLock
  <2>2. DOMAIN last = Names /\ DOMAIN cflock = Daemon
    BY <1>2 DEF Types
  <2>. QED
    BY <1>3, <2>1, <2>2, ExecSchedule
<1>5. /\ pc'[d] = "sleep" /\ since'[d] = clock
      /\ \A e \in Daemon \ {d} : /\ pc'[e] = pc[e] /\ since'[e] = since[e]
                                 /\ ~InRun(e)
  <2>1. \A e \in Daemon \ {d} : ~InRun(e)
    BY <1>3 DEF IInv, OneAtATime
  <2>. QED
    BY <1>1, <2>1, Moments
<1>6. LockCalm'
  BY <1>4 DEF LockCalm
<1>7. LastCalm'
  <2>. SUFFICES ASSUME NEW e \in Daemon, last'["exec"] > steady'[e]
                PROVE  IsScheduled(last["exec"])' /\ begun' >= last'["exec"]
    BY DEF LastCalm
  <2>1. steady[d] = steady[e] /\ clock \in Nat
    BY Moments DEF Calm, SteadyPast
  <2>2. since[d] = clock
    BY <1>1, <1>3, <1>4, <2>1
  <2>3. IsScheduled(last["exec"])' = IsScheduled(clock)
    BY <1>4 DEF IsScheduled
  <2>. QED
    BY <1>1, <1>3, <1>4, <2>1, <2>2, <2>3
<1>8. ASSUME NEW e \in Daemon PROVE Stands(e)'
  <2>1. CASE e = d
    <3>1. clock' <= since'[d] + SecondsPerMinute + 1
      BY <1>1, <1>5, Moments, Minutes
    <3>. QED
      BY <1>5, <2>1, <3>1 DEF Stands, InRun
  <2>2. CASE e # d
    <3>1. Stands(e) /\ pc'[e] = pc[e] /\ since'[e] = since[e] /\ ~InRun(e)
      BY <1>5, <2>2 DEF Calm
    <3>2. ~InRun(e)' /\ IsScheduled(clock)' = IsScheduled(clock)
      BY <1>1, <3>1 DEF InRun, IsScheduled
    <3>3. pc'[e] # "release"
      BY <3>2 DEF InRun
    <3>. QED
      BY <1>1, <3>1, <3>2, <3>3 DEF Stands
  <2>. QED
    BY <2>1, <2>2
<1>9. ASSUME NEW w \in 1 .. clock, Served(w) PROVE Served(w)'
  <2>1. begun >= w
    BY <1>3, <1>5, <1>9 DEF Served
  <2>. QED
    BY <1>1, <2>1 DEF Served
<1>10. ASSUME NEW e \in Daemon, NEW w \in 1 .. clock,
              steady[e] + Expiry <= w, since'[e] # since[e]
       PROVE  Served(w)'
  <2>1. e = d
    BY <1>5, <1>10
  <2>2. steady[d] < clock /\ clock >= w
    BY <1>10, <2>1, Moments, ExpiryPositive
  <2>3. begun = clock
    BY <1>3, <2>2, Moments
  <2>. QED
    BY <1>1, <2>2, <2>3 DEF Served
<1>11. \A e \in Daemon : Alive(e)' => Alive(e)
  BY <1>1, <1>5 DEF Alive
<1>. QED
  BY <1>1, <1>6, <1>7, <1>8, <1>9, <1>10, <1>11, CalmStep

(* A daemon that is refused in a window finds it served.                   *)
LEMMA RefusedIsServed ==
  ASSUME IInv, Calm, NEW d \in Daemon, ExecRefused(d), NEW w \in 1 .. clock,
         steady[d] + Expiry <= w, w < clock, Window(w)
  PROVE  Served(w)
<1>1. /\ clock \in Nat /\ steady[d] \in Nat /\ steady[d] < clock
      /\ steady[d] + Expiry \in Nat
  BY Moments, ExpiryPositive
<1>2. IsScheduled(clock) /\ (NotElapsed("exec") \/ Held("exec"))
  BY DEF ExecRefused, RefuseLock, Calm, Stands
<1>3. ASSUME SomeRun PROVE Served(w)
  <2>1. PICK e \in Daemon : InRun(e)
    BY <1>3 DEF SomeRun
  <2>2. since[e] = clock
    <3>1. steady[e] = steady[d] /\ Stands(e)
      BY DEF Calm, SteadyPast
    <3>. QED
      BY <1>1, <2>1, <3>1 DEF Stands
  <2>3. clock >= w
    BY <1>1
  <2>. QED
    BY <2>1, <2>2, <2>3 DEF Served
<1>4. CASE Held("exec")
  <2>1. lock["exec"] # NoLock /\ Elapsed(lock["exec"].time) < ExecExpireAfter
    BY <1>4, ExecSchedule DEF Held
  <2>2. CASE lock["exec"].time > steady[d]
    BY <1>3, <2>1, <2>2 DEF Calm, LockCalm
  <2>3. CASE ~(lock["exec"].time > steady[d])
    <3>1. clock - lock["exec"].time \in Nat /\ lock["exec"].time <= steady[d]
          /\ lock["exec"].time \in Int
      BY <1>1, <2>3, Moments
    <3>2. clock - lock["exec"].time < Expiry
      BY <2>1, <3>1, LessMinutes, Minutes DEF Elapsed, Expiry
    <3>. QED
      BY <1>1, <3>1, <3>2, ExpiryPositive
  <2>. QED
    BY <2>2, <2>3
<1>5. CASE NotElapsed("exec")
  <2> DEFINE l == last["exec"]
  <2>1. l # NoTime /\ Elapsed(l) < ExecIfElapsed
    BY <1>5, ExecSchedule DEF NotElapsed
  <2>2. l \in Nat /\ l <= clock
    BY <2>1, ExecRecords DEF IInv
  <2>3. clock - l < ExecIfElapsed * SecondsPerMinute
    BY <1>1, <2>1, <2>2, LessMinutes, Minutes DEF Elapsed
  <2>4. ASSUME l < w, IsScheduled(l) PROVE FALSE
    <3>1. /\ l \in 0 .. MaxTime /\ w \in 0 .. MaxTime
          /\ w <= clock /\ IsScheduled(w) /\ ~IsScheduled(w - 1)
      <4>1. clock \in 0 .. MaxTime /\ MaxTime \in Nat
        BY ScheduleAssumption DEF Calm, SteadyPast
      <4>2. IsScheduled(w)
        <5>1. w \in w .. clock - 1
          BY <1>1
        <5>. QED
          BY <5>1 DEF Window
      <4>3. ~IsScheduled(w - 1)
        BY DEF Window
      <4>. QED
        BY <1>1, <2>2, <4>1, <4>2, <4>3
    <3>2. w - l >= ExecIfElapsed * SecondsPerMinute
      BY <2>4, <3>1, WindowAssumption
    <3>3. ExecIfElapsed * SecondsPerMinute \in Nat
      BY Minutes
    <3>. QED
      BY <1>1, <2>2, <2>3, <3>1, <3>2, <3>3
  <2>5. l > steady[d]
    <3>1. ExecIfElapsed * SecondsPerMinute <= Expiry
          /\ ExecIfElapsed * SecondsPerMinute \in Nat
      BY ExpiryPositive, Minutes
    <3>. QED
      BY <1>1, <2>2, <2>3, <3>1, ExpiryPositive
  <2>6. /\ IsScheduled(l)
        /\ \/ l < steady[d] + Expiry
           \/ begun >= l
           \/ l = clock /\ SomeRun
    <3>1. LastCalm
      BY DEF Calm
    <3>. QED
      BY <2>5, <3>1 DEF LastCalm
  <2>7. l >= w
    BY <2>2, <2>4, <2>6
  <2>8. CASE begun >= l
    <3>1. begun >= w
      BY <2>2, <2>7, <2>8, Moments
    <3>. QED
      BY <3>1 DEF Served
  <2>. QED
    BY <1>1, <1>3, <2>2, <2>6, <2>7, <2>8
<1>. QED
  BY <1>2, <1>4, <1>5

LEMMA RefuseCalm ==
  ASSUME IInv, Calm, NEW d \in Daemon, ExecRefused(d)
  PROVE  Calm'
<1>1. /\ clock' = clock /\ steady' = steady /\ begun' = begun /\ lock' = lock
      /\ pc[d] = "getlock"
      /\ NotElapsed("exec") \/ Held("exec")
      /\ cflock' = [cflock EXCEPT ![d] = "exec"] /\ cflast' = [cflast EXCEPT ![d] = "exec"]
      /\ last' = IF last["exec"] = NoTime THEN [last EXCEPT !["exec"] = clock] ELSE last
      /\ pc' = [pc EXCEPT ![d] = "sleep"] /\ since' = [since EXCEPT ![d] = clock]
  BY DEF ExecRefused, RefuseLock, Goto
<1>2. /\ pc'[d] = "sleep" /\ since'[d] = clock
      /\ \A e \in Daemon \ {d} : /\ pc'[e] = pc[e] /\ since'[e] = since[e]
                                 /\ cflock'[e] = cflock[e] /\ cflast'[e] = cflast[e]
  <2>1. DOMAIN cflock = Daemon /\ DOMAIN cflast = Daemon
    BY DEF IInv, Typed, Types
  <2>. QED
    BY <1>1, <2>1, Moments
<1>3. \A e \in Daemon : (InRun(e)' <=> InRun(e)) /\ (InRun(e) => e # d)
  BY <1>1, <1>2 DEF InRun
<1>4. SomeRun' <=> SomeRun
  BY <1>3 DEF SomeRun
<1>5. \A w : Served(w) => Served(w)'
  BY <1>1, <1>2, <1>3 DEF Served
<1>6. \A t : IsScheduled(t)' = IsScheduled(t)
  BY DEF IsScheduled
<1>7. LockCalm'
  BY <1>1, <1>4 DEF Calm, LockCalm
<1>8. LastCalm'
  <2>1. Expiry' = Expiry
    BY DEF Expiry
  <2>2. CASE last["exec"] # NoTime
    BY <1>1, <1>4, <1>6, <2>1, <2>2 DEF Calm, LastCalm
  <2>3. CASE last["exec"] = NoTime
    <3>. SUFFICES ASSUME NEW e \in Daemon
                  PROVE  /\ IsScheduled(clock)
                         /\ clock < steady[e] + Expiry \/ SomeRun
      <4>1. last'["exec"] = clock
        <5>1. DOMAIN last = Names
          BY DEF IInv, Typed, Types
        <5>. QED
          BY <1>1, <2>3, <5>1, ExecSchedule
      <4>. QED
        BY <1>1, <1>4, <1>6, <2>1, <4>1 DEF LastCalm
    <3>1. IsScheduled(clock)
      BY <1>1 DEF Calm, Stands
    <3>2. lock["exec"] # NoLock /\ Elapsed(lock["exec"].time) < ExecExpireAfter
      BY <1>1, <2>3, ExecSchedule DEF NotElapsed, Held
    <3>3. CASE lock["exec"].time > steady[e]
      BY <3>1, <3>2, <3>3 DEF Calm, LockCalm
    <3>4. CASE ~(lock["exec"].time > steady[e])
      <4>1. clock - lock["exec"].time \in Nat /\ lock["exec"].time <= steady[e]
            /\ lock["exec"].time \in Int /\ clock \in Nat /\ steady[e] \in Nat
        BY <3>4, Moments
      <4>2. clock - lock["exec"].time < Expiry
        BY <3>2, <4>1, LessMinutes, Minutes DEF Elapsed, Expiry
      <4>. QED
        BY <3>1, <4>1, <4>2, ExpiryPositive
    <3>. QED
      BY <3>3, <3>4
  <2>. QED
    BY <2>2, <2>3
<1>9. ASSUME NEW e \in Daemon PROVE Stands(e)'
  <2>1. CASE e = d
    <3>1. clock' <= since'[d] + SecondsPerMinute + 1
      BY <1>1, <1>2, Moments, Minutes
    <3>. QED
      BY <1>2, <2>1, <3>1 DEF Stands, InRun
  <2>2. CASE e # d
    <3>1. Stands(e) /\ (InRun(e)' <=> InRun(e))
      BY <1>3 DEF Calm
    <3>2. IsScheduled(since[e])' = IsScheduled(since[e])
          /\ IsScheduled(clock)' = IsScheduled(clock)
      BY <1>1, <1>2, <2>2 DEF IsScheduled
    <3>. QED
      BY <1>1, <1>2, <2>2, <3>1, <3>2 DEF Stands
  <2>. QED
    BY <2>1, <2>2
<1>10. ASSUME NEW e \in Daemon, NEW w \in 1 .. clock, steady[e] + Expiry <= w,
              Window(w), since'[e] # since[e]
       PROVE  Served(w)' \/ since'[e] <= w
  <2>1. e = d
    BY <1>2, <1>10
  <2>2. CASE w = clock
    BY <1>2, <2>1, <2>2, Moments
  <2>3. CASE w < clock
    <3>1. Served(w)
      BY <1>10, <2>1, <2>3, RefusedIsServed
    <3>. QED
      BY <1>5, <3>1
  <2>. QED
    BY <2>2, <2>3, Moments
<1>11. \A e \in Daemon : Alive(e)' => Alive(e)
  BY <1>1, <1>2 DEF Alive
<1>. QED
  BY <1>1, <1>5, <1>7, <1>8, <1>9, <1>10, <1>11, CalmStep

LEMMA InitCalm == Init => Calm
<1> SUFFICES ASSUME Init PROVE Calm
  OBVIOUS
<1>1. clock = 0 /\ \A d \in Daemon : pc[d] = "off" /\ steady[d] = 0
  BY DEF Init
<1>2. SteadyPast
  <2>1. clock \in 0 .. MaxTime /\ 0 <= 0
    BY <1>1, ScheduleAssumption
  <2>. QED
    BY <1>1, <2>1 DEF Init, SteadyPast
<1>3. LockCalm /\ LastCalm
  <2>1. lock["exec"] = NoLock /\ last["exec"] = NoTime
    BY ExecSchedule DEF Init
  <2>2. ~(NoTime > 0)
    BY DEF NoTime
  <2>. QED
    BY <1>1, <2>1, <2>2 DEF LockCalm, LastCalm
<1>4. Tried
  BY <1>1 DEF Tried
<1>5. \A d \in Daemon : Stands(d)
  BY <1>1 DEF Stands, InRun
<1>. QED
  BY <1>2, <1>3, <1>4, <1>5 DEF Calm

LEMMA NextCalm == IInv /\ IInv' /\ Calm /\ [Next]_vars => Calm'
<1>1. ASSUME IInv, IInv', Calm, Next PROVE Calm'
  <2>1. ASSUME NEW d \in Daemon, DaemonStep(d) PROVE Calm'
    <3>1. CASE StartServer(d) \/ ExitCleanly(d) \/ Crash(d)
      BY <1>1, <3>1, StartCalm
    <3>2. CASE InstallHandlers(d) \/ ScheduleRun(d) \/ Terminate(d)
      BY <1>1, <3>2, SleepCalm
    <3>3. CASE ExecRefused(d)
      BY <1>1, <3>3, RefuseCalm
    <3>4. CASE ExecGranted(d)
      BY <1>1, <3>4, GrantCalm
    <3>5. CASE Spawn(d)
      BY <1>1, <3>5, SpawnCalm
    <3>6. CASE ReleaseExec(d)
      BY <1>1, <3>6, ReleaseCalm
    <3>. QED
      BY <2>1, <3>1, <3>2, <3>3, <3>4, <3>5, <3>6 DEF DaemonStep
  <2>. QED
    BY <1>1, <2>1, TickCalm DEF Next
<1>2. ASSUME Calm, UNCHANGED vars PROVE Calm'
  BY <1>2 DEF vars, Calm, SteadyPast, LockCalm, LastCalm, Tried, Stands, Window,
     Served, SomeRun, InRun, Alive, IsScheduled, Expiry
<1>. QED
  BY <1>1, <1>2

(* The scheduled time before the clock has a beginning.                    *)
LEMMA WindowHasBegun ==
  ASSUME clock \in Nat, clock > 0, IsScheduled(clock - 1)
  PROVE  /\ WindowBegin \in 0 .. clock - 1
         /\ \A t \in WindowBegin .. clock - 1 : IsScheduled(t)
         /\ WindowBegin = 0 \/ ~IsScheduled(WindowBegin - 1)
<1> DEFINE Good == {s \in Nat : s < clock /\ \A t \in s .. clock - 1 : IsScheduled(t)}
<1>1. clock - 1 \in Good
  <2>1. \A t \in clock - 1 .. clock - 1 : t = clock - 1
    OBVIOUS
  <2>. QED
    BY <2>1
<1>2. Good # {} /\ Good \subseteq Nat
  BY <1>1
<1>3. PICK s \in Good : \A t \in Good : <<t, s>> \notin OpToRel(<, Nat)
  <2> HIDE DEF Good
  <2>. QED
    BY <1>2, NatLessThanWellFounded, WFMin
<1>4. \A t \in Good : ~(t < s)
  BY <1>2, <1>3 DEF OpToRel
<1>a. s \in Nat /\ s < clock /\ \A t \in s .. clock - 1 : IsScheduled(t)
  <2>1. s \in Good
    OBVIOUS
  <2>. QED
    BY <2>1
<1>5. s = 0 \/ ~IsScheduled(s - 1)
  <2>. SUFFICES ASSUME s # 0, IsScheduled(s - 1) PROVE FALSE
    OBVIOUS
  <2>1. s - 1 \in Nat /\ s - 1 < s /\ s - 1 < clock
    BY <1>a
  <2>2. \A t \in s - 1 .. clock - 1 : t = s - 1 \/ t \in s .. clock - 1
    BY <1>a
  <2>3. s - 1 \in Good
    BY <1>a, <2>1, <2>2
  <2>. QED
    BY <1>4, <2>1, <2>3
<1>6. s \in 0 .. clock - 1 /\ \A t \in s .. clock - 1 : IsScheduled(t)
  BY <1>a
<1>. QED
  BY <1>5, <1>6 DEF WindowBegin

LEMMA CalmServes == IInv /\ Calm => WindowServed
<1> SUFFICES ASSUME IInv, Calm, clock > 0, IsScheduled(clock - 1), ~IsScheduled(clock),
                    NEW d \in Daemon, Alive(d),
                    steady[d] + Expiry <= WindowBegin
             PROVE  begun >= WindowBegin
  BY DEF WindowServed, Expiry
<1>1. clock \in 0 .. MaxTime /\ MaxTime \in Nat /\ steady[d] \in Nat
  BY Moments, ScheduleAssumption DEF Calm, SteadyPast
<1> DEFINE w == WindowBegin
<1>2. /\ w \in 0 .. clock - 1
      /\ \A t \in w .. clock - 1 : IsScheduled(t)
      /\ w = 0 \/ ~IsScheduled(w - 1)
  BY <1>1, WindowHasBegun
<1> HIDE DEF w
<1>3. steady[d] + Expiry <= w
  BY DEF w
<1>4. w \in 1 .. clock - 1 /\ steady[d] < clock
  BY <1>1, <1>2, <1>3, ExpiryPositive
<1>5. Window(w) /\ w \in 1 .. clock
  BY <1>1, <1>2, <1>4 DEF Window
<1>6. ASSUME NEW e \in Daemon, InRun(e) PROVE FALSE
  <2>1. Stands(e) /\ steady[e] = steady[d]
    BY DEF Calm, SteadyPast
  <2>2. since[e] = clock /\ IsScheduled(since[e])
    BY <1>1, <1>4, <1>6, <2>1 DEF Stands
  <2>. QED
    BY <2>2
<1>7. begun >= w \/ since[d] <= w
  BY <1>3, <1>5, <1>6 DEF Calm, Tried, Served
<1>8. ASSUME since[d] <= w PROVE FALSE
  <2>1. Stands(d) /\ pc[d] \in Where \ {"off"} /\ since[d] \in Nat
    BY Moments DEF Calm, Alive
  <2>2. CASE pc[d] = "sleep"
    <3>1. clock <= since[d] + SecondsPerMinute + 1
      BY <2>1, <2>2 DEF Stands
    <3>2. clock > w + SecondsPerMinute + 1
      <4>1. w \in 1 .. MaxTime /\ clock \in 1 .. MaxTime /\ w < clock
        BY <1>1, <1>4
      <4>. QED
        BY <4>1, <1>5, WindowAssumption DEF Window
    <3>. QED
      BY <1>1, <1>4, <1>8, <2>1, <3>1, <3>2, Minutes
  <2>3. CASE pc[d] = "boot"
    BY <1>1, <1>4, <2>1, <2>3 DEF Stands
  <2>4. CASE pc[d] = "getlock"
    BY <2>1, <2>4 DEF Stands
  <2>5. CASE InRun(d)
    BY <1>6, <2>5
  <2>. QED
    BY <2>1, <2>2, <2>3, <2>4, <2>5 DEF Where, InRun
<1>. QED
  BY <1>7, <1>8 DEF w

(* No window of the schedule passes without a run when a daemon has worked *)
(* undisturbed for ExecExpireAfter minutes before it began, for every      *)
(* schedule whose windows are longer than the daemon's sleep and begin     *)
(* ExecIfElapsed minutes after the last scheduled moment.                  *)
THEOREM WindowsAreServed == Spec => []WindowServed
<1>1. Init => IInv /\ Calm
  BY InitIInv, InitCalm
<1>2. IInv /\ Calm /\ [Next]_vars => (IInv /\ Calm)'
  BY StepIInv, NextCalm
<1>3. IInv /\ Calm => WindowServed
  BY CalmServes
<1>. QED
  BY <1>1, <1>2, <1>3, PTL DEF Spec

=============================================================================
