---------------------------- MODULE ServerProofs ----------------------------
(* ACTIVE_THREADS counts the threads it should, fewer than MaxConnections   *)
(* peers are answered, what a thread does is granted by the lists in force, *)
(* and the list of connections follows them, whatever the hosts, the        *)
(* connections and the policies are.                                        *)
EXTENDS Server, FiniteSetTheorems, WellFoundedInduction, TLAPS

(* The threads ACTIVE_THREADS stands for. *)
Counted == {c \in Conn : at[c] \in CountedAt}
ThreadsCounted == active = Cardinality(Counted)

(* The connection main is registering has no thread. *)
Registering == pc = "link" => cur \in Conn /\ at[cur] = "none"

(* While the policy is read again every thread is one main has not seen. *)
ReloadPcs == {"freed", "parse", "parsed", "stamp"}
ReloadUnseen == pc \in ReloadPcs =>
    \A c \in Conn : at[c] \in CountedAt \cup {"spawned"} => c \in early

(* A job that was granted still is. *)
Granted(c) == AccessControl(conf, job[c].file, host[c], job[c].enc)
JobsGranted == \A c \in Conn \ early : at[c] = "job" => Granted(c)

Places == RegisteredAt \cup {"none", "gone"}
Typed == /\ at \in [Conn -> Places]
         /\ auth \in [Conn -> SUBSET {"id", "rsa", "trust"}]
         /\ job \in [Conn -> Job]
         /\ host \in [Conn -> Host]
         /\ active \in Int

IInv == Typed /\ ThreadsCounted /\ ServingBounded /\ Registering
        /\ ReloadUnseen /\ JobsGranted

(* Finite sets of connections *)

LEMMA ConnFinite == IsFiniteSet(Conn)
  BY FS_Interval, ServerAssumption DEF ServerAssumption, Conn

LEMMA CountedFinite ==
  /\ IsFiniteSet(Counted) /\ IsFiniteSet(Serving)
  /\ Cardinality(Counted) \in Nat /\ Cardinality(Serving) \in Nat
  /\ Cardinality(Serving) <= Cardinality(Counted)
  <1>1. /\ Counted \in SUBSET Conn
        /\ Serving \in SUBSET Counted
    BY DEF Counted, Serving, ServingAt, CountedAt
  <1>2. IsFiniteSet(Counted)
    BY <1>1, ConnFinite, FS_Subset
  <1>3. IsFiniteSet(Serving) /\ Cardinality(Serving) <= Cardinality(Counted)
    BY <1>1, <1>2, FS_Subset
  <1> QED BY <1>2, <1>3, FS_CardinalityType

(* A thread that moves enters or leaves the two sets alone. *)
LEMMA MoveSets ==
  ASSUME Typed, NEW c \in Conn, NEW from \in Places, NEW to \in Places,
         Moves(c, from, to)
  PROVE  /\ Counted' = IF to \in CountedAt THEN Counted \cup {c}
                       ELSE Counted \ {c}
         /\ Serving' = IF to \in ServingAt THEN Serving \cup {c}
                       ELSE Serving \ {c}
         /\ at' \in [Conn -> Places]
         /\ c \in Counted <=> from \in CountedAt
         /\ c \in Serving <=> from \in ServingAt
         /\ at'[c] = to /\ \A d \in Conn \ {c} : at'[d] = at[d]
         /\ early' \subseteq early
         /\ to # "gone" => early' = early
         /\ early \ {c} \subseteq early'
  <1>1. /\ at[c] = from /\ at' = [at EXCEPT ![c] = to]
        /\ at \in [Conn -> Places]
        /\ early' = IF to = "gone" THEN early \ {c} ELSE early
    BY DEF Moves, Typed
  <1>2. at'[c] = to /\ \A d \in Conn \ {c} : at'[d] = at[d]
    BY <1>1
  <1> QED BY <1>1, <1>2 DEF Counted, Serving

(* What counting needs of a step of a thread: it may enter the counted, it  *)
(* may leave them, and it comes to be served only below the limit.          *)
LEMMA MoveCounts ==
  ASSUME IInv, NEW c \in Conn, NEW from \in Places, NEW to \in Places,
         Moves(c, from, to),
         active' = IF from \in CountedAt
                   THEN IF to \in CountedAt THEN active ELSE active - 1
                   ELSE IF to \in CountedAt THEN active + 1 ELSE active,
         to \in ServingAt => from \in ServingAt
                             \/ (from \in CountedAt /\ active < MaxConnections)
  PROVE  active' \in Int /\ ThreadsCounted' /\ ServingBounded'
  <1> USE DEF IInv
  <1>1. /\ Counted' = IF to \in CountedAt THEN Counted \cup {c}
                      ELSE Counted \ {c}
        /\ Serving' = IF to \in ServingAt THEN Serving \cup {c}
                      ELSE Serving \ {c}
        /\ c \in Counted <=> from \in CountedAt
        /\ c \in Serving <=> from \in ServingAt
    BY MoveSets
  <1>2. Cardinality(Counted') =
          IF from \in CountedAt
          THEN IF to \in CountedAt THEN Cardinality(Counted)
               ELSE Cardinality(Counted) - 1
          ELSE IF to \in CountedAt THEN Cardinality(Counted) + 1
               ELSE Cardinality(Counted)
    BY <1>1, CountedFinite, FS_AddElement, FS_RemoveElement
  <1>3. active' \in Int /\ ThreadsCounted'
    BY <1>2 DEF ThreadsCounted, Typed
  <1>4. CASE to \in ServingAt /\ from \notin ServingAt
    <2>1. from \in CountedAt /\ active < MaxConnections
      BY <1>4
    <2>2. Serving \in SUBSET (Counted \ {c})
      BY <1>1, <1>4 DEF Counted, Serving, ServingAt, CountedAt
    <2>3. IsFiniteSet(Counted \ {c})
          /\ Cardinality(Counted \ {c}) = Cardinality(Counted) - 1
      BY <1>1, <2>1, CountedFinite, FS_RemoveElement
    <2>4. Cardinality(Serving) <= Cardinality(Counted) - 1
      BY <2>2, <2>3, FS_Subset
    <2>5. Serving' = Serving \cup {c} /\ c \notin Serving
      BY <1>1, <1>4
    <2>6. Cardinality(Serving') = Cardinality(Serving) + 1
      BY <2>5, CountedFinite, FS_AddElement
    <2>7. Cardinality(Serving') < MaxConnections
      BY <2>1, <2>4, <2>6, CountedFinite, ServerAssumption
         DEF ThreadsCounted, ServerAssumption
    <2> QED BY <1>3, <2>7 DEF ServingBounded
  <1>5. CASE ~(to \in ServingAt /\ from \notin ServingAt)
    <2>1. Serving' \in SUBSET Serving
      BY <1>1, <1>5
    <2>2. IsFiniteSet(Serving') /\ Cardinality(Serving') <= Cardinality(Serving)
      BY <2>1, CountedFinite, FS_Subset
    <2>3. Cardinality(Serving') \in Nat
      BY <2>2, FS_CardinalityType
    <2> QED BY <1>3, <2>2, <2>3, CountedFinite, ServerAssumption
               DEF ServingBounded, ServerAssumption
  <1> QED BY <1>4, <1>5

(* Whether a job is granted depends on the lists, the job and its peer. *)
LEMMA GrantKept ==
  ASSUME NEW c \in Conn, Granted(c), UNCHANGED <<conf, job[c], host[c]>>
  PROVE  Granted(c)'
  BY DEF Granted, AccessControl

(* A step that starts no job, makes no thread known and leaves the lists    *)
(* alone leaves granted what was granted.                                   *)
LEMMA JobsKept ==
  ASSUME JobsGranted, UNCHANGED conf,
         \A c \in Conn : at'[c] = "job" =>
            /\ at[c] = "job" /\ job'[c] = job[c] /\ host'[c] = host[c]
            /\ c \in early => c \in early'
  PROVE  JobsGranted'
  <1> SUFFICES ASSUME NEW c \in Conn, c \notin early', at'[c] = "job"
               PROVE  Granted(c)'
    BY DEF JobsGranted
  <1>1. at[c] = "job" /\ c \notin early /\ UNCHANGED <<job[c], host[c]>>
    OBVIOUS
  <1>2. Granted(c)
    BY <1>1 DEF JobsGranted
  <1> QED BY <1>1, <1>2, GrantKept

(* The other parts of the invariant, for a move that starts no job. *)
LEMMA MoveOthers ==
  ASSUME IInv, NEW c \in Conn, NEW from \in Places \ {"none"},
         NEW to \in Places \ {"job"},
         Moves(c, from, to),
         to \in CountedAt \cup {"spawned"}
             => from \in CountedAt \cup {"spawned"},
         pc' \in {pc, "dead"},
         UNCHANGED <<cur, conf, host>>,
         \A d \in Conn \ {c} : job'[d] = job[d]
  PROVE  Registering' /\ ReloadUnseen' /\ JobsGranted'
  <1> USE DEF IInv
  <1>1. /\ at[c] = from /\ at'[c] = to
        /\ \A d \in Conn \ {c} : at'[d] = at[d]
        /\ to # "gone" => early' = early
        /\ early \ {c} \subseteq early'
    BY MoveSets DEF Moves
  <1>2. Registering'
    BY <1>1 DEF Registering
  <1>3. ReloadUnseen'
    <2> SUFFICES ASSUME pc' \in ReloadPcs, NEW d \in Conn,
                        at'[d] \in CountedAt \cup {"spawned"}
                 PROVE  d \in early'
      BY DEF ReloadUnseen
    <2>1. pc' = pc
      BY DEF ReloadPcs
    <2>2. CASE d = c
      <3>1. to # "gone" /\ from \in CountedAt \cup {"spawned"}
        BY <1>1, <2>2 DEF CountedAt
      <3> QED BY <1>1, <2>1, <2>2, <3>1 DEF ReloadUnseen
    <2>3. CASE d # c
      BY <1>1, <2>1, <2>3 DEF ReloadUnseen
    <2> QED BY <2>2, <2>3
  <1>4. JobsGranted'
    <2>1. \A d \in Conn : at'[d] = "job" =>
             /\ at[d] = "job" /\ job'[d] = job[d] /\ host'[d] = host[d]
             /\ d \in early => d \in early'
      BY <1>1
    <2> QED BY <2>1, JobsKept
  <1> QED BY <1>2, <1>3, <1>4

(* Requests that start no job. *)
LEMMA QuietRequest ==
  ASSUME IInv, NEW c \in Conn, NEW to \in {"serve", "done"},
         Moves(c, "serve", to), requestFrame' = requestFrame,
         auth' \in [Conn -> SUBSET {"id", "rsa", "trust"}], UNCHANGED job
  PROVE  IInv'
  <1>1. "serve" \in Places \ {"none"} /\ to \in Places \ {"job"}
    BY DEF Places, RegisteredAt, CountedAt
  <1>2. UNCHANGED <<pc, cur, conf, host, active>>
    BY DEF requestFrame, threadFrame, policyVars
  <1>3. active' \in Int /\ ThreadsCounted' /\ ServingBounded'
    BY <1>1, <1>2, MoveCounts DEF CountedAt, ServingAt, IInv, Typed
  <1>4. Registering' /\ ReloadUnseen' /\ JobsGranted'
    BY <1>1, <1>2, MoveOthers DEF CountedAt
  <1>5. Typed'
    BY <1>1, <1>2, <1>3, MoveSets DEF IInv, Typed
  <1> QED BY <1>3, <1>4, <1>5 DEF IInv

(* A request that is granted: the lists in force grant it, unless they are  *)
(* freed, which only a thread main has not seen can meet.                   *)
LEMMA GrantedRequest ==
  ASSUME IInv, NEW c \in Conn, NEW f \in File, NEW enc \in BOOLEAN,
         NEW op \in {"run", "send"},
         TRUE \in Allowed(f, c, enc), TakesUp(c, op, f, enc)
  PROVE  IInv'
  <1> USE DEF IInv
  <1>1. /\ Moves(c, "serve", "job") /\ "serve" \in Places /\ "job" \in Places
        /\ job' = [job EXCEPT ![c] = [op |-> op, file |-> f, enc |-> enc]]
        /\ UNCHANGED <<pc, cur, conf, host, active, auth>>
    BY DEF TakesUp, requestFrame, threadFrame, policyVars, Places,
           RegisteredAt, CountedAt
  <1>2. active' \in Int /\ ThreadsCounted' /\ ServingBounded'
    BY <1>1, MoveCounts DEF CountedAt, ServingAt, Typed
  <1>3. /\ at[c] = "serve" /\ at'[c] = "job" /\ early' = early
        /\ \A d \in Conn \ {c} : at'[d] = at[d]
        /\ at' \in [Conn -> Places]
    BY <1>1, MoveSets DEF Moves
  <1>4. [op |-> op, file |-> f, enc |-> enc] \in Job
    BY DEF Job
  <1>5. Typed'
    BY <1>1, <1>2, <1>3, <1>4 DEF Typed
  <1>6. Registering' /\ ReloadUnseen'
    BY <1>1, <1>3 DEF Registering, ReloadUnseen, CountedAt
  <1>7. JobsGranted'
    <2> SUFFICES ASSUME NEW d \in Conn, d \notin early', at'[d] = "job"
                 PROVE  Granted(d)'
      BY DEF JobsGranted
    <2>1. CASE d # c
      <3>1. at[d] = "job" /\ d \notin early /\ UNCHANGED <<job[d], host[d]>>
        BY <1>1, <1>3, <2>1 DEF Typed
      <3>2. Granted(d)
        BY <3>1 DEF JobsGranted
      <3> QED BY <1>1, <3>1, <3>2, GrantKept
    <2>2. CASE d = c
      <3>1. pc # "freed"
        BY <1>3, <2>2 DEF ReloadUnseen, ReloadPcs, CountedAt
      <3>2. AccessControl(conf, f, host[c], enc)
        BY <3>1 DEF Allowed
      <3>3. job'[c].file = f /\ job'[c].enc = enc
        BY <1>1 DEF Typed
      <3> QED BY <1>1, <2>2, <3>2, <3>3 DEF Granted, AccessControl
    <2> QED BY <2>1, <2>2
  <1> QED BY <1>2, <1>5, <1>6, <1>7

(* Each request of a peer. *)
LEMMA RequestStep ==
  ASSUME IInv, NEW c \in Conn, HangUp(c) \/ BusyWithConnection(c)
  PROVE  IInv'
  <1> USE DEF IInv
  <1>1. ASSUME Ends(c) PROVE IInv'
    BY <1>1, QuietRequest DEF Ends, Typed
  <1>2. ASSUME GoesOn(c) PROVE IInv'
    BY <1>2, QuietRequest DEF GoesOn, Typed
  <1>3. CASE HangUp(c)
    BY <1>1, <1>3 DEF HangUp
  <1>4. CASE Exec(c)
    BY <1>1, <1>4, GrantedRequest, ServerAssumption
       DEF Exec, ServerAssumption
  <1>5. CASE Cauth(c)
    <2>1. auth' \in [Conn -> SUBSET {"id", "rsa", "trust"}]
      BY <1>5 DEF Cauth, LookedUp, Typed
    <2> QED BY <1>5, <2>1, QuietRequest DEF Cauth, LookedUp
  <1>6. CASE Sauth(c)
    <2>1. CASE Ends(c)
      BY <1>1, <2>1
    <2>2. CASE ~Ends(c)
      <3>1. auth' \in [Conn -> SUBSET {"id", "rsa", "trust"}]
        BY <1>6, <2>2 DEF Sauth, Authenticated, CheckStoreKey, Typed
      <3> QED BY <1>6, <2>2, <3>1, QuietRequest
           DEF Sauth, Authenticated, CheckStoreKey
    <2> QED BY <2>1, <2>2
  <1>7. CASE Get(c)
    BY <1>1, <1>2, <1>7, GrantedRequest DEF Get
  <1>8. CASE SGet(c)
    BY <1>1, <1>2, <1>8, GrantedRequest DEF SGet
  <1>9. CASE OpenDir(c)
    BY <1>1, <1>9, GrantedRequest DEF OpenDir
  <1>10. CASE Synch(c)
    BY <1>1, <1>2, <1>10, GrantedRequest DEF Synch
  <1>11. CASE Md5(c)
    BY <1>2, <1>11 DEF Md5
  <1> QED BY <1>3, <1>4, <1>5, <1>6, <1>7, <1>8, <1>9, <1>10, <1>11
             DEF BusyWithConnection

(* Each step a thread takes between requests. *)
LEMMA ThreadStep ==
  ASSUME IInv, NEW c \in Conn, Step(c)
  PROVE  IInv'
  <1> USE DEF IInv
  <1>a. ASSUME NEW from \in Places \ {"none"}, NEW to \in Places \ {"job"},
               Moves(c, from, to),
               to \in CountedAt => from \in CountedAt \cup {"spawned"},
               to # "spawned",
               active' = IF from \in CountedAt
                   THEN IF to \in CountedAt THEN active ELSE active - 1
                   ELSE IF to \in CountedAt THEN active + 1 ELSE active,
               to \in ServingAt => from \in ServingAt
                             \/ (from \in CountedAt /\ active < MaxConnections),
               pc' \in {pc, "dead"}, UNCHANGED threadFrame,
               auth' \in [Conn -> SUBSET {"id", "rsa", "trust"}],
               job' \in [Conn -> Job],
               \A d \in Conn \ {c} : job'[d] = job[d]
        PROVE  IInv'
    <2>1. UNCHANGED <<cur, conf, host>>
      BY <1>a DEF threadFrame, policyVars
    <2>2. active' \in Int /\ ThreadsCounted' /\ ServingBounded'
      BY <1>a, MoveCounts
    <2>3. Registering' /\ ReloadUnseen' /\ JobsGranted'
      BY <1>a, <2>1, MoveOthers
    <2>4. Typed'
      BY <1>a, <2>1, <2>2, MoveSets DEF Typed
    <2> QED BY <2>2, <2>3, <2>4
  <1> USE DEF Places, RegisteredAt, CountedAt, ServingAt
  <1>1. CASE Enter(c)
    BY <1>1, <1>a DEF Enter, Typed
  <1>2. CASE Admit(c)
    BY <1>2, <1>a DEF Admit, Typed
  <1>3. CASE FindBusy(c)
    BY <1>3, <1>a DEF FindBusy, Typed
  <1>4. CASE Refuse(c)
    BY <1>4, <1>a DEF Refuse, Typed
  <1>5. CASE ResetTries(c)
    BY <1>5, <1>a DEF ResetTries, Typed
  <1>6. CASE FinishJob(c)
    <2>1. NoJob \in Job
      BY ServerAssumption DEF NoJob, Job, ServerAssumption
    <2>2. /\ Moves(c, "job", "done") \/ Moves(c, "job", "serve")
          /\ job' = [job EXCEPT ![c] = NoJob]
          /\ UNCHANGED <<requestFrame, auth>>
      BY <1>6 DEF FinishJob
    <2>3. /\ job' \in [Conn -> Job]
          /\ \A d \in Conn \ {c} : job'[d] = job[d]
      BY <2>1, <2>2 DEF Typed
    <2> QED BY <2>2, <2>3, <1>a DEF requestFrame, Typed
  <1>7. CASE Leave(c)
    <2>1. auth' \in [Conn -> SUBSET {"id", "rsa", "trust"}]
      BY <1>7 DEF Leave, Typed, NewConn
    <2> QED BY <1>7, <2>1, <1>a DEF Leave, Typed
  <1>8. CASE FindEntry(c)
    <2>1. Moves(c, "leave", "gone") \/ Moves(c, "leave", "unlink")
      BY <1>8 DEF FindEntry
    <2> QED BY <1>8, <2>1, <1>a DEF FindEntry, Typed
  <1>9. CASE Unlink(c)
    BY <1>9, <1>a DEF Unlink, Typed
  <1> QED BY <1>1, <1>2, <1>3, <1>4, <1>5, <1>6, <1>7, <1>8, <1>9 DEF Step

(* Steps of main that move no thread. *)
LEMMA MainQuiet ==
  ASSUME IInv, UNCHANGED <<at, active, auth, job, host>>
  PROVE  Typed' /\ ThreadsCounted' /\ ServingBounded'
  BY DEF IInv, Typed, ThreadsCounted, ServingBounded, Counted, Serving

(* Reading the policy again: no thread but those unseen has a job. *)
LEMMA ReloadStep ==
  ASSUME IInv, StartReload \/ ForgetLists \/ ParseGrants \/ ParseRest
  PROVE  IInv'
  <1> USE DEF IInv
  <1>1. /\ UNCHANGED <<at, active, auth, job, host>>
        /\ pc' \in ReloadPcs /\ early \subseteq early'
    BY DEF StartReload, ForgetLists, ParseGrants, ParseRest, mainFrame,
           connVars, ReloadPcs
  <1>2. \A c \in Conn : at[c] \in CountedAt \cup {"spawned"} => c \in early'
    <2>1. CASE StartReload
      <3>1. active = 0
        BY <2>1 DEF StartReload
      <3>2. Counted = {}
        BY <3>1, CountedFinite, FS_EmptySet DEF ThreadsCounted
      <3> QED BY <2>1, <3>2 DEF StartReload, Counted
    <2>2. CASE ForgetLists \/ ParseGrants \/ ParseRest
      BY <2>2 DEF ForgetLists, ParseGrants, ParseRest, ReloadUnseen, ReloadPcs
    <2> QED BY <2>1, <2>2
  <1>3. ReloadUnseen' /\ Registering'
    BY <1>1, <1>2 DEF ReloadUnseen, CountedAt, Registering, ReloadPcs
  <1>4. JobsGranted'
    BY <1>1, <1>2 DEF JobsGranted, CountedAt
  <1> QED BY <1>1, <1>3, <1>4, MainQuiet

LEMMA IdleStep ==
  ASSUME IInv,
         CheckVariables \/ SkipReload \/ EndInline \/ EditPolicy
         \/ (\E h \in Host : TurnedAway(h))
  PROVE  IInv'
  <1> USE DEF IInv
  <1>1. /\ UNCHANGED <<at, active, auth, job, host, conf, early>>
        /\ (pc' = pc /\ cur' = cur) \/ pc' \in {"select", "loop"}
    BY DEF CheckVariables, SkipReload, EndInline, EditPolicy, TurnedAway,
           mainFrame, mainVars, connVars, policyVars, history
  <1>2. Registering' /\ ReloadUnseen'
    BY <1>1 DEF Registering, ReloadUnseen, ReloadPcs
  <1>3. JobsGranted'
    BY <1>1, JobsKept
  <1> QED BY <1>1, <1>2, <1>3, MainQuiet

(* A new connection takes a place that no thread is at. *)
LEMMA AcceptStep ==
  ASSUME IInv, NEW h \in Host, NEW now, Accept(h, now)
  PROVE  IInv'
  <1> USE DEF IInv
  <1>1. /\ pc = "select" /\ UNCHANGED <<active, auth, job, conf, early>>
        /\ \/ pc' = "loop" /\ UNCHANGED <<at, host>>
           \/ /\ pc' = "link"
              /\ \E c \in Conn : /\ Unused(c) /\ cur' = c
                                 /\ at' = [at EXCEPT ![c] = "none"]
                                 /\ host' = [host EXCEPT ![c] = h]
    <2> DEFINE old == Old(now)
               repeated == h \notin conf.multi /\ Named(h) \ old # {}
               unused == {c \in Conn : Unused(c)}
               c == CHOOSE d \in unused : TRUE
    <2>1. /\ pc = "select" /\ UNCHANGED <<active, auth, job, conf, early>>
      BY DEF Accept, policyVars
    <2>2. CASE repeated
      BY <2>1, <2>2 DEF Accept
    <2>3. CASE ~repeated
      <3>1. /\ unused # {} /\ pc' = "link" /\ cur' = c
            /\ at' = [at EXCEPT ![c] = "none"]
            /\ host' = [host EXCEPT ![c] = h]
        BY <2>3 DEF Accept
      <3>2. c \in unused
        BY <3>1
      <3> QED BY <2>1, <3>1, <3>2
    <2> QED BY <2>2, <2>3
  <1>2. CASE pc' = "loop" /\ UNCHANGED <<at, host>>
    <2>1. Registering' /\ ReloadUnseen'
      BY <1>1, <1>2 DEF Registering, ReloadUnseen, ReloadPcs
    <2>2. JobsGranted'
      BY <1>1, <1>2, JobsKept
    <2> QED BY <1>1, <1>2, <2>1, <2>2, MainQuiet
  <1>3. CASE pc' = "link"
    <2>1. PICK c \in Conn : /\ Unused(c) /\ cur' = c
                            /\ at' = [at EXCEPT ![c] = "none"]
                            /\ host' = [host EXCEPT ![c] = h]
      BY <1>1, <1>3
    <2>2. at[c] \in {"none", "gone"} /\ at'[c] = "none"
      BY <2>1 DEF Unused, Typed
    <2>3. \A d \in Conn \ {c} : at'[d] = at[d] /\ host'[d] = host[d]
      BY <2>1 DEF Typed
    <2>4. Counted' = Counted /\ Serving' = Serving
      BY <2>2, <2>3 DEF Counted, Serving, CountedAt, ServingAt
    <2>5. Typed' /\ ThreadsCounted' /\ ServingBounded'
      BY <1>1, <2>1, <2>4
         DEF Typed, ThreadsCounted, ServingBounded, Places
    <2>6. Registering' /\ ReloadUnseen'
      BY <1>3, <2>1, <2>2 DEF Registering, ReloadUnseen, ReloadPcs
    <2>7. JobsGranted'
      <3>1. \A d \in Conn : at'[d] = "job" =>
               /\ at[d] = "job" /\ job'[d] = job[d] /\ host'[d] = host[d]
               /\ d \in early => d \in early'
        BY <1>1, <2>2, <2>3
      <3> QED BY <1>1, <3>1, JobsKept
    <2> QED BY <2>5, <2>6, <2>7
  <1> QED BY <1>1, <1>2, <1>3

LEMMA SpawnStep ==
  ASSUME IInv, Spawn
  PROVE  IInv'
  <1> USE DEF IInv
  <1>1. /\ pc = "link" /\ cur \in Conn /\ at[cur] = "none"
        /\ at' = [at EXCEPT ![cur] = "spawned"]
        /\ pc' \in {"loop", "inline"}
        /\ UNCHANGED <<active, auth, job, host, conf, early>>
    BY DEF Spawn, Registering, mainFrame, connVars, policyVars
  <1>2. /\ at'[cur] = "spawned" /\ \A d \in Conn \ {cur} : at'[d] = at[d]
        /\ at' \in [Conn -> Places]
    BY <1>1 DEF Typed, Places, RegisteredAt
  <1>3. Counted' = Counted /\ Serving' = Serving
    BY <1>1, <1>2 DEF Counted, Serving, CountedAt, ServingAt
  <1>4. Typed' /\ ThreadsCounted' /\ ServingBounded'
    BY <1>1, <1>2, <1>3 DEF Typed, ThreadsCounted, ServingBounded
  <1>5. Registering' /\ ReloadUnseen'
    BY <1>1, <1>2 DEF Registering, ReloadUnseen, ReloadPcs
  <1>6. \A d \in Conn : at'[d] = "job" =>
           /\ at[d] = "job" /\ job'[d] = job[d] /\ host'[d] = host[d]
           /\ d \in early => d \in early'
    BY <1>1, <1>2
  <1>7. JobsGranted'
    BY <1>1, <1>6, JobsKept
  <1> QED BY <1>4, <1>5, <1>7

LEMMA InitIInv == Init => IInv
  <1> SUFFICES ASSUME Init PROVE IInv
      OBVIOUS
  <1>1. Counted = {} /\ Serving = {}
    BY DEF Init, Counted, Serving, CountedAt, ServingAt
  <1>2. ThreadsCounted /\ ServingBounded
    BY <1>1, FS_EmptySet, ServerAssumption
       DEF Init, ThreadsCounted, ServingBounded, ServerAssumption
  <1>3. (CHOOSE h \in Host : TRUE) \in Host
    BY ServerAssumption DEF ServerAssumption
  <1>4. NoJob \in Job
    BY ServerAssumption DEF NoJob, Job, ServerAssumption
  <1>5. Typed
    BY <1>3, <1>4 DEF Init, Typed, Places, NewConn
  <1>6. Registering /\ ReloadUnseen
    BY DEF Init, Registering, ReloadUnseen, ReloadPcs
  <1>7. JobsGranted
    BY DEF Init, JobsGranted
  <1> QED BY <1>2, <1>5, <1>6, <1>7 DEF IInv

LEMMA NextIInv == IInv /\ [Next]_vars => IInv'
  <1> SUFFICES ASSUME IInv, [Next]_vars PROVE IInv'
      OBVIOUS
  <1>1. CASE UNCHANGED vars
    <2>1. UNCHANGED <<at, active, auth, job, host, pc, cur, early, conf>>
      BY <1>1 DEF vars, mainVars, policyVars, listVars, connVars, history
    <2>2. Counted' = Counted /\ Serving' = Serving
      BY <2>1 DEF Counted, Serving
    <2>3. Typed' /\ ThreadsCounted' /\ ServingBounded'
      BY <2>1, <2>2 DEF IInv, Typed, ThreadsCounted, ServingBounded
    <2>4. Registering' /\ ReloadUnseen'
      BY <2>1 DEF IInv, Registering, ReloadUnseen
    <2>5. JobsGranted'
      BY <2>1, JobsKept DEF IInv
    <2> QED BY <2>3, <2>4, <2>5 DEF IInv
  <1>2. CASE Next
    BY <1>2, RequestStep, ThreadStep, ReloadStep, IdleStep, AcceptStep,
       SpawnStep DEF Next, Main
  <1> QED BY <1>1, <1>2

(* ACTIVE_THREADS is the number of threads between HandleConnection's two   *)
(* changes of it.                                                           *)
THEOREM ActiveThreadsExact == Spec => []ThreadsCounted
  <1>1. IInv => ThreadsCounted
    BY DEF IInv
  <1> QED BY <1>1, InitIInv, NextIInv, PTL DEF Spec

(* Fewer than MaxConnections peers are answered, although a thread compares *)
(* ACTIVE_THREADS after it has released the mutex.                          *)
THEOREM ServingIsBounded == Spec => []ServingBounded
  <1>1. IInv => ServingBounded
    BY DEF IInv
  <1> QED BY <1>1, InitIInv, NextIInv, PTL DEF Spec

(* What a thread does for its peer is granted by the lists in force, and    *)
(* the lists are not being read again, unless main had not seen the thread. *)
THEOREM GrantsAlwaysHold == Spec => []GrantsHold
  <1>1. IInv => GrantsHold
    <2> SUFFICES ASSUME IInv, NEW c \in Conn \ early, at[c] = "job"
                 PROVE  /\ pc \notin {"freed", "parse", "parsed", "stamp"}
                        /\ Granted(c)
      BY DEF GrantsHold, Granted
    <2>1. pc \notin {"freed", "parse", "parsed", "stamp"}
      BY DEF IInv, ReloadUnseen, ReloadPcs, CountedAt
    <2>2. Granted(c)
      BY DEF IInv, JobsGranted
    <2> QED BY <2>1, <2>2
  <1> QED BY <1>1, InitIInv, NextIInv, PTL DEF Spec

---------------------------------------------------------------------------
(* Giving up.  TRIES and the threads that are still to be turned away are   *)
(* no more than the row, but for a thread that has yet to reset TRIES.      *)
LetIn == \E c \in Conn : at[c] = "admitted"
Long == row > MaxTries + 1
Starving == /\ tries \in Int /\ row \in Int
            /\ Long \/ row >= Cardinality(Late)
            /\ Long \/ LetIn \/ row >= tries + Cardinality(Late)
            /\ pc = "dead" => Long \/ LetIn

LEMMA LateFinite == IsFiniteSet(Late) /\ Cardinality(Late) \in Nat
  BY ConnFinite, FS_Subset, FS_CardinalityType DEF Late

LEMMA TriesNumber == MaxTries \in Int /\ MaxTries' = MaxTries
  BY ServerAssumption DEF ServerAssumption, MaxTries

(* Steps that neither find the server busy nor have to do with TRIES.       *)
LEMMA StarvingAside ==
  ASSUME Starving, UNCHANGED <<tries, row>>, Late' = Late, LetIn => LetIn',
         pc' = "dead" => pc = "dead"
  PROVE  Starving'
  BY DEF Starving, Long

(* A thread moves among the other places. *)
LEMMA StarvingElsewhere ==
  ASSUME Typed, Starving, NEW c \in Conn, NEW from \in Places, NEW to \in Places,
         Moves(c, from, to), {from, to} \cap {"refused", "admitted"} = {},
         UNCHANGED <<tries, row, pc>>
  PROVE  Starving'
  <1>1. at[c] = from /\ at'[c] = to /\ \A d \in Conn \ {c} : at'[d] = at[d]
    BY MoveSets DEF Moves
  <1>2. Late' = Late /\ (LetIn => LetIn')
    BY <1>1 DEF Late, LetIn
  <1> QED BY <1>2, StarvingAside

LEMMA StarvingRequest ==
  ASSUME Typed, Starving, NEW c \in Conn, HangUp(c) \/ BusyWithConnection(c)
  PROVE  Starving'
  <1>1. UNCHANGED <<tries, row, pc>>
    BY DEF HangUp, BusyWithConnection, Exec, Cauth, LookedUp, Sauth, Authenticated,
       Get, SGet, OpenDir, Synch, Md5, TakesUp, GoesOn, Ends, requestFrame
  <1>2. \E to \in {"serve", "job", "done"} : Moves(c, "serve", to)
    BY DEF HangUp, BusyWithConnection, Exec, Cauth, LookedUp, Sauth, Authenticated,
       Get, SGet, OpenDir, Synch, Md5, TakesUp, GoesOn, Ends
  <1> QED BY <1>1, <1>2, StarvingElsewhere DEF Places, RegisteredAt, CountedAt

LEMMA StarvingThread ==
  ASSUME Typed, Starving, NEW c \in Conn, Step(c)
  PROVE  Starving'
  <1> USE DEF Places, RegisteredAt, CountedAt
  <1>1. CASE Enter(c) \/ Leave(c) \/ FindEntry(c) \/ Unlink(c) \/ FinishJob(c)
    <2>1. UNCHANGED <<tries, row, pc>>
      BY <1>1 DEF Enter, Leave, FindEntry, Unlink, FinishJob, requestFrame
    <2>2. \E from, to \in Places \ {"refused", "admitted"} : Moves(c, from, to)
      BY <1>1 DEF Enter, Leave, FindEntry, Unlink, FinishJob
    <2> QED BY <2>1, <2>2, StarvingElsewhere
  <1>2. ASSUME NEW from \in Places, NEW to \in Places, Moves(c, from, to)
        PROVE  /\ at[c] = from /\ at'[c] = to /\ pc # "dead"
               /\ \A d \in Conn \ {c} : at'[d] = at[d]
    BY <1>2, MoveSets DEF Moves, Running
  <1>3. CASE Admit(c)
    <2>1. Late' = Late /\ LetIn' /\ row' = Cardinality(Late) /\ tries' = tries
      BY <1>2, <1>3 DEF Admit, Late, LetIn
    <2> QED BY <2>1, LateFinite DEF Starving
  <1>4. CASE FindBusy(c)
    <2>1. /\ at[c] = "counted" /\ at'[c] = "refused" /\ pc # "dead" /\ pc' = pc
          /\ tries' = tries /\ \A d \in Conn \ {c} : at'[d] = at[d]
          /\ row' = IF row > MaxTries + 1 THEN row ELSE row + 1
      BY <1>2, <1>4 DEF FindBusy
    <2>2. Late' = Late \cup {c} /\ c \notin Late /\ (LetIn => LetIn')
      BY <2>1 DEF Late, LetIn
    <2>3. Cardinality(Late') = Cardinality(Late) + 1
      BY <2>2, LateFinite, FS_AddElement
    <2> QED BY <2>1, <2>2, <2>3, LateFinite, TriesNumber DEF Starving, Long
  <1>5. CASE Refuse(c)
    <2>1. /\ at[c] = "refused" /\ at'[c] = "leave" /\ row' = row
          /\ tries' = tries + 1 /\ \A d \in Conn \ {c} : at'[d] = at[d]
          /\ pc' = "dead" => tries > MaxTries
      BY <1>2, <1>5 DEF Refuse
    <2>2. Late' = Late \ {c} /\ c \in Late /\ (LetIn => LetIn')
      BY <2>1 DEF Late, LetIn
    <2>3. Cardinality(Late') = Cardinality(Late) - 1
      BY <2>2, LateFinite, FS_RemoveElement
    <2>4. Cardinality(Late) - 1 \in Nat
      BY <2>2, <2>3, LateFinite, FS_Subset, FS_CardinalityType
    <2> QED BY <2>1, <2>2, <2>3, <2>4, LateFinite, TriesNumber DEF Starving, Long
  <1>6. CASE ResetTries(c)
    <2>1. /\ at[c] = "admitted" /\ at'[c] = "serve" /\ row' = row /\ tries' = 0
          /\ \A d \in Conn \ {c} : at'[d] = at[d]
          /\ pc # "dead" /\ pc' = pc
      BY <1>2, <1>6 DEF ResetTries
    <2>2. Late' = Late
      BY <2>1 DEF Late
    <2> QED BY <2>1, <2>2, LateFinite, TriesNumber DEF Starving, Long
  <1> QED BY <1>1, <1>3, <1>4, <1>5, <1>6 DEF Step

LEMMA StarvingMain ==
  ASSUME IInv, Starving,
         \/ Main \/ EditPolicy
         \/ \E h \in Host : TurnedAway(h) \/ \E now \in clock..MaxHours : Accept(h, now)
  PROVE  Starving'
  <1>1. /\ UNCHANGED <<tries, row>>
        /\ pc' = "dead" => pc = "dead"
    BY DEF Main, EditPolicy, TurnedAway, Accept, StartReload, ForgetLists,
       ParseGrants, ParseRest, CheckVariables, SkipReload, Spawn, EndInline,
       mainFrame, mainVars, history
  <1>2. \/ at' = at
        \/ \E c \in Conn, to \in {"none", "spawned"} :
              at[c] \in {"none", "gone"} /\ at' = [at EXCEPT ![c] = to]
    <2>1. CASE Spawn
      BY <2>1 DEF Spawn, IInv, Registering
    <2>2. ASSUME NEW h \in Host, NEW now \in clock..MaxHours, Accept(h, now)
          PROVE  \/ at' = at
                 \/ \E c \in Conn : Unused(c) /\ at' = [at EXCEPT ![c] = "none"]
      <3> DEFINE unused == {c \in Conn : Unused(c)}
      <3>1. at' = at \/ (unused # {}
                         /\ at' = [at EXCEPT ![CHOOSE d \in unused : TRUE] = "none"])
        BY <2>2 DEF Accept
      <3>2. unused # {} => (CHOOSE d \in unused : TRUE) \in unused
        OBVIOUS
      <3> QED BY <3>1, <3>2
    <2>3. CASE ~Spawn /\ ~\E h \in Host : \E now \in clock..MaxHours : Accept(h, now)
      BY <2>3 DEF Main, EditPolicy, TurnedAway, StartReload, ForgetLists,
         ParseGrants, ParseRest, CheckVariables, SkipReload, EndInline
    <2> QED BY <2>1, <2>2, <2>3 DEF Unused
  <1>3. Late' = Late /\ (LetIn => LetIn')
    BY <1>2 DEF Late, LetIn, IInv, Typed
  <1> QED BY <1>1, <1>3, StarvingAside

(* The server gives up only when it is starved: for every limit, every      *)
(* number of threads, and whatever the order in which they find it busy,    *)
(* turn their peers away and reset TRIES.                                   *)
THEOREM GivesUpOnlyStarved == Spec => []DiesOnlyStarved
  <1>1. Init => Starving
    <2> SUFFICES ASSUME Init PROVE Starving
      OBVIOUS
    <2>1. Late = {}
      BY DEF Init, Late
    <2>2. Cardinality(Late) = 0
      BY <2>1, FS_EmptySet
    <2> QED BY <2>2 DEF Init, Starving
  <1>2. IInv /\ Starving /\ [Next]_vars => Starving'
    <2> SUFFICES ASSUME IInv, Starving, [Next]_vars PROVE Starving'
      OBVIOUS
    <2>1. CASE UNCHANGED vars
      BY <2>1 DEF vars, mainVars, history, Starving, Long, Late, LetIn
    <2>2. CASE Next
      BY <2>2, StarvingRequest, StarvingThread, StarvingMain DEF Next, IInv
    <2> QED BY <2>1, <2>2
  <1>3. Starving => DiesOnlyStarved
    BY DEF Starving, Long, LetIn, DiesOnlyStarved
  <1> QED BY <1>1, <1>2, <1>3, InitIInv, NextIInv, PTL DEF Spec

---------------------------------------------------------------------------
(* CONNECTIONLIST.  Main puts entries first, and purges them; a thread takes *)
(* one out in two steps.  The list stays in the order of a rank of the       *)
(* entries as long as the two do not meet.                                   *)

(* The entries that are in the list: they were put in, and not freed yet.   *)
Live == {c \in Conn : at[c] # "none" /\ c \notin freed}

(* A rank of the entries, higher for those put in later; the highest of S,  *)
(* or None, and the entries of L below c.                                   *)
Top(rank, S) == IF S = {} THEN None
                ELSE CHOOSE m \in S : \A x \in S : rank[x] <= rank[m]
Under(rank, L, c) == {d \in L : rank[d] < rank[c]}

(* From fst on, nx leads from each entry of L to the next one below it.     *)
Ranked(nx, L, rank) ==
    /\ \A c, d \in L : rank[c] = rank[d] => c = d
    /\ \A c \in L : nx[c] = Top(rank, Under(rank, L, c))
Lower(I, L, rank) == \A x \in I, y \in L : rank[y] < rank[x] => y \in I
InOrder(nx, fst, L, rank) == Ranked(nx, L, rank) /\ fst = Top(rank, L)

LEMMA Smallest ==
  ASSUME NEW S \in SUBSET Nat, NEW x \in S
  PROVE  \E y \in S : \A z \in S : y <= z
  <1> DEFINE Less == OpToRel(<, Nat)
  <1>a. IsWellFoundedOn(Less, Nat)
    BY NatLessThanWellFounded
  <1>1. \A T : T \subseteq Nat /\ T # {}
               => \E y \in T : \A z \in T : ~(<<z, y>> \in Less)
    <2> HIDE DEF Less
    <2> QED BY <1>a, WFMin
  <1>2. PICK y \in S : \A z \in S : ~(<<z, y>> \in Less)
    <2> HIDE DEF Less
    <2>1. S \subseteq Nat /\ S # {}
      OBVIOUS
    <2> QED BY <1>1, <2>1
  <1>3. ASSUME NEW z \in Nat, z < y PROVE <<z, y>> \in Less
    <2>1. <<z, y>> \in {ss \in Nat \X Nat : ss[1] < ss[2]}
      BY <1>3
    <2> QED BY <2>1 DEF OpToRel
  <1>4. ASSUME NEW z \in S PROVE y <= z
    <2> HIDE DEF Less
    <2>1. ~(z < y)
      BY <1>2, <1>3
    <2> QED BY <2>1
  <1> QED BY <1>4

(* The lowest and the highest of some entries. *)
LEMMA LowestOf ==
  ASSUME NEW B \in Nat, NEW rank \in [Conn -> 0..B],
         NEW S \in SUBSET Conn, S # {}
  PROVE  \E m \in S : \A x \in S : rank[m] <= rank[x]
  <1> DEFINE R == {rank[x] : x \in S}
  <1>1. R \in SUBSET Nat /\ R # {}
    OBVIOUS
  <1>2. PICK n \in R : \A z \in R : n <= z
    <2> HIDE DEF R
    <2> QED BY <1>1, Smallest
  <1>3. PICK m \in S : n = rank[m]
    BY <1>2
  <1>4. \A x \in S : rank[x] \in R
    OBVIOUS
  <1>5. \A x \in S : rank[m] <= rank[x]
    BY <1>2, <1>3, <1>4
  <1> QED BY <1>5

LEMMA TopIn ==
  ASSUME NEW B \in Nat, NEW rank \in [Conn -> 0..B],
         NEW S \in SUBSET Conn, S # {}
  PROVE  Top(rank, S) \in S /\ \A x \in S : rank[x] <= rank[Top(rank, S)]
  <1> DEFINE up == [c \in Conn |-> B - rank[c]]
  <1>1. up \in [Conn -> 0..B]
    OBVIOUS
  <1>2. PICK m \in S : \A x \in S : up[m] <= up[x]
    <2> HIDE DEF up
    <2> QED BY <1>1, LowestOf
  <1>a. \A x \in S : rank[x] \in 0..B /\ up[x] = B - rank[x]
    OBVIOUS
  <1>3. \A x \in S : rank[x] <= rank[m]
    <2> HIDE DEF up
    <2> QED BY <1>2, <1>a
  <1>4. \E k \in S : \A x \in S : rank[x] <= rank[k]
    BY <1>3
  <1> QED BY <1>4 DEF Top

LEMMA TopIs ==
  ASSUME NEW B \in Nat, NEW rank \in [Conn -> 0..B],
         NEW S \in SUBSET Conn, NEW m \in S,
         \A x \in S \ {m} : rank[x] < rank[m]
  PROVE  Top(rank, S) = m
  <1>1. Top(rank, S) \in S /\ rank[m] <= rank[Top(rank, S)]
    BY TopIn
  <1> QED BY <1>1

LEMMA TopOfNone == \A rank : Top(rank, {}) = None
  BY DEF Top

(* Who follows the links from the top of the lower entries I, as far as the *)
(* entries are in gone, meets d when all of I above d are in gone.          *)
LEMMA WalkDown ==
  ASSUME NEW B \in Nat, NEW rank \in [Conn -> 0..B], NEW nx,
         NEW L \in SUBSET Conn, Ranked(nx, L, rank),
         NEW I \in SUBSET L, Lower(I, L, rank),
         NEW gone, NEW d \in I \cup {None},
         \A x \in I : d = None \/ rank[x] > rank[d] => x \in gone
  PROVE  d \in Reach(nx, gone, Top(rank, I))
  <1> SUFFICES ASSUME NEW S \in SUBSET Place, Top(rank, I) \in S,
                      \A e \in S \cap gone : nx[e] \in S, d \notin S
               PROVE  FALSE
    BY DEF Reach, Place
  <1> DEFINE T == {x \in S \cap I : d = None \/ rank[x] > rank[d]}
  <1>1. None \notin Conn
    BY ServerAssumption DEF ServerAssumption
  <1>2. I # {}
    BY TopOfNone
  <1>3. Top(rank, I) \in I /\ \A x \in I : rank[x] <= rank[Top(rank, I)]
    BY <1>2, TopIn
  <1>4. Top(rank, I) \in T
    BY <1>3 DEF Ranked
  <1>5. PICK m \in T : \A x \in T : rank[m] <= rank[x]
    BY <1>4, LowestOf
  <1> DEFINE U == Under(rank, L, m)
  <1>6. nx[m] = Top(rank, U) /\ nx[m] \in S
    BY <1>5 DEF Ranked
  <1>7. U \in SUBSET I /\ (d # None => d \in U)
    BY <1>5 DEF Under, Lower
  <1>8. CASE U = {}
    BY <1>6, <1>7, <1>8, TopOfNone
  <1>9. CASE U # {}
    <2>1. nx[m] \in U /\ \A x \in U : rank[x] <= rank[nx[m]]
      BY <1>6, <1>7, <1>9, TopIn
    <2>2. rank[nx[m]] < rank[m] /\ nx[m] \in S \cap I
      BY <1>6, <1>7, <2>1 DEF Under
    <2>3. nx[m] \in T
      <3>1. CASE d = None
        BY <2>2, <3>1
      <3>2. CASE d # None
        <4>1. rank[d] <= rank[nx[m]] /\ nx[m] # d /\ d \in L
          BY <1>6, <1>7, <2>1, <3>2
        <4>2. rank[d] # rank[nx[m]]
          BY <2>2, <4>1 DEF Ranked
        <4> QED BY <2>2, <4>1, <4>2
      <3> QED BY <3>1, <3>2
    <2> QED BY <1>5, <2>2, <2>3
  <1> QED BY <1>8, <1>9

(* What is in order is what can be reached, *)
LEMMA ReachAll ==
  ASSUME NEW B \in Nat, NEW rank \in [Conn -> 0..B], NEW nx, NEW fst,
         NEW L \in SUBSET Conn, InOrder(nx, fst, L, rank)
  PROVE  Reach(nx, Conn, fst) \ {None} = L
  <1>1. None \notin Conn
    BY ServerAssumption DEF ServerAssumption
  <1>2. ASSUME NEW d \in L PROVE d \in Reach(nx, Conn, fst)
    <2>1. Lower(L, L, rank) /\ \A x \in L : x \in Conn
      BY DEF Lower
    <2> QED BY <2>1, WalkDown DEF InOrder
  <1>3. ASSUME NEW d \in Reach(nx, Conn, fst), d # None PROVE d \in L
    <2> DEFINE S == L \cup {None}
    <2>1. S \in SUBSET Place
      BY DEF Place
    <2>2. fst \in S
      BY TopIn, TopOfNone DEF InOrder
    <2>3. ASSUME NEW e \in S \cap Conn PROVE nx[e] \in S
      <3>1. e \in L /\ nx[e] = Top(rank, Under(rank, L, e))
        BY <1>1, <2>3 DEF InOrder, Ranked
      <3>2. Under(rank, L, e) \in SUBSET L
        BY DEF Under
      <3> QED BY <3>1, <3>2, TopIn, TopOfNone
    <2>4. d \in S
      BY <1>3, <2>1, <2>2, <2>3 DEF Reach
    <2> QED BY <1>3, <2>4
  <1> QED BY <1>1, <1>2, <1>3

(* what is met first of some entries is the top of them, *)
LEMMA MeetFirst ==
  ASSUME NEW B \in Nat, NEW rank \in [Conn -> 0..B], NEW nx, NEW fst,
         NEW L \in SUBSET Conn, InOrder(nx, fst, L, rank),
         NEW N \in SUBSET L, N # {}
  PROVE  Top(rank, N) \in N /\ Top(rank, N) \in Reach(nx, Conn \ N, fst)
  <1> DEFINE d == Top(rank, N)
  <1>1. d \in N /\ \A x \in N : rank[x] <= rank[d]
    BY TopIn
  <1>2. d # None
    BY <1>1, ServerAssumption DEF ServerAssumption
  <1>3. d \in Reach(nx, Conn \ N, fst)
    <2>1. \A x \in L : rank[x] > rank[d] => x \in Conn \ N
      BY <1>1
    <2>2. Lower(L, L, rank) /\ Ranked(nx, L, rank) /\ fst = Top(rank, L)
      BY DEF Lower, InOrder
    <2> HIDE DEF d
    <2> QED BY <1>1, <1>2, <2>1, <2>2, WalkDown
  <1> QED BY <1>1, <1>3

(* and the one before it leads to it. *)
LEMMA BeforeIt ==
  ASSUME NEW B \in Nat, NEW rank \in [Conn -> 0..B], NEW nx, NEW fst,
         NEW L \in SUBSET Conn, InOrder(nx, fst, L, rank),
         NEW e \in L, fst # e
  PROVE  \E d \in L : nx[d] = e
  <1> DEFINE T == {x \in L : rank[x] > rank[e]}
  <1>1. fst \in L /\ rank[e] <= rank[fst]
    BY TopIn DEF InOrder
  <1>2. fst \in T
    BY <1>1 DEF InOrder, Ranked
  <1>3. PICK m \in T : \A x \in T : rank[m] <= rank[x]
    BY <1>2, LowestOf
  <1>4. e \in Under(rank, L, m) /\ Under(rank, L, m) \in SUBSET Conn
    BY <1>3 DEF Under
  <1>5. ASSUME NEW x \in Under(rank, L, m) \ {e} PROVE rank[x] < rank[e]
    <2>1. x \in L /\ rank[x] < rank[m] /\ rank[x] # rank[e]
      BY <1>5 DEF Under, InOrder, Ranked
    <2> QED BY <1>3, <2>1
  <1>6. Top(rank, Under(rank, L, m)) = e
    BY <1>4, <1>5, TopIs
  <1> QED BY <1>3, <1>6 DEF InOrder, Ranked

(* Going on from the top of the lower entries I at the first that is not in *)
(* gone leads to the top of those left.                                     *)
LEMMA SkipIs ==
  ASSUME NEW B \in Nat, NEW rank \in [Conn -> 0..B], NEW nx,
         NEW L \in SUBSET Conn, Ranked(nx, L, rank),
         NEW I \in SUBSET L, Lower(I, L, rank),
         NEW gone \in SUBSET L
  PROVE  (CHOOSE d \in Reach(nx, gone, Top(rank, I)) : d \notin gone)
            = Top(rank, I \ gone)
  <1> DEFINE t == Top(rank, I \ gone)
             S == {t} \cup {x \in I \cap gone : t = None \/ rank[x] > rank[t]}
  <1>1. None \notin Conn
    BY ServerAssumption DEF ServerAssumption
  <1>2. \/ t = None /\ I \ gone = {}
        \/ t \in I \ gone /\ \A x \in I \ gone : rank[x] <= rank[t]
    BY TopIn, TopOfNone
  <1> HIDE DEF t
  <1>3. t \notin gone /\ t \in I \cup {None}
    BY <1>1, <1>2
  <1>4. ASSUME NEW x \in I, t = None \/ rank[x] > rank[t] PROVE x \in gone
    BY <1>1, <1>2, <1>4
  <1>5. t \in Reach(nx, gone, Top(rank, I))
    BY <1>3, <1>4, WalkDown
  <1>a. ASSUME NEW J \in SUBSET I, J # {} \/ t = None, t # None => t \in J
        PROVE  Top(rank, J) \in S
    <2>1. CASE J = {}
      BY <1>a, <2>1, TopOfNone
    <2>2. CASE J # {}
      <3> DEFINE u == Top(rank, J)
      <3>1. u \in J /\ \A x \in J : rank[x] <= rank[u]
        BY <2>2, TopIn
      <3> HIDE DEF u
      <3>2. CASE u \in gone
        <4>1. t # None => rank[t] # rank[u] /\ rank[t] <= rank[u]
          BY <1>1, <1>2, <1>a, <3>1, <3>2 DEF Ranked
        <4> QED BY <1>2, <1>1, <3>1, <3>2, <4>1 DEF u
      <3>3. CASE u \notin gone
        <4>1. t \in I \ gone /\ rank[u] <= rank[t] /\ rank[t] <= rank[u]
          BY <1>1, <1>2, <1>a, <3>1, <3>3
        <4>2. u = t
          BY <3>1, <4>1 DEF Ranked
        <4> QED BY <4>2 DEF u
      <3> QED BY <3>2, <3>3
    <2> QED BY <2>1, <2>2
  <1>6. ASSUME NEW d \in Reach(nx, gone, Top(rank, I)), d \notin gone
        PROVE  d = t
    <2>1. S \in SUBSET Place
      BY <1>3 DEF Place
    <2>2. Top(rank, I) \in S
      BY <1>2, <1>a
    <2>3. ASSUME NEW e \in S \cap gone PROVE nx[e] \in S
      <3>1. e \in I /\ (t = None \/ rank[e] > rank[t])
        BY <1>3, <2>3
      <3>2. nx[e] = Top(rank, Under(rank, L, e))
        BY <3>1 DEF Ranked
      <3>3. Under(rank, L, e) \in SUBSET I
        BY <3>1 DEF Under, Lower
      <3>4. t # None => t \in Under(rank, L, e)
        BY <1>3, <3>1 DEF Under
      <3> QED BY <1>a, <3>2, <3>3, <3>4
    <2>4. d \in S
      BY <1>6, <2>1, <2>2, <2>3 DEF Reach
    <2> QED BY <1>6, <2>4
  <1> QED BY <1>3, <1>5, <1>6 DEF t

(* How the order follows the changes of the list: an entry is put first, *)
LEMMA PutFirst ==
  ASSUME NEW B \in Nat, NEW rank \in [Conn -> 0..B], NEW nx, NEW fst,
         NEW L \in SUBSET Conn, InOrder(nx, fst, L, rank),
         NEW c \in Conn \ L, nx[c] = fst
  PROVE  \E A \in Nat : \E r \in [Conn -> 0..A] : InOrder(nx, c, L \cup {c}, r)
  <1> DEFINE A == B + 1
             r == [rank EXCEPT ![c] = A]
             K == L \cup {c}
  <1>1. /\ A \in Nat /\ r \in [Conn -> 0..A] /\ K \in SUBSET Conn
        /\ r[c] = A /\ \A d \in L : r[d] = rank[d] /\ rank[d] \in 0..B /\ d # c
    OBVIOUS
  <1> HIDE DEF r
  <1>2. ASSUME NEW S \in SUBSET L PROVE Top(r, S) = Top(rank, S)
    <2>1. CASE S = {}
      BY <2>1, TopOfNone
    <2>2. CASE S # {}
      <3> DEFINE t == Top(rank, S)
      <3>1. t \in S /\ \A x \in S : rank[x] <= rank[t]
        BY <2>2, TopIn
      <3> HIDE DEF t
      <3>2. \A x \in S \ {t} : rank[x] # rank[t]
        BY <3>1 DEF InOrder, Ranked
      <3>3. \A x \in S \ {t} : r[x] < r[t]
        BY <1>1, <3>1, <3>2
      <3>4. Top(r, S) = t
        BY <1>1, <3>1, <3>3, TopIs
      <3> QED BY <3>4 DEF t
    <2> QED BY <2>1, <2>2
  <1>3. Top(r, K) = c
    <2>1. \A x \in K \ {c} : r[x] < r[c]
      BY <1>1
    <2> QED BY <1>1, <2>1, TopIs
  <1>4. \A d, e \in K : r[d] = r[e] => d = e
    BY <1>1 DEF InOrder, Ranked
  <1>5. ASSUME NEW d \in K PROVE nx[d] = Top(r, Under(r, K, d))
    <2>1. CASE d = c
      <3>1. Under(r, K, d) = L
        BY <1>1, <2>1 DEF Under
      <3> QED BY <1>2, <2>1, <3>1 DEF InOrder
    <2>2. CASE d \in L
      <3>1. Under(r, K, d) = Under(rank, L, d)
        BY <1>1, <2>2 DEF Under
      <3>2. Under(rank, L, d) \in SUBSET L
        BY DEF Under
      <3> QED BY <1>2, <2>2, <3>1, <3>2 DEF InOrder, Ranked
    <2> QED BY <2>1, <2>2
  <1>6. InOrder(nx, c, K, r)
    BY <1>3, <1>4, <1>5 DEF InOrder, Ranked
  <1> HIDE DEF A, K
  <1>7. \E r1 \in [Conn -> 0..A] : InOrder(nx, c, K, r1)
    BY <1>1, <1>6
  <1> QED BY <1>1, <1>7 DEF K

(* some are taken out *)
LEMMA TakenOut ==
  ASSUME NEW nx, NEW L, NEW rank, Ranked(nx, L, rank), NEW gone, NEW ny,
         NEW fst, fst = Top(rank, L \ gone),
         \A d \in L \ gone : ny[d] = Top(rank, Under(rank, L, d) \ gone)
  PROVE  InOrder(ny, fst, L \ gone, rank)
  <1>1. ASSUME NEW d \in L \ gone
        PROVE  Under(rank, L \ gone, d) = Under(rank, L, d) \ gone
    BY DEF Under
  <1> QED BY <1>1 DEF InOrder, Ranked

(* by main, which goes on at the first that stays, *)
LEMMA Purge ==
  ASSUME NEW B \in Nat, NEW rank \in [Conn -> 0..B], NEW nx, NEW fst,
         NEW L \in SUBSET Conn, InOrder(nx, fst, L, rank),
         NEW gone \in SUBSET L, NEW ny, NEW fst2,
         fst2 = (CHOOSE d \in Reach(nx, gone, fst) : d \notin gone),
         \A c \in L \ gone :
            ny[c] = (CHOOSE d \in Reach(nx, gone, nx[c]) : d \notin gone)
  PROVE  InOrder(ny, fst2, L \ gone, rank)
  <1>1. Lower(L, L, rank)
    BY DEF Lower
  <1>2. fst2 = Top(rank, L \ gone)
    BY <1>1, SkipIs DEF InOrder
  <1>3. ASSUME NEW c \in L \ gone
        PROVE  ny[c] = Top(rank, Under(rank, L, c) \ gone)
    <2>1. Under(rank, L, c) \in SUBSET L
      BY DEF Under
    <2>2. Lower(Under(rank, L, c), L, rank)
      BY DEF Lower, Under
    <2>3. nx[c] = Top(rank, Under(rank, L, c))
      BY DEF InOrder, Ranked
    <2> DEFINE I == Under(rank, L, c)
    <2> HIDE DEF I
    <2>4. (CHOOSE d \in Reach(nx, gone, Top(rank, I)) : d \notin gone)
             = Top(rank, I \ gone)
      BY <2>1, <2>2, SkipIs DEF InOrder, I
    <2>5. ny[c] = (CHOOSE d \in Reach(nx, gone, Top(rank, I)) : d \notin gone)
      BY <2>3 DEF I
    <2> QED BY <2>4, <2>5 DEF I
  <1> QED BY <1>2, <1>3, TakenOut DEF InOrder

(* or one by a thread: the first, or the one after last. *)
LEMMA UnlinkOne ==
  ASSUME NEW B \in Nat, NEW rank \in [Conn -> 0..B], NEW nx, NEW fst,
         NEW L \in SUBSET Conn, InOrder(nx, fst, L, rank),
         NEW e \in Conn, NEW ny, NEW fst2,
         \/ /\ fst = e /\ fst2 = nx[e]
            /\ \A d \in L : ny[d] = nx[d]
         \/ \E l \in L : /\ nx[l] = e /\ fst2 = fst /\ ny[l] = nx[e]
                         /\ \A d \in L \ {l} : ny[d] = nx[d]
  PROVE  e \in L /\ InOrder(ny, fst2, L \ {e}, rank)
  <1>1. None \notin Conn
    BY ServerAssumption DEF ServerAssumption
  <1>a. ASSUME NEW I \in SUBSET L, Lower(I, L, rank)
        PROVE  /\ Top(rank, I) = e => e \in I /\ Top(rank, I \ {e}) = nx[e]
               /\ Top(rank, I) # e => Top(rank, I \ {e}) = Top(rank, I)
    <2>1. CASE I = {}
      BY <1>1, <2>1, TopOfNone
    <2>2. CASE I # {}
      <3> DEFINE t == Top(rank, I)
      <3>1. t \in I /\ \A x \in I : rank[x] <= rank[t]
        BY <2>2, TopIn
      <3> HIDE DEF t
      <3>2. \A x \in I \ {t} : rank[x] < rank[t]
        BY <3>1 DEF InOrder, Ranked
      <3>3. CASE t = e
        <4>1. I \ {e} = Under(rank, L, e)
          BY <1>a, <3>1, <3>2, <3>3 DEF Under, Lower
        <4>2. nx[e] = Top(rank, Under(rank, L, e))
          BY <3>1, <3>3 DEF InOrder, Ranked
        <4> QED BY <3>1, <3>3, <4>1, <4>2 DEF t
      <3>4. CASE t # e
        <4>1. Top(rank, I \ {e}) = t
          BY <3>1, <3>2, <3>4, TopIs
        <4> QED BY <3>4, <4>1 DEF t
      <3> QED BY <3>3, <3>4
    <2> QED BY <2>1, <2>2
  <1>b. ASSUME NEW d \in L
        PROVE  /\ Under(rank, L, d) \in SUBSET L
               /\ Lower(Under(rank, L, d), L, rank)
               /\ nx[d] = Top(rank, Under(rank, L, d))
    BY DEF Under, Lower, InOrder, Ranked
  <1>c. Lower(L, L, rank) /\ fst = Top(rank, L)
    BY DEF Lower, InOrder
  <1>d. ASSUME NEW d \in L, nx[d] = e PROVE e \in L /\ rank[e] < rank[d]
    BY <1>a, <1>b, <1>d DEF Under
  <1>2. CASE /\ fst = e /\ fst2 = nx[e]
             /\ \A d \in L : ny[d] = nx[d]
    <2>1. e \in L /\ fst2 = Top(rank, L \ {e})
      BY <1>2, <1>a, <1>c
    <2>2. \A x \in L : rank[x] <= rank[e]
      BY <1>2, <1>c, TopIn
    <2>3. ASSUME NEW d \in L \ {e}
          PROVE  ny[d] = Top(rank, Under(rank, L, d) \ {e})
      <3>1. nx[d] # e
        BY <1>d, <2>2
      <3> QED BY <1>2, <1>a, <1>b, <3>1
    <2> QED BY <2>1, <2>3, TakenOut DEF InOrder
  <1>3. ASSUME NEW l \in L, nx[l] = e, fst2 = fst, ny[l] = nx[e],
               \A d \in L \ {l} : ny[d] = nx[d]
        PROVE  e \in L /\ InOrder(ny, fst2, L \ {e}, rank)
    <2>1. e \in L /\ rank[e] < rank[l]
      BY <1>3, <1>d
    <2>2. fst # e
      <3>1. rank[l] <= rank[fst]
        BY <1>c, TopIn
      <3> QED BY <2>1, <3>1
    <2>3. fst2 = Top(rank, L \ {e})
      BY <1>3, <1>a, <1>c, <2>2
    <2>4. ASSUME NEW d \in L \ {e}
          PROVE  ny[d] = Top(rank, Under(rank, L, d) \ {e})
      <3>1. CASE d = l
        BY <1>3, <1>a, <1>b, <3>1
      <3>2. CASE d # l
        <4>1. nx[d] # e
          <5> SUFFICES ASSUME nx[d] = e PROVE FALSE
            OBVIOUS
          <5>1. e \in L /\ rank[e] < rank[d]
            BY <1>d
          <5>2. rank[d] < rank[l] \/ rank[l] < rank[d]
            BY <3>2 DEF InOrder, Ranked
          <5>3. d \in Under(rank, L, l) \/ l \in Under(rank, L, d)
            BY <5>2 DEF Under
          <5>4. rank[d] <= rank[e] \/ rank[l] <= rank[e]
            BY <1>3, <1>b, <5>3, TopIn
          <5> QED BY <2>1, <5>1, <5>4
        <4> QED BY <1>3, <1>a, <1>b, <3>2, <4>1
      <3> QED BY <3>1, <3>2
    <2> QED BY <2>1, <2>3, <2>4, TakenOut DEF InOrder
  <1> QED BY <1>2, <1>3

Linked == \E B \in Nat : \E rank \in [Conn -> 0..B] :
             InOrder(next, first, Live, rank)

(* A thread that deletes an entry holds the mutex, and the entry and the    *)
(* one before it belong to connections.                                     *)
Deleting ==
    /\ \A c \in Conn : at[c] = "unlink" => del # None /\ del.by = c
    /\ del # None =>
          /\ del \in Deletion /\ at[del.by] = "unlink"
          /\ at[del.entry] # "none" /\ host[del.entry] = host[del.by]
          /\ del.last # None => at[del.last] # "none"

(* The list has as many entries of a host as there are connections of it.   *)
Entries(h) == {c \in Live : host[c] = h}
Registered(h) == {c \in Conn : host[c] = h /\ at[c] \in RegisteredAt}
Followed == \A h \in Host \ purged :
               Cardinality(Entries(h)) = Cardinality(Registered(h))

(* Nobody is connected from the host main is registering, if it may not     *)
(* have several connections.                                                *)
Alone == pc = "link" =>
    /\ cur \notin freed
    /\ \/ host[cur] \in conf.multi \cup purged
       \/ Registered(host[cur]) = {}

ListInv ==
    /\ DOMAIN next = Conn /\ "multi" \in DOMAIN conf
    /\ ~raced => Linked /\ Deleting /\ Followed /\ Alone /\ OneConnectionPerHost

LEMMA NoneIsNone == None \notin Conn /\ None \notin Deletion
  BY ServerAssumption DEF ServerAssumption

LEMMA LiveListed ==
  ASSUME Linked
  PROVE  /\ Listed = Live
         /\ \A h : Named(h) = Entries(h)
  <1>1. PICK B \in Nat : \E rank \in [Conn -> 0..B] :
                            InOrder(next, first, Live, rank)
    BY DEF Linked
  <1>2. PICK rank \in [Conn -> 0..B] : InOrder(next, first, Live, rank)
    BY <1>1
  <1>3. Live \in SUBSET Conn
    BY DEF Live
  <1>4. Listed = Live
    BY <1>2, <1>3, ReachAll DEF Listed
  <1> QED BY <1>4 DEF Named, Entries, Live

LEMMA EntriesFinite ==
  ASSUME NEW h
  PROVE  /\ IsFiniteSet(Entries(h)) /\ Cardinality(Entries(h)) \in Nat
         /\ IsFiniteSet(Registered(h)) /\ Cardinality(Registered(h)) \in Nat
  <1>1. Entries(h) \subseteq Conn /\ Registered(h) \subseteq Conn
    BY DEF Entries, Registered, Live
  <1>2. IsFiniteSet(Entries(h)) /\ IsFiniteSet(Registered(h))
    BY <1>1, ConnFinite, FS_Subset
  <1> QED BY <1>2, FS_CardinalityType

(* The entry a thread finds is one of the host, and the one before leads to it. *)
LEMMA FoundEntry ==
  ASSUME Linked, NEW h, Named(h) # {}
  PROVE  /\ FirstNamed(h) \in Entries(h)
         /\ Before(FirstNamed(h)) \in Live \cup {None}
  <1>1. PICK B \in Nat : \E rank \in [Conn -> 0..B] :
                            InOrder(next, first, Live, rank)
    BY DEF Linked
  <1>2. PICK rank \in [Conn -> 0..B] : InOrder(next, first, Live, rank)
    BY <1>1
  <1>3. Live \in SUBSET Conn /\ Entries(h) \in SUBSET Live
        /\ Named(h) = Entries(h) /\ Listed = Live
    BY LiveListed DEF Live, Entries
  <1>4. \E c \in Named(h) : c \in Reach(next, Conn \ Named(h), first)
    <2> DEFINE N == Named(h)
    <2>1. N \in SUBSET Live /\ N # {}
      BY <1>3
    <2> HIDE DEF N
    <2>2. Top(rank, N) \in N /\ Top(rank, N) \in Reach(next, Conn \ N, first)
      BY <1>2, <1>3, <2>1, MeetFirst
    <2> QED BY <2>2 DEF N
  <1>5. FirstNamed(h) \in Entries(h)
    BY <1>3, <1>4 DEF FirstNamed
  <1> DEFINE e == FirstNamed(h)
  <1>6. e \in Live
    BY <1>3, <1>5
  <1> HIDE DEF e
  <1>7. Before(e) \in Live \cup {None}
    <2>1. CASE first = e
      BY <2>1 DEF Before
    <2>2. CASE first # e
      <3>1. \E d \in Live : next[d] = e
        BY <1>2, <1>3, <1>6, <2>2, BeforeIt
      <3> QED BY <1>3, <2>2, <3>1 DEF Before
    <2> QED BY <2>1, <2>2
  <1> QED BY <1>5, <1>7 DEF e

(* Steps that neither change the list nor register or end a connection.     *)
LEMMA ListKept ==
  ASSUME ListInv, UNCHANGED <<next, first, freed, del, host, purged, raced>>,
         "multi" \in DOMAIN conf', conf.multi \subseteq conf'.multi,
         pc' = "link" => pc = "link" /\ cur' = cur,
         \A c \in Conn : /\ at'[c] = "none" <=> at[c] = "none"
                         /\ at'[c] \in RegisteredAt <=> at[c] \in RegisteredAt
                         /\ at'[c] = "unlink" <=> at[c] = "unlink"
  PROVE  ListInv'
  <1> USE DEF ListInv
  <1>1. Live' = Live
    BY DEF Live
  <1>2. ASSUME NEW h PROVE Entries(h)' = Entries(h) /\ Registered(h)' = Registered(h)
    BY <1>1 DEF Entries, Registered
  <1> SUFFICES ASSUME ~raced
               PROVE  Linked' /\ Deleting' /\ Followed' /\ Alone'
                      /\ OneConnectionPerHost'
    OBVIOUS
  <1>3. Linked'
    BY <1>1 DEF Linked
  <1>4. Deleting'
    <2>1. del # None => del.by \in Conn /\ del.entry \in Conn
                        /\ (del.last = None \/ del.last \in Conn)
      BY DEF Deleting, Deletion
    <2> QED BY <2>1 DEF Deleting
  <1>5. Followed'
    BY <1>2 DEF Followed
  <1>6. Alone'
    <2> SUFFICES ASSUME pc' = "link"
                 PROVE  /\ cur' \notin freed'
                        /\ \/ host'[cur'] \in conf'.multi \cup purged'
                           \/ Registered(host[cur])' = {}
      BY DEF Alone
    <2>1. Registered(host[cur])' = Registered(host[cur])
      BY DEF Registered
    <2> QED BY <2>1 DEF Alone
  <1>7. OneConnectionPerHost'
    BY DEF OneConnectionPerHost
  <1> QED BY <1>3, <1>4, <1>5, <1>6, <1>7

LEMMA ListFind ==
  ASSUME IInv, ListInv, NEW c \in Conn, FindEntry(c)
  PROVE  ListInv'
  <1> USE DEF ListInv, IInv
  <1> DEFINE e == FirstNamed(host[c])
  <1>1. /\ del = None /\ UNCHANGED <<listVars, host, purged, raced, conf, pc, cur>>
        /\ \/ e = None /\ Moves(c, "leave", "gone") /\ del' = None
           \/ /\ e # None /\ Moves(c, "leave", "unlink")
              /\ del' = [entry |-> e, last |-> Before(e), by |-> c]
    BY DEF FindEntry, CountFree, threadFrame, policyVars
  <1> HIDE DEF e
  <1>2. /\ at[c] = "leave" /\ at'[c] \in {"gone", "unlink"}
        /\ \A d \in Conn \ {c} : at'[d] = at[d]
    BY <1>1, MoveSets DEF Moves, Places, RegisteredAt
  <1>3. Live' = Live /\ UNCHANGED <<next, first, freed>>
    BY <1>1, <1>2 DEF Live, listVars
  <1>4. ASSUME NEW h PROVE Entries(h)' = Entries(h)
    BY <1>1, <1>3 DEF Entries
  <1>5. \A d \in Conn : at'[d] \in RegisteredAt => at[d] \in RegisteredAt
    BY <1>2 DEF RegisteredAt
  <1> SUFFICES ASSUME ~raced
               PROVE  Linked' /\ Deleting' /\ Followed' /\ Alone'
                      /\ OneConnectionPerHost'
    BY <1>1, <1>3
  <1>6. Linked'
    BY <1>3 DEF Linked
  <1>7. Alone'
    <2> SUFFICES ASSUME pc' = "link"
                 PROVE  /\ cur' \notin freed'
                        /\ \/ host'[cur'] \in conf'.multi \cup purged'
                           \/ Registered(host[cur])' = {}
      BY DEF Alone
    <2>1. Registered(host[cur])' \subseteq Registered(host[cur])
      BY <1>1, <1>5 DEF Registered
    <2> QED BY <1>1, <1>3, <2>1 DEF Alone
  <1>8. OneConnectionPerHost'
    BY <1>1, <1>5 DEF OneConnectionPerHost
  <1>9. CASE e = None
    <2>1. Named(host[c]) = {}
      BY <1>9, FoundEntry, NoneIsNone DEF e, Entries, Live
    <2>2. Cardinality(Entries(host[c])) = 0 /\ c \in Registered(host[c])
      BY <1>2, <2>1, LiveListed, FS_EmptySet DEF Registered, RegisteredAt
    <2>3. Cardinality(Registered(host[c])) # 0
      BY <2>2, EntriesFinite, FS_EmptySet
    <2>4. host[c] \in Host /\ host[c] \in purged
      BY <2>2, <2>3 DEF Followed, Typed
    <2>5. Followed'
      <3>1. ASSUME NEW h \in Host \ purged PROVE Registered(h)' = Registered(h)
        BY <1>1, <1>2, <2>4 DEF Registered
      <3> QED BY <1>1, <1>4, <3>1 DEF Followed
    <2>6. Deleting'
      <3>1. at'[c] = "gone" /\ del' = None
        BY <1>1, <1>9, MoveSets DEF Places, RegisteredAt
      <3> QED BY <1>1, <1>2, <3>1 DEF Deleting
    <2> QED BY <1>6, <1>7, <1>8, <2>5, <2>6
  <1>10. CASE e # None
    <2>1. /\ at'[c] = "unlink" /\ del' = [entry |-> e, last |-> Before(e), by |-> c]
      BY <1>1, <1>10, MoveSets DEF Places, RegisteredAt
    <2>2. Named(host[c]) # {}
      BY <1>10 DEF e, FirstNamed
    <2>3. /\ e \in Conn /\ at[e] # "none" /\ host[e] = host[c]
          /\ Before(e) \in Conn \cup {None}
          /\ Before(e) # None => at[Before(e)] # "none"
      BY <2>2, FoundEntry DEF e, Entries, Live
    <2>4. Deleting'
      <3>1. del' \in Deletion /\ del' # None
        BY <2>1, <2>3, NoneIsNone DEF Deletion
      <3>2. \A d \in Conn : at'[d] = "unlink" => d = c
        BY <1>1, <1>2 DEF Deleting
      <3>3. \A d \in Conn : at[d] # "none" => at'[d] # "none"
        BY <1>2
      <3>4. /\ del'.by = c /\ del'.entry = e /\ del'.last = Before(e)
        BY <2>1
      <3> QED BY <1>1, <2>1, <2>3, <3>1, <3>2, <3>3, <3>4 DEF Deleting
    <2>5. Followed'
      <3>1. ASSUME NEW h PROVE Registered(h)' = Registered(h)
        BY <1>1, <1>2, <2>1 DEF Registered, RegisteredAt
      <3> QED BY <1>1, <1>4, <3>1 DEF Followed
    <2> QED BY <1>6, <1>7, <1>8, <2>4, <2>5
  <1> QED BY <1>9, <1>10

LEMMA ListUnlink ==
  ASSUME IInv, ListInv, NEW c \in Conn, Unlink(c)
  PROVE  ListInv'
  <1> USE DEF ListInv, IInv
  <1> DEFINE e == del.entry
  <1>1. /\ Moves(c, "unlink", "gone") /\ del' = None /\ freed' = freed \cup {e}
        /\ UNCHANGED <<host, purged, conf, pc, cur>>
        /\ \/ /\ del.last = None /\ first' = next[e] /\ next' = next
              /\ raced' = (raced \/ first # e)
           \/ /\ del.last # None /\ first' = first
              /\ next' = [next EXCEPT ![del.last] = next[e]]
              /\ raced' = (raced \/ next[del.last] # e \/ del.last \in freed)
    BY DEF Unlink, threadFrame, policyVars
  <1>2. /\ at[c] = "unlink" /\ at'[c] = "gone"
        /\ \A d \in Conn \ {c} : at'[d] = at[d]
    BY <1>1, MoveSets DEF Moves, Places, RegisteredAt
  <1>3. DOMAIN next' = Conn /\ "multi" \in DOMAIN conf'
    BY <1>1
  <1> SUFFICES ASSUME ~raced'
               PROVE  Linked' /\ Deleting' /\ Followed' /\ Alone'
                      /\ OneConnectionPerHost'
    BY <1>3
  <1>4. /\ ~raced /\ Linked /\ Deleting /\ Followed /\ Alone
        /\ OneConnectionPerHost
    BY <1>1
  <1>5. /\ del # None /\ del \in Deletion /\ del.by = c /\ at[e] # "none"
        /\ host[e] = host[c]
        /\ del.last # None => at[del.last] # "none"
    BY <1>2, <1>4 DEF Deleting
  <1>6. e \in Conn /\ (del.last = None \/ del.last \in Conn)
    BY <1>5 DEF Deletion
  <1> HIDE DEF e
  <1>7. PICK B \in Nat : \E rank \in [Conn -> 0..B] :
                            InOrder(next, first, Live, rank)
    BY <1>4 DEF Linked
  <1>8. PICK rank \in [Conn -> 0..B] : InOrder(next, first, Live, rank)
    BY <1>7
  <1>9. e \in Live /\ InOrder(next', first', Live \ {e}, rank)
    <2>1. Live \in SUBSET Conn
      BY DEF Live
    <2>2. CASE del.last = None
      <3>1. /\ first = e /\ first' = next[e] /\ next' = next
        BY <1>1, <2>2
      <3> QED BY <1>6, <1>8, <2>1, <3>1, UnlinkOne
    <2>3. CASE del.last # None
      <3> DEFINE l == del.last
      <3>1. /\ first' = first /\ next' = [next EXCEPT ![l] = next[e]]
            /\ next[l] = e /\ l \notin freed
        BY <1>1, <2>3
      <3>2. l \in Live
        BY <1>5, <1>6, <2>3, <3>1 DEF Live
      <3> HIDE DEF l
      <3>3. next'[l] = next[e] /\ \A d \in Live \ {l} : next'[d] = next[d]
        BY <2>1, <3>1, <3>2
      <3>4. \E k \in Live : /\ next[k] = e /\ first' = first
                            /\ next'[k] = next[e]
                            /\ \A d \in Live \ {k} : next'[d] = next[d]
        BY <3>1, <3>2, <3>3
      <3> QED BY <1>6, <1>8, <2>1, <3>4, UnlinkOne
    <2> QED BY <2>2, <2>3
  <1>10. Live' = Live \ {e}
    BY <1>1, <1>2 DEF Live
  <1>11. Linked'
    BY <1>9, <1>10 DEF Linked
  <1>12. Deleting'
    BY <1>1, <1>2, <1>4, <1>5 DEF Deleting
  <1>13. \A d \in Conn : at'[d] \in RegisteredAt
                            <=> d # c /\ at[d] \in RegisteredAt
    BY <1>2 DEF RegisteredAt, CountedAt
  <1>14. Followed'
    <2> SUFFICES ASSUME NEW h \in Host \ purged
                 PROVE  Cardinality(Entries(h)') = Cardinality(Registered(h)')
      BY <1>1 DEF Followed
    <2>1. Entries(h)' = IF h = host[c] THEN Entries(h) \ {e} ELSE Entries(h)
      BY <1>1, <1>5, <1>10 DEF Entries
    <2>2. Registered(h)' = IF h = host[c] THEN Registered(h) \ {c}
                           ELSE Registered(h)
      BY <1>1, <1>13 DEF Registered
    <2>3. h = host[c] => e \in Entries(h) /\ c \in Registered(h)
      BY <1>2, <1>5, <1>9 DEF Entries, Registered, RegisteredAt
    <2>4. Cardinality(Entries(h)) = Cardinality(Registered(h))
      BY <1>4 DEF Followed
    <2>5. CASE h = host[c]
      <3>1. Cardinality(Entries(h)') = Cardinality(Entries(h)) - 1
        <4>1. Entries(h)' = Entries(h) \ {e} /\ e \in Entries(h)
          BY <2>1, <2>3, <2>5
        <4>2. IsFiniteSet(Entries(h))
          BY EntriesFinite
        <4> QED BY <4>1, <4>2, FS_RemoveElement
      <3>2. Cardinality(Registered(h)') = Cardinality(Registered(h)) - 1
        <4>1. Registered(h)' = Registered(h) \ {c} /\ c \in Registered(h)
          BY <2>2, <2>3, <2>5
        <4>2. IsFiniteSet(Registered(h))
          BY EntriesFinite
        <4> QED BY <4>1, <4>2, FS_RemoveElement
      <3> QED BY <2>4, <3>1, <3>2
    <2>6. CASE h # host[c]
      BY <2>1, <2>2, <2>4, <2>6
    <2> QED BY <2>5, <2>6
  <1>15. Alone'
    <2> SUFFICES ASSUME pc' = "link"
                 PROVE  /\ cur' \notin freed'
                        /\ \/ host'[cur'] \in conf'.multi \cup purged'
                           \/ Registered(host[cur])' = {}
      BY DEF Alone
    <2>1. Registered(host[cur])' \subseteq Registered(host[cur])
      BY <1>1, <1>13 DEF Registered
    <2>2. cur # e
      BY <1>1, <1>5 DEF Registering
    <2> QED BY <1>1, <1>4, <2>1, <2>2 DEF Alone
  <1>16. OneConnectionPerHost'
    BY <1>1, <1>4, <1>13 DEF OneConnectionPerHost
  <1> QED BY <1>11, <1>12, <1>14, <1>15, <1>16

LEMMA ListSpawn ==
  ASSUME IInv, ListInv, Spawn
  PROVE  ListInv'
  <1> USE DEF ListInv, IInv
  <1>1. /\ pc = "link" /\ cur \in Conn /\ at[cur] = "none" /\ first' = cur
        /\ raced' = (raced \/ first # next[cur])
        /\ at' = [at EXCEPT ![cur] = "spawned"]
        /\ pc' \in {"loop", "inline"}
        /\ UNCHANGED <<next, freed, del, host, purged, conf>>
    BY DEF Spawn, Registering, mainFrame, connVars, policyVars
  <1>2. /\ at'[cur] = "spawned" /\ \A d \in Conn \ {cur} : at'[d] = at[d]
    BY <1>1 DEF Typed
  <1> SUFFICES ASSUME ~raced'
               PROVE  Linked' /\ Deleting' /\ Followed' /\ Alone'
                      /\ OneConnectionPerHost'
    BY <1>1
  <1>3. /\ ~raced /\ first = next[cur] /\ Linked /\ Deleting /\ Followed
        /\ Alone /\ OneConnectionPerHost
    BY <1>1
  <1>4. Live' = Live \cup {cur} /\ cur \notin Live /\ Live \in SUBSET Conn
    BY <1>1, <1>2, <1>3 DEF Live, Alone
  <1>5. Linked'
    <2>1. PICK B \in Nat : \E rank \in [Conn -> 0..B] :
                              InOrder(next, first, Live, rank)
      BY <1>3 DEF Linked
    <2>2. PICK rank \in [Conn -> 0..B] : InOrder(next, first, Live, rank)
      BY <2>1
    <2>3. \E A \in Nat : \E r \in [Conn -> 0..A] :
             InOrder(next, cur, Live \cup {cur}, r)
      BY <1>1, <1>3, <1>4, <2>2, PutFirst
    <2> QED BY <1>1, <1>4, <2>3 DEF Linked
  <1>6. Deleting'
    <2>1. del # None => del.by \in Conn /\ del.entry \in Conn
                        /\ (del.last = None \/ del.last \in Conn)
      BY <1>3 DEF Deleting, Deletion
    <2> QED BY <1>1, <1>2, <1>3, <2>1 DEF Deleting
  <1>7. \A d \in Conn : at'[d] \in RegisteredAt
                           <=> d = cur \/ at[d] \in RegisteredAt
    BY <1>2 DEF RegisteredAt
  <1>8. Followed'
    <2> SUFFICES ASSUME NEW h \in Host \ purged
                 PROVE  Cardinality(Entries(h)') = Cardinality(Registered(h)')
      BY <1>1 DEF Followed
    <2>1. Entries(h)' = IF h = host[cur] THEN Entries(h) \cup {cur} ELSE Entries(h)
      BY <1>1, <1>4 DEF Entries
    <2>2. Registered(h)' = IF h = host[cur] THEN Registered(h) \cup {cur}
                           ELSE Registered(h)
      BY <1>1, <1>7 DEF Registered
    <2>3. cur \notin Entries(h) /\ cur \notin Registered(h)
      BY <1>1, <1>4 DEF Entries, Registered, RegisteredAt, CountedAt
    <2>4. Cardinality(Entries(h)) = Cardinality(Registered(h))
      BY <1>3 DEF Followed
    <2>5. CASE h = host[cur]
      <3>1. Cardinality(Entries(h)') = Cardinality(Entries(h)) + 1
        <4>1. Entries(h)' = Entries(h) \cup {cur} /\ cur \notin Entries(h)
          BY <2>1, <2>3, <2>5
        <4>2. IsFiniteSet(Entries(h))
          BY EntriesFinite
        <4> QED BY <4>1, <4>2, FS_AddElement
      <3>2. Cardinality(Registered(h)') = Cardinality(Registered(h)) + 1
        <4>1. Registered(h)' = Registered(h) \cup {cur} /\ cur \notin Registered(h)
          BY <2>2, <2>3, <2>5
        <4>2. IsFiniteSet(Registered(h))
          BY EntriesFinite
        <4> QED BY <4>1, <4>2, FS_AddElement
      <3> QED BY <2>4, <3>1, <3>2
    <2>6. CASE h # host[cur]
      BY <2>1, <2>2, <2>4, <2>6
    <2> QED BY <2>5, <2>6
  <1>9. Alone'
    BY <1>1 DEF Alone
  <1>10. OneConnectionPerHost'
    <2> SUFFICES ASSUME NEW c \in Conn, NEW d \in Conn, c # d, host[c] = host[d],
                        at'[c] \in RegisteredAt, at'[d] \in RegisteredAt
                 PROVE  host[c] \in conf.multi \cup purged
      BY <1>1 DEF OneConnectionPerHost
    <2>1. CASE c # cur /\ d # cur
      BY <1>3, <1>7, <2>1 DEF OneConnectionPerHost
    <2>2. CASE c = cur \/ d = cur
      <3>1. Registered(host[cur]) # {}
        BY <1>7, <2>2 DEF Registered
      <3> QED BY <1>1, <1>3, <2>2, <3>1 DEF Alone
    <2> QED BY <2>1, <2>2
  <1> QED BY <1>5, <1>6, <1>8, <1>9, <1>10

LEMMA ListAccept ==
  ASSUME IInv, ListInv, NEW h \in Host, NEW now, Accept(h, now)
  PROVE  ListInv'
  <1> USE DEF ListInv, IInv
  <1> DEFINE old == Old(now)
             repeated == h \notin conf.multi /\ Named(h) \ old # {}
             unused == {c \in Conn : Unused(c)}
             kept == [d \in Conn |-> IF d \in freed \cup old THEN next[d]
                                     ELSE Skip(old, next[d])]
  <1>1. /\ pc = "select" /\ UNCHANGED <<conf, del, raced>>
        /\ purged' = purged \cup {host[d] : d \in old}
        /\ first' = Skip(old, first)
        /\ \/ /\ repeated /\ pc' = "loop" /\ next' = kept
              /\ freed' = freed \cup old /\ UNCHANGED <<cur, at, host>>
           \/ /\ ~repeated /\ pc' = "link"
              /\ \E c \in Conn :
                    /\ Unused(c) /\ cur' = c
                    /\ at' = [at EXCEPT ![c] = "none"]
                    /\ next' = [kept EXCEPT ![c] = first']
                    /\ freed' = (freed \cup old) \ {c}
                    /\ host' = [host EXCEPT ![c] = h]
    <2> DEFINE c == CHOOSE d \in unused : TRUE
    <2> HIDE DEF old, kept
    <2>1. /\ pc = "select" /\ UNCHANGED <<conf, del, raced>>
          /\ purged' = purged \cup {host[d] : d \in old}
          /\ first' = Skip(old, first)
      BY DEF Accept, policyVars, old
    <2>2. CASE repeated
      BY <2>1, <2>2 DEF Accept, old, kept
    <2>3. CASE ~repeated
      <3>1. /\ unused # {} /\ pc' = "link" /\ cur' = c
            /\ at' = [at EXCEPT ![c] = "none"]
            /\ next' = [kept EXCEPT ![c] = first']
            /\ freed' = (freed \cup old) \ {c}
            /\ host' = [host EXCEPT ![c] = h]
        BY <2>3 DEF Accept, old, kept
      <3>2. c \in Conn /\ Unused(c)
        BY <3>1
      <3> HIDE DEF c
      <3> QED BY <2>1, <2>3, <3>1, <3>2
    <2> QED BY <2>2, <2>3
  <1>2. DOMAIN next' = Conn /\ "multi" \in DOMAIN conf'
    BY <1>1
  <1> SUFFICES ASSUME ~raced'
               PROVE  Linked' /\ Deleting' /\ Followed' /\ Alone'
                      /\ OneConnectionPerHost'
    BY <1>2
  <1>3. /\ ~raced /\ Linked /\ Deleting /\ Followed /\ OneConnectionPerHost
    BY <1>1
  <1>4. /\ Listed = Live /\ Live \in SUBSET Conn /\ old \in SUBSET Live
        /\ Named(h) = Entries(h)
    BY <1>3, LiveListed DEF Old, Live
  <1>a. \A d \in Live \ old : kept[d] = Skip(old, next[d])
    BY <1>4 DEF Live
  <1>b. DOMAIN kept = Conn
    OBVIOUS
  <1> HIDE DEF old, kept, unused
  (* A place nobody is at is neither in the list nor in a deletion. *)
  <1>5. ASSUME NEW c \in Conn, Unused(c)
        PROVE  /\ at[c] \in {"none", "gone"} /\ c \notin Live
               /\ del # None => c \notin {del.entry, del.last, del.by}
    <2>1. at[c] \in {"none", "gone"} /\ c \notin Live
      BY <1>5 DEF Unused, Live
    <2>2. ASSUME del # None PROVE c \notin {del.entry, del.last, del.by}
      <3>1. /\ at[del.by] = "unlink" /\ at[del.entry] # "none"
            /\ del.last # None => at[del.last] # "none"
        BY <1>3, <2>2 DEF Deleting
      <3> QED BY <1>5, <2>2, <3>1, NoneIsNone DEF Unused
    <2> QED BY <2>1, <2>2
  (* What becomes of the places. *)
  <1>6. /\ Live' = Live \ old
        /\ \A d \in Live \ old : next'[d] = Skip(old, next[d])
        /\ \A d \in Conn : at'[d] \in RegisteredAt <=> at[d] \in RegisteredAt
        /\ \A d \in Conn : at'[d] = "unlink" <=> at[d] = "unlink"
        /\ \A d \in Conn : \/ at'[d] = at[d] /\ host'[d] = host[d]
                           \/ Unused(d)
    <2>1. CASE repeated /\ next' = kept /\ freed' = freed \cup old
               /\ UNCHANGED <<cur, at, host>>
      <3>1. Live' = Live \ old
        BY <2>1 DEF Live
      <3> QED BY <1>a, <2>1, <3>1
    <2>2. ASSUME NEW c \in Conn, Unused(c), cur' = c,
                 at' = [at EXCEPT ![c] = "none"],
                 next' = [kept EXCEPT ![c] = first'],
                 freed' = (freed \cup old) \ {c},
                 host' = [host EXCEPT ![c] = h]
          PROVE  <1>6!1 /\ <1>6!2 /\ <1>6!3 /\ <1>6!4 /\ <1>6!5
      <3>1. /\ at'[c] = "none"
            /\ \A d \in Conn \ {c} : at'[d] = at[d] /\ host'[d] = host[d]
        BY <2>2 DEF Typed
      <3>2. at[c] \in {"none", "gone"} /\ c \notin Live
        BY <1>5, <2>2
      <3>3. Live' = Live \ old
        BY <2>2, <3>1, <3>2 DEF Live
      <3>4. ASSUME NEW d \in Live \ old PROVE next'[d] = Skip(old, next[d])
        <4>1. d # c /\ d \in Conn
          BY <1>4, <3>2
        <4> QED BY <1>a, <1>b, <2>2, <4>1
      <3>5. \A d \in Conn : /\ at'[d] \in RegisteredAt <=> at[d] \in RegisteredAt
                            /\ at'[d] = "unlink" <=> at[d] = "unlink"
        BY <3>1, <3>2 DEF RegisteredAt, CountedAt
      <3> QED BY <2>2, <3>1, <3>3, <3>4, <3>5
    <2> QED BY <1>1, <2>1, <2>2
  <1>7. Linked'
    <2>1. PICK B \in Nat : \E rank \in [Conn -> 0..B] :
                              InOrder(next, first, Live, rank)
      BY <1>3 DEF Linked
    <2>2. PICK rank \in [Conn -> 0..B] : InOrder(next, first, Live, rank)
      BY <2>1
    <2>3. InOrder(next', first', Live \ old, rank)
      BY <1>1, <1>4, <1>6, <2>2, Purge DEF Skip
    <2> QED BY <1>6, <2>3 DEF Linked
  <1>8. Deleting'
    <2>1. del # None => /\ del.by \in Conn /\ del.entry \in Conn
                        /\ (del.last = None \/ del.last \in Conn)
      BY <1>3 DEF Deleting, Deletion
    <2>2. del # None => /\ at'[del.by] = at[del.by] /\ host'[del.by] = host[del.by]
                        /\ at'[del.entry] = at[del.entry]
                        /\ host'[del.entry] = host[del.entry]
                        /\ (del.last = None \/ at'[del.last] = at[del.last])
      BY <1>5, <1>6, <2>1
    <2> QED BY <1>1, <1>3, <1>6, <2>1, <2>2 DEF Deleting
  <1>9. ASSUME NEW g PROVE Registered(g)' = Registered(g)
    BY <1>5, <1>6 DEF Registered, RegisteredAt, CountedAt
  <1>10. Followed'
    <2> SUFFICES ASSUME NEW g \in Host \ purged'
                 PROVE  Cardinality(Entries(g)') = Cardinality(Registered(g)')
      BY DEF Followed
    <2>1. g \notin purged /\ \A d \in old : host[d] # g
      BY <1>1
    <2>2. \A d \in Live \ old : host'[d] = host[d]
      BY <1>4, <1>5, <1>6
    <2>b. Live' = Live \ old
      BY <1>6
    <2>3. Entries(g)' = Entries(g)
      BY <2>1, <2>2, <2>b DEF Entries
    <2> QED BY <1>3, <1>9, <2>1, <2>3 DEF Followed
  <1>11. Alone'
    <2> SUFFICES ASSUME pc' = "link"
                 PROVE  /\ cur' \notin freed'
                        /\ \/ host'[cur'] \in conf'.multi \cup purged'
                           \/ Registered(host[cur])' = {}
      BY DEF Alone
    <2>a. /\ ~repeated /\ conf' = conf
          /\ purged' = purged \cup {host[d] : d \in old}
          /\ \E c \in Conn : /\ cur' = c /\ freed' = (freed \cup old) \ {c}
                            /\ host' = [host EXCEPT ![c] = h]
      BY <1>1
    <2>1. cur' \notin freed' /\ host'[cur'] = h
      BY <2>a DEF Typed
    <2>2. CASE h \in conf.multi
      BY <2>a, <2>1, <2>2
    <2>3. CASE Named(h) \subseteq old
      <3>1. CASE Named(h) # {}
        <4>1. h \in purged'
          BY <1>4, <2>a, <2>3, <3>1 DEF Entries
        <4> QED BY <2>1, <4>1
      <3>2. CASE Named(h) = {} /\ h \notin purged
        <4>a. Cardinality(Entries(h)) = 0
          BY <1>4, <3>2, FS_EmptySet
        <4>1. Cardinality(Registered(h)) = 0
          BY <1>3, <3>2, <4>a DEF Followed
        <4>2. Registered(h) = {}
          BY <4>1, EntriesFinite, FS_EmptySet
        <4> QED BY <1>9, <2>1, <4>2 DEF Registered
      <3>3. CASE h \in purged
        BY <2>a, <2>1, <3>3
      <3> QED BY <3>1, <3>2, <3>3
    <2> QED BY <2>a, <2>1, <2>2, <2>3
  <1>12. OneConnectionPerHost'
    <2> SUFFICES ASSUME NEW c \in Conn, NEW d \in Conn, c # d,
                        host'[c] = host'[d],
                        at'[c] \in RegisteredAt, at'[d] \in RegisteredAt
                 PROVE  host'[c] \in conf'.multi \cup purged'
      BY DEF OneConnectionPerHost
    <2>1. /\ at[c] \in RegisteredAt /\ at[d] \in RegisteredAt
          /\ host'[c] = host[c] /\ host'[d] = host[d]
      BY <1>5, <1>6 DEF RegisteredAt, CountedAt
    <2> QED BY <1>1, <1>3, <2>1 DEF OneConnectionPerHost
  <1> QED BY <1>7, <1>8, <1>10, <1>11, <1>12

(* The other steps of main and of the environment, *)
LEMMA ListMain ==
  ASSUME IInv, ListInv,
         \/ StartReload \/ ForgetLists \/ ParseGrants \/ ParseRest
         \/ CheckVariables \/ SkipReload \/ EndInline \/ EditPolicy
         \/ \E h \in Host : TurnedAway(h)
  PROVE  ListInv'
  <1>1. /\ UNCHANGED <<at, next, first, freed, del, host, purged, raced>>
        /\ pc' = "link" => pc = "link" /\ cur' = cur
    BY DEF StartReload, ForgetLists, ParseGrants, ParseRest, CheckVariables,
       SkipReload, EndInline, EditPolicy, TurnedAway, mainFrame, mainVars,
       listVars, connVars, history
  <1>2. "multi" \in DOMAIN conf' /\ conf.multi \subseteq conf'.multi
    <2>1. CASE ForgetLists \/ ParseGrants
      BY <2>1 DEF ForgetLists, ParseGrants, ListInv
    <2>2. CASE ParseRest
      BY <2>2 DEF ParseRest, Reading
    <2>3. CASE conf' = conf
      BY <2>3 DEF ListInv
    <2> QED BY <2>1, <2>2, <2>3
        DEF StartReload, CheckVariables, SkipReload, EndInline, EditPolicy,
            TurnedAway, policyVars
  <1> QED BY <1>1, <1>2, ListKept

(* and of the threads: they stay among the connections that are registered. *)
LEMMA ListMoves ==
  ASSUME IInv, ListInv, NEW c \in Conn,
         NEW from \in RegisteredAt \ {"unlink"}, NEW to \in RegisteredAt \ {"unlink"},
         Moves(c, from, to), pc' \in {pc, "dead"},
         UNCHANGED <<threadFrame, listVars, del, raced>>
  PROVE  ListInv'
  <1>1. UNCHANGED <<next, first, freed, del, host, purged, raced, conf, cur>>
    BY DEF threadFrame, listVars, policyVars
  <1>2. from \in Places /\ to \in Places /\ from # "none" /\ to # "none"
    BY DEF Places, RegisteredAt, CountedAt
  <1>3. /\ at[c] = from /\ at'[c] = to
        /\ \A d \in Conn \ {c} : at'[d] = at[d]
    BY <1>2, MoveSets DEF IInv, Moves
  <1> QED BY <1>1, <1>2, <1>3, ListKept DEF ListInv

LEMMA ListThread ==
  ASSUME IInv, ListInv, NEW c \in Conn,
         Step(c) \/ HangUp(c) \/ BusyWithConnection(c)
  PROVE  ListInv'
  <1> USE DEF RegisteredAt, CountedAt
  <1>1. CASE HangUp(c) \/ BusyWithConnection(c)
    <2>1. UNCHANGED requestFrame
      BY <1>1 DEF HangUp, BusyWithConnection, Exec, Cauth, LookedUp, Sauth,
         Authenticated, Get, SGet, OpenDir, Synch, Md5, TakesUp, GoesOn, Ends
    <2>2. \E to \in {"serve", "job", "done"} : Moves(c, "serve", to)
      BY <1>1 DEF HangUp, BusyWithConnection, Exec, Cauth, LookedUp, Sauth,
         Authenticated, Get, SGet, OpenDir, Synch, Md5, TakesUp, GoesOn, Ends
    <2> QED BY <2>1, <2>2, ListMoves DEF requestFrame
  <1>2. CASE \/ Enter(c) \/ Admit(c) \/ FindBusy(c) \/ Refuse(c)
             \/ ResetTries(c) \/ FinishJob(c) \/ Leave(c)
    <2>1. pc' \in {pc, "dead"} /\ UNCHANGED <<threadFrame, listVars, del, raced>>
      BY <1>2 DEF Enter, Admit, FindBusy, Refuse, ResetTries, FinishJob, Leave,
         requestFrame
    <2>2. \E from, to \in RegisteredAt \ {"unlink"} : Moves(c, from, to)
      BY <1>2 DEF Enter, Admit, FindBusy, Refuse, ResetTries, FinishJob, Leave
    <2> QED BY <2>1, <2>2, ListMoves
  <1>3. CASE FindEntry(c) \/ Unlink(c)
    BY <1>3, ListFind, ListUnlink
  <1> QED BY <1>1, <1>2, <1>3 DEF Step

LEMMA InitListInv == Init => ListInv
  <1> SUFFICES ASSUME Init PROVE ListInv
      OBVIOUS
  <1>1. Live = {} /\ \A c \in Conn : at[c] = "none"
    BY DEF Init, Live
  <1>2. Linked
    <2> DEFINE rank == [c \in Conn |-> 0]
    <2>1. rank \in [Conn -> 0..0] /\ 0 \in Nat
      OBVIOUS
    <2>2. InOrder(next, first, Live, rank)
      BY <1>1, TopOfNone DEF Init, InOrder, Ranked
    <2> HIDE DEF rank
    <2>3. \E r \in [Conn -> 0..0] : InOrder(next, first, Live, r)
      BY <2>1, <2>2
    <2> QED BY <2>1, <2>3 DEF Linked
  <1>3. Deleting
    BY <1>1 DEF Init, Deleting
  <1>4. Followed
    <2>1. ASSUME NEW h PROVE Entries(h) = {} /\ Registered(h) = {}
      BY <1>1 DEF Entries, Registered, RegisteredAt, CountedAt
    <2> QED BY <2>1 DEF Followed
  <1>5. Alone
    BY DEF Init, Alone
  <1>6. OneConnectionPerHost
    BY <1>1 DEF OneConnectionPerHost, RegisteredAt, CountedAt
  <1>7. DOMAIN next = Conn /\ "multi" \in DOMAIN conf
    BY DEF Init, Reading
  <1> QED BY <1>2, <1>3, <1>4, <1>5, <1>6, <1>7 DEF ListInv

LEMMA NextListInv == IInv /\ ListInv /\ [Next]_vars => ListInv'
  <1> SUFFICES ASSUME IInv, ListInv, [Next]_vars PROVE ListInv'
      OBVIOUS
  <1>1. CASE UNCHANGED vars
    <2>1. /\ UNCHANGED <<at, next, first, freed, del, host, purged, raced, conf, pc, cur>>
      BY <1>1 DEF vars, mainVars, policyVars, listVars, connVars, history
    <2> QED BY <2>1, ListKept DEF ListInv
  <1>2. CASE Next
    BY <1>2, ListAccept, ListSpawn, ListMain, ListThread DEF Next, Main
  <1> QED BY <1>1, <1>2

(* CONNECTIONLIST holds as many entries of a host as there are connections  *)
(* of it that are not over, in whatever order main puts entries first and   *)
(* purges them and the threads take theirs out, unless main and a thread    *)
(* changed the list at the same time.                                       *)
THEOREM ListAlwaysFollows == Spec => []ListFollowsConnections
  <1>1. ListInv => ListFollowsConnections
    BY LiveListed DEF ListInv, ListFollowsConnections, Followed, Registered
  <1> QED BY <1>1, InitIInv, NextIInv, InitListInv, NextListInv, PTL DEF Spec

(* A host that may not have several connections has one at a time, unless   *)
(* its entry was purged or the list was changed by two at the same time.    *)
THEOREM OneConnectionAlways == Spec => []OneConnectionPerHost
  <1>1. ListInv => OneConnectionPerHost
    BY DEF ListInv, OneConnectionPerHost
  <1> QED BY <1>1, InitIInv, NextIInv, InitListInv, NextListInv, PTL DEF Spec
=============================================================================
