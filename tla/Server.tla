------------------------------- MODULE Server -------------------------------
(* cfservd: one main thread that reads the policy, accepts connections and  *)
(* starts a thread for each, and the threads that answer their peers.       *)
(*                                                                          *)
(* The threads and main share ACTIVE_THREADS and TRIES, the list            *)
(* CONNECTIONLIST of the addresses that are connected, and the access lists *)
(* of the policy.  MUTEX_COUNT guards the counters and the deletions from   *)
(* the list; main takes no mutex, neither to add to the list, nor to purge  *)
(* it, nor to read the policy again.                                        *)
(*                                                                          *)
(* A connection is a place that another takes when nothing refers to it any *)
(* more.  Names of files, texts of messages and keys are left out: a        *)
(* request is its command and the file it names.                            *)
EXTENDS Integers, FiniteSets, Sequences, SequencesExt, FiniteSetsExt

CONSTANTS
    Host,           \* addresses of peers
    MaxConn,        \* bound: connections at a time
    MaxHours,       \* bound: hours the server runs
    PurgeHours,     \* 7200 seconds
    MaxConnections, \* CFD_MAXPROCESSES
    File,           \* the files peers ask for
    RunCommand,     \* the file of cfrunCommand
    Path,           \* the paths of access rules
    Inside,         \* <<path, file>>: the file is the path or lies below it
    Prefixed,       \* <<path, file>>: the name of the file starts with the path
    Exists,         \* the files and paths that can be examined
    Policy,         \* successive contents of cfservd.conf, a sequence
    None            \* no connection

Conn == 1..MaxConn

(* A policy grants and denies paths to hosts; the rules are ordered. *)
Rule == [path : Path, hosts : SUBSET Host, encrypt : BOOLEAN]
PolicyText == [admit : Seq(Rule), deny : Seq(Rule), only : SUBSET Host,
               attackers : SUBSET Host, multi : SUBSET Host,
               skip : SUBSET Host, trust : SUBSET Host]

(* The deletion of an entry: the one before it, and the thread. *)
Deletion == [entry : Conn, last : Conn \cup {None}, by : Conn]

ASSUME ServerAssumption ==
    /\ MaxConn \in Nat \ {0} /\ MaxHours \in Nat /\ PurgeHours \in Nat
    /\ MaxConnections \in Nat \ {0}
    /\ Host # {} /\ RunCommand \in File
    /\ Inside \subseteq Path \X File /\ Prefixed \subseteq Path \X File
    /\ Len(Policy) > 0
    /\ None \notin Conn \cup Deletion

(* How many connections may be turned away before the server gives up. *)
MaxTries == MaxConnections \div 3

VARIABLES
    clock,      \* hours from the start to the last connection
    pc,         \* where main is
    cur,        \* the connection main is registering
    file,       \* index of the policy on the disk
    changed,    \* its mtime is later than CFDSTARTTIME
    conf,       \* the lists the last reading of the policy left
    active,     \* ACTIVE_THREADS
    tries,      \* TRIES
    first,      \* CONNECTIONLIST
    next,       \* the next entry, for the entry of each connection
    stamp,      \* the hour written in an entry
    freed,      \* entries that have been freed
    del,        \* the deletion a thread is in the middle of, or None
    at,         \* where the thread of each connection is
    host,       \* the address of its peer
    auth,       \* what its peer has shown: id, rsa, trust
    job,        \* what the thread does for its peer
    early,      \* threads main did not see when it read ACTIVE_THREADS = 0
    purged,     \* hosts whose entry was purged while they were connected
    raced,      \* main and a thread changed the list at the same time
    row         \* connections found too many since one was last admitted, and
                \* those not turned away by then, up to the number that matters

listVars == <<first, next, stamp, freed>>
connVars == <<host, auth, job>>
policyVars == <<file, changed, conf>>
history == <<early, purged, raced, row>>
mainVars == <<pc, cur>>
vars == <<clock, mainVars, policyVars, active, tries, listVars, del, at,
          connVars, history>>

---------------------------------------------------------------------------
(* Helpers *)

(* What is met when the links are followed from c on, through the entries   *)
(* of gone: the smallest set that has c and, with each of them, the next.   *)
Place == Conn \cup {None}
Reach(links, gone, c) ==
    {d \in Place :
        \A S \in SUBSET Place :
            c \in S /\ (\A e \in S \cap gone : links[e] \in S) => d \in S}

(* The entries that can be reached from the head. *)
Listed == Reach(next, Conn, first) \ {None}

(* An entry that was freed holds no name any more. *)
Named(h) == {c \in Listed \ freed : host[c] = h}

(* DeleteItemMatching: the first entry of h that is met, and the one before *)
(* it.                                                                      *)
FirstNamed(h) ==
    IF Named(h) = {} THEN None
    ELSE CHOOSE c \in Named(h) : c \in Reach(next, Conn \ Named(h), first)
Before(c) == IF first = c THEN None
             ELSE CHOOSE d \in Listed : next[d] = c

(* Nothing refers to the entry or the thread of c. *)
Unused(c) ==
    \/ at[c] = "none"
    \/ /\ at[c] = "gone" /\ c \in freed
       /\ c \notin Listed
       /\ \A d \in Conn : next[d] = c => d \notin Listed
       /\ del # None => c \notin {del.entry, del.last}

(* ACTIVE_THREADS includes these. *)
CountedAt == {"counted", "refused", "admitted", "serve", "job", "done"}
ServingAt == {"admitted", "serve", "job", "done"}
Serving == {c \in Conn : at[c] \in ServingAt}
(* Found too many, and not turned away yet: they count in TRIES later. *)
Late == {c \in Conn : at[c] = "refused"}
(* The connection has been put in the list and has not been taken out. *)
RegisteredAt == {"spawned", "leave", "unlink"} \cup CountedAt

(* What a thread does: nothing, run cfrunCommand, or send a file, listing   *)
(* or state, which an encrypted request or one without contents asks for.   *)
Job == [op : {"none", "run", "send"}, file : File, enc : BOOLEAN]
NoJob == [op |-> "none", file |-> RunCommand, enc |-> FALSE]

(* NewConn: nothing is known of the peer. *)
NewConn == {}

\* MUTANT of Reading: the hosts of AllowMultipleConnections are replaced too.
ReadingAnew(lists, i) ==
    LET p == Policy[i]
    IN  [admit |-> p.admit, deny |-> p.deny, trust |-> p.trust,
         only |-> lists.only \cup p.only,
         attackers |-> lists.attackers \cup p.attackers,
         multi |-> p.multi,
         skip |-> lists.skip \cup p.skip,
         version |-> i]

(* The lists before the policy is read, and what reading its i-th text      *)
(* leaves: the lists of CheckFileChanges are replaced, the others only grow. *)
EmptyLists == [admit |-> <<>>, deny |-> <<>>, only |-> {}, attackers |-> {},
               multi |-> {}, skip |-> {}, trust |-> {}, version |-> 0]
Reading(lists, i) ==
    LET p == Policy[i]
    IN  [admit |-> p.admit, deny |-> p.deny, trust |-> p.trust,
         only |-> lists.only \cup p.only,
         attackers |-> lists.attackers \cup p.attackers,
         multi |-> lists.multi \cup p.multi,
         skip |-> lists.skip \cup p.skip,
         version |-> i]

(* AccessControl: the first rule whose object exists decides, then any      *)
(* matching denial overrides it.                                            *)
AccessControl(lists, f, h, encrypted) ==
    LET matches == {i \in DOMAIN lists.admit :
                       /\ <<lists.admit[i].path, f>> \in Inside
                       /\ lists.admit[i].path \in Exists}
    IN  /\ f \in Exists
        /\ matches # {}
        /\ LET rule == lists.admit[Min(matches)]
           IN  (rule.encrypt => encrypted) /\ h \in rule.hosts
        /\ \A i \in DOMAIN lists.deny :
              <<lists.deny[i].path, f>> \in Prefixed
                  => h \notin lists.deny[i].hosts

(* What a thread may conclude: between DeleteAuthList and the assignment    *)
(* of NULL it walks freed rules.                                            *)
Allowed(f, c, encrypted) ==
    IF pc = "freed" THEN BOOLEAN
    ELSE {AccessControl(conf, f, host[c], encrypted)}

---------------------------------------------------------------------------
(* Initial state: the policy has been read, nobody is connected. *)

Init ==
    /\ clock = 0
    /\ pc = "loop" /\ cur = None
    /\ file = 1 /\ changed = FALSE /\ conf = Reading(EmptyLists, 1)
    /\ active = 0 /\ tries = 0
    /\ first = None
    /\ next = [c \in Conn |-> None]
    /\ stamp = [c \in Conn |-> 0]
    /\ freed = {}
    /\ del = None
    /\ at = [c \in Conn |-> "none"]
    /\ host = [c \in Conn |-> CHOOSE h \in Host : TRUE]
    /\ auth = [c \in Conn |-> NewConn]
    /\ job = [c \in Conn |-> NoJob]
    /\ early = {} /\ purged = {} /\ raced = FALSE /\ row = 0

---------------------------------------------------------------------------
(* The environment *)

(* The administrator writes the next policy. *)
EditPolicy ==
    /\ file < Len(Policy)
    /\ file' = file + 1
    /\ changed' = TRUE
    /\ UNCHANGED <<clock, mainVars, conf, active, tries, listVars, del, at,
                   connVars, history>>

---------------------------------------------------------------------------
(* Main: the loop of StartServer *)

mainFrame == <<clock, active, tries, del, connVars, purged, row>>

\* MUTANT of StartReload: the threads are not waited for.
StartReloadBusy ==
    /\ pc = "loop" /\ changed
    /\ pc' = "freed"
    /\ early' = early \cup {c \in Conn : at[c] = "spawned"}
    /\ UNCHANGED <<mainFrame, cur, policyVars, listVars, at, raced>>

(* CheckFileChanges when no thread is counted and the policy is new: the    *)
(* access lists are freed.                                                  *)
StartReload ==
    /\ pc = "loop" /\ active = 0 /\ changed
    /\ pc' = "freed"
    /\ early' = early \cup {c \in Conn : at[c] = "spawned"}
    /\ UNCHANGED <<mainFrame, cur, policyVars, listVars, at, raced>>

(* The lists are set to NULL. *)
ForgetLists ==
    /\ pc = "freed"
    /\ pc' = "parse"
    /\ conf' = [conf EXCEPT !.admit = <<>>, !.deny = <<>>,
                           !.trust = {}]
    /\ UNCHANGED <<mainFrame, cur, file, changed, listVars, at, early, raced>>

(* ParseInputFile: the file is opened and its grants are read, *)
ParseGrants ==
    /\ pc = "parse"
    /\ pc' = "parsed"
    /\ conf' = [conf EXCEPT !.admit = Policy[file].admit, !.version = file]
    /\ UNCHANGED <<mainFrame, cur, file, changed, listVars, at, early, raced>>

(* then the denials and the lists of addresses below them. *)
ParseRest ==
    /\ pc = "parsed"
    /\ pc' = "stamp"
    /\ conf' = Reading(conf, conf.version)
    /\ UNCHANGED <<mainFrame, cur, file, changed, listVars, at, early, raced>>

(* CheckVariables takes CFDSTARTTIME only now: what was written since the   *)
(* file was read looks old.                                                 *)
CheckVariables ==
    /\ pc = "stamp"
    /\ pc' = "select"
    /\ changed' = FALSE
    /\ UNCHANGED <<mainFrame, cur, file, conf, listVars, at, early, raced>>

(* Threads are counted, or nothing has changed: wait for a connection. *)
SkipReload ==
    /\ pc = "loop" /\ (active > 0 \/ ~changed)
    /\ pc' = "select"
    /\ UNCHANGED <<mainFrame, cur, policyVars, listVars, at, early, raced>>

(* The lists of addresses turn h away. *)
Denied(h) == \/ conf.only # {} /\ h \notin conf.only
             \/ h \in conf.attackers

(* PurgeOldConnections deletes the entries older than two hours, *)
Old(now) == {c \in Listed \ freed : now > stamp[c] + PurgeHours}

(* after which the list goes on at the first entry not among them. *)
Skip(gone, c) == CHOOSE d \in Reach(next, gone, c) : d \notin gone

(* A connection is accepted from h.  Main turns it away, before or after    *)
(* the purge, or makes an entry for it, whose next entry it reads here.     *)
(* Only here the clock is read.                                             *)
TurnedAway(h) ==
    /\ pc = "select" /\ Denied(h)
    /\ pc' = "loop"
    /\ UNCHANGED <<mainFrame, cur, policyVars, listVars, at, early, raced>>

Accept(h, now) ==
    /\ pc = "select" /\ ~Denied(h)
    /\ clock' = now
    /\ LET old == Old(now)
           repeated == h \notin conf.multi /\ Named(h) \ old # {}
           unused == {c \in Conn : Unused(c)}
           c == CHOOSE d \in unused : TRUE
           kept == [d \in Conn |-> IF d \in freed \cup old THEN next[d]
                                   ELSE Skip(old, next[d])]
       IN  /\ purged' = purged \cup {host[d] : d \in old}
           /\ first' = Skip(old, first)
           /\ IF repeated
              THEN /\ pc' = "loop"
                   /\ next' = kept
                   /\ freed' = freed \cup old
                   /\ UNCHANGED <<cur, at, stamp, host>>
              ELSE /\ unused # {}
                   /\ pc' = "link" /\ cur' = c
                   /\ at' = [at EXCEPT ![c] = "none"]
                   /\ next' = [kept EXCEPT ![c] = first']
                   /\ freed' = (freed \cup old) \ {c}
                   /\ stamp' = [stamp EXCEPT ![c] = now]
                   /\ host' = [host EXCEPT ![c] = h]
    /\ UNCHANGED <<policyVars, active, tries, del, auth, job, early, raced,
                   row>>

(* The end of PrependItem, and SpawnConnection.  When no thread can be      *)
(* created main answers the connection itself.                              *)
Spawn ==
    /\ pc = "link"
    /\ first' = cur
    /\ raced' = (raced \/ first # next[cur])
    /\ at' = [at EXCEPT ![cur] = "spawned"]
    /\ \/ pc' = "loop" /\ cur' = None
       \/ pc' = "inline" /\ cur' = cur
    /\ UNCHANGED <<mainFrame, policyVars, next, stamp, freed, early>>

(* HandleConnection returns to main. *)
EndInline ==
    /\ pc = "inline" /\ at[cur] = "gone"
    /\ pc' = "loop" /\ cur' = None
    /\ UNCHANGED <<mainFrame, policyVars, listVars, at, early, raced>>

---------------------------------------------------------------------------
(* The threads: HandleConnection *)

Running == pc # "dead"
(* A thread that deletes an entry holds MUTEX_COUNT. *)
CountFree == del = None
Moves(c, from, to) == /\ Running /\ at[c] = from
                      /\ at' = [at EXCEPT ![c] = to]
                      /\ early' = IF to = "gone" THEN early \ {c} ELSE early
threadFrame == <<clock, cur, policyVars, host, purged>>

Enter(c) ==
    /\ Moves(c, "spawned", "counted") /\ CountFree
    /\ active' = active + 1
    /\ UNCHANGED <<threadFrame, pc, tries, listVars, del, auth, job, raced,
                   row>>

\* MUTANT of Admit: one more.
AdmitOneMore(c) ==
    /\ Moves(c, "counted", "admitted")
    /\ active <= MaxConnections
    /\ row' = Cardinality(Late)
    /\ UNCHANGED <<threadFrame, pc, active, tries, listVars, del, auth, job,
                   raced>>

(* ACTIVE_THREADS is compared after the mutex is released. *)
Admit(c) ==
    /\ Moves(c, "counted", "admitted")
    /\ active < MaxConnections
    /\ row' = Cardinality(Late)
    /\ UNCHANGED <<threadFrame, pc, active, tries, listVars, del, auth, job,
                   raced>>

FindBusy(c) ==
    /\ Moves(c, "counted", "refused")
    /\ active >= MaxConnections
    /\ row' = IF row > MaxTries + 1 THEN row ELSE row + 1
    /\ UNCHANGED <<threadFrame, pc, active, tries, listVars, del, auth, job,
                   raced>>

\* MUTANT of Refuse: it returns without DeleteConn.
RefuseForgets(c) ==
    /\ Moves(c, "refused", "gone") /\ CountFree
    /\ active' = active - 1
    /\ tries' = tries + 1
    /\ pc' = IF tries > MaxTries THEN "dead" ELSE pc
    /\ UNCHANGED <<threadFrame, listVars, del, auth, job, raced, row>>

(* The busy answer, or the end of the server when it was given too often. *)
Refuse(c) ==
    /\ Moves(c, "refused", "leave") /\ CountFree
    /\ active' = active - 1
    /\ tries' = tries + 1
    /\ pc' = IF tries > MaxTries THEN "dead" ELSE pc
    /\ UNCHANGED <<threadFrame, listVars, del, auth, job, raced, row>>

\* MUTANT of ResetTries: it does not.
ResetNothing(c) ==
    /\ Moves(c, "admitted", "serve")
    /\ UNCHANGED <<threadFrame, pc, active, tries, listVars, del, auth, job,
                   raced, row>>

(* There is activity: the server is not stuck. *)
ResetTries(c) ==
    /\ Moves(c, "admitted", "serve")
    /\ tries' = 0
    /\ UNCHANGED <<threadFrame, pc, active, listVars, del, auth, job, raced,
                   row>>

---------------------------------------------------------------------------
(* The requests: BusyWithConnection *)

requestFrame == <<threadFrame, pc, active, tries, listVars, del, raced, row>>

(* What a command does next: it takes up a job, it is refused and the       *)
(* dialogue goes on, or the dialogue ends.                                  *)
TakesUp(c, op, f, enc) ==
    /\ Moves(c, "serve", "job")
    /\ job' = [job EXCEPT ![c] = [op |-> op, file |-> f, enc |-> enc]]
    /\ UNCHANGED <<requestFrame, auth>>
GoesOn(c) ==
    /\ Moves(c, "serve", "serve")
    /\ UNCHANGED <<requestFrame, auth, job>>
Ends(c) ==
    /\ Moves(c, "serve", "done")
    /\ UNCHANGED <<requestFrame, auth, job>>

Verified(c) == "id" \in auth[c]

(* The peer closes the connection, sends an empty or unknown message, or    *)
(* one whose length or block size is wrong.                                 *)
HangUp(c) == Ends(c)

(* EXEC.  AllowedUser looks the user up in a list: either answer.           *)
(* MatchClasses may find that the classes asked for are not defined.        *)
Exec(c) ==
    \/ TRUE \in Allowed(RunCommand, c, FALSE) /\ {"id", "rsa"} \subseteq auth[c]
       /\ TakesUp(c, "run", RunCommand, FALSE)
    \/ Ends(c)

(* CAUTH: VerifyConnection.  Only a peer whose key was accepted on trust is *)
(* looked up in the DNS, and the lookup may fail.                           *)
LookedUp(c) == "trust" \in auth[c] /\ host[c] \notin conf.skip
Cauth(c) ==
    \/ /\ Moves(c, "serve", "serve")
       /\ auth' = [auth EXCEPT ![c] = @ \cup {"id"}]
       /\ UNCHANGED <<requestFrame, job>>
    \/ /\ LookedUp(c)
       /\ Moves(c, "serve", "done")
       /\ auth' = [auth EXCEPT ![c] = @ \ {"id"}]
       /\ UNCHANGED <<requestFrame, job>>

(* The key of the peer is the one on file, or the policy trusts the peer for *)
(* the first one it shows.                                                  *)
CheckStoreKey(c) ==
    {{"rsa"}} \cup {{"rsa", "trust"} : h \in conf.trust \cap {host[c]}}

(* SAUTH: the key of the peer is known, or accepted on trust, or the        *)
(* dialogue fails.                                                          *)
Authenticated(c, shown) ==
    /\ Moves(c, "serve", "serve")
    /\ auth' = [auth EXCEPT ![c] = @ \cup shown]
    /\ UNCHANGED <<requestFrame, job>>
Sauth(c) ==
    \/ Verified(c) /\ \E shown \in CheckStoreKey(c) : Authenticated(c, shown)
    \/ Ends(c)

(* GET: a refusal does not end the dialogue; CfGetFile sends the file. *)
Get(c) ==
    \E f \in File :
        IF ~Verified(c) THEN Ends(c)
        ELSE \E allowed \in Allowed(f, c, FALSE) :
                IF allowed THEN TakesUp(c, "send", f, FALSE) ELSE GoesOn(c)

(* SGET: the request is encrypted with the session key; a refusal ends it.  *)
SGet(c) ==
    \E f \in File :
        \/ ~Verified(c) /\ Ends(c)
        \/ Verified(c) /\ \E allowed \in Allowed(f, c, TRUE) :
              IF allowed THEN TakesUp(c, "send", f, TRUE) ELSE Ends(c)
        \/ GoesOn(c)        \* it does not decrypt to a request

OpenDir(c) ==
    \E f \in File :
        IF ~Verified(c) THEN Ends(c)
        ELSE \E allowed \in Allowed(f, c, TRUE) :
                IF allowed THEN TakesUp(c, "send", f, TRUE) ELSE Ends(c)

(* SYNCH, and SSYNCH once it is decrypted: the state of a file.  Bad clocks *)
(* are refused after access has been granted.                               *)
Synch(c) ==
    \E f \in File :
        \/ ~Verified(c) /\ Ends(c)
        \/ Verified(c) /\ \E allowed \in Allowed(f, c, TRUE) :
              IF allowed THEN TakesUp(c, "send", f, TRUE) ELSE GoesOn(c)
        \/ GoesOn(c)

(* MD5 and SMD5 answer at once, whoever asks. *)
Md5(c) == GoesOn(c)

BusyWithConnection(c) ==
    \/ Exec(c) \/ Cauth(c) \/ Sauth(c) \/ Get(c) \/ SGet(c) \/ OpenDir(c)
    \/ Synch(c) \/ Md5(c)

(* The file, listing or state has been sent; EXEC ends the dialogue. *)
FinishJob(c) ==
    /\ Moves(c, "job", IF job[c].op = "run" THEN "done" ELSE "serve")
    /\ job' = [job EXCEPT ![c] = NoJob]
    /\ UNCHANGED <<requestFrame, auth>>

---------------------------------------------------------------------------
(* The end of a thread: of the connection only the address is used now. *)

Leave(c) ==
    /\ Moves(c, "done", "leave") /\ CountFree
    /\ active' = active - 1
    /\ auth' = [auth EXCEPT ![c] = NewConn]
    /\ UNCHANGED <<threadFrame, pc, tries, listVars, del, job, raced, row>>

\* MUTANT of FindEntry: without an entry it returns with the mutex locked.
FindEntryLocked(c) ==
    /\ CountFree
    /\ LET e == FirstNamed(host[c])
       IN  /\ Moves(c, "leave", IF e = None THEN "gone" ELSE "unlink")
           /\ del' = [entry |-> e, last |-> Before(e), by |-> c]
    /\ UNCHANGED <<threadFrame, pc, active, tries, listVars, auth, job,
                   raced, row>>

(* DeleteConn takes MUTEX_COUNT, and DeleteItemMatching looks for an entry  *)
(* with the address of the peer and remembers the one before it.            *)
FindEntry(c) ==
    /\ CountFree
    /\ LET e == FirstNamed(host[c])
       IN  IF e = None
           THEN Moves(c, "leave", "gone") /\ UNCHANGED del
           ELSE /\ Moves(c, "leave", "unlink")
                /\ del' = [entry |-> e, last |-> Before(e), by |-> c]
    /\ UNCHANGED <<threadFrame, pc, active, tries, listVars, auth, job,
                   raced, row>>

(* It unlinks the entry, frees it, and releases the mutex. *)
Unlink(c) ==
    /\ Moves(c, "unlink", "gone")
    /\ LET e == del.entry
       IN  IF del.last = None
           THEN /\ first' = next[e]
                /\ raced' = (raced \/ first # e)
                /\ UNCHANGED next
           ELSE /\ next' = [next EXCEPT ![del.last] = next[e]]
                /\ raced' = (raced \/ next[del.last] # e \/ del.last \in freed)
                /\ UNCHANGED first
    /\ freed' = freed \cup {del.entry}
    /\ del' = None
    /\ UNCHANGED <<threadFrame, pc, active, tries, stamp, auth, job, row>>

Step(c) ==
    \/ Enter(c) \/ Admit(c) \/ FindBusy(c) \/ Refuse(c) \/ ResetTries(c)
    \/ FinishJob(c) \/ Leave(c) \/ FindEntry(c) \/ Unlink(c)

Main ==
    \/ StartReload \/ ForgetLists \/ ParseGrants \/ ParseRest
    \/ CheckVariables \/ SkipReload \/ Spawn \/ EndInline

Next ==
    \/ EditPolicy
    \/ Main
    \/ \E h \in Host : TurnedAway(h) \/ \E now \in clock..MaxHours : Accept(h, now)
    \/ \E c \in Conn : Step(c) \/ HangUp(c) \/ BusyWithConnection(c)

(* Main and the threads are scheduled, a thread that waits for MUTEX_COUNT  *)
(* gets it in the end, and a peer ends its dialogue: cfagent and cfrun ask  *)
(* for a finite number of files.                                            *)
Fairness ==
    /\ WF_vars(Main)
    /\ \A c \in Conn : SF_vars(Step(c)) /\ SF_vars(HangUp(c))

Spec == Init /\ [][Next]_vars /\ Fairness

---------------------------------------------------------------------------
(* Properties *)


(* Fewer than MaxConnections peers are answered at any time, although the   *)
(* thread compares ACTIVE_THREADS outside the mutex in which it counts.     *)
ServingBounded == Cardinality(Serving) < MaxConnections

(* What a thread is doing for a peer is granted by the lists in force until *)
(* it is done, except for a thread main had not seen when it decided to     *)
(* read the policy again.                                                   *)
GrantsHold ==
    \A c \in Conn \ early : at[c] = "job" =>
        /\ pc \notin {"freed", "parse", "parsed", "stamp"}
        /\ AccessControl(conf, job[c].file, host[c], job[c].enc)

(* A host that may not have several connections has one, unless its entry   *)
(* was purged or main and a thread changed the list at the same time.       *)
OneConnectionPerHost ==
    \A c, d \in Conn :
        /\ c # d /\ host[c] = host[d]
        /\ at[c] \in RegisteredAt /\ at[d] \in RegisteredAt
        => raced \/ host[c] \in conf.multi \cup purged

(* CONNECTIONLIST holds an entry for each connection that is not over: a    *)
(* host that has left is never taken for one that is connected.             *)
ListFollowsConnections ==
    ~raced => \A h \in Host \ purged :
        Cardinality(Named(h)) =
            Cardinality({c \in Conn : host[c] = h /\ at[c] \in RegisteredAt})

(* The server gives up only after more than MaxTries peers in a row found   *)
(* it busy, those included that are on their way out when the row begins,   *)
(* or while a thread it has let in has yet to reset TRIES.                  *)
DiesOnlyStarved ==
    pc = "dead" => \/ row > MaxTries + 1
                   \/ \E c \in Conn : at[c] = "admitted"

(* Every connection that got a thread ends, or the server does. *)
ConnectionsEnd ==
    \A c \in Conn : at[c] = "spawned" ~> (at[c] = "gone" \/ ~Running)
=============================================================================
