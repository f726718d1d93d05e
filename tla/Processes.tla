------------------------------ MODULE Processes ------------------------------
(* The promises of cfagent about processes (process.c, CheckProcesses in     *)
(* do.c).  The table of the processes is read once; the promises are then    *)
(* kept one after the other with what was read, while processes end, others  *)
(* begin, and numbers are used again.                                        *)
(*                                                                           *)
(* A process is a record of its program and of the moment at which it was    *)
(* born, by which it differs from a later one with the same number.  A       *)
(* regular expression with its filters is the set of programs it is true of. *)
(* Left out: filters by other columns, the identity and the shell of what is *)
(* restarted, and locks but for refusals.                                    *)
EXTENDS Integers, Sequences, SequencesExt, FiniteSets, FiniteSetsExt, TLC

CONSTANTS
    Watches,        \* the policies that are tried
    Populations,    \* the processes at the beginning: program by number
    Pid,            \* numbers of processes
    Own,            \* the number of the agent
    MaxStirs        \* bound: processes that begin or end, and calls that fail

VARIABLES
    watch,          \* g_vproclist
    running,        \* the processes of the host
    births,
    procdata,       \* what ps has said
    promise,        \* the promise at hand: 0 before the table is read
    phase,          \* where the agent is in it
    unseen,         \* lines FindMatches has not yet looked at
    matches, killlist,
    declared,       \* the classes the promise has defined
    stirs,
    census, calm    \* history: the processes when the promise at hand was
                    \* begun, and whether nothing has stirred since ps ran

table == <<running, births>>
search == <<unseen, matches, killlist>>
processVars == <<watch, table, procdata, promise, phase, search, declared, stirs,
                 census, calm>>

P == watch[promise]
Stir == stirs < MaxStirs /\ stirs' = stirs + 1 /\ calm' = FALSE
Still == UNCHANGED <<stirs, calm>>
Phase(place) == phase = place
Go(place) == phase' = place

ProcessesInit ==
    /\ watch \in Watches
    /\ \E pop \in Populations : running = [q \in DOMAIN pop |-> [program |-> pop[q], born |-> 0]]
    /\ births = 0 /\ procdata = <<>> /\ promise = 0 /\ phase = "begin"
    /\ unseen = <<>> /\ matches = 0 /\ killlist = <<>> /\ declared = {}
    /\ stirs = 0 /\ census = running /\ calm = TRUE

(* ps, whose lines come in the order of the numbers. *)
PsLines == [n \in 1..Cardinality(DOMAIN running) |->
             LET q == SetToSortSeq(DOMAIN running, <)[n]
             IN  [pid |-> q, program |-> running[q].program]]
LoadProcessTable ==
    /\ Phase("begin")
    /\ \/ procdata' = PsLines /\ Go("next") /\ Still
       \/ Go("end") /\ UNCHANGED procdata /\ Stir
    /\ UNCHANGED <<watch, table, promise, search, declared, census>>

(* CheckProcesses: the next promise.  A promise SetOptionString reads the    *)
(* table again; if that fails there is none, and the agent breaks down as    *)
(* soon as it looks for its first line.                                      *)
NextProcessPromise ==
    /\ Phase("next")
    /\ IF promise = Len(watch) THEN Go("end") /\ UNCHANGED promise /\ Still
       ELSE /\ promise' = promise + 1
            /\ \/ /\ Go(IF watch[promise + 1].options THEN "options"
                        ELSE IF procdata = <<>> THEN "crash" ELSE "find")
                  /\ Still
               \/ Go("next") /\ Stir                    \* the lock is refused
    /\ unseen' = procdata /\ matches' = 0 /\ killlist' = <<>> /\ declared' = {}
    /\ census' = running
    /\ UNCHANGED <<watch, table, procdata>>
SetOptions ==
    /\ Phase("options") /\ Go("next")
    /\ \/ procdata' = PsLines /\ Still
       \/ procdata' = <<>> /\ Stir
    /\ UNCHANGED <<watch, table, promise, search, declared, census>>

---------------------------------------------------------------------------
(* kill: what becomes of the process with that number. *)
Others(pids) == [q \in DOMAIN running \ pids |-> running[q]]
Signal(pid, signal) ==
    \/ signal \in {"term", "kill"} /\ running' = Others({pid}) /\ Still
    \/ signal = "term" /\ UNCHANGED running /\ Stir     \* it does not obey
    \/ signal = "hup" /\ UNCHANGED running /\ Still

Line == Head(unseen)
Untouchable(pid, signal) == pid < 4 /\ ~(pid = 1 /\ signal = "hup")
(* MUTANT: the agent kills itself. *)
SpareInit == Untouchable(Line.pid, P.signal) \/ P.action = "w" \/ P.signal = "none"
(* A process that matches is counted; whether it gets a signal is another    *)
(* question.                                                                 *)
Spared == \/ Untouchable(Line.pid, P.signal) \/ P.action = "w" \/ P.signal = "none"
          \/ Line.pid = Own
FindMatches ==
    /\ Phase("find") /\ unseen # <<>>
    /\ unseen' = Tail(unseen)
    /\ IF Line.program \notin P.expr THEN
            UNCHANGED <<running, matches, killlist>> /\ Still
       ELSE /\ matches' = matches + 1
            /\ IF Spared \/ P.action = "m" \/ Line.pid \notin DOMAIN running
               THEN UNCHANGED running /\ Still
               ELSE Signal(Line.pid, P.signal)
            /\ killlist' = IF P.action = "m" /\ ~Spared THEN <<Line.pid>> \o killlist
                           ELSE killlist
    /\ UNCHANGED <<watch, births, procdata, promise, phase, declared, census>>

Wrong == /\ P.want >= 0
         /\ CASE P.comp = "=" -> matches # P.want
              [] P.comp = ">" -> matches < P.want
              [] P.comp = "<" -> matches > P.want
DoProcessCheck ==
    /\ Phase("find") /\ unseen = <<>>
    /\ declared' = {IF matches > 0 THEN "define" ELSE "elsedefine"}
    /\ Go(IF P.want < 0 \/ P.action # "m" \/ Wrong THEN "signal"
          ELSE IF matches # 0 THEN "next" ELSE "restart")
    /\ UNCHANGED <<watch, table, procdata, promise, search, census>> /\ Still

(* DoSignals: the first signal that cannot be sent is the last.              *)
DoSignals ==
    /\ Phase("signal") /\ UNCHANGED <<watch, births, procdata, promise, unseen, matches,
                                   declared, census>>
    /\ IF killlist = <<>> THEN Go("restart") /\ UNCHANGED <<running, killlist>> /\ Still
       ELSE IF Head(killlist) \notin DOMAIN running
       THEN killlist' = <<>> /\ UNCHANGED <<running, phase>> /\ Still
       ELSE killlist' = Tail(killlist) /\ Signal(Head(killlist), P.signal) /\ UNCHANGED phase

(* The restart does not wait for the processes to end.                       *)
Restart ==
    /\ Phase("restart") /\ Go("next")
    /\ IF P.restart = "" \/ (matches # 0 /\ P.signal \notin {"kill", "term"})
       THEN UNCHANGED table /\ Still
       ELSE \/ /\ \E pid \in Pid \ DOMAIN running :
                     running' = running @@ (pid :> [program |-> P.restart, born |-> births + 1])
               /\ births' = births + 1 /\ Still
            \/ UNCHANGED table /\ Stir
    /\ UNCHANGED <<watch, procdata, promise, search, declared, census>>

---------------------------------------------------------------------------
(* What comes from outside *)

ProcessEnds ==
    /\ phase # "end" /\ Stir
    /\ \E pid \in DOMAIN running \ {1, Own} : running' = Others({pid})
    /\ UNCHANGED <<watch, births, procdata, promise, phase, search, declared, census>>
ProcessBegins ==
    /\ phase # "end" /\ Stir
    /\ \E pid \in Pid \ DOMAIN running, program \in {running[q].program : q \in DOMAIN running} :
          running' = running @@ (pid :> [program |-> program, born |-> births + 1])
    /\ births' = births + 1
    /\ UNCHANGED <<watch, procdata, promise, phase, search, declared, census>>

ProcessesNext ==
    \/ LoadProcessTable \/ NextProcessPromise \/ SetOptions \/ FindMatches
    \/ DoProcessCheck \/ DoSignals \/ Restart \/ ProcessEnds \/ ProcessBegins
ProcessesSpec == ProcessesInit /\ [][ProcessesNext]_processVars

---------------------------------------------------------------------------
(* Properties *)

(* What ps said is still true of the programs the promise speaks of: they    *)
(* are not what an earlier promise has signalled or started, unless the      *)
(* table was read in between.                                                *)
Informed == {[pid |-> q, program |-> census[q].program] : q \in DOMAIN census} = ToSet(procdata)
Met == {q \in DOMAIN census : census[q].program \in P.expr}
Survivors == {q \in DOMAIN running : q \in DOMAIN census /\ running[q] = census[q]}
New == DOMAIN running \ Survivors
Enough == /\ P.action = "m" /\ P.want >= 0
          /\ CASE P.comp = "=" -> Cardinality(Met) = P.want
               [] P.comp = ">" -> Cardinality(Met) >= P.want
               [] P.comp = "<" -> Cardinality(Met) <= P.want
Victims == IF P.action = "w" \/ P.signal \notin {"term", "kill"} \/ Enough THEN {}
           ELSE {q \in Met : q >= 4 /\ q # Own}
Renewed == P.restart # "" /\ (Met = {} \/ (P.signal \in {"term", "kill"} /\ ~Enough))

(* When a promise has been kept by what ps still says truly, and nothing else *)
(* has stirred, then exactly the processes that it is to end have ended, one  *)
(* has been started if that was promised, no other was touched, and its       *)
(* classes tell whether there was any; and the agent never ends itself: it    *)
(* shows up in the table, and a policy may speak of a program of its name.    *)
ProcessesAsPromised ==
    /\ Phase("next") /\ promise > 0 /\ declared # {} /\ calm /\ Informed =>
         /\ Survivors = DOMAIN census \ Victims
         /\ Cardinality(New) = IF Renewed THEN 1 ELSE 0
         /\ ("define" \in declared) = (Met # {})
    /\ Own \in DOMAIN running
=============================================================================
