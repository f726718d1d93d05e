------------------------------ MODULE Methods ------------------------------
(* Methods: a promise of the policy that calls another policy by name.  The *)
(* call and its answer are packages in the directory rpc_in: a file that    *)
(* names the method and lists its attachments, and one file for each        *)
(* argument.  DoMethods writes the calls, runs a child cfagent for each     *)
(* call that it finds, and takes the answers that it finds.                 *)
(*                                                                          *)
(* Several agents may run at a time and share the directory.  They share no *)
(* other state: GetLock keeps two of them from doing the same for the same  *)
(* method, unless the lock expires.  Each method has one argument and one   *)
(* result; the classes that go with them and the names of files are left    *)
(* out.  An argument is the number of the call it was written for.          *)
EXTENDS Integers, Sequences, SequencesExt, FiniteSetsExt

CONSTANTS
    Agent,        \* processes that keep the policy
    Promises,     \* the methods of the policy, in its order
    Local,        \* those whose server is this host; the peer serves the others
    Directory,    \* orders in which readdir may return the files: sequences
                  \* of all packages
    MaxCalls,      \* bound: runs of agents
    MaxPulls,     \* bound: copies from rpc_out of the peer
    MaxKills,    \* bound: processes killed
    None          \* no file, no method

Method == ToSet(Promises)
(* A package is named after its client, its method and the digest of the    *)
(* arguments; part 0 lists the attachments and part 1 is the argument.      *)
Package == [m : Method, kind : {"call", "reply"}, from : {"localhost", "peer"},
            part : {0, 1}]
Attachment(f) == [f EXCEPT !.part = 1]
CallOf(m) == [m |-> m, kind |-> "call", from |-> "localhost", part |-> 0]
ReplyOf(m) == [m |-> m, kind |-> "reply", part |-> 0,
               from |-> IF m \in Local THEN "localhost" ELSE "peer"]

(* Every file has one place in the directory.                                *)
ASSUME MethodsAssumption ==
    /\ None \notin Nat \cup Method \cup Package /\ Local \subseteq Method
    /\ DOMAIN Promises = 1..Len(Promises) /\ Len(Promises) \in Nat
    /\ \A files \in Directory :
          /\ DOMAIN files = 1..Len(files) /\ Len(files) \in Nat
          /\ ToSet(files) = Package /\ IsInjective(files)

VARIABLES
    order,      \* the order of the directory
    in,         \* rpc_in: what each file holds, None if there is none, 0 if
                \* it has been opened and not been closed
    out,        \* rpc_out: methods called of the peer
    at,         \* where each agent is
    todo,       \* what the loop it is in has still to do: positions in Promises
                \* or in the directory
    bundle,     \* mp->bundle: the package last found for each method
    returnfile, \* the static buffer of GetMethodFilename
    child,      \* the child of each agent
    calls,      \* calls written, of each method
    result,     \* the variable that holds the result of each method, 0 if empty
    ran,        \* history: the arguments each method was run with for this host
    orphans,    \* history: methods whose child outlived the agent that waited
    disturbed,  \* history: something else happened during the run
    called, pulls, kills   \* counters of the bounds

agentVars == <<at, todo, bundle, returnfile>>
counters == <<called, pulls, kills>>
methodVars == <<order, in, out, agentVars, child, calls, result, ran, orphans,
                disturbed, counters>>

---------------------------------------------------------------------------
Present(f) == in[f] # None
Complete(f) == in[f] \notin {None, 0}
Without(fs) == [f \in Package |-> IF f \in fs THEN None ELSE in[f]]

NoChild == [pc |-> "none", name |-> None, digest |-> None, from |-> None,
            arg |-> None]

(* What the loop has come to: a method of the policy, or a package. *)
CallAt(p) == Promises[Min(todo[p])]
FileAt(p) == order[Min(todo[p])]
MethodAt(kind, p) == IF kind = "dispatch" THEN CallAt(p) ELSE FileAt(p).m

(* MUTANT: the lock is released as soon as the child is started. *)
HoldingToStart == [dispatch |-> {"open", "close", "attach", "write"}, exec |-> {},
                   receive |-> {"load", "drop", "clear"}]
(* The steps of an agent between GetLock and ReleaseCurrentLock. *)
Holding == [dispatch |-> {"open", "close", "attach", "write"}, exec |-> {"wait"},
            receive |-> {"load", "drop", "clear"}]

(* MUTANT: the lock is only that of the sending of calls. *)
LockFreeToDispatch(kind, m) ==
    kind = "dispatch" =>
        \A p \in Agent : ~(at[p] \in Holding[kind] /\ MethodAt(kind, p) = m)
(* No running agent holds the lock: it is free, or has expired. *)
LockFree(kind, m) ==
    \A p \in Agent : ~(at[p] \in Holding[kind] /\ MethodAt(kind, p) = m)

agentFrame == <<ran, orphans, disturbed, counters>>
Goes(p, from, to) == at[p] = from /\ at' = [at EXCEPT ![p] = to]
Done(p) == todo' = [todo EXCEPT ![p] = @ \ {Min(@)}]
Disturb(ps) == disturbed' = [p \in Agent |-> disturbed[p] \/ p \in ps]

(* MUTANT: a reply has to come from another host. *)
ApprovedOfServer(f) ==
    IF f.kind = "call" THEN f.m \in Local ELSE f.from = "peer"
(* GetPendingMethods lists the packages of one kind of which it has a       *)
(* method, *)
Pending(kind) == {f \in Package : f.kind = kind /\ f.part = 0 /\ Present(f)}
(* if the server it names is one the policy accepts: calls are accepted for *)
(* methods of this host, replies from the host that runs the method.        *)
Approved(f) ==
    f.m \in Local \/ (f.kind = "reply" /\ f.from = "peer")

MethodsInit ==
    /\ order \in Directory
    /\ in = [f \in Package |-> None] /\ out = {}
    /\ at = [p \in Agent |-> "idle"]
    /\ todo = [p \in Agent |-> {}]
    /\ bundle = [p \in Agent |-> [m \in Method |-> None]]
    /\ returnfile = [p \in Agent |-> None]
    /\ child = [p \in Agent |-> NoChild]
    /\ calls = [m \in Method |-> 0]
    /\ result = [m \in Method |-> 0]
    /\ ran = [m \in Local |-> <<>>] /\ orphans = {}
    /\ disturbed = [p \in Agent |-> FALSE]
    /\ called = 0 /\ pulls = 0 /\ kills = 0

---------------------------------------------------------------------------
(* The first loop of DoMethods: DispatchNewMethod *)

Busy(p) == at[p] # "idle" \/ child[p] # NoChild

BeginMethods(p) ==
    /\ ~Busy(p) /\ called < MaxCalls
    /\ Goes(p, "idle", "dispatch")
    /\ called' = called + 1
    /\ todo' = [todo EXCEPT ![p] = DOMAIN Promises]
    /\ returnfile' = [returnfile EXCEPT ![p] = None]
    /\ bundle' = [bundle EXCEPT ![p] = [m \in Method |-> None]]
    /\ LET others == {q \in Agent \ {p} : Busy(q)}
           left == {f \in Package : Present(f) /\ f.from = "peer"}
       IN  disturbed' = [q \in Agent |-> CASE q = p -> others # {} \/ left # {}
                                           [] q \in others -> TRUE
                                           [] OTHER -> disturbed[q]]
    /\ UNCHANGED <<in, out, child, calls, result, ran, orphans, pulls, kills>>

(* GetLock refuses: what the head of the list stands for is left. *)
Refused(p) ==
    /\ at[p] \in {"dispatch", "exec", "fetch"} /\ todo[p] # {}
    /\ Done(p)
    /\ Disturb({p})
    /\ returnfile' = IF at[p] # "exec" THEN returnfile
                     ELSE [returnfile EXCEPT ![p] =
                             LET m == FileAt(p).m
                             IN  IF Complete(bundle[p][m]) THEN m ELSE @]
    /\ UNCHANGED <<in, out, at, bundle, child, calls, result, ran, orphans, counters>>

Dispatch(p) ==
    /\ at[p] = "dispatch" /\ todo[p] # {}
    /\ LockFree("dispatch", CallAt(p))
    /\ Goes(p, "dispatch", "open")
    /\ UNCHANGED <<in, out, todo, bundle, returnfile, child, calls, result, agentFrame>>

(* EncapsulateMethod opens the package, *)
OpenCall(p) ==
    LET m == CallAt(p)
    IN  /\ at[p] = "open"
        /\ calls' = [calls EXCEPT ![m] = @ + 1]
        /\ IF m \in Local
           THEN /\ Goes(p, "open", "close")
                /\ in' = [in EXCEPT ![CallOf(m)] = 0]
                /\ UNCHANGED <<out, todo>>
           ELSE /\ Goes(p, "open", "dispatch") /\ Done(p)
                /\ out' = out \cup {m}
                /\ UNCHANGED in
        /\ UNCHANGED <<bundle, returnfile, child, result, agentFrame>>

(* closes it, *)
CloseCall(p) ==
    LET m == CallAt(p)
    IN  /\ Goes(p, "close", "attach")
        /\ in' = [in EXCEPT ![CallOf(m)] = IF @ = None THEN None ELSE 1]
        /\ UNCHANGED <<out, todo, bundle, returnfile, child, calls, result, agentFrame>>

(* opens the file of the argument, *)
AttachArgument(p) ==
    /\ Goes(p, "attach", "write")
    /\ in' = [in EXCEPT ![Attachment(CallOf(CallAt(p)))] = 0]
    /\ UNCHANGED <<out, todo, bundle, returnfile, child, calls, result, agentFrame>>

(* and writes it. *)
WriteArgument(p) ==
    LET m == CallAt(p)
    IN  /\ Goes(p, "write", "dispatch") /\ Done(p)
        /\ in' = [in EXCEPT ![Attachment(CallOf(m))] =
                     IF @ = None THEN None ELSE calls[m]]
        /\ UNCHANGED <<out, bundle, returnfile, child, calls, result, agentFrame>>

---------------------------------------------------------------------------
(* The second loop: EvaluatePendingMethod *)

(* GetPendingMethods removes what is not approved and lists the rest in the *)
(* order of the directory.                                                  *)
List(p, kind) ==
    LET list == {n \in DOMAIN order : order[n] \in Pending(kind) /\ Approved(order[n])}
        of(m) == {n \in list : order[n].m = m}
    IN  /\ todo' = [todo EXCEPT ![p] = list]
        /\ bundle' = [bundle EXCEPT ![p] = [m \in Method |->
                        IF of(m) = {} THEN @[m] ELSE order[Max(of(m))]]]
        /\ in' = Without({f \in Pending(kind) : ~Approved(f)})

ListCalls(p) ==
    /\ todo[p] = {} /\ Goes(p, "dispatch", "exec")
    /\ List(p, "call")
    /\ UNCHANGED <<out, returnfile, child, calls, result, agentFrame>>

(* GetMethodFilename: the policy named in the package.  If it cannot be     *)
(* read the static buffer still holds the one found before.                 *)
GetMethodFilename(p, m) ==
    IF bundle[p][m] # None /\ Complete(bundle[p][m]) THEN m ELSE returnfile[p]

(* The lock is got and a child is started, which is told the digest.        *)
StartChild(p) ==
    LET m == FileAt(p).m
        file == GetMethodFilename(p, m)
    IN  /\ at[p] = "exec" /\ todo[p] # {} /\ LockFree("exec", m)
        /\ Goes(p, "exec", "wait")
        /\ returnfile' = [returnfile EXCEPT ![p] = file]
        /\ child' = IF file = None THEN child
                    ELSE [child EXCEPT ![p] =
                            [NoChild EXCEPT !.pc = "check", !.name = file,
                                            !.digest = m]]
        /\ UNCHANGED <<in, out, todo, bundle, calls, result, agentFrame>>

(* cfpclose: the child has ended. *)
ChildEnded(p) ==
    /\ child[p] = NoChild
    /\ Goes(p, "wait", "exec") /\ Done(p)
    /\ UNCHANGED <<in, out, bundle, returnfile, child, calls, result, agentFrame>>

---------------------------------------------------------------------------
(* The child: CheckForMethod, the policy of the method, CheckMethodReply *)

childFrame == <<out, agentVars, calls, result, orphans, counters>>
Becomes(p, to) == child' = [child EXCEPT ![p].pc = to]
Exits(p) == child' = [child EXCEPT ![p] = NoChild]

(* CheckForMethodPackage stops at the first file that bears the name, an    *)
(* attachment or a package, *)
Named(name) == {n \in DOMAIN order : /\ Present(order[n]) /\ order[n].kind = "call"
                                     /\ order[n].m = name}
(* and removes what it has passed: packages of other names, unless they are *)
(* older than two hours.                                                    *)
Passed(name) ==
    {order[n] : n \in {k \in DOMAIN order :
                         Present(order[k]) /\ \A h \in Named(name) : k < h}}

(* The client of the file found is answered; without one the child ends. *)
CheckForMethodPackage(p) ==
    LET name == child[p].name
        gone == Passed(name)
    IN  /\ child[p].pc = "check"
        /\ child' = IF Named(name) = {} THEN [child EXCEPT ![p] = NoChild]
                    ELSE [child EXCEPT ![p].pc = "count",
                                       ![p].from = order[Min(Named(name))].from]
        /\ in' = Without(gone)
        /\ Disturb(IF gone = {} THEN {} ELSE Agent)
        /\ UNCHANGED <<childFrame, ran>>

Invitation(p) == [m |-> child[p].name, kind |-> "call", from |-> child[p].from,
                  part |-> 0]

(* CountAttachments: the package of this name and digest lists as many      *)
(* arguments as the method has.                                             *)
CountAttachments(p) ==
    /\ child[p].pc = "count"
    /\ IF child[p].digest = child[p].name /\ Complete(Invitation(p))
       THEN Becomes(p, "load") ELSE Exits(p)
    /\ UNCHANGED <<childFrame, in, ran, disturbed>>

(* The argument is read; without it the child ends. *)
LoadArgument(p) ==
    LET f == Attachment(Invitation(p))
    IN  /\ child[p].pc = "load"
        /\ IF Present(f)
           THEN child' = [child EXCEPT ![p].pc = "remove", ![p].arg = in[f]]
           ELSE Exits(p)
        /\ UNCHANGED <<in, childFrame, ran, disturbed>>

(* It is removed, *)
RemoveArgument(p) ==
    /\ child[p].pc = "remove"
    /\ Becomes(p, "loaded")
    /\ in' = Without({Attachment(Invitation(p))})
    /\ UNCHANGED <<childFrame, ran, disturbed>>

(* then the invitation is, and the policy of the method is kept. *)
RunMethod(p) ==
    /\ child[p].pc = "loaded"
    /\ Becomes(p, "ran")
    /\ in' = Without({Invitation(p)})
    /\ ran' = IF child[p].from = "peer" THEN ran
              ELSE [ran EXCEPT ![child[p].name] = Append(@, child[p].arg)]
    /\ UNCHANGED <<childFrame, disturbed>>

(* DispatchMethodReply: the reply to the peer goes to rpc_out, the one to   *)
(* this host is opened, *)
OpenReply(p) ==
    /\ child[p].pc = "ran"
    /\ IF child[p].from = "peer"
       THEN Exits(p) /\ UNCHANGED in
       ELSE /\ Becomes(p, "close")
            /\ in' = [in EXCEPT ![ReplyOf(child[p].name)] = 0]
    /\ UNCHANGED <<childFrame, ran, disturbed>>

(* closed, *)
CloseReply(p) ==
    /\ child[p].pc = "close"
    /\ Becomes(p, "attach")
    /\ in' = [in EXCEPT ![ReplyOf(child[p].name)] = IF @ = None THEN None ELSE 1]
    /\ UNCHANGED <<childFrame, ran, disturbed>>

(* the file of the result is opened, *)
AttachResult(p) ==
    /\ child[p].pc = "attach"
    /\ Becomes(p, "write")
    /\ in' = [in EXCEPT ![Attachment(ReplyOf(child[p].name))] = 0]
    /\ UNCHANGED <<childFrame, ran, disturbed>>

(* and the result is written. *)
WriteResult(p) ==
    /\ child[p].pc = "write"
    /\ Exits(p)
    /\ in' = [in EXCEPT ![Attachment(ReplyOf(child[p].name))] =
                 IF @ = None THEN None ELSE child[p].arg]
    /\ UNCHANGED <<childFrame, ran, disturbed>>

Child(p) ==
    \/ CheckForMethodPackage(p) \/ CountAttachments(p) \/ LoadArgument(p)
    \/ RemoveArgument(p) \/ RunMethod(p) \/ OpenReply(p) \/ CloseReply(p)
    \/ AttachResult(p) \/ WriteResult(p)

---------------------------------------------------------------------------
(* The third loop: ParentLoadReplyPackage *)

ListReplies(p) ==
    /\ todo[p] = {} /\ Goes(p, "exec", "fetch")
    /\ List(p, "reply")
    /\ UNCHANGED <<out, returnfile, child, calls, result, agentFrame>>

(* The lock is got.  A package that cannot be opened, or does not list as   *)
(* many results as the method returns, is left where it is.                 *)
Fetch(p) ==
    LET f == FileAt(p)
    IN  /\ at[p] = "fetch" /\ todo[p] # {} /\ LockFree("receive", f.m)
        /\ IF Complete(f) THEN Goes(p, "fetch", "load") /\ UNCHANGED todo
           ELSE Goes(p, "fetch", "fetch") /\ Done(p)
        /\ UNCHANGED <<in, out, bundle, returnfile, child, calls, result, agentFrame>>

(* The result is read into its variable; if it is not there the agent ends  *)
(* with a fatal error.                                                      *)
LoadResult(p) ==
    LET f == FileAt(p)
        a == Attachment(f)
    IN  /\ at[p] = "load"
        /\ IF Present(a)
           THEN /\ Goes(p, "load", "drop")
                /\ result' = [result EXCEPT ![f.m] = in[a]]
                /\ UNCHANGED todo
           ELSE /\ Goes(p, "load", "idle")
                /\ todo' = [todo EXCEPT ![p] = {}]
                /\ UNCHANGED result
        /\ UNCHANGED <<in, out, bundle, returnfile, child, calls, agentFrame>>

(* It is removed, and so is the reply. *)
RemoveResult(p) ==
    /\ Goes(p, "drop", "clear")
    /\ in' = Without({Attachment(FileAt(p))})
    /\ UNCHANGED <<out, todo, bundle, returnfile, child, calls, result, agentFrame>>

RemoveReply(p) ==
    /\ Goes(p, "clear", "fetch") /\ Done(p)
    /\ in' = Without({FileAt(p)})
    /\ UNCHANGED <<out, bundle, returnfile, child, calls, result, agentFrame>>

EndMethods(p) ==
    /\ todo[p] = {} /\ Goes(p, "fetch", "idle")
    /\ UNCHANGED <<in, out, todo, bundle, returnfile, child, calls, result, agentFrame>>

DoMethods(p) ==
    \/ BeginMethods(p) \/ Refused(p) \/ Dispatch(p) \/ OpenCall(p) \/ CloseCall(p)
    \/ AttachArgument(p) \/ WriteArgument(p) \/ ListCalls(p) \/ StartChild(p)
    \/ ChildEnded(p)
    \/ ListReplies(p) \/ Fetch(p) \/ LoadResult(p) \/ RemoveResult(p)
    \/ RemoveReply(p) \/ EndMethods(p)

---------------------------------------------------------------------------
(* The environment *)

(* GetRemoteMethods copies what lies in rpc_out of the peer, whether it was *)
(* copied before or not: calls of our methods, and replies to what was      *)
(* called of it.  The copy may stop after one of the two files.             *)
GetRemoteMethods ==
    /\ pulls < MaxPulls
    /\ pulls' = pulls + 1
    /\ \E f \in {g \in Package : g.part = 0 /\ g.from = "peer" /\
                   (IF g.kind = "call" THEN TRUE ELSE g.m \in out)} :
       \E parts \in {{f}, {Attachment(f)}, {f, Attachment(f)}} :
          in' = [g \in Package |-> IF g \in parts THEN 1 ELSE in[g]]
    /\ Disturb(Agent)
    /\ UNCHANGED <<out, agentVars, child, calls, result, ran, orphans, called, kills>>

(* An agent is killed; its child goes on. *)
KillAgent(p) ==
    /\ kills < MaxKills /\ at[p] # "idle"
    /\ at' = [at EXCEPT ![p] = "idle"]
    /\ todo' = [todo EXCEPT ![p] = {}]
    /\ kills' = kills + 1
    /\ orphans' = IF child[p] = NoChild THEN orphans
                  ELSE orphans \cup {child[p].digest}
    /\ UNCHANGED <<in, out, bundle, returnfile, child, calls, result, ran,
                   disturbed, called, pulls>>

KillChild(p) ==
    /\ kills < MaxKills /\ child[p] # NoChild
    /\ Exits(p)
    /\ kills' = kills + 1
    /\ Disturb({p})
    /\ UNCHANGED <<in, out, agentVars, calls, result, ran, orphans, called, pulls>>

MethodsNext ==
    /\ \/ \E p \in Agent : DoMethods(p) \/ Child(p) \/ KillAgent(p) \/ KillChild(p)
       \/ GetRemoteMethods
    /\ UNCHANGED order

MethodsSpec == MethodsInit /\ [][MethodsNext]_methodVars

---------------------------------------------------------------------------
(* A call is run at most once, and in its turn, whatever is killed and      *)
(* however many agents find its package, unless a child outlives its agent. *)
RunOncePerCall ==
    \A m \in Local \ orphans : \A i, j \in DOMAIN ran[m] :
        i < j /\ ran[m][i] # 0 /\ ran[m][j] # 0 => ran[m][i] < ran[m][j]

(* The results of a method of this host are those of its runs, and come in  *)
(* their order; or they are empty, because they were still being written.   *)
ResultsInOrder ==
    [][\A m \in Local \ orphans : result'[m] \notin {result[m], 0} =>
          result'[m] > result[m] /\ result'[m] \in Range(ran[m])]_methodVars

(* One run of an agent calls the methods of this host, runs them and has    *)
(* their results, unless another agent, a copy or a kill comes in between,  *)
(* a lock is refused, or the child of one method takes files of another for *)
(* expired.                                                                 *)
AnsweredUnlessDisturbed ==
    \A p \in Agent : at[p] = "fetch" /\ todo[p] = {} /\ ~disturbed[p] =>
        \A m \in Local : result[m] = calls[m]
=============================================================================
