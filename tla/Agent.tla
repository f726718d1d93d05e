------------------------------- MODULE Agent -------------------------------
(***************************************************************************)
(* One run of cfagent (src/src/cfagent.c, do.c, eval.c): it parses         *)
(* update.conf and walks its action sequence once, purges the classes that *)
(* are private to it, parses the main policy and walks that twice.  Each   *)
(* action of the sequence runs a loop over the promises of its kind; which *)
(* promises are kept depends on the classes defined so far, and keeping    *)
(* one may define classes for those that follow.                           *)
(*                                                                         *)
(* What a promise does to the host is left out.  Whether GetLock grants    *)
(* the lock, a server answers or a script succeeds is a free choice.       *)
(***************************************************************************)
EXTENDS Integers, Sequences

CONSTANTS
    Class,       \* classes, all soft; "any" is a guard that always holds
    Policies,    \* the configurations a run may be given: a function, whose
                 \* values are as Policy below
    MaxPromises  \* bound on the number of promises of a configuration

\* A guard is one class or the negation of one.
Literal == [class : Class \cup {"any"}, neg : BOOLEAN]

(* The kinds of promises, by the order in which their loops test the       *)
(* classes, the done flag, the scope and the lock:                         *)
(*   "script"     MakePaths, MakeChildLinks, MakeLinks, CheckRequired,     *)
(*                Scripts, DisableFiles, Unmount, CheckProcesses           *)
(*   "files"      CheckFiles       "copy"    MakeImages                    *)
(*   "edit"       EditFiles        "tidy"    TidyFiles                     *)
(*   "package"    CheckPackages    "method"  DoMethods                     *)
(*   "interface"  ConfigureInterfaces                                      *)
(* Of DoMethods this is the loop that dispatches, of CheckRequired the one *)
(* over the required files, without the scan for arrivals.                 *)
Kind == {"script", "files", "copy", "edit", "tidy", "package", "method",
         "interface"}

\* guards are the classes of the promise, of each of its patterns (tidy) or
\* of each of its edits (edit); elsedef is the failover of a copy.
Promise == [kind : Kind, scope : {"update", "main"}, guards : SUBSET Literal,
            defines : SUBSET Class, elsedef : SUBSET Class]

\* An entry of the actionsequence: shellcommands.c1.c2 adds c1 and c2.
Action == [name : Kind \cup {"resolve", "module", "mount"},
           adds : SUBSET Class, guard : Literal]

Policy == [promises : Seq(Promise),
           actionseq : [{"update", "main"} -> Seq(Action)],
           groups : [{"update", "main"} -> SUBSET Class],
           avoid : SUBSET (Kind \cup {"resolve", "module", "mount"})]

ASSUME ClassAssumption == "any" \notin Class
ASSUME PolicyAssumption ==
    /\ MaxPromises \in Nat
    /\ \A p \in DOMAIN Policies :
          Policies[p] \in Policy /\ Len(Policies[p].promises) <= MaxPromises

VARIABLES
    policy,   \* the configuration of this run, with -j and -N
    context,  \* g_contextid
    pass,     \* g_pass
    a,        \* the entry of g_vactionseq that DoTree has come to
    i,        \* the promise that the loop of this action has come to
    pc,       \* where the agent stands
    heap,     \* g_vheap: the context each class was defined in, or "none"
    negheap,  \* g_vnegheap
    added,    \* g_vaddclasses
    done,     \* the done flag of each promise
    cflock,   \* the lock that g_cflock names
    visits,   \* history: contexts in which each promise was taken up
    due       \* history: promises that pass 2 had to keep when it began

vars == <<policy, context, pass, a, i, pc, heap, negheap, added, done, cflock,
          visits, due>>

-----------------------------------------------------------------------------
promises == Policies[policy].promises
actionseq == Policies[policy].actionseq[context]
action == actionseq[a]
promise == promises[i]

\* AddMultipleClasses in context ctx: a class keeps its first context.
AddMultipleClasses(cs, ctx) ==
    [c \in Class |-> IF c \in cs /\ heap[c] = "none" THEN ctx ELSE heap[c]]

\* MUTANT of DeleteClassesFromContext: the loop stops at its first deletion.
DeleteFirstFromContext(ctx) ==
    LET gone == {c \in Class : heap[c] = ctx}
    IN  IF gone = {} THEN heap
        ELSE [heap EXCEPT ![CHOOSE c \in gone : TRUE] = "none"]

DeleteClassesFromContext(ctx) ==
    [c \in Class |-> IF heap[c] = ctx THEN "none" ELSE heap[c]]

\* IsDefinedClass of a literal, with the temporary classes temp.
DefinedWith(g, temp) ==
    LET true == \/ g.class = "any"
                \/ /\ g.class \notin negheap
                   /\ heap[g.class] # "none" \/ g.class \in temp
    IN  true # g.neg

IsExcluded(g) == ~DefinedWith(g, added)

\* Some pattern or edit of promise j, or the promise itself, is not excluded.
Active(j) == \E g \in promises[j].guards : ~IsExcluded(g)

\* MUTANT of InScope: the loops do not look at the scope.
AnyScope(j) == TRUE

InScope(j) == promises[j].scope = context

\* The promises of main do not exist before the main policy is parsed.
Installed(j) == context = "main" \/ promises[j].scope = "update"

\* NothingLeftToDo looks at these lists only.
Counted == {"script", "files", "edit", "tidy", "package"}

NothingLeftToDo ==
    \A j \in DOMAIN promises :
        Installed(j) /\ promises[j].kind \in Counted => done[j]

\* The name of a lock: operator, operand and the classes of ASUniqueName.
LockName(kind, j) == <<kind, j, IF kind = "interface" THEN {} ELSE added>>
NoJob == <<"none", 0, {}>>

Goto(at) == pc' = at
NextPromise == i' = i + 1 /\ Goto("visit")
NextAction == a' = a + 1 /\ Goto("action")
MarkDone == done' = [done EXCEPT ![i] = TRUE]
Take == visits' = [visits EXCEPT ![i] = Append(@, context)]

-----------------------------------------------------------------------------
Init ==
    /\ policy \in DOMAIN Policies
    /\ context = "update" /\ pass = 1 /\ a = 1 /\ i = 1
    /\ pc = "parse"
    /\ heap \in {[c \in Class |-> IF c \in global THEN "global" ELSE "none"] :
                    global \in SUBSET Class}
    /\ negheap = {} /\ added = {}
    /\ done = [j \in DOMAIN promises |-> FALSE]
    /\ cflock = NoJob
    /\ visits = [j \in DOMAIN promises |-> <<>>]
    /\ due = {}

\* ParseInputFile, and in main PersistentClassesToHeap before it.  A run that
\* skips update.conf is one whose update policy is empty.
ParseInputFile ==
    /\ pc = "parse"
    /\ heap' = AddMultipleClasses(Policies[policy].groups[context], context)
    /\ pass' = 1 /\ a' = 1
    /\ Goto("action")
    /\ UNCHANGED <<policy, context, i, negheap, added, done, cflock, visits,
                   due>>

-----------------------------------------------------------------------------
(* DoTree.                                                                 *)

Skipped ==
    \/ action.name \in Policies[policy].avoid
    \/ IsExcluded(action.guard)
    \/ pass > 1 /\ NothingLeftToDo

SkipAction ==
    /\ pc = "action" /\ a <= Len(actionseq)
    /\ Skipped
    /\ NextAction
    /\ UNCHANGED <<policy, context, pass, i, heap, negheap, added, done, cflock,
                   visits, due>>

\* EvaluateAction, up to the branch for the action.
BeginAction ==
    /\ pc = "action" /\ a <= Len(actionseq)
    /\ ~Skipped
    /\ added' = added \cup
                (IF action.name = "module" THEN {} ELSE action.adds)
    /\ i' = 1
    /\ Goto(IF action.name \in Kind \ {"interface"} THEN "visit" ELSE action.name)
    /\ UNCHANGED <<policy, context, pass, a, heap, negheap, done, cflock,
                   visits, due>>

EndAction ==
    /\ NextAction
    /\ added' = {}

\* resolve: both early exits go round the end of the loop body.
ResolveSkipped ==
    /\ pc = "resolve"
    /\ \/ pass > 1 /\ UNCHANGED cflock
       \/ pass = 1 /\ cflock' = LockName("resolve", 0)
    /\ NextAction
    /\ UNCHANGED <<policy, context, pass, i, heap, negheap, added, done, visits,
                   due>>

ResolveGranted ==
    /\ pc = "resolve" /\ pass = 1
    /\ cflock' = LockName("resolve", 0)
    /\ Goto("resolving")
    /\ UNCHANGED <<policy, context, pass, a, i, heap, negheap, added, done,
                   visits, due>>

ResolveDone ==
    /\ pc = "resolving"
    /\ cflock' = NoJob
    /\ EndAction
    /\ UNCHANGED <<policy, context, pass, i, heap, negheap, done, visits, due>>

\* CheckForModule, in pass 1: lines "+c" and "-c" of its output.
RunModule ==
    /\ pc = "module"
    /\ IF pass = 1
       THEN /\ \E cs \in {{}, action.adds} :
                   heap' = AddMultipleClasses(cs, context)
            /\ \E cs \in {{}} \cup {{c} : c \in action.adds} :
                   negheap' = negheap \cup cs
       ELSE UNCHANGED <<heap, negheap>>
    /\ EndAction
    /\ UNCHANGED <<policy, context, pass, i, done, cflock, visits, due>>

\* mountresources: GetLock with now = 0 returns TRUE before it has named a
\* lock, and ReleaseCurrentLock releases what g_cflock named before.
MountResources ==
    /\ pc = "mount"
    /\ cflock' = NoJob
    /\ EndAction
    /\ UNCHANGED <<policy, context, pass, i, heap, negheap, done, visits, due>>

\* ConfigureInterfaces sees to the interface of the host itself first, under
\* a lock of its own if it gets it.
OwnInterface ==
    /\ pc = "interface"
    /\ cflock' \in {NoJob, LockName("interface", 0)}
    /\ Goto("visit")
    /\ UNCHANGED <<policy, context, pass, a, i, heap, negheap, added, done,
                   visits, due>>

\* Whatever temporary classes there are.
Certain(g) == DefinedWith(g, {}) /\ DefinedWith(g, Class)
Unconditional(j) == \E g \in promises[j].guards : Certain(g)
\* Entry n of the main sequence carries out the promises of this kind.
Serves(n, kind) ==
    LET act == Policies[policy].actionseq["main"][n]
    IN  act.name = kind /\ kind \notin Policies[policy].avoid /\ Certain(act.guard)
Scheduled(kind) ==
    \E n \in DOMAIN Policies[policy].actionseq["main"] : Serves(n, kind)

\* The loop over the action sequence ends; update is walked once, main twice.
EndPass ==
    /\ pc = "action" /\ a > Len(actionseq)
    /\ context = "main" /\ pass = 1
    /\ pass' = 2 /\ a' = 1
    /\ due' = {j \in DOMAIN promises :
                 Unconditional(j) /\ Scheduled(promises[j].kind)}
    /\ UNCHANGED <<policy, context, i, pc, heap, negheap, added, done, cflock,
                   visits>>

\* EmptyActionSequence, DeleteClassesFromContext and SetContext("main").
EndUpdate ==
    /\ pc = "action" /\ a > Len(actionseq)
    /\ context = "update"
    /\ heap' = DeleteClassesFromContext("update")
    /\ context' = "main"
    /\ Goto("parse")
    /\ UNCHANGED <<policy, pass, a, i, negheap, added, done, cflock, visits,
                   due>>

EndMain ==
    /\ pc = "action" /\ a > Len(actionseq)
    /\ context = "main" /\ pass = 2
    /\ Goto("exit")
    /\ UNCHANGED <<policy, context, pass, a, i, heap, negheap, added, done,
                   cflock, visits, due>>

-----------------------------------------------------------------------------
(* The loops over the promises.  A loop that passes promise i over goes to *)
(* NextPromise, one that takes it up asks for its lock.                    *)

Mine(j) == Installed(j) /\ promises[j].kind = action.name

\* The loop comes to promise i.
At(kind) == pc = "visit" /\ i <= Len(promises) /\ Mine(i) /\ kind = action.name

\* The promise is of another list.
NotMine ==
    /\ pc = "visit" /\ i <= Len(promises) /\ ~Mine(i)
    /\ NextPromise
    /\ UNCHANGED <<policy, context, pass, a, heap, negheap, added, done, cflock,
                   visits, due>>

EndLoop ==
    /\ pc = "visit" /\ i > Len(promises)
    /\ EndAction
    /\ UNCHANGED <<policy, context, pass, i, heap, negheap, done, cflock,
                   visits, due>>

\* The promises that the loop of their kind passes over with "continue".
PassedOver ==
    CASE action.name = "tidy" -> ~Active(i) \/ done[i]
      [] action.name \in {"script", "files", "copy", "edit"} ->
             ~Active(i) \/ done[i] \/ ~InScope(i)
      [] action.name \in {"package", "method"} -> done[i] \/ ~InScope(i)
      [] OTHER -> FALSE

PassOver ==
    /\ \E kind \in Kind : At(kind)
    /\ PassedOver
    /\ NextPromise
    /\ UNCHANGED <<policy, context, pass, a, heap, negheap, added, done, cflock,
                   visits, due>>

\* MUTANT of Visit: done is set where the loop tests the class.
VisitForgetful ==
    /\ \E kind \in {"script", "files", "method", "tidy"} : At(kind)
    /\ ~done[i] /\ InScope(i)
    /\ MarkDone
    /\ IF Active(i) THEN Goto("lock") /\ Take /\ UNCHANGED i
                    ELSE NextPromise /\ UNCHANGED visits
    /\ UNCHANGED <<policy, context, pass, a, heap, negheap, added, cflock, due>>

\* MUTANT of Visit: done is not set before the lock is asked for.
VisitUndone ==
    /\ \E kind \in {"script", "files", "method", "tidy"} : At(kind)
    /\ ~PassedOver
    /\ UNCHANGED done /\ Take
    /\ Goto("lock")
    /\ UNCHANGED <<policy, context, pass, a, i, heap, negheap, added, cflock,
                   due>>

\* The ordinary loops: done is set before the lock is asked for.
Visit ==
    /\ \E kind \in {"script", "files", "method", "tidy"} : At(kind)
    /\ ~PassedOver
    /\ MarkDone /\ Take
    /\ Goto("lock")
    /\ UNCHANGED <<policy, context, pass, a, i, heap, negheap, added, cflock,
                   due>>

\* ExpandWildCardsAndDo finds no file that matches the path.
VisitNoMatch ==
    /\ \E kind \in {"files", "tidy"} : At(kind)
    /\ ~PassedOver
    /\ MarkDone /\ Take
    /\ NextPromise
    /\ UNCHANGED <<policy, context, pass, a, heap, negheap, added, cflock, due>>

\* CheckPackages: done is set before the classes are tested.
VisitPackage ==
    /\ At("package")
    /\ ~PassedOver
    /\ MarkDone
    /\ IF Active(i) THEN Goto("lock") /\ Take /\ UNCHANGED i
                    ELSE NextPromise /\ UNCHANGED visits
    /\ UNCHANGED <<policy, context, pass, a, heap, negheap, added, cflock, due>>

\* EditFiles: done is set after the work, if at all.
VisitEdit ==
    /\ At("edit")
    /\ ~PassedOver
    /\ Take
    /\ Goto("lock")
    /\ UNCHANGED <<policy, context, pass, a, i, heap, negheap, added, done,
                   cflock, due>>

\* ConfigureInterfaces: the lock comes before all tests.
VisitInterface ==
    /\ At("interface")
    /\ Goto("lock")
    /\ UNCHANGED <<policy, context, pass, a, i, heap, negheap, added, done,
                   cflock, visits, due>>

\* MakeImages: the connection may fail, then the stat of the source.  The
\* latter releases whatever lock g_cflock names.
VisitCopy ==
    /\ At("copy")
    /\ ~PassedOver
    /\ MarkDone /\ Take
    /\ \/ /\ heap' = AddMultipleClasses(promise.elsedef, context)
          /\ NextPromise
          /\ UNCHANGED cflock
       \/ /\ cflock' = NoJob
          /\ NextPromise
          /\ UNCHANGED heap
       \/ /\ Goto("lock")
          /\ UNCHANGED <<heap, cflock, i>>
    /\ UNCHANGED <<policy, context, pass, a, negheap, added, due>>

-----------------------------------------------------------------------------
(* The lock and the work.                                                  *)

LockRefused ==
    /\ pc = "lock"
    /\ cflock' = LockName(promise.kind, i)
    /\ NextPromise
    /\ UNCHANGED <<policy, context, pass, a, heap, negheap, added, done, visits,
                   due>>

LockGranted ==
    /\ pc = "lock"
    /\ cflock' = LockName(promise.kind, i)
    /\ Goto("work")
    /\ UNCHANGED <<policy, context, pass, a, i, heap, negheap, added, done,
                   visits, due>>

\* An interface that is done, or of the other context.
Unwanted == promise.kind = "interface" /\ (done[i] \/ ~InScope(i))

DefineClasses ==
    \E cs \in {{}, promise.defines, promise.elsedef} :
        heap' = AddMultipleClasses(cs, context)

\* An edit is done when it was carried out and none of its parts excluded.
DoneByWork ==
    CASE promise.kind = "edit" ->
             \/ UNCHANGED done
             \/ (\A g \in promise.guards : ~IsExcluded(g)) /\ MarkDone
      [] promise.kind = "interface" -> MarkDone
      [] OTHER -> UNCHANGED done

TakenByWork ==
    IF promise.kind = "interface" THEN Take ELSE UNCHANGED visits

\* MUTANT of FinishWork: it releases nothing.
FinishWorkLocked ==
    /\ pc = "work"
    /\ ~Unwanted
    /\ DefineClasses /\ DoneByWork /\ TakenByWork
    /\ NextPromise
    /\ UNCHANGED <<policy, context, pass, a, negheap, added, cflock, due>>

FinishWork ==
    /\ pc = "work"
    /\ ~Unwanted
    /\ DefineClasses /\ DoneByWork /\ TakenByWork
    /\ cflock' = NoJob
    /\ NextPromise
    /\ UNCHANGED <<policy, context, pass, a, negheap, added, due>>

\* The returns past ReleaseCurrentLock: TidyWrapper and CheckFileWrapper when
\* the path is not what they expect, ConfigureInterfaces when Unwanted.
LeaveLocked ==
    /\ pc = "work"
    /\ Unwanted \/ promise.kind \in {"tidy", "files"}
    /\ IF promise.kind = "files" THEN DefineClasses ELSE UNCHANGED heap
    /\ NextPromise
    /\ UNCHANGED <<policy, context, pass, a, negheap, added, done, cflock,
                   visits, due>>

\* The agent is gone; the operating system may run other things.
Exited == pc = "exit" /\ UNCHANGED vars

-----------------------------------------------------------------------------
DoTree ==
    \/ SkipAction
    \/ BeginAction
    \/ ResolveSkipped
    \/ ResolveGranted
    \/ ResolveDone
    \/ RunModule
    \/ MountResources
    \/ OwnInterface
    \/ EndPass
    \/ EndUpdate
    \/ EndMain

PromiseLoop ==
    \/ NotMine
    \/ EndLoop
    \/ PassOver
    \/ Visit
    \/ VisitNoMatch
    \/ VisitPackage
    \/ VisitEdit
    \/ VisitInterface
    \/ VisitCopy

Work ==
    \/ LockRefused
    \/ LockGranted
    \/ FinishWork
    \/ LeaveLocked

Next == ParseInputFile \/ DoTree \/ PromiseLoop \/ Work \/ Exited

Spec == Init /\ [][Next]_vars

-----------------------------------------------------------------------------
(* Properties.                                                             *)

Contexts == {"update", "main"}

\* No promise is taken up twice in one run of the agent, over both contexts
\* and passes, although pass 2 walks the same lists again.  An edit may be:
\* EditFiles leaves it undone while one of its parts is excluded or its lock
\* is refused.
AtMostOnce ==
    \A j \in DOMAIN promises :
        promises[j].kind # "edit" => Len(visits[j]) <= 1

\* Promises of update.conf are kept by the update tree and those of the main
\* policy by the main tree only; TidyFiles alone does not look at the scope.
KeptInScope ==
    \A j \in DOMAIN promises :
        promises[j].kind # "tidy" =>
            \A n \in DOMAIN visits[j] : visits[j][n] = promises[j].scope

\* What the second pass is for: a promise that was active when pass 2 began,
\* because of a class defined late in pass 1, and that the action sequence
\* served then, has been taken up when the agent exits.  It does not hold of
\* the kinds NothingLeftToDo does not count, nor of packages, which are marked
\* done before the class test.
NoPromiseMissed ==
    pc = "exit" =>
        \A j \in due :
            /\ promises[j].kind \in Counted \ {"package"}
            /\ promises[j].kind = "tidy" \/ promises[j].scope = "main"
            => visits[j] # <<>>

\* The classes that update.conf defines are private to it: none is left on
\* the heap when the main policy is parsed and walked.
UpdateClassesPrivate ==
    context = "main" => \A c \in Class : heap[c] # "update"

\* "New temporary class additions" (cfagent.c:1368): while an action runs the
\* temporary classes are those its own entry of the actionsequence adds.
ActionClassesScoped ==
    pc \in {"visit", "lock", "work", "resolving"} => added \subseteq action.adds

\* The agent uses locks.c as Locks assumes: one lock at a time, released
\* under the name it was got by, except on the early returns of these kinds.
LockNames == (Kind \cup {"resolve"}) \X (0 .. MaxPromises) \X SUBSET Class
LeakyNames ==
    {name \in LockNames : name[1] \in {"tidy", "files", "interface"}}
User == INSTANCE LockUser WITH
            Job <- LockNames, Leaky <- LeakyNames,
            working <- pc \in {"work", "resolving"}
UsesLocks == User!Spec

=============================================================================
