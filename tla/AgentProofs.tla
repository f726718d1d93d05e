----------------------------- MODULE AgentProofs -----------------------------
(***************************************************************************)
(* Proofs about Agent, for every set of classes and every set of policies: *)
(* promises are kept at most once and in their own tree, classes of        *)
(* update.conf stay private, the second pass misses nothing it is there    *)
(* for, and the agent is a user of locks such as Locks assumes.            *)
(***************************************************************************)
EXTENDS Agent, TLAPS

(* Every variable has a value of its type.  The context and the pass belong *)
(* together: update.conf is walked once.                                    *)
Places == {"parse", "action", "visit", "lock", "work", "resolve", "resolving",
           "module", "mount", "interface", "exit"}
Typed ==
    /\ policy \in DOMAIN Policies
    /\ context \in Contexts /\ pass \in {1, 2}
    /\ pass = 2 => context = "main"
    /\ a \in Nat \ {0} /\ i \in Nat \ {0}
    /\ pc \in Places
    /\ heap \in [Class -> {"none", "global", "update", "main"}]
    /\ negheap \in SUBSET Class /\ added \in SUBSET Class
    /\ done \in [DOMAIN promises -> BOOLEAN]
    /\ visits \in [DOMAIN promises -> Seq(Contexts)]
    /\ due \in SUBSET DOMAIN promises

(* Where the agent stands agrees with the entry of the action sequence it   *)
(* carries out, with the promise it has come to and the lock it names.      *)
Placed ==
    /\ pc \in Places \ {"parse", "action", "exit"} => a \in DOMAIN actionseq
    /\ pc \in {"visit", "lock", "work"} => action.name \in Kind
    /\ pc \in {"resolve", "module", "mount", "interface"} => action.name = pc
    /\ pc = "resolving" => action.name = "resolve"
    /\ pc \in {"lock", "work"} => i \in DOMAIN promises /\ Mine(i)
    /\ pc = "work" => cflock = LockName(promise.kind, i)
    /\ pc = "exit" => context = "main" /\ pass = 2 /\ a > Len(actionseq)

(* What has been taken up was not done before, and was in its tree.         *)
TakenUndone ==
    \A j \in DOMAIN promises :
        ~done[j] /\ promises[j].kind # "edit" => visits[j] = <<>>
(* What is done has been taken up, but for packages.                        *)
DoneTaken ==
    \A j \in DOMAIN promises :
        done[j] /\ promises[j].kind # "package" => visits[j] # <<>>
WorkTaken ==
    pc \in {"lock", "work"} /\ action.name # "interface" => visits[i] # <<>>

(* Promises the second pass has to keep still are active and have an entry   *)
(* of the action sequence that serves them; behind it, and behind them in    *)
(* its loop, they have been taken up.                                        *)
Wanted(j) ==
    /\ promises[j].kind \in Counted \ {"package"}
    /\ promises[j].kind = "tidy" \/ promises[j].scope = "main"
Taken(j) == visits[j] # <<>>
LoopPast(j) ==
    pc \in {"visit", "lock", "work"} /\ action.name = promises[j].kind /\ j < i
Served(j) ==
    \E n \in DOMAIN actionseq :
        Serves(n, promises[j].kind) /\ (n < a => Taken(j))
SecondPass ==
    pass = 2 =>
        \A j \in due :
            /\ Unconditional(j)
            /\ Wanted(j) => Served(j) /\ (LoopPast(j) => Taken(j))

IInv == /\ Typed /\ Placed
        /\ AtMostOnce /\ TakenUndone /\ KeptInScope
        /\ DoneTaken /\ WorkTaken
        /\ UpdateClassesPrivate
        /\ SecondPass

-----------------------------------------------------------------------------
(* The policy, and what the definitions of Agent return.                    *)

LEMMA PolicyTyped ==
  ASSUME Typed
  PROVE  /\ Policies[policy] \in Policy
         /\ promises \in Seq(Promise) /\ Len(promises) <= MaxPromises
         /\ actionseq \in Seq(Action)
  BY PolicyAssumption DEF Typed, Policy, promises, actionseq, Contexts

LEMMA PromiseTyped ==
  ASSUME Typed, NEW j \in DOMAIN promises
  PROVE  /\ promises[j] \in Promise
         /\ j \in 1 .. Len(promises) /\ Len(promises) \in Nat
  BY PolicyTyped

LEMMA ActionTyped ==
  ASSUME Typed, NEW n \in DOMAIN actionseq
  PROVE  /\ actionseq[n] \in Action
         /\ n \in 1 .. Len(actionseq) /\ Len(actionseq) \in Nat
  BY PolicyTyped

LEMMA HeapTyped ==
  ASSUME Typed, NEW cs
  PROVE  /\ AddMultipleClasses(cs, context)
                \in [Class -> {"none", "global", "update", "main"}]
         /\ \A c \in Class : heap[c] # "none" =>
                AddMultipleClasses(cs, context)[c] = heap[c]
         /\ context = "main" /\ UpdateClassesPrivate =>
                \A c \in Class : AddMultipleClasses(cs, context)[c] # "update"
  BY DEF Typed, AddMultipleClasses, Contexts, UpdateClassesPrivate

(* A literal that holds with all temporary classes and with none holds with *)
(* any of them, and is not lost while the heap grows.                       *)
LEMMA CertainDefined ==
  ASSUME NEW g \in Literal, Certain(g), NEW temp \in SUBSET Class
  PROVE  DefinedWith(g, temp)
  <1>1. g.neg \in BOOLEAN
    BY DEF Literal
  <1>2. CASE g.neg
    BY <1>2 DEF Certain, DefinedWith
  <1>3. CASE ~g.neg
    BY <1>3 DEF Certain, DefinedWith
  <1> QED BY <1>1, <1>2, <1>3

HeapGrows ==
  /\ negheap' = negheap
  /\ \A c \in Class : heap[c] # "none" => heap'[c] # "none"

LEMMA CertainStays ==
  ASSUME NEW g \in Literal, Certain(g), HeapGrows
  PROVE  Certain(g)'
  <1>1. g.neg \in BOOLEAN /\ g.class \in Class \cup {"any"}
    BY DEF Literal
  <1>2. CASE g.neg
    BY <1>1, <1>2 DEF Certain, DefinedWith, HeapGrows
  <1>3. CASE ~g.neg
    BY <1>1, <1>3 DEF Certain, DefinedWith, HeapGrows
  <1> QED BY <1>1, <1>2, <1>3

LEMMA ServesStays ==
  ASSUME Typed, context = "main", HeapGrows, policy' = policy,
         NEW n \in DOMAIN actionseq, NEW kind, Serves(n, kind)
  PROVE  Serves(n, kind)'
  <1>1. PICK g \in Literal : g = Policies[policy].actionseq["main"][n].guard
    BY ActionTyped DEF Action, actionseq
  <1>2. Certain(g)'
    BY <1>1, CertainStays DEF Serves
  <1> QED BY <1>1, <1>2 DEF Serves

LEMMA UnconditionalStays ==
  ASSUME Typed, HeapGrows, policy' = policy,
         NEW j \in DOMAIN promises, Unconditional(j)
  PROVE  Unconditional(j)'
  <1>1. PICK g \in promises[j].guards : Certain(g)
    BY DEF Unconditional
  <1>2. g \in Literal
    BY PromiseTyped DEF Promise
  <1>3. Certain(g)'
    BY <1>1, <1>2, CertainStays
  <1> QED BY <1>1, <1>3 DEF Unconditional, promises

LEMMA UnconditionalActive ==
  ASSUME Typed, NEW j \in DOMAIN promises, Unconditional(j)
  PROVE  Active(j)
  <1>1. PICK g \in promises[j].guards : Certain(g)
    BY DEF Unconditional
  <1>2. g \in Literal
    BY PromiseTyped DEF Promise
  <1> QED BY <1>1, <1>2, CertainDefined DEF Active, IsExcluded, Typed

-----------------------------------------------------------------------------
(* The invariant holds when the agent starts.                                *)
THEOREM InitIInv == Init => IInv
  <1> SUFFICES ASSUME Init PROVE IInv
    OBVIOUS
  <1>1. Typed
    BY ClassAssumption DEF Init, Typed, Places, Contexts
  <1>2. Placed
    BY DEF Init, Placed, Places
  <1>3. /\ AtMostOnce /\ TakenUndone /\ KeptInScope /\ DoneTaken
        /\ WorkTaken /\ UpdateClassesPrivate /\ SecondPass
    BY DEF Init, AtMostOnce, TakenUndone, KeptInScope, DoneTaken, WorkTaken,
           UpdateClassesPrivate, SecondPass
  <1> QED BY <1>1, <1>2, <1>3 DEF IInv

-----------------------------------------------------------------------------
(* A step that neither takes up a promise nor marks one done, and one that  *)
(* takes up promise i.                                                      *)
History == AtMostOnce /\ TakenUndone /\ KeptInScope /\ DoneTaken

LEMMA QuietHistory ==
  ASSUME History, UNCHANGED <<policy, visits, done>>
  PROVE  History' /\ \A j \in DOMAIN promises : Taken(j) => Taken(j)'
  BY DEF History, AtMostOnce, TakenUndone, KeptInScope, DoneTaken, promises, Taken

LEMMA TakingHistory ==
  ASSUME Typed, History, policy' = policy, i \in DOMAIN promises,
         promise.kind # "edit" => ~done[i],
         promise.kind # "tidy" => InScope(i),
         Take,
         MarkDone \/ (UNCHANGED done /\ promise.kind = "edit")
  PROVE  /\ History' /\ visits'[i] # <<>>
         /\ \A j \in DOMAIN promises : Taken(j) => Taken(j)'
  <1>1. /\ promises' = promises
        /\ \A j \in DOMAIN promises : visits[j] \in Seq(Contexts)
        /\ DOMAIN visits = DOMAIN promises /\ DOMAIN done = DOMAIN promises
        /\ context \in Contexts
    BY DEF promises, Typed
  <1>2. /\ visits'[i] = Append(visits[i], context)
        /\ \A j \in DOMAIN promises \ {i} : visits'[j] = visits[j]
    BY <1>1 DEF Take
  <1>3. \A j \in DOMAIN promises \ {i} : done'[j] = done[j]
    BY <1>1 DEF MarkDone
  <1>4. visits'[i] # <<>>
    BY <1>1, <1>2
  <1>5. promise.kind # "edit" => Len(visits'[i]) <= 1 /\ done'[i]
    <2> SUFFICES ASSUME promise.kind # "edit"
                 PROVE  Len(visits'[i]) <= 1 /\ done'[i]
      OBVIOUS
    <2>1. visits[i] = <<>>
      BY DEF History, TakenUndone, promise
    <2>2. Len(visits'[i]) <= 1
      BY <1>1, <1>2, <2>1
    <2>3. done'[i]
      BY <1>1 DEF MarkDone
    <2> QED BY <2>2, <2>3
  <1>6. AtMostOnce' /\ TakenUndone' /\ DoneTaken'
    BY <1>1, <1>2, <1>3, <1>4, <1>5
       DEF History, AtMostOnce, TakenUndone, DoneTaken, promise
  <1>7. KeptInScope'
    <2> SUFFICES ASSUME NEW j \in DOMAIN promises, promises[j].kind # "tidy",
                        NEW n \in DOMAIN visits'[j]
                 PROVE  visits'[j][n] = promises[j].scope
      BY <1>1 DEF KeptInScope
    <2>1. CASE j # i
      BY <1>2, <2>1 DEF History, KeptInScope
    <2>2. CASE j = i
      <3>1. context = promises[i].scope
        BY <2>2 DEF InScope, promise
      <3>2. visits[i] \in Seq(Contexts) /\ visits'[i] = Append(visits[i], context)
        BY <1>1, <1>2
      <3>3. CASE n \in DOMAIN visits[i]
        BY <2>2, <3>2, <3>3 DEF History, KeptInScope
      <3>4. CASE n \notin DOMAIN visits[i]
        BY <2>2, <3>1, <3>2, <3>4
      <3> QED BY <3>3, <3>4
    <2> QED BY <2>1, <2>2
  <1>8. \A j \in DOMAIN promises : Taken(j) => Taken(j)'
    BY <1>2, <1>4 DEF Taken
  <1> QED BY <1>4, <1>6, <1>7, <1>8 DEF History

(* Marking an edit done that was taken up, or a package, changes no history. *)
LEMMA MarkingHistory ==
  ASSUME Typed, History, UNCHANGED <<policy, visits>>, i \in DOMAIN promises,
         promise.kind = "package" \/ (promise.kind = "edit" /\ Taken(i)),
         MarkDone
  PROVE  History' /\ \A j \in DOMAIN promises : Taken(j) => Taken(j)'
  <1>1. promises' = promises /\ DOMAIN done = DOMAIN promises
    BY DEF promises, Typed
  <1>2. \A j \in DOMAIN promises \ {i} : done'[j] = done[j]
    BY <1>1 DEF MarkDone
  <1>3. done'[i]
    BY <1>1 DEF MarkDone
  <1> QED BY <1>1, <1>2, <1>3
             DEF History, AtMostOnce, TakenUndone, KeptInScope, DoneTaken, Taken,
                 promise

(* What the second pass owes is carried on by a step that leaves no entry    *)
(* and no promise behind that serves a promise due and still not taken up.   *)
LEMMA SecondPassGoesOn ==
  ASSUME Typed, pass = 2, SecondPass, HeapGrows,
         UNCHANGED <<policy, context, due>>,
         \A j \in DOMAIN promises : Taken(j) => Taken(j)',
         \/ a' = a
         \/ /\ a' = a + 1
            /\ \A j \in due : Wanted(j) /\ Serves(a, promises[j].kind) => Taken(j)',
         \A j \in due : Wanted(j) /\ LoopPast(j)' => LoopPast(j) \/ Taken(j)'
  PROVE  SecondPass'
  <1>1. promises' = promises /\ actionseq' = actionseq /\ context = "main"
    BY DEF promises, actionseq, Typed
  <1> SUFFICES ASSUME NEW j \in due
               PROVE  /\ Unconditional(j)'
                      /\ Wanted(j) => Served(j)' /\ (LoopPast(j)' => Taken(j)')
    BY <1>1 DEF SecondPass, Wanted
  <1>2. j \in DOMAIN promises /\ Unconditional(j)
    BY DEF Typed, SecondPass
  <1>3. Unconditional(j)'
    BY <1>2, UnconditionalStays
  <1>4. ASSUME Wanted(j) PROVE Served(j)'
    <2>1. PICK n \in DOMAIN actionseq :
            Serves(n, promises[j].kind) /\ (n < a => Taken(j))
      BY <1>4 DEF SecondPass, Served
    <2>2. Serves(n, promises[j].kind)'
      BY <1>1, <2>1, ServesStays
    <2>3. n < a' => Taken(j)'
      BY <1>2, <1>4, <2>1, ActionTyped DEF Typed
    <2> QED BY <1>1, <2>1, <2>2, <2>3 DEF Served
  <1>5. ASSUME Wanted(j), LoopPast(j)' PROVE Taken(j)'
    BY <1>2, <1>5 DEF SecondPass
  <1> QED BY <1>3, <1>4, <1>5

-----------------------------------------------------------------------------
(* One step at a time.  First types and places.                             *)

LEMMA TypedStep ==
  ASSUME Typed, Placed, Next
  PROVE  Typed'
  <1>1. policy' = policy /\ promises' = promises
    BY DEF Next, DoTree, PromiseLoop, Work, ParseInputFile, SkipAction,
           BeginAction, ResolveSkipped, ResolveGranted, ResolveDone, RunModule,
           MountResources, OwnInterface, EndPass, EndUpdate, EndMain, NotMine,
           EndLoop, PassOver, Visit, VisitNoMatch, VisitPackage, VisitEdit,
           VisitInterface, VisitCopy, LockRefused, LockGranted, FinishWork,
           LeaveLocked, Exited, vars, promises
  <1>2. /\ [done EXCEPT ![i] = TRUE] \in [DOMAIN promises -> BOOLEAN]
        /\ i \in DOMAIN promises =>
              [visits EXCEPT ![i] = Append(@, context)]
                  \in [DOMAIN promises -> Seq(Contexts)]
    <2>1. [done EXCEPT ![i] = TRUE] \in [DOMAIN promises -> BOOLEAN]
      BY DEF Typed
    <2>2. ASSUME i \in DOMAIN promises
          PROVE  [visits EXCEPT ![i] = Append(@, context)]
                      \in [DOMAIN promises -> Seq(Contexts)]
      <3>1. Append(visits[i], context) \in Seq(Contexts)
        BY <2>2 DEF Typed
      <3> QED BY <3>1 DEF Typed
    <2> QED BY <2>1, <2>2
  <1>3. \A cs : AddMultipleClasses(cs, context)
                    \in [Class -> {"none", "global", "update", "main"}]
    BY HeapTyped
  <1>4. CASE ParseInputFile
    BY <1>1, <1>3, <1>4 DEF ParseInputFile, Typed, Goto, Places
  <1>5. CASE DoTree
    <2>1. CASE SkipAction
      BY <1>1, <2>1 DEF SkipAction, Typed, Goto, Places, NextAction
    <2>2. CASE BeginAction
      <3>1. /\ action \in Action
            /\ pc' \in Places
        BY <2>2, ActionTyped DEF BeginAction, action, Typed, Goto, Places, Action, Kind
      <3> QED BY <1>1, <2>2, <3>1 DEF BeginAction, Typed, Action
    <2>3. CASE ResolveSkipped \/ ResolveGranted \/ ResolveDone \/ MountResources
      BY <1>1, <2>3 DEF ResolveSkipped, ResolveGranted, ResolveDone,
         MountResources, Typed, Goto, Places, NextAction, EndAction
    <2>4. CASE RunModule
      <3>1. action \in Action
        BY <2>4, ActionTyped DEF RunModule, action, Placed, Places
      <3>2. /\ heap' \in [Class -> {"none", "global", "update", "main"}]
            /\ negheap' \in SUBSET Class
        BY <1>3, <2>4, <3>1 DEF RunModule, Typed, Action
      <3> QED BY <1>1, <2>4, <3>2
                 DEF RunModule, Typed, Goto, Places, NextAction, EndAction
    <2>5. CASE OwnInterface \/ EndMain
      BY <1>1, <2>5 DEF OwnInterface, EndMain, Typed, Goto, Places
    <2>6. CASE EndPass
      BY <1>1, <2>6 DEF EndPass, Typed
    <2>7. CASE EndUpdate
      BY <1>1, <2>7 DEF EndUpdate, DeleteClassesFromContext, Typed, Goto, Places,
         Contexts
    <2> QED BY <1>5, <2>1, <2>2, <2>3, <2>4, <2>5, <2>6, <2>7 DEF DoTree
  <1>6. CASE PromiseLoop
    <2>1. CASE NotMine \/ EndLoop \/ PassOver \/ VisitInterface
      BY <1>1, <2>1 DEF NotMine, EndLoop, PassOver, VisitInterface, Typed, Goto,
         Places, NextPromise, NextAction, EndAction
    <2>2. CASE Visit \/ VisitNoMatch \/ VisitPackage \/ VisitEdit \/ VisitCopy
      <3>1. i \in DOMAIN promises
        BY <2>2, PolicyTyped DEF Visit, VisitNoMatch, VisitPackage, VisitEdit,
           VisitCopy, At, Typed
      <3>2. /\ visits' \in [DOMAIN promises -> Seq(Contexts)]
            /\ done' \in [DOMAIN promises -> BOOLEAN]
        <4>1. (Take \/ UNCHANGED visits) /\ (MarkDone \/ UNCHANGED done)
          BY <2>2 DEF Visit, VisitNoMatch, VisitPackage, VisitEdit, VisitCopy
        <4> QED BY <1>2, <3>1, <4>1 DEF Take, MarkDone, Typed
      <3>4. /\ i' \in Nat \ {0} /\ pc' \in Places
            /\ UNCHANGED <<context, pass, a, negheap, added, due>>
        BY <2>2 DEF Visit, VisitNoMatch, VisitPackage, VisitEdit, VisitCopy,
           Typed, NextPromise, Goto, Places
      <3>3. heap' \in [Class -> {"none", "global", "update", "main"}]
        BY <1>3, <2>2 DEF Visit, VisitNoMatch, VisitPackage, VisitEdit, VisitCopy,
           Typed
      <3> QED BY <1>1, <3>2, <3>3, <3>4 DEF Typed
    <2> QED BY <1>6, <2>1, <2>2 DEF PromiseLoop
  <1>7. CASE Work
    <2>1. CASE LockRefused \/ LockGranted
      BY <1>1, <2>1 DEF LockRefused, LockGranted, Typed, Goto, Places, NextPromise
    <2>2. CASE FinishWork \/ LeaveLocked
      <3>1. i \in DOMAIN promises
        BY <2>2 DEF FinishWork, LeaveLocked, Placed
      <3>2. /\ visits' \in [DOMAIN promises -> Seq(Contexts)]
            /\ done' \in [DOMAIN promises -> BOOLEAN]
        BY <1>2, <2>2, <3>1 DEF FinishWork, LeaveLocked, DoneByWork, TakenByWork,
           Take, MarkDone, Typed
      <3>3. heap' \in [Class -> {"none", "global", "update", "main"}]
        BY <1>3, <2>2 DEF FinishWork, LeaveLocked, DefineClasses, Typed
      <3> QED BY <1>1, <2>2, <3>2, <3>3 DEF FinishWork, LeaveLocked, Typed,
                 NextPromise, Goto, Places
    <2> QED BY <1>7, <2>1, <2>2 DEF Work
  <1>8. CASE Exited
    BY <1>1, <1>8 DEF Exited, vars, Typed
  <1> QED BY <1>4, <1>5, <1>6, <1>7, <1>8 DEF Next

LEMMA PlacedStep ==
  ASSUME Typed, Placed, Next
  PROVE  Placed'
  <1>1. /\ UNCHANGED <<policy, context>> => actionseq' = actionseq
        /\ UNCHANGED <<policy, context, a>> => action' = action
        /\ Len(actionseq) \in Nat /\ Len(promises) \in Nat
        /\ DOMAIN actionseq = 1 .. Len(actionseq)
        /\ DOMAIN promises = 1 .. Len(promises)
    BY PolicyTyped DEF actionseq, action
  <1>2. CASE ParseInputFile
    BY <1>2 DEF ParseInputFile, Placed, Places, Goto
  <1>3. CASE DoTree
    <2>1. CASE SkipAction \/ ResolveSkipped \/ ResolveDone \/ RunModule
               \/ MountResources
      BY <2>1 DEF SkipAction, ResolveSkipped, ResolveDone, RunModule,
         MountResources, Placed, Places, Goto, NextAction, EndAction
    <2>2. CASE BeginAction
      <3>1. a \in DOMAIN actionseq /\ action \in Action
        BY <1>1, <2>2, ActionTyped DEF BeginAction, action, Typed
      <3> QED BY <1>1, <2>2, <3>1 DEF BeginAction, Placed, Goto, Action, Kind
    <2>3. CASE ResolveGranted \/ OwnInterface
      BY <1>1, <2>3 DEF ResolveGranted, OwnInterface, Placed, Goto, Kind, Places
    <2>4. CASE EndPass \/ EndUpdate
      BY <2>4 DEF EndPass, EndUpdate, Placed, Places, Goto
    <2>5. CASE EndMain
      BY <1>1, <2>5 DEF EndMain, Placed, Places, Goto
    <2> QED BY <1>3, <2>1, <2>2, <2>3, <2>4, <2>5 DEF DoTree
  <1>4. CASE PromiseLoop
    <2>1. CASE EndLoop
      BY <2>1 DEF EndLoop, Placed, Places, Goto, NextAction, EndAction
    <2>2. CASE NotMine \/ PassOver \/ VisitNoMatch
      <3>1. /\ UNCHANGED <<policy, context, a>>
            /\ pc = "visit" /\ pc' = "visit"
        BY <2>2 DEF NotMine, PassOver, VisitNoMatch, At, Goto, NextPromise
      <3> QED BY <1>1, <3>1 DEF Placed, Places
    <2>3. CASE Visit \/ VisitPackage \/ VisitEdit \/ VisitInterface \/ VisitCopy
      <3>1. /\ i \in DOMAIN promises /\ Mine(i)
            /\ UNCHANGED <<policy, context, a>>
            /\ pc = "visit"
            /\ (pc' = "lock" /\ i' = i) \/ pc' = "visit"
        BY <1>1, <2>3 DEF Visit, VisitPackage, VisitEdit, VisitInterface,
           VisitCopy, At, Typed, Goto, NextPromise
      <3>2. i' = i => Mine(i)'
        BY <1>1, <3>1 DEF Mine, Installed, promises
      <3> QED BY <1>1, <3>1, <3>2 DEF Placed, Places, promises
    <2> QED BY <1>4, <2>1, <2>2, <2>3 DEF PromiseLoop
  <1>5. CASE Work
    <2>1. CASE LockRefused \/ FinishWork \/ LeaveLocked
      BY <1>1, <2>1 DEF LockRefused, FinishWork, LeaveLocked, Placed, Places,
         Goto, NextPromise
    <2>2. CASE LockGranted
      BY <1>1, <2>2 DEF LockGranted, Placed, Places, Goto, Mine, Installed,
         promises, promise, LockName
    <2> QED BY <1>5, <2>1, <2>2 DEF Work
  <1>6. CASE Exited
    BY <1>1, <1>6 DEF Exited, vars, Placed, Mine, Installed, promises, promise,
       LockName
  <1> QED BY <1>2, <1>3, <1>4, <1>5, <1>6 DEF Next

(* What has been taken up, and what is done.                                *)
LEMMA HistoryStep ==
  ASSUME Typed, Placed, History, WorkTaken, Next
  PROVE  /\ History'
         /\ \A j \in DOMAIN promises : Taken(j) => Taken(j)'
         /\ WorkTaken'
  <1>1. /\ UNCHANGED <<policy, context, a>> => action' = action
        /\ Len(promises) \in Nat /\ DOMAIN promises = 1 .. Len(promises)
    BY PolicyTyped DEF actionseq, action
  <1>2. CASE ParseInputFile \/ DoTree \/ Exited
    <2>1. UNCHANGED <<policy, visits, done>>
      BY <1>2 DEF ParseInputFile, DoTree, SkipAction, BeginAction,
         ResolveSkipped, ResolveGranted, ResolveDone, RunModule, MountResources,
         OwnInterface, EndPass, EndUpdate, EndMain, Exited, vars
    <2>2. ASSUME BeginAction PROVE pc' \notin {"lock", "work"}
      <3>1. a \in DOMAIN actionseq
        BY <2>2, PolicyTyped DEF BeginAction, Typed
      <3>2. action \in Action
        BY <3>1, ActionTyped DEF action
      <3> QED BY <2>2, <3>2 DEF BeginAction, Goto, Action, Kind
    <2>3. pc' \notin {"lock", "work"}
      BY <1>2, <2>2 DEF ParseInputFile, DoTree, SkipAction,
         ResolveSkipped, ResolveGranted, ResolveDone, RunModule, MountResources,
         OwnInterface, EndPass, EndUpdate, EndMain, Exited, vars, Goto,
         NextAction, EndAction
    <2> QED BY <2>1, <2>3, QuietHistory DEF WorkTaken
  <1>3. CASE NotMine \/ EndLoop \/ PassOver \/ VisitInterface
    <2>1. UNCHANGED <<policy, visits, done>>
      BY <1>3 DEF NotMine, EndLoop, PassOver, VisitInterface
    <2>2. pc' = "lock" => action'.name = "interface"
      BY <1>1, <1>3 DEF NotMine, EndLoop, PassOver, VisitInterface, At, Goto,
         NextPromise, NextAction, EndAction
    <2>3. pc' # "work"
      BY <1>3 DEF NotMine, EndLoop, PassOver, VisitInterface, Goto,
         NextPromise, NextAction, EndAction
    <2> QED BY <2>1, <2>2, <2>3, QuietHistory DEF WorkTaken
  <1>4. CASE Visit \/ VisitNoMatch \/ VisitEdit \/ VisitCopy
    <2>1. /\ i \in DOMAIN promises /\ Mine(i) /\ ~PassedOver
          /\ action.name \in {"script", "files", "method", "tidy", "edit", "copy"}
          /\ Take /\ policy' = policy
          /\ MarkDone \/ (UNCHANGED done /\ action.name = "edit")
          /\ (pc' = "lock" /\ i' = i) \/ pc' = "visit"
      BY <1>1, <1>4 DEF Visit, VisitNoMatch, VisitEdit, VisitCopy, At, Goto,
         NextPromise, Typed
    <2>2. promise.kind = action.name
      BY <2>1 DEF Mine, promise
    <2>3. ~done[i] /\ (promise.kind # "tidy" => InScope(i))
      BY <2>1, <2>2 DEF PassedOver
    <2>4. /\ History' /\ visits'[i] # <<>>
          /\ \A j \in DOMAIN promises : Taken(j) => Taken(j)'
      BY <2>1, <2>2, <2>3, TakingHistory
    <2> QED BY <2>1, <2>4 DEF WorkTaken
  <1>5. CASE VisitPackage
    <2>1. /\ i \in DOMAIN promises /\ Mine(i) /\ ~PassedOver
          /\ action.name = "package" /\ policy' = policy /\ MarkDone
          /\ \/ Take /\ pc' = "lock" /\ i' = i
             \/ UNCHANGED visits /\ pc' = "visit"
      BY <1>1, <1>5 DEF VisitPackage, At, Goto, NextPromise, Typed
    <2>2. promise.kind = "package" /\ ~done[i] /\ InScope(i)
      BY <2>1 DEF Mine, promise, PassedOver
    <2>3. CASE Take /\ pc' = "lock" /\ i' = i
      <3>1. /\ History' /\ visits'[i] # <<>>
            /\ \A j \in DOMAIN promises : Taken(j) => Taken(j)'
        BY <2>1, <2>2, <2>3, TakingHistory
      <3> QED BY <2>3, <3>1 DEF WorkTaken
    <2>4. CASE UNCHANGED visits /\ pc' = "visit"
      BY <2>1, <2>2, <2>4, MarkingHistory DEF WorkTaken
    <2> QED BY <2>1, <2>3, <2>4
  <1>6. CASE LockRefused \/ LockGranted \/ LeaveLocked
    <2>1. UNCHANGED <<policy, context, a, visits, done>>
      BY <1>6 DEF LockRefused, LockGranted, LeaveLocked
    <2>2. \/ pc' = "visit"
          \/ pc = "lock" /\ pc' = "work" /\ i' = i
      BY <1>6 DEF LockRefused, LockGranted, LeaveLocked, Goto, NextPromise
    <2> QED BY <1>1, <2>1, <2>2, QuietHistory DEF WorkTaken
  <1>7. CASE FinishWork
    <2>1. /\ i \in DOMAIN promises /\ Mine(i) /\ ~Unwanted /\ pc = "work"
          /\ policy' = policy /\ pc' = "visit" /\ DoneByWork /\ TakenByWork
      BY <1>7 DEF FinishWork, Placed, Goto, NextPromise
    <2>2. promise.kind = action.name
      BY <2>1 DEF Mine, promise
    <2>3. CASE promise.kind = "interface"
      <3>1. Take /\ MarkDone /\ ~done[i] /\ InScope(i)
        BY <2>1, <2>3 DEF DoneByWork, TakenByWork, Unwanted
      <3> QED BY <2>1, <2>3, <3>1, TakingHistory DEF WorkTaken
    <2>4. CASE promise.kind = "edit" /\ MarkDone
      <3>1. UNCHANGED visits /\ Taken(i)
        BY <2>1, <2>2, <2>4 DEF TakenByWork, WorkTaken, Taken
      <3> QED BY <2>1, <2>4, <3>1, MarkingHistory DEF WorkTaken
    <2>5. CASE promise.kind # "interface" /\ ~(promise.kind = "edit" /\ MarkDone)
      <3>1. UNCHANGED <<visits, done>>
        BY <2>1, <2>5 DEF DoneByWork, TakenByWork
      <3> QED BY <2>1, <3>1, QuietHistory DEF WorkTaken
    <2> QED BY <2>3, <2>4, <2>5
  <1> QED BY <1>2, <1>3, <1>4, <1>5, <1>6, <1>7 DEF Next, PromiseLoop, Work

(* In main only a module denies classes, in pass 1, and no class that is     *)
(* defined is lost.                                                          *)
LEMMA HeapStep ==
  ASSUME Typed, Placed, UpdateClassesPrivate, Next
  PROVE  /\ UpdateClassesPrivate'
         /\ pass = 2 /\ pass' = 2 => HeapGrows
  <1>1. ASSUME NEW cs, heap' = AddMultipleClasses(cs, context),
               context' = context
        PROVE  /\ UpdateClassesPrivate'
               /\ \A c \in Class : heap[c] # "none" => heap'[c] # "none"
    BY <1>1, HeapTyped DEF UpdateClassesPrivate
  <1>2. ASSUME UNCHANGED <<heap, negheap, context>>
        PROVE  UpdateClassesPrivate' /\ HeapGrows
    BY <1>2 DEF UpdateClassesPrivate, HeapGrows
  <1>3. CASE ParseInputFile
    BY <1>1, <1>3 DEF ParseInputFile
  <1>4. CASE RunModule
    BY <1>1, <1>2, <1>4 DEF RunModule
  <1>5. CASE EndUpdate
    BY <1>5 DEF EndUpdate, DeleteClassesFromContext, UpdateClassesPrivate, Typed,
       Contexts
  <1>6. CASE DoTree /\ ~RunModule /\ ~EndUpdate
    BY <1>2, <1>6 DEF DoTree, SkipAction, BeginAction, ResolveSkipped,
       ResolveGranted, ResolveDone, MountResources, OwnInterface, EndPass, EndMain
  <1>7. CASE PromiseLoop \/ Exited \/ LockRefused \/ LockGranted
    <2>1. CASE VisitCopy
      BY <1>1, <1>2, <2>1 DEF VisitCopy, HeapGrows
    <2>2. CASE ~VisitCopy
      BY <1>2, <1>7, <2>2 DEF PromiseLoop, NotMine, EndLoop, PassOver, Visit,
         VisitNoMatch, VisitPackage, VisitEdit, VisitInterface, LockRefused,
         LockGranted, Exited, vars
    <2> QED BY <2>1, <2>2
  <1>8. CASE FinishWork \/ LeaveLocked
    BY <1>1, <1>2, <1>8 DEF FinishWork, LeaveLocked, DefineClasses, HeapGrows
  <1> QED BY <1>3, <1>4, <1>5, <1>6, <1>7, <1>8 DEF Next, Work

(* What the second pass owes.                                               *)
LEMMA SecondPassStep ==
  ASSUME IInv, Next
  PROVE  SecondPass'
  <1> USE DEF IInv
  <1>1. History' /\ \A j \in DOMAIN promises : Taken(j) => Taken(j)'
    BY HistoryStep DEF History
  <1>2. /\ Len(promises) \in Nat /\ DOMAIN promises = 1 .. Len(promises)
        /\ UNCHANGED policy => promises' = promises
        /\ UNCHANGED <<policy, context, a>> => action' = action
        /\ due \subseteq DOMAIN promises
    BY PolicyTyped DEF promises, action, actionseq, Typed
  <1>3. CASE pass' # 2
    BY <1>3 DEF SecondPass
  <1>4. CASE pass = 1 /\ pass' = 2
    <2>1. EndPass
      BY <1>4 DEF Next, DoTree, PromiseLoop, Work, ParseInputFile, SkipAction,
         BeginAction, ResolveSkipped, ResolveGranted, ResolveDone, RunModule,
         MountResources, OwnInterface, EndUpdate, EndMain, NotMine, EndLoop,
         PassOver, Visit, VisitNoMatch, VisitPackage, VisitEdit, VisitInterface,
         VisitCopy, LockRefused, LockGranted, FinishWork, LeaveLocked, Exited, vars
    <2>2. /\ UNCHANGED <<policy, context, heap, negheap>> /\ context = "main"
          /\ a' = 1 /\ pc' = "action" /\ promises' = promises
          /\ actionseq' = actionseq
          /\ DOMAIN actionseq = 1 .. Len(actionseq) /\ Len(actionseq) \in Nat
      BY <1>2, <2>1, PolicyTyped DEF EndPass, actionseq
    <2>3. ASSUME NEW j \in due'
          PROVE  /\ Unconditional(j)' /\ ~LoopPast(j)'
                 /\ Served(j)'
      <3>1. /\ j \in DOMAIN promises /\ Unconditional(j)
            /\ Scheduled(promises[j].kind)
        BY <2>1 DEF EndPass
      <3>2. Unconditional(j)'
        BY <2>2, <3>1 DEF Unconditional, Certain, DefinedWith
      <3>3. PICK n \in DOMAIN actionseq : Serves(n, promises[j].kind)
        BY <2>2, <3>1 DEF Scheduled, actionseq
      <3>4. Serves(n, promises[j].kind)' /\ ~(n < a')
        <4>1. PICK g : g = Policies[policy].actionseq["main"][n].guard
          OBVIOUS
        <4>2. Certain(g)'
          BY <2>2, <3>3, <4>1 DEF Serves, Certain, DefinedWith
        <4> QED BY <2>2, <3>3, <4>1, <4>2, PolicyTyped DEF Serves
      <3> QED BY <2>2, <3>2, <3>3, <3>4 DEF Served, LoopPast
    <2> QED BY <2>3 DEF SecondPass
  <1>5. CASE pass = 2 /\ pass' = 2
    <2>1. context = "main" /\ HeapGrows /\ UNCHANGED <<policy, context, due>>
      <3>1. HeapGrows
        BY <1>5, HeapStep
      <3>2. ~ParseInputFile /\ ~EndPass /\ ~EndUpdate
        BY <1>5 DEF Typed, ParseInputFile, EndPass, EndUpdate
      <3> QED BY <1>5, <3>1, <3>2
              DEF Typed, Next, DoTree, PromiseLoop, Work, SkipAction,
         BeginAction, ResolveSkipped, ResolveGranted, ResolveDone, RunModule,
         MountResources, OwnInterface, EndMain, NotMine, EndLoop,
         PassOver, Visit, VisitNoMatch, VisitPackage, VisitEdit, VisitInterface,
         VisitCopy, LockRefused, LockGranted, FinishWork, LeaveLocked, Exited, vars
    <2> DEFINE Owed(j) == j \in due /\ Wanted(j)
               Passes(j) == LoopPast(j)' => LoopPast(j) \/ Taken(j)'
    <2>2. ASSUME NEW j, Owed(j)
          PROVE  /\ j \in DOMAIN promises
                 /\ promises[j].kind \in Counted \ {"package"}
                 /\ promises[j].kind # "tidy" => InScope(j)
                 /\ Active(j)
                 /\ Installed(j)
                 /\ done[j] => Taken(j)
                 /\ LoopPast(j) => Taken(j)
      BY <1>2, <1>5, <2>1, <2>2, UnconditionalActive
         DEF Wanted, SecondPass, InScope, Installed, DoneTaken, Taken
    <2>3. ASSUME NEW j, Owed(j), Serves(a, promises[j].kind), a \in DOMAIN actionseq
          PROVE  ~IsExcluded(action.guard) /\ action.name = promises[j].kind
                 /\ action.name \notin Policies[policy].avoid
      <3>1. action \in Action /\ action = Policies[policy].actionseq["main"][a]
        BY <2>1, <2>3, ActionTyped DEF action, actionseq
      <3> QED BY <2>3, <3>1, CertainDefined DEF Serves, IsExcluded, Typed, Action
    <2> DEFINE EntryPassed ==
            /\ a' = a + 1
            /\ \A j : Owed(j) /\ Serves(a, promises[j].kind) => Taken(j)'
    <2>4. ASSUME a' = a \/ EntryPassed, \A j : Owed(j) => Passes(j)
          PROVE  SecondPass'
      BY <1>1, <1>5, <2>1, <2>4, SecondPassGoesOn
    <2>5. CASE SkipAction
      <3>1. \A j : ~LoopPast(j)'
        BY <2>5 DEF SkipAction, NextAction, Goto, LoopPast
      <3>2. EntryPassed
        <4> SUFFICES ASSUME NEW j, Owed(j), Serves(a, promises[j].kind)
                     PROVE  Taken(j)'
          BY <2>5 DEF SkipAction, NextAction
        <4>1. a \in DOMAIN actionseq
          BY <2>5, PolicyTyped DEF SkipAction, Typed
        <4>2. NothingLeftToDo
          BY <2>3, <2>5, <4>1 DEF SkipAction, Skipped
        <4>3. done[j]
          BY <2>2, <4>2 DEF NothingLeftToDo
        <4> QED BY <1>1, <2>2, <4>3
      <3> QED BY <2>4, <3>1, <3>2
    <2>6. CASE BeginAction \/ OwnInterface \/ EndMain \/ Exited
      <3>1. a' = a
        BY <2>6 DEF BeginAction, OwnInterface, EndMain, Exited, vars
      <3>2. ASSUME NEW j, Owed(j) PROVE ~LoopPast(j)'
        BY <1>2, <2>1, <2>2, <2>6, <3>1, <3>2 DEF BeginAction, OwnInterface, EndMain,
           Exited, vars, Goto, LoopPast, Placed, Counted, Typed
      <3> QED BY <2>4, <3>1, <3>2
    <2>7. CASE ResolveSkipped \/ ResolveDone \/ RunModule \/ MountResources
      <3>1. /\ a' = a + 1 /\ pc' = "action"
            /\ action.name \in {"resolve", "module", "mount"}
            /\ a \in DOMAIN actionseq
        BY <2>7 DEF ResolveSkipped, ResolveDone, RunModule, MountResources, Goto,
           NextAction, EndAction, Placed, Places
      <3>2. EntryPassed
        BY <2>2, <2>3, <3>1 DEF Counted
      <3>3. \A j : ~LoopPast(j)'
        BY <3>1 DEF LoopPast
      <3> QED BY <2>4, <3>2, <3>3
    <2>8. CASE ResolveGranted \/ EndPass
      BY <1>5, <2>8 DEF ResolveGranted, EndPass
    <2>9. CASE EndLoop
      <3>1. EntryPassed
        <4> SUFFICES ASSUME NEW j, Owed(j), Serves(a, promises[j].kind)
                     PROVE  Taken(j)'
          BY <2>9 DEF EndLoop, EndAction, NextAction
        <4>1. a \in DOMAIN actionseq /\ pc = "visit" /\ j < i
          BY <1>2, <2>2, <2>9 DEF EndLoop, Placed, Places, Typed
        <4> QED BY <1>1, <2>2, <2>3, <4>1 DEF LoopPast
      <3>2. \A j : ~LoopPast(j)'
        BY <2>9 DEF EndLoop, EndAction, NextAction, Goto, LoopPast
      <3> QED BY <2>4, <3>1, <3>2
    <2>10. ASSUME a' = a, pc \in {"visit", "lock", "work"}, i' = i
           PROVE  SecondPass'
      BY <1>2, <2>1, <2>4, <2>10 DEF LoopPast
    <2>11. ASSUME a' = a, pc \in {"visit", "lock", "work"}, i' = i + 1,
                  Owed(i) /\ action.name = promises[i].kind => Taken(i)
                       \/ visits'[i] # <<>>
           PROVE  SecondPass'
      BY <1>1, <1>2, <2>1, <2>2, <2>4, <2>11 DEF LoopPast, Typed, Taken
    <2>12. CASE NotMine \/ PassOver
      <3>1. a' = a /\ pc = "visit" /\ i' = i + 1 /\ i <= Len(promises)
        BY <2>12 DEF NotMine, PassOver, At, NextPromise
      <3>2. Owed(i) /\ action.name = promises[i].kind => Taken(i)
        BY <2>2, <2>12 DEF NotMine, PassOver, Mine, PassedOver, Counted
      <3> QED BY <2>11, <3>1, <3>2
    <2>13. CASE Visit \/ VisitEdit \/ VisitInterface \/ LockGranted
      BY <2>10, <2>13 DEF Visit, VisitEdit, VisitInterface, LockGranted, At
    <2>14. CASE VisitNoMatch \/ VisitPackage \/ VisitCopy
      <3>1. /\ a' = a /\ pc = "visit" /\ i \in DOMAIN promises
            /\ i' = i \/ (i' = i + 1 /\ (VisitNoMatch \/ action.name \in {"package", "copy"}))
        BY <1>2, <2>14 DEF VisitNoMatch, VisitPackage, VisitCopy, At, NextPromise,
           Typed
      <3>2. VisitNoMatch => visits'[i] # <<>>
        <4>1. visits[i] \in Seq(Contexts) /\ i \in DOMAIN visits
          BY <3>1 DEF Typed
        <4> QED BY <4>1 DEF VisitNoMatch, Take
      <3> QED BY <2>2, <2>10, <2>11, <3>1, <3>2 DEF Counted
    <2>15. CASE LockRefused \/ FinishWork \/ LeaveLocked
      <3>1. a' = a /\ pc \in {"lock", "work"} /\ i' = i + 1
        BY <2>15 DEF LockRefused, FinishWork, LeaveLocked, NextPromise
      <3>2. Owed(i) /\ action.name = promises[i].kind => Taken(i)
        BY <2>2, <3>1 DEF WorkTaken, Taken, Counted
      <3> QED BY <2>11, <3>1, <3>2
    <2>16. ~ParseInputFile /\ ~EndUpdate
      BY <1>5 DEF Typed, ParseInputFile, EndUpdate
    <2> QED BY <2>5, <2>6, <2>7, <2>8, <2>9, <2>12, <2>13, <2>14, <2>15, <2>16
            DEF Next, DoTree, PromiseLoop, Work
  <1> QED BY <1>3, <1>4, <1>5 DEF Typed

-----------------------------------------------------------------------------
(* Every step of the agent keeps the invariant.                              *)
THEOREM NextIInv == IInv /\ [Next]_vars => IInv'
  <1> SUFFICES ASSUME IInv, [Next]_vars PROVE IInv'
    OBVIOUS
  <1>1. CASE Next
    <2>1. Typed' /\ Placed'
      BY <1>1, TypedStep, PlacedStep DEF IInv
    <2>2. History' /\ WorkTaken'
      BY <1>1, HistoryStep DEF IInv, History
    <2>3. UpdateClassesPrivate' /\ SecondPass'
      BY <1>1, HeapStep, SecondPassStep DEF IInv
    <2> QED BY <2>1, <2>2, <2>3 DEF IInv, History
  <1>2. CASE UNCHANGED vars
    <2>1. Typed' /\ Placed'
      BY <1>2 DEF vars, IInv, Typed, Placed, promises, actionseq, action, promise,
         Mine, Installed, LockName
    <2>2. History' /\ WorkTaken' /\ UpdateClassesPrivate'
      BY <1>2, QuietHistory DEF vars, IInv, History, WorkTaken,
         UpdateClassesPrivate, actionseq, action
    <2>3. SecondPass'
      <3>1. SecondPass' \/ pass = 2
        BY <1>2 DEF vars, SecondPass
      <3>2. HeapGrows
        BY <1>2 DEF vars, HeapGrows
      <3>3. \A j \in DOMAIN promises : Taken(j) => Taken(j)'
        BY <1>2 DEF vars, Taken
      <3>4. \A j : LoopPast(j)' => LoopPast(j)
        BY <1>2 DEF vars, LoopPast, action, actionseq, promises
      <3> QED BY <1>2, <3>1, <3>2, <3>3, <3>4, SecondPassGoesOn DEF vars, IInv
    <2> QED BY <2>1, <2>2, <2>3 DEF IInv, History
  <1> QED BY <1>1, <1>2

(* So it always holds; the properties below are parts of it, or follow.      *)
THEOREM AgentInvariant == Spec => []IInv
  BY InitIInv, NextIInv, PTL DEF Spec

(* No promise is taken up twice in one run of the agent, whatever the        *)
(* policies and however classes come up: done is set before the lock is      *)
(* asked for, in every loop but that over the edits.                         *)
THEOREM KeptAtMostOnce == Spec => []AtMostOnce
  BY AgentInvariant, PTL DEF IInv

(* Promises of update.conf are kept while it is walked and those of the main *)
(* policy while that is, but for tidy.                                       *)
THEOREM KeptInOwnScope == Spec => []KeptInScope
  BY AgentInvariant, PTL DEF IInv

(* No class of update.conf is left when the main policy is walked.           *)
THEOREM UpdateClassesStayPrivate == Spec => []UpdateClassesPrivate
  BY AgentInvariant, PTL DEF IInv

(* What was active when pass 2 began, of the kinds that NothingLeftToDo      *)
(* counts, and that the action sequence serves, is taken up before the end.  *)
THEOREM NothingMissed == Spec => []NoPromiseMissed
  <1>1. IInv => NoPromiseMissed
    <2> SUFFICES ASSUME IInv, pc = "exit", NEW j \in due, Wanted(j)
                 PROVE  visits[j] # <<>>
      BY DEF NoPromiseMissed, Wanted
    <2>1. Served(j) /\ a > Len(actionseq)
      BY DEF IInv, Placed, SecondPass
    <2> QED BY <2>1, ActionTyped DEF IInv, Typed, Served, Taken
  <1> QED BY <1>1, AgentInvariant, PTL

-----------------------------------------------------------------------------
(* The agent is a user of locks: each of its steps is a call of GetLock or   *)
(* ReleaseCurrentLock as LockUser describes them, or none of their business. *)

LEMMA LockNamed ==
  ASSUME Typed, NEW kind \in Kind \cup {"resolve"}, NEW j \in 0 .. Len(promises)
  PROVE  LockName(kind, j) \in LockNames
  <1>1. Len(promises) <= MaxPromises /\ Len(promises) \in Nat /\ MaxPromises \in Nat
    BY PolicyTyped, PolicyAssumption
  <1>2. j \in 0 .. MaxPromises
    BY <1>1
  <1> QED BY <1>2 DEF Typed, LockName, LockNames

LEMMA LockStep == IInv /\ [Next]_vars => [User!Next]_User!luvars
  <1> SUFFICES ASSUME IInv, [Next]_vars
               PROVE  [User!Next]_User!luvars
    OBVIOUS
  <1> USE DEF IInv
  <1> DEFINE working == pc \in {"work", "resolving"}
  <1>1. ASSUME working' = working, cflock' = cflock
        PROVE  User!Next \/ UNCHANGED User!luvars
    BY <1>1 DEF User!luvars
  <1>2. ASSUME ~working', cflock' = NoJob
        PROVE  User!Next
    BY <1>2 DEF User!Next, User!Release
  <1>3. ASSUME NEW j \in LockNames, ~working, cflock' = j
        PROVE  User!Next
    BY <1>3 DEF User!Next, User!Refused, User!Granted
  <1>4. CASE UNCHANGED vars
    BY <1>1, <1>4 DEF vars
  <1>5. CASE ParseInputFile \/ Exited
    BY <1>1, <1>5 DEF ParseInputFile, Exited, vars, Goto
  <1>6. CASE DoTree
    <2>1. CASE SkipAction \/ EndPass \/ EndUpdate \/ EndMain
      BY <1>1, <2>1 DEF SkipAction, EndPass, EndUpdate, EndMain, Goto, NextAction
    <2>2. CASE BeginAction
      <3>1. a \in DOMAIN actionseq
        BY <2>2, PolicyTyped DEF BeginAction, Typed
      <3>2. action \in Action
        BY <3>1, ActionTyped DEF action
      <3> QED BY <1>1, <2>2, <3>2 DEF BeginAction, Goto, Action, Kind
    <2>3. CASE ResolveSkipped \/ ResolveGranted
      <3>1. LockName("resolve", 0) \in LockNames
        <4>1. 0 \in 0 .. Len(promises)
          BY PolicyTyped
        <4> QED BY <4>1, LockNamed
      <3> QED BY <1>1, <1>3, <2>3, <3>1
              DEF ResolveSkipped, ResolveGranted, Goto, NextAction
    <2>4. CASE ResolveDone \/ MountResources
      BY <1>2, <2>4 DEF ResolveDone, MountResources, Goto, NextAction, EndAction
    <2>5. CASE RunModule
      BY <1>1, <2>5 DEF RunModule, Goto, NextAction, EndAction
    <2>6. CASE OwnInterface
      <3>1. LockName("interface", 0) \in LockNames
        <4>1. 0 \in 0 .. Len(promises)
          BY PolicyTyped
        <4> QED BY <4>1, LockNamed DEF Kind
      <3> QED BY <1>2, <1>3, <2>6, <3>1 DEF OwnInterface, Goto
    <2> QED BY <1>6, <2>1, <2>2, <2>3, <2>4, <2>5, <2>6 DEF DoTree
  <1>7. CASE PromiseLoop
    <2>1. pc = "visit" /\ ~working'
      BY <1>7 DEF PromiseLoop, NotMine, EndLoop, PassOver, Visit, VisitNoMatch,
         VisitPackage, VisitEdit, VisitInterface, VisitCopy, At, Goto,
         NextPromise, NextAction, EndAction
    <2>2. cflock' = cflock \/ cflock' = NoJob
      BY <1>7 DEF PromiseLoop, NotMine, EndLoop, PassOver, Visit, VisitNoMatch,
         VisitPackage, VisitEdit, VisitInterface, VisitCopy
    <2> QED BY <1>1, <1>2, <2>1, <2>2
  <1>8. CASE Work
    <2>1. pc \in {"lock", "work"} /\ i \in DOMAIN promises /\ Mine(i)
      BY <1>8 DEF Work, LockRefused, LockGranted, FinishWork, LeaveLocked, Placed
    <2>2. LockName(promise.kind, i) \in LockNames
      BY <2>1, LockNamed, PromiseTyped DEF promise, Promise
    <2>3. CASE LockRefused \/ LockGranted
      BY <1>3, <2>2, <2>3 DEF LockRefused, LockGranted, Goto, NextPromise
    <2>4. CASE FinishWork
      BY <1>2, <2>4 DEF FinishWork, Goto, NextPromise
    <2>5. CASE LeaveLocked
      <3>1. /\ working /\ ~working' /\ UNCHANGED cflock
            /\ cflock = LockName(promise.kind, i)
            /\ promise.kind \in {"tidy", "files", "interface"}
        BY <2>5 DEF LeaveLocked, Unwanted, Goto, NextPromise, Placed
      <3>2. cflock[1] = promise.kind
        BY <3>1 DEF LockName
      <3>3. cflock \in LeakyNames
        BY <2>2, <3>1, <3>2 DEF LeakyNames
      <3> QED BY <3>1, <3>3 DEF User!Next, User!LeaveLocked
    <2> QED BY <1>8, <2>3, <2>4, <2>5 DEF Work
  <1> QED BY <1>4, <1>5, <1>6, <1>7, <1>8 DEF Next

(* Agent implements LockUser, with what it holds between GetLock and the      *)
(* release for working: what Locks takes for granted of its callers is true.  *)
THEOREM AgentUsesLocks == Spec => UsesLocks
  <1>1. Init => User!Init
    BY DEF Init, User!Init
  <1> QED BY <1>1, LockStep, AgentInvariant, PTL DEF Spec, UsesLocks, User!Spec
=============================================================================
