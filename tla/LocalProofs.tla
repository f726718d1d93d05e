---------------------------- MODULE LocalProofs ----------------------------
(***************************************************************************)
(* Proofs about the persistent classes (Persistence), the methods          *)
(* (Methods) and the lists that a promise loops over (Combinations), which *)
(* share no state, for any policies, any number of agents at a time, any   *)
(* classes and lengths of time, any methods and order of their directory,  *)
(* and any number of lists of any length.                                  *)
(*                                                                         *)
(* Persistence: a class that is to be preserved stays in the database      *)
(* because whoever shortens its life or deletes it has looked before, and  *)
(* what he found is still true when he acts, unless another program        *)
(* changed the record in the meantime (PutSafe, DeleteSafe).  An agent     *)
(* that reads the database in order finds it, because the record stays     *)
(* ahead of the cursor until it is read (Loading).                         *)
(*                                                                         *)
(* Methods: the calls of a method are numbered, and everywhere the numbers *)
(* are in order: those that were run, then what its child holds, then what *)
(* lies in the directory, then what an agent is writing (Numbered).  This  *)
(* needs that at most one agent writes a call of the method and at most    *)
(* one waits for its child (Excluded, Waited).  A run that nothing         *)
(* disturbs is answered because the agent is alone, and the files of each  *)
(* method are in the state that the loop it is in expects (Quiet).         *)
(*                                                                         *)
(* Combinations: the ones returned are in the order of the first list that *)
(* differs, and nothing lies between two that follow each other.           *)
(***************************************************************************)
EXTENDS Persistence, Methods, Combinations, WellFoundedInduction, TLAPS

(* The classes an agent may have in its heap, and what it may set. *)
Known == (UNION Guards) \cup Keys
Measured == [class : Anomalies, ttl : {Lifetime}, policy : {"preserve"}]
Settings == (UNION {ToSet(alerts) : alerts \in AlertLists}) \cup Measured
RunnerState ==
    [phase : {"idle", "load", "delete", "parse", "alerts", "put"}, now : Nat,
     dry : BOOLEAN, heap : SUBSET Known, due : SUBSET Keys, n : Nat \ {0},
     set : Settings \cup {<<>>}]
RunnersTyped ==
    /\ runner \in [Runner \cup {0} -> RunnerState]
    /\ R(0).phase \in {"idle", "put"}
    /\ \A r \in Runner \cup {0} : R(r).now <= minute /\ (In(r, "put") => R(r).set \in Settings)
DatabaseTyped ==
    /\ valerts \in AlertLists /\ minute \in Nat
    /\ DOMAIN statedb \subseteq Keys
    /\ \A c \in DOMAIN statedb : statedb[c].expires \in Nat
    /\ kept \in [Keys -> Int]

(* What is to be preserved has a record that lasts as long, unless it is over. *)
Safe(c) ==
    \/ c \in meddled
    \/ /\ c \in DOMAIN statedb
       /\ kept[c] <= statedb[c].expires
       /\ statedb[c].policy # "preserve" => kept[c] <= minute
    \/ c \notin DOMAIN statedb /\ kept[c] < minute
(* Who is about to change a record changes nothing that is to be preserved. *)
PutSafe(r) ==
    In(r, "put") => R(r).set.class \in meddled \/ kept[R(r).set.class] <= R(r).now
DeleteSafe(r) ==
    In(r, "delete") =>
        /\ R(r).n \in DOMAIN Class
        /\ Class[R(r).n] \in meddled \/ kept[Class[R(r).n]] < R(r).now
(* What an agent is due to find it has found, or has still to come to. *)
Ahead(r, c) == c \in DOMAIN statedb /\ \E k \in DOMAIN Class : k >= R(r).n /\ Class[k] = c
Loading(r) ==
    R(r).phase \in {"load", "delete", "parse"} =>
        \A c \in R(r).due \ meddled :
            /\ kept[c] >= R(r).now
            /\ c \in R(r).heap \/ (~In(r, "parse") /\ Ahead(r, c))
PInv ==
    /\ RunnersTyped /\ DatabaseTyped
    /\ \A c \in Keys : Safe(c)
    /\ \A r \in Runner \cup {0} : PutSafe(r) /\ DeleteSafe(r) /\ Loading(r)

(* What is set is a class of the database, for a number of minutes. *)
LEMMA SettingsTyped == \A s \in Settings : s.class \in Keys /\ s.ttl \in Nat
<1>1. ASSUME NEW alerts \in AlertLists, NEW s \in ToSet(alerts)
      PROVE  s.class \in Keys /\ s.ttl \in Nat
  <2>1. PICK k \in DOMAIN alerts : s = alerts[k]
    BY <1>1 DEF ToSet
  <2>2. alerts[k].class \in ToSet(Class) /\ alerts[k].ttl \in Nat
    BY <1>1, <2>1, PersistenceAssumption
  <2>. QED
    BY <2>1, <2>2 DEF Keys
<1>2. \A s \in Measured : s.class \in Keys /\ s.ttl \in Nat
  BY PersistenceAssumption DEF Keys, Measured
<1>3. ASSUME NEW s \in Settings, s \notin Measured PROVE s.class \in Keys /\ s.ttl \in Nat
  <2>1. PICK alerts \in AlertLists : s \in ToSet(alerts)
    BY <1>3 DEF Settings
  <2>. QED
    BY <1>1, <2>1
<1>. QED
  BY <1>2, <1>3

(* The parts of a program's state. *)
LEMMA RunnerFields ==
  ASSUME NEW q \in RunnerState
  PROVE  /\ q.phase \in {"idle", "load", "delete", "parse", "alerts", "put"}
         /\ q.now \in Nat /\ q.dry \in BOOLEAN /\ q.heap \in SUBSET Known
         /\ q.due \in SUBSET Keys /\ q.n \in Nat /\ q.n >= 1 /\ q.set \in Settings \cup {<<>>}
BY DEF RunnerState

(* What a program becomes by one of its steps. *)
LEMMA Becoming ==
  ASSUME NEW q \in RunnerState, NEW p \in {"load", "delete", "parse", "alerts", "put"},
         NEW n \in Nat \ {0}, NEW now \in Nat, NEW s \in Settings \cup {<<>>}, NEW due \in SUBSET Keys,
         NEW heap \in SUBSET Known, NEW dry \in BOOLEAN
  PROVE  /\ LET b == [q EXCEPT !.phase = p, !.now = now, !.dry = dry, !.heap = heap, !.due = due]
            IN  b \in RunnerState /\ b.phase = p /\ b.now = now /\ b.due = due /\ b.heap = heap
                /\ b.n = q.n /\ b.set = q.set
         /\ LET b == [q EXCEPT !.phase = p, !.n = n]
            IN  b \in RunnerState /\ b.phase = p /\ b.now = q.now /\ b.due = q.due
                /\ b.heap = q.heap /\ b.n = n /\ b.set = q.set
         /\ LET b == [q EXCEPT !.n = n, !.heap = heap]
            IN  b \in RunnerState /\ b.phase = q.phase /\ b.now = q.now /\ b.due = q.due
                /\ b.heap = heap /\ b.n = n /\ b.set = q.set
         /\ LET b == [q EXCEPT !.phase = p, !.n = n, !.now = now, !.due = due]
            IN  b \in RunnerState /\ b.phase = p /\ b.now = now /\ b.due = due
         /\ LET b == [q EXCEPT !.phase = p, !.n = n, !.set = s, !.now = now]
            IN  b \in RunnerState /\ b.phase = p /\ b.now = now /\ b.n = n /\ b.set = s
         /\ LET b == [q EXCEPT !.n = n, !.due = due]
            IN  b \in RunnerState /\ b.phase = q.phase /\ b.now = q.now /\ b.due = due
                /\ b.set = q.set
         /\ LET b == [q EXCEPT !.due = due]
            IN  b \in RunnerState /\ b.phase = q.phase /\ b.now = q.now /\ b.due = due
                /\ b.heap = q.heap /\ b.n = q.n /\ b.set = q.set
BY DEF RunnerState

(* A set of numbers that is not empty has a smallest one: < is well-founded. *)
LEMMA Smallest ==
  ASSUME NEW S \in SUBSET Nat, NEW x \in S
  PROVE  \E y \in S : \A z \in S : y <= z
<1> DEFINE Less == OpToRel(<, Nat)
<1>1. IsWellFoundedOn(Less, Nat)
  BY NatLessThanWellFounded
<1>2. \A T : T \subseteq Nat /\ T # {} => \E y \in T : \A z \in T : ~(<<z, y>> \in Less)
  <2> HIDE DEF Less
  <2>. QED BY <1>1, WFMin
<1>3. PICK y \in S : \A z \in S : ~(<<z, y>> \in Less)
  <2> HIDE DEF Less
  <2>. QED BY <1>2
<1>4. \A z \in Nat : z < y => <<z, y>> \in Less
  <2>. SUFFICES ASSUME NEW z \in Nat, z < y PROVE <<z, y>> \in Less
    OBVIOUS
  <2>1. y \in Nat
    OBVIOUS
  <2>2. <<z, y>> \in {ss \in Nat \X Nat : ss[1] < ss[2]}
    BY <2>1
  <2>. QED
    BY <2>2 DEF OpToRel
<1>5. \A z \in S : y <= z
  <2> HIDE DEF Less
  <2>. SUFFICES ASSUME NEW z \in S PROVE y <= z
    OBVIOUS
  <2>1. y \in Nat /\ z \in Nat /\ ~(z < y)
    BY <1>3, <1>4
  <2>. QED
    BY <2>1
<1>. QED
  BY <1>5

(* The cursor goes to the smallest one. *)
LEMMA Least ==
  ASSUME NEW S \in SUBSET Nat, NEW x \in S
  PROVE  Min(S) \in S /\ \A y \in S : Min(S) <= y
BY Smallest DEF Min

(* A program that does not run. *)
LEMMA NobodyTyped == Nobody \in RunnerState
BY DEF Nobody, RunnerState

(* One program goes on, the others stay where they are. *)
LEMMA Turned ==
  ASSUME RunnersTyped, NEW r \in Runner \cup {0}, NEW q \in RunnerState, Turns(r, q)
  PROVE  /\ runner' \in [Runner \cup {0} -> RunnerState]
         /\ R(r)' = q /\ \A p \in Runner \cup {0} : p # r => R(p)' = R(p)
BY DEF Turns, RunnersTyped, R

(* What each program's state is. *)
LEMMA Typing ==
  ASSUME RunnersTyped, NEW r \in Runner \cup {0}
  PROVE  /\ R(r) \in RunnerState
         /\ R(r).phase \in {"idle", "load", "delete", "parse", "alerts", "put"}
         /\ R(r).now \in Nat /\ R(r).dry \in BOOLEAN /\ R(r).heap \in SUBSET Known
         /\ R(r).due \in SUBSET Keys /\ R(r).n \in Nat /\ R(r).n >= 1
         /\ R(r).set \in Settings \cup {<<>>}
<1>1. R(r) \in RunnerState
  BY DEF RunnersTyped, R
<1>. QED
  BY <1>1, RunnerFields

(* A step that leaves the database alone, of a program that is about to      *)
(* change nothing that is to be preserved.                                   *)
LEMMA QuietStep ==
  ASSUME PInv, NEW r \in Runner \cup {0}, NEW q \in RunnerState, Turns(r, q),
         UNCHANGED <<valerts, minute, statedb, kept, meddled>>,
         q.now <= minute, q.phase = "put" => q.set \in Settings,
         r = 0 => q.phase \in {"idle", "put"},
         PutSafe(r)', DeleteSafe(r)', Loading(r)'
  PROVE  PInv'
<1>1. /\ runner' \in [Runner \cup {0} -> RunnerState] /\ R(r)' = q
      /\ \A p \in Runner \cup {0} : p # r => R(p)' = R(p)
  BY Turned DEF PInv
<1>2. RunnersTyped'
  BY <1>1 DEF PInv, RunnersTyped, In
<1>3. DatabaseTyped'
  BY DEF PInv, DatabaseTyped
<1>4. \A c \in Keys : Safe(c)'
  BY DEF PInv, Safe
<1>5. ASSUME NEW p \in Runner \cup {0}, p # r PROVE PutSafe(p)' /\ DeleteSafe(p)' /\ Loading(p)'
  BY <1>1, <1>5 DEF PInv, PutSafe, DeleteSafe, Loading, Ahead, In
<1>. QED
  BY <1>2, <1>3, <1>4, <1>5 DEF PInv

(* An agent starts: it is due to find what is to be preserved. *)
LEMMA Starting ==
  ASSUME PInv, NEW r \in Runner \cup {0}, StartRunner(r)
  PROVE  PInv'
<1>1. PICK dry \in BOOLEAN, guards \in Guards :
         Turns(r, [Nobody EXCEPT !.phase = "load", !.now = minute, !.dry = dry, !.heap = guards,
                                 !.due = {c \in Keys : kept[c] >= minute}])
  BY DEF StartRunner
<1> DEFINE due == {c \in Keys : kept[c] >= minute}
           q == [Nobody EXCEPT !.phase = "load", !.now = minute, !.dry = dry, !.heap = guards,
                               !.due = due]
<1>2. Turns(r, q)
  BY <1>1
<1>3. minute \in Nat /\ guards \in SUBSET Known /\ due \in SUBSET Keys
  BY DEF PInv, DatabaseTyped, Known
<1>4. q \in RunnerState /\ q.phase = "load" /\ q.now = minute /\ q.due = due /\ q.n = 1
  <2> HIDE DEF due
  <2>. QED
    BY <1>3, NobodyTyped DEF Nobody, RunnerState
<1>5. R(r)' = q
  <2> HIDE DEF q
  <2>. QED
    BY <1>2, <1>4, Turned DEF PInv
<1>6. UNCHANGED <<valerts, minute, statedb, kept, meddled>> /\ r # 0
  BY DEF StartRunner
<1>7. PutSafe(r)' /\ DeleteSafe(r)'
  <2> HIDE DEF q
  <2>. QED
    BY <1>4, <1>5 DEF PutSafe, DeleteSafe, In
<1>8. Loading(r)'
  <2>. SUFFICES ASSUME NEW c \in due \ meddled
                PROVE  kept[c] >= minute /\ c \in DOMAIN statedb
                       /\ \E k \in DOMAIN Class : k >= 1 /\ Class[k] = c
    <3> HIDE DEF q, due
    <3>. QED
      BY <1>4, <1>5, <1>6 DEF Loading, In, Ahead
  <2>1. kept[c] >= minute /\ c \in Keys /\ kept[c] \in Int
    BY DEF PInv, DatabaseTyped
  <2>2. c \in DOMAIN statedb
    BY <2>1, <1>3 DEF PInv, Safe
  <2>. QED
    BY <2>1, <2>2, PersistenceAssumption DEF Keys, ToSet
<1> HIDE DEF q
<1>. QED
  BY <1>2, <1>3, <1>4, <1>6, <1>7, <1>8, QuietStep

(* The agent reads the next record of the database. *)
LEMMA LoadingStep ==
  ASSUME PInv, NEW r \in Runner \cup {0}, PersistentClassesToHeap(r)
  PROVE  PInv'
<1> DEFINE left == {n \in R(r).n..Len(Class) : Class[n] \in DOMAIN statedb}
<1>0. /\ RunnersTyped /\ DatabaseTyped /\ Loading(r) /\ R(r) \in RunnerState
      /\ In(r, "load") /\ UNCHANGED <<valerts, minute, statedb, kept, meddled>>
      /\ DOMAIN Class = 1..Len(Class) /\ Len(Class) \in Nat
      /\ R(r).now \in Nat /\ R(r).now <= minute /\ minute \in Nat /\ R(r).n \in Nat /\ R(r).n >= 1
      /\ r # 0 /\ R(r).heap \in SUBSET Known /\ R(r).due \in SUBSET Keys
  <2>1. r # 0
    BY DEF PersistentClassesToHeap, In, PInv, RunnersTyped
  <2>. QED
    BY <2>1, Typing, PersistenceAssumption
       DEF PInv, RunnersTyped, DatabaseTyped, PersistentClassesToHeap
<1>1. left \in SUBSET Nat
  BY <1>0
<1>2. PICK n : /\ left # {} => n \in left /\ \A k \in left : n <= k
               /\ Turns(r, IF left = {} THEN [R(r) EXCEPT !.phase = "parse", !.n = 1]
                           ELSE IF R(r).now > statedb[Class[n]].expires
                           THEN [R(r) EXCEPT !.phase = "delete", !.n = n]
                           ELSE [R(r) EXCEPT !.n = n + 1, !.heap = @ \cup {Class[n]}])
  <2>1. /\ Turns(r, IF left = {} THEN [R(r) EXCEPT !.phase = "parse", !.n = 1]
                    ELSE IF R(r).now > statedb[Class[Min(left)]].expires
                    THEN [R(r) EXCEPT !.phase = "delete", !.n = Min(left)]
                    ELSE [R(r) EXCEPT !.n = Min(left) + 1, !.heap = @ \cup {Class[Min(left)]}])
    BY DEF PersistentClassesToHeap
  <2> HIDE DEF left
  <2>2. left # {} => Min(left) \in left /\ \A k \in left : Min(left) <= k
    BY <1>1, Least
  <2>. QED
    BY <2>1, <2>2
<1>3. \A c \in R(r).due \ meddled :
         /\ kept[c] >= R(r).now /\ kept[c] \in Int
         /\ c \in R(r).heap \/ \E k \in left : Class[k] = c /\ c \in DOMAIN statedb
  <2>. SUFFICES ASSUME NEW c \in R(r).due \ meddled
                PROVE  /\ kept[c] >= R(r).now /\ kept[c] \in Int
                       /\ c \in R(r).heap \/ \E k \in left : Class[k] = c /\ c \in DOMAIN statedb
    OBVIOUS
  <2>1. kept[c] >= R(r).now /\ (c \in R(r).heap \/ Ahead(r, c))
    BY <1>0 DEF Loading, In
  <2>2. Ahead(r, c) => \E k \in left : Class[k] = c /\ c \in DOMAIN statedb
    BY <1>0 DEF Ahead
  <2>3. kept[c] \in Int
    BY <1>0 DEF DatabaseTyped
  <2>. QED
    BY <2>1, <2>2, <2>3
<1>4. CASE left = {}
  <2> DEFINE q == [R(r) EXCEPT !.phase = "parse", !.n = 1]
  <2>1. Turns(r, q)
    BY <1>2, <1>4
  <2>2. /\ q \in RunnerState /\ q.phase = "parse" /\ q.now = R(r).now /\ q.due = R(r).due
        /\ q.heap = R(r).heap
    <3>1. \A i \in Nat \ {0} : LET b == [R(r) EXCEPT !.phase = "parse", !.n = i]
                               IN  /\ b \in RunnerState /\ b.phase = "parse" /\ b.now = R(r).now
                                   /\ b.due = R(r).due /\ b.heap = R(r).heap
      BY <1>0 DEF RunnerState
    <3>2. 1 \in Nat \ {0}
      OBVIOUS
    <3>. QED
      BY <3>1, <3>2
  <2> HIDE DEF q
  <2>3. R(r)' = q
    BY <1>0, <2>1, <2>2, Turned
  <2>4. PutSafe(r)' /\ DeleteSafe(r)'
    BY <2>2, <2>3 DEF PutSafe, DeleteSafe, In
  <2>5. Loading(r)'
    BY <1>0, <1>3, <1>4, <2>2, <2>3 DEF Loading, In
  <2>. QED
    BY <1>0, <2>1, <2>2, <2>4, <2>5, QuietStep
<1>5. CASE left # {} /\ R(r).now > statedb[Class[n]].expires
  <2> DEFINE q == [R(r) EXCEPT !.phase = "delete", !.n = n]
  <2>1. Turns(r, q)
    BY <1>2, <1>5
  <2>2. n \in Nat \ {0} /\ n \in DOMAIN Class /\ n >= R(r).n /\ Class[n] \in DOMAIN statedb
    BY <1>0, <1>2, <1>5
  <2>3. /\ q \in RunnerState /\ q.phase = "delete" /\ q.now = R(r).now /\ q.due = R(r).due
        /\ q.heap = R(r).heap /\ q.n = n
    BY <1>0, <2>2 DEF RunnerState
  <2> HIDE DEF q
  <2>4. R(r)' = q
    BY <1>0, <2>1, <2>3, Turned
  <2>5. Class[n] \in meddled \/ kept[Class[n]] < R(r).now
    <3>1. Class[n] \in Keys
      BY <2>2 DEF Keys, ToSet
    <3>2. /\ statedb[Class[n]].expires \in Nat /\ kept[Class[n]] \in Int
          /\ Class[n] \in meddled \/ kept[Class[n]] <= statedb[Class[n]].expires
      BY <2>2, <3>1 DEF PInv, Safe, DatabaseTyped
    <3>. QED
      BY <1>0, <1>5, <3>2
  <2>6. PutSafe(r)' /\ DeleteSafe(r)'
    BY <1>0, <2>2, <2>3, <2>4, <2>5 DEF PutSafe, DeleteSafe, In
  <2>7. Loading(r)'
    <3>. SUFFICES ASSUME NEW c \in R(r).due \ meddled, c \notin R(r).heap
                  PROVE  c \in DOMAIN statedb /\ \E k \in DOMAIN Class : k >= n /\ Class[k] = c
      BY <1>0, <1>3, <2>3, <2>4 DEF Loading, In, Ahead
    <3>1. PICK k \in left : Class[k] = c /\ c \in DOMAIN statedb
      BY <1>3
    <3>2. n <= k /\ k \in DOMAIN Class
      BY <1>0, <1>2, <1>5, <3>1
    <3>. QED
      BY <1>0, <2>2, <3>1, <3>2
  <2>. QED
    BY <1>0, <2>1, <2>3, <2>6, <2>7, QuietStep
<1>6. CASE left # {} /\ ~(R(r).now > statedb[Class[n]].expires)
  <2> DEFINE q == [R(r) EXCEPT !.n = n + 1, !.heap = @ \cup {Class[n]}]
  <2>1. Turns(r, q)
    BY <1>2, <1>6
  <2>2. n + 1 \in Nat \ {0} /\ n \in Nat /\ n \in DOMAIN Class /\ n >= R(r).n /\ Class[n] \in Keys
    BY <1>0, <1>2, <1>6 DEF Keys, ToSet
  <2>3. R(r).heap \cup {Class[n]} \in SUBSET Known
    BY <1>0, <2>2 DEF Known
  <2>4. /\ q \in RunnerState /\ q.phase = "load" /\ q.now = R(r).now /\ q.due = R(r).due
        /\ q.heap = R(r).heap \cup {Class[n]} /\ q.n = n + 1
    BY <1>0, <2>2, <2>3 DEF RunnerState, In
  <2> HIDE DEF q
  <2>5. R(r)' = q
    BY <1>0, <2>1, <2>4, Turned
  <2>6. PutSafe(r)' /\ DeleteSafe(r)'
    BY <1>0, <2>4, <2>5 DEF PutSafe, DeleteSafe, In
  <2>7. Loading(r)'
    <3>. SUFFICES ASSUME NEW c \in R(r).due \ meddled, c \notin R(r).heap, c # Class[n]
                  PROVE  c \in DOMAIN statedb /\ \E k \in DOMAIN Class : k >= n + 1 /\ Class[k] = c
      BY <1>0, <1>3, <2>4, <2>5 DEF Loading, In, Ahead
    <3>1. PICK k \in left : Class[k] = c /\ c \in DOMAIN statedb
      BY <1>3
    <3>2. n <= k /\ k \in DOMAIN Class /\ k # n
      BY <1>0, <1>2, <1>6, <3>1
    <3>. QED
      BY <1>0, <2>2, <3>1, <3>2
  <2>. QED
    BY <1>0, <2>1, <2>4, <2>6, <2>7, QuietStep
<1>. QED
  BY <1>4, <1>5, <1>6

(* The time until which a class is to be preserved never goes back. *)
LEMMA LargerOfTwo ==
  ASSUME NEW a \in Int, NEW b \in Int
  PROVE  Max({a, b}) \in Int /\ Max({a, b}) >= a /\ Max({a, b}) >= b /\ Max({a, b}) \in {a, b}
BY DEF Max

(* Nobody is due any more to find a class that is unset or over. *)
LEMMA Forgotten ==
  ASSUME RunnersTyped, NEW r \in Runner \cup {0}, NEW q \in RunnerState, NEW c, Forgets(r, q, c)
  PROVE  /\ runner' \in [Runner \cup {0} -> RunnerState]
         /\ R(r)'.phase = q.phase /\ R(r)'.now = q.now /\ R(r)'.heap = q.heap
         /\ R(r)'.n = q.n /\ R(r)'.set = q.set /\ R(r)'.due = q.due \ {c}
         /\ \A p \in Runner \cup {0} : p # r =>
               /\ R(p)'.phase = R(p).phase /\ R(p)'.now = R(p).now /\ R(p)'.heap = R(p).heap
               /\ R(p)'.n = R(p).n /\ R(p)'.set = R(p).set /\ R(p)'.due = R(p).due \ {c}
<1>1. \A b \in RunnerState :
         /\ [b EXCEPT !.due = @ \ {c}] \in RunnerState
         /\ [b EXCEPT !.due = @ \ {c}].phase = b.phase
         /\ [b EXCEPT !.due = @ \ {c}].now = b.now
         /\ [b EXCEPT !.due = @ \ {c}].heap = b.heap
         /\ [b EXCEPT !.due = @ \ {c}].n = b.n
         /\ [b EXCEPT !.due = @ \ {c}].set = b.set
         /\ [b EXCEPT !.due = @ \ {c}].due = b.due \ {c}
  BY DEF RunnerState
<1>2. \A p \in Runner \cup {0} : R(p) \in RunnerState
  BY DEF RunnersTyped, R
<1>3. runner' = [p \in Runner \cup {0} |-> [(IF p = r THEN q ELSE R(p)) EXCEPT !.due = @ \ {c}]]
  BY DEF Forgets, RunnersTyped
<1>4. runner' \in [Runner \cup {0} -> RunnerState]
  BY <1>1, <1>2, <1>3
<1>5. R(r)' = [q EXCEPT !.due = @ \ {c}]
  BY <1>3 DEF R
<1>6. \A p \in Runner \cup {0} : p # r => R(p)' = [R(p) EXCEPT !.due = @ \ {c}]
  BY <1>3 DEF R
<1>. QED
  BY <1>1, <1>2, <1>4, <1>5, <1>6

(* One program changes one record, and the others see to it. *)
LEMMA RecordStep ==
  ASSUME PInv, NEW r \in Runner \cup {0}, NEW c \in Keys, Meddles(r, c), UNCHANGED <<valerts, minute>>,
         \A k \in Keys : k # c =>
            /\ k \in DOMAIN statedb' <=> k \in DOMAIN statedb
            /\ k \in DOMAIN statedb => statedb'[k] = statedb[k]
            /\ kept'[k] = kept[k]
  PROVE  /\ meddled \subseteq meddled' /\ \A k \in meddled' : k # c => k \in meddled
         /\ \A k \in Keys : k # c => Safe(k)'
         /\ \A p \in Runner \cup {0} :
               p # r /\ R(p)'.phase = R(p).phase /\ R(p)'.now = R(p).now
                     /\ R(p)'.n = R(p).n /\ R(p)'.set = R(p).set
               => PutSafe(p)' /\ DeleteSafe(p)'
<1>1. meddled \subseteq meddled' /\ \A k \in meddled' : k # c => k \in meddled
  BY DEF Meddles
<1>2. \A k \in Keys : k # c => Safe(k)'
  <2>. SUFFICES ASSUME NEW k \in Keys, k # c PROVE Safe(k)'
    OBVIOUS
  <2>. QED
    BY <1>1 DEF Safe, PInv
<1>3. ASSUME NEW p \in Runner \cup {0}, p # r, R(p)'.phase = R(p).phase, R(p)'.now = R(p).now,
             R(p)'.n = R(p).n, R(p)'.set = R(p).set
      PROVE  PutSafe(p)' /\ DeleteSafe(p)'
  <2>1. p \in DOMAIN runner \ {r}
    BY <1>3 DEF PInv, RunnersTyped
  <2>2. In(p, "put") /\ R(p).set.class = c => c \in meddled'
    BY <2>1 DEF Meddles
  <2>3. In(p, "delete") /\ Class[R(p).n] = c => c \in meddled'
    BY <2>1 DEF Meddles
  <2>4. PutSafe(p)'
    <3>. SUFFICES ASSUME In(p, "put") PROVE R(p).set.class \in meddled' \/ kept'[R(p).set.class] <= R(p).now
      BY <1>3 DEF PutSafe, In
    <3>1. R(p).set \in Settings /\ R(p).set.class \in Keys
      BY SettingsTyped DEF PInv, RunnersTyped
    <3>. QED
      BY <1>1, <2>2, <3>1 DEF PInv, PutSafe
  <2>5. DeleteSafe(p)'
    <3>. SUFFICES ASSUME In(p, "delete")
                  PROVE  /\ R(p).n \in DOMAIN Class
                         /\ Class[R(p).n] \in meddled' \/ kept'[Class[R(p).n]] < R(p).now
      BY <1>3 DEF DeleteSafe, In
    <3>1. R(p).n \in DOMAIN Class /\ Class[R(p).n] \in Keys
      BY DEF PInv, DeleteSafe, Keys, ToSet
    <3>. QED
      BY <1>1, <2>3, <3>1 DEF PInv, DeleteSafe
  <2>. QED
    BY <2>4, <2>5
<1>. QED
  BY <1>1, <1>2, <1>3

(* A program that goes on. *)
LEMMA GoingOn ==
  ASSUME RunnersTyped, NEW r \in Runner \cup {0}, NEW n \in Nat \ {0}
  PROVE  /\ GoesOn(r, n) \in RunnerState /\ GoesOn(r, n).now = 0
         /\ GoesOn(r, n).phase = IF r = 0 THEN "idle" ELSE "alerts"
<1>1. R(r) \in RunnerState
  BY Typing
<1>2. CASE r = 0
  BY <1>2, NobodyTyped DEF GoesOn, Nobody
<1>3. CASE r # 0
  <2>1. GoesOn(r, n) = [R(r) EXCEPT !.phase = "alerts", !.n = n, !.set = <<>>, !.now = 0]
    BY <1>3 DEF GoesOn
  <2>2. /\ [R(r) EXCEPT !.phase = "alerts", !.n = n, !.set = <<>>, !.now = 0] \in RunnerState
        /\ [R(r) EXCEPT !.phase = "alerts", !.n = n, !.set = <<>>, !.now = 0].now = 0
        /\ [R(r) EXCEPT !.phase = "alerts", !.n = n, !.set = <<>>, !.now = 0].phase = "alerts"
    BY <1>1 DEF RunnerState
  <2>. QED
    BY <1>3, <2>1, <2>2
<1>. QED
  BY <1>2, <1>3

(* A program writes the record it has decided to write. *)
LEMMA Putting ==
  ASSUME PInv, NEW r \in Runner \cup {0}, Put(r)
  PROVE  PInv'
<1>a. PICK s : s = R(r).set
  OBVIOUS
<1>b. PICK x : x = R(r).now + s.ttl
  OBVIOUS
<1> DEFINE c == s.class
<1>0. /\ RunnersTyped /\ DatabaseTyped /\ PutSafe(r) /\ Safe(c) /\ R(r) \in RunnerState
      /\ In(r, "put") /\ UNCHANGED <<valerts, minute>> /\ Meddles(r, c)
      /\ s \in Settings /\ c \in Keys /\ s.ttl \in Nat /\ R(r).now \in Nat /\ R(r).now <= minute
      /\ x \in Nat /\ x >= R(r).now /\ minute \in Nat /\ R(r).n + 1 \in Nat \ {0}
      /\ kept[c] \in Int /\ kept \in [Keys -> Int]
  <2>1. RunnersTyped /\ DatabaseTyped /\ PutSafe(r) /\ In(r, "put") /\ Meddles(r, c)
        /\ UNCHANGED <<valerts, minute>>
    BY <1>a DEF PInv, Put
  <2>2. s \in Settings /\ R(r).now <= minute
    BY <1>a, <2>1 DEF RunnersTyped
  <2>3. c \in Keys /\ s.ttl \in Nat
    BY <2>2, SettingsTyped
  <2>4. R(r).now \in Nat /\ R(r).n \in Nat /\ R(r) \in RunnerState
    BY <2>1, Typing
  <2>5. minute \in Nat /\ kept \in [Keys -> Int]
    BY <2>1 DEF DatabaseTyped
  <2>. QED
    BY <1>b, <2>1, <2>2, <2>3, <2>4, <2>5 DEF PInv
<1>1. /\ DOMAIN statedb' = DOMAIN statedb \cup {c}
      /\ statedb'[c].expires = x /\ statedb'[c].policy = s.policy
      /\ \A k \in DOMAIN statedb : k # c => statedb'[k] = statedb[k]
  BY <1>a, <1>b DEF Put
<1>2. kept' = [kept EXCEPT ![c] = IF s.policy = "preserve" THEN Max({kept[c], x}) ELSE kept[c]]
  BY <1>0, <1>a, <1>b DEF Put
<1>3. /\ kept' \in [Keys -> Int] /\ kept'[c] >= kept[c]
      /\ kept[c] <= R(r).now => kept'[c] <= x
      /\ s.policy # "preserve" => kept'[c] = kept[c]
      /\ \A k \in Keys : k # c => kept'[k] = kept[k]
  <2>0. kept[c] \in Int /\ x \in Int
    BY <1>0
  <2>1. Max({kept[c], x}) \in Int /\ Max({kept[c], x}) >= kept[c] /\ Max({kept[c], x}) \in {kept[c], x}
    BY <2>0, LargerOfTwo
  <2> HIDE DEF c
  <2>. QED
    BY <1>0, <1>2, <2>1
<1> DEFINE q == GoesOn(r, R(r).n + 1)
<1>4. Turns(r, q)
  BY DEF Put
<1>5. q \in RunnerState /\ q.now = 0 /\ q.phase = IF r = 0 THEN "idle" ELSE "alerts"
  BY <1>0, GoingOn
<1> HIDE DEF c, q
<1>6. /\ runner' \in [Runner \cup {0} -> RunnerState] /\ R(r)' = q
      /\ \A p \in Runner \cup {0} : p # r => R(p)' = R(p)
  BY <1>0, <1>4, <1>5, Turned
<1>7. RunnersTyped'
  BY <1>0, <1>5, <1>6 DEF RunnersTyped, In
<1>8. DatabaseTyped'
  BY <1>0, <1>1, <1>3 DEF DatabaseTyped
<1>9. /\ meddled \subseteq meddled' /\ \A k \in meddled' : k # c => k \in meddled
      /\ \A k \in Keys : k # c => Safe(k)'
      /\ \A p \in Runner \cup {0} : p # r => PutSafe(p)' /\ DeleteSafe(p)'
  BY <1>0, <1>1, <1>3, <1>6, RecordStep
<1>10. Safe(c)'
  <2>. SUFFICES ASSUME c \notin meddled' PROVE Safe(c)'
    BY DEF Safe
  <2>1. kept[c] <= R(r).now
    BY <1>a, <1>0, <1>9 DEF PutSafe, c
  <2>. QED
    BY <1>0, <1>1, <1>3, <2>1 DEF Safe
<1>11. PutSafe(r)' /\ DeleteSafe(r)' /\ Loading(r)'
  BY <1>5, <1>6 DEF PutSafe, DeleteSafe, Loading, In
<1>12. ASSUME NEW p \in Runner \cup {0}, p # r PROVE Loading(p)'
  <2>. SUFFICES ASSUME R(p).phase \in {"load", "delete", "parse"}, NEW k \in R(p).due \ meddled
                PROVE  /\ kept'[k] >= R(p).now
                       /\ k \in R(p).heap \/ (~In(p, "parse") /\ Ahead(p, k)')
    BY <1>6, <1>9, <1>12 DEF Loading, In
  <2>1. kept[k] >= R(p).now /\ (k \in R(p).heap \/ (~In(p, "parse") /\ Ahead(p, k)))
    BY DEF PInv, Loading
  <2>2. k \in Keys /\ kept[k] \in Int /\ kept'[k] \in Int /\ R(p).now \in Nat
    BY <1>0, <1>3, Typing
  <2>3. kept'[k] >= kept[k]
    BY <1>3, <2>2
  <2>4. Ahead(p, k) => Ahead(p, k)'
    BY <1>1, <1>6, <1>12 DEF Ahead
  <2>. QED
    BY <2>1, <2>2, <2>3, <2>4
<1>. QED
  BY <1>7, <1>8, <1>9, <1>10, <1>11, <1>12 DEF PInv

(* A class that is unset is preserved no more, and nobody is due to find it. *)
LEMMA Unsetting ==
  ASSUME PInv, NEW r \in Runner \cup {0}, NEW c \in Keys, NEW q \in RunnerState,
         DeletePersistentClass(r, c, q), UNCHANGED <<valerts, minute>>,
         r # 0, q.now <= minute, q.phase \in {"parse", "alerts"},
         q.phase = "parse" => q.due = {}
  PROVE  PInv'
<1>0. RunnersTyped /\ DatabaseTyped /\ Meddles(r, c)
  BY DEF PInv, DeletePersistentClass
<1>1. /\ DOMAIN statedb' = DOMAIN statedb \ {c}
      /\ \A k \in DOMAIN statedb : k # c => statedb'[k] = statedb[k]
      /\ kept' = [kept EXCEPT ![c] = -1]
  BY DEF DeletePersistentClass, Removed
<1>2. /\ kept' \in [Keys -> Int] /\ kept'[c] = -1 /\ \A k \in Keys : k # c => kept'[k] = kept[k]
      /\ minute \in Nat
  BY <1>0, <1>1 DEF DatabaseTyped
<1>3. /\ runner' \in [Runner \cup {0} -> RunnerState]
      /\ R(r)'.phase = q.phase /\ R(r)'.now = q.now /\ R(r)'.due = q.due \ {c}
      /\ \A p \in Runner \cup {0} : p # r =>
            /\ R(p)'.phase = R(p).phase /\ R(p)'.now = R(p).now /\ R(p)'.heap = R(p).heap
            /\ R(p)'.n = R(p).n /\ R(p)'.set = R(p).set /\ R(p)'.due = R(p).due \ {c}
  <2>1. Forgets(r, q, c)
    BY DEF DeletePersistentClass
  <2>2. RunnersTyped
    BY <1>0
  <2>3. runner' \in [Runner \cup {0} -> RunnerState]
    BY <2>1, <2>2, Forgotten
  <2>4. R(r)'.phase = q.phase /\ R(r)'.now = q.now
    BY <2>1, <2>2, Forgotten
  <2>5. R(r)'.heap = q.heap /\ R(r)'.n = q.n
    BY <2>1, <2>2, Forgotten
  <2>6. R(r)'.due = q.due \ {c}
    BY <2>1, <2>2, Forgotten
  <2>7. \A p \in Runner \cup {0} : p # r => R(p)'.phase = R(p).phase
    BY <2>1, <2>2, Forgotten
  <2>8. \A p \in Runner \cup {0} : p # r => R(p)'.now = R(p).now
    BY <2>1, <2>2, Forgotten
  <2>9. \A p \in Runner \cup {0} : p # r => R(p)'.heap = R(p).heap
    BY <2>1, <2>2, Forgotten
  <2>10. \A p \in Runner \cup {0} : p # r => R(p)'.n = R(p).n
    BY <2>1, <2>2, Forgotten
  <2>11. \A p \in Runner \cup {0} : p # r => R(p)'.set = R(p).set
    BY <2>1, <2>2, Forgotten
  <2>12. \A p \in Runner \cup {0} : p # r => R(p)'.due = R(p).due \ {c}
    BY <2>1, <2>2, Forgotten
  <2>. QED
    BY <2>3, <2>4, <2>5, <2>6, <2>7, <2>8,
       <2>9, <2>10, <2>11, <2>12
<1>4. RunnersTyped'
  BY <1>0, <1>3 DEF RunnersTyped, In
<1>5. DatabaseTyped'
  BY <1>0, <1>1, <1>2 DEF DatabaseTyped
<1>6. /\ meddled \subseteq meddled' /\ \A k \in meddled' : k # c => k \in meddled
      /\ \A k \in Keys : k # c => Safe(k)'
      /\ \A p \in Runner \cup {0} : p # r => PutSafe(p)' /\ DeleteSafe(p)'
  BY <1>0, <1>1, <1>2, <1>3, RecordStep
<1>7. Safe(c)'
  BY <1>1, <1>2 DEF Safe
<1>8. PutSafe(r)' /\ DeleteSafe(r)' /\ Loading(r)'
  BY <1>3 DEF PutSafe, DeleteSafe, Loading, In
<1>9. ASSUME NEW p \in Runner \cup {0}, p # r PROVE Loading(p)'
  <2>. SUFFICES ASSUME R(p).phase \in {"load", "delete", "parse"},
                       NEW k \in R(p).due \ meddled, k # c
                PROVE  /\ kept'[k] >= R(p).now
                       /\ k \in R(p).heap \/ (~In(p, "parse") /\ Ahead(p, k)')
    BY <1>3, <1>6, <1>9 DEF Loading, In
  <2>1. kept[k] >= R(p).now /\ (k \in R(p).heap \/ (~In(p, "parse") /\ Ahead(p, k)))
    BY DEF PInv, Loading
  <2>2. k \in Keys
    BY <1>0, Typing
  <2>3. Ahead(p, k) => Ahead(p, k)'
    BY <1>1, <1>3, <1>9 DEF Ahead
  <2>. QED
    BY <1>2, <2>1, <2>2, <2>3
<1>. QED
  BY <1>4, <1>5, <1>6, <1>7, <1>8, <1>9 DEF PInv

(* The agent deletes a record that it found to be over. *)
LEMMA Expiring ==
  ASSUME PInv, NEW r \in Runner \cup {0}, DeleteExpired(r)
  PROVE  PInv'
<1>a. PICK n : n = R(r).n
  OBVIOUS
<1> DEFINE c == Class[n]
<1>0. /\ RunnersTyped /\ DatabaseTyped /\ In(r, "delete") /\ r # 0 /\ n \in DOMAIN Class
      /\ c \in meddled \/ kept[c] < R(r).now
      /\ UNCHANGED <<valerts, minute, kept>> /\ Meddles(r, c) /\ Removed(c)
      /\ R(r).now \in Nat /\ R(r).now <= minute /\ minute \in Nat /\ n \in Nat /\ n >= 1
      /\ R(r) \in RunnerState
  <2>1. RunnersTyped /\ DatabaseTyped /\ In(r, "delete") /\ UNCHANGED <<valerts, minute, kept>>
        /\ Meddles(r, c) /\ Removed(c) /\ DeleteSafe(r)
    BY <1>a DEF PInv, DeleteExpired
  <2>2. r # 0
    BY <2>1 DEF RunnersTyped, In
  <2>3. n \in DOMAIN Class /\ (c \in meddled \/ kept[c] < R(r).now)
    BY <1>a, <2>1 DEF DeleteSafe
  <2>4. R(r).now \in Nat /\ n \in Nat /\ n >= 1 /\ R(r) \in RunnerState
    BY <1>a, <2>1, Typing
  <2>. QED
    BY <2>1, <2>2, <2>3, <2>4 DEF RunnersTyped, DatabaseTyped
<1> DEFINE next == [R(r) EXCEPT !.phase = "load", !.n = n + 1]
<1>1. /\ next \in RunnerState /\ next.phase = "load" /\ next.now = R(r).now /\ next.n = n + 1
      /\ next.due = R(r).due /\ next.heap = R(r).heap
  <2>1. n + 1 \in Nat \ {0}
    BY <1>0
  <2>. QED
    BY <1>0, <2>1 DEF RunnerState
<1>2. IF kept[c] < R(r).now THEN Forgets(r, next, c) ELSE Turns(r, next)
  BY <1>a DEF DeleteExpired
<1> HIDE DEF next
<1>3. /\ runner' \in [Runner \cup {0} -> RunnerState]
      /\ R(r)'.phase = "load" /\ R(r)'.now = R(r).now /\ R(r)'.due \subseteq R(r).due
      /\ R(r)'.n = n + 1 /\ R(r)'.heap = R(r).heap
      /\ kept[c] < R(r).now => \A p \in Runner \cup {0} : c \notin R(p)'.due
      /\ \A p \in Runner \cup {0} : p # r =>
            /\ R(p)'.phase = R(p).phase /\ R(p)'.now = R(p).now /\ R(p)'.heap = R(p).heap
            /\ R(p)'.n = R(p).n /\ R(p)'.set = R(p).set /\ R(p)'.due \subseteq R(p).due
  <2>1. CASE kept[c] < R(r).now
    <3>1. Forgets(r, next, c)
      BY <1>2, <2>1
    <3>2. RunnersTyped /\ next \in RunnerState
      BY <1>0, <1>1
    <3>3. runner' \in [Runner \cup {0} -> RunnerState]
      BY <3>1, <3>2, Forgotten
    <3>4. R(r)'.phase = next.phase /\ R(r)'.now = next.now
      BY <3>1, <3>2, Forgotten
    <3>5. R(r)'.heap = next.heap /\ R(r)'.n = next.n
      BY <3>1, <3>2, Forgotten
    <3>6. R(r)'.due = next.due \ {c}
      BY <3>1, <3>2, Forgotten
    <3>7. \A p \in Runner \cup {0} : p # r => R(p)'.phase = R(p).phase
      BY <3>1, <3>2, Forgotten
    <3>8. \A p \in Runner \cup {0} : p # r => R(p)'.now = R(p).now
      BY <3>1, <3>2, Forgotten
    <3>9. \A p \in Runner \cup {0} : p # r => R(p)'.heap = R(p).heap
      BY <3>1, <3>2, Forgotten
    <3>10. \A p \in Runner \cup {0} : p # r => R(p)'.n = R(p).n
      BY <3>1, <3>2, Forgotten
    <3>11. \A p \in Runner \cup {0} : p # r => R(p)'.set = R(p).set
      BY <3>1, <3>2, Forgotten
    <3>12. \A p \in Runner \cup {0} : p # r => R(p)'.due = R(p).due \ {c}
      BY <3>1, <3>2, Forgotten
    <3>. QED
      BY <1>1, <3>3, <3>4, <3>5, <3>6, <3>7,
         <3>8, <3>9, <3>10, <3>11, <3>12
  <2>2. CASE ~(kept[c] < R(r).now)
    BY <1>0, <1>1, <1>2, <2>2, Turned
  <2>. QED
    BY <2>1, <2>2
<1>4. c \in Keys
  BY <1>0 DEF Keys, ToSet
<1>5. /\ DOMAIN statedb' = DOMAIN statedb \ {c}
      /\ \A k \in DOMAIN statedb : k # c => statedb'[k] = statedb[k]
  BY <1>0 DEF Removed
<1> HIDE DEF c
<1>6. RunnersTyped'
  BY <1>0, <1>3 DEF RunnersTyped, In
<1>7. DatabaseTyped'
  BY <1>0, <1>5 DEF DatabaseTyped
<1>8. /\ meddled \subseteq meddled' /\ \A k \in meddled' : k # c => k \in meddled
      /\ \A k \in Keys : k # c => Safe(k)'
      /\ \A p \in Runner \cup {0} : p # r => PutSafe(p)' /\ DeleteSafe(p)'
  BY <1>0, <1>3, <1>4, <1>5, RecordStep
<1>9. Safe(c)'
  BY <1>0, <1>4, <1>5, <1>8 DEF Safe, DatabaseTyped
<1>10. PutSafe(r)' /\ DeleteSafe(r)'
  BY <1>3 DEF PutSafe, DeleteSafe, In
<1>11. ASSUME NEW p \in Runner \cup {0} PROVE Loading(p)'
  <2>. SUFFICES ASSUME R(p)'.phase \in {"load", "delete", "parse"}, NEW k \in R(p)'.due \ meddled'
                PROVE  /\ kept[k] >= R(p)'.now
                       /\ k \in R(p)'.heap \/ (~In(p, "parse")' /\ Ahead(p, k)')
    BY <1>0 DEF Loading
  <2>1. /\ k \in R(p).due \ meddled /\ R(p).phase \in {"load", "delete", "parse"}
        /\ R(p)'.now = R(p).now /\ R(p)'.heap = R(p).heap
    BY <1>0, <1>3, <1>8 DEF In
  <2>2. kept[k] >= R(p).now /\ (k \in R(p).heap \/ (~In(p, "parse") /\ Ahead(p, k)))
    BY <2>1 DEF PInv, Loading
  <2>3. k # c
    BY <1>0, <1>3, <1>8
  <2>4. CASE p # r
    <3>1. Ahead(p, k) => Ahead(p, k)'
      BY <1>3, <1>5, <2>3, <2>4 DEF Ahead
    <3>. QED
      BY <1>3, <2>1, <2>2, <2>4, <3>1 DEF In
  <2>5. CASE p = r
    <3>1. Ahead(r, k) => Ahead(r, k)'
      <4>. SUFFICES ASSUME Ahead(r, k)
                    PROVE  k \in DOMAIN statedb' /\ \E j \in DOMAIN Class : j >= n + 1 /\ Class[j] = k
        BY <1>3 DEF Ahead
      <4>1. PICK j \in DOMAIN Class : j >= n /\ Class[j] = k
        BY <1>a DEF Ahead
      <4>2. j # n /\ j \in Nat
        BY <2>3, <4>1, PersistenceAssumption DEF c
      <4>3. j >= n + 1
        BY <1>0, <4>1, <4>2
      <4>. QED
        BY <1>5, <2>3, <4>1, <4>3 DEF Ahead
    <3>. QED
      BY <1>3, <2>1, <2>2, <2>5, <3>1 DEF In
  <2>. QED
    BY <2>4, <2>5
<1>. QED
  BY <1>4, <1>6, <1>7, <1>8, <1>9, <1>10, <1>11 DEF PInv

(* A program looks at the record of a class and decides what to put. *)
LEMMA Adding ==
  ASSUME PInv, NEW r \in Runner \cup {0}, NEW n \in Nat \ {0}, NEW set \in Settings,
         AddPersistentClass(r, n, set, minute), UNCHANGED <<valerts, minute>>
  PROVE  PInv'
<1>0. /\ RunnersTyped /\ DatabaseTyped /\ R(r) \in RunnerState /\ minute \in Nat
      /\ UNCHANGED <<valerts, minute, statedb, kept, meddled>> /\ n + 1 \in Nat \ {0}
      /\ set.class \in Keys /\ Safe(set.class)
  BY SettingsTyped, Typing DEF PInv, DatabaseTyped, AddPersistentClass
<1>1. CASE Preserved(set.class, minute)
  <2> DEFINE q == GoesOn(r, n + 1)
  <2>1. Turns(r, q)
    BY <1>1 DEF AddPersistentClass
  <2>2. q \in RunnerState /\ q.now = 0 /\ q.phase = IF r = 0 THEN "idle" ELSE "alerts"
    BY <1>0, GoingOn
  <2> HIDE DEF q
  <2>3. R(r)' = q
    BY <1>0, <2>1, <2>2, Turned
  <2>4. PutSafe(r)' /\ DeleteSafe(r)' /\ Loading(r)'
    BY <2>2, <2>3 DEF PutSafe, DeleteSafe, Loading, In
  <2>. QED
    BY <1>0, <2>1, <2>2, <2>4, QuietStep
<1>2. CASE ~Preserved(set.class, minute)
  <2> DEFINE q == [R(r) EXCEPT !.phase = "put", !.n = n, !.set = set, !.now = minute]
  <2>1. Turns(r, q)
    BY <1>2 DEF AddPersistentClass
  <2>2. q \in RunnerState /\ q.now = minute /\ q.phase = "put" /\ q.set = set
    BY <1>0 DEF RunnerState
  <2> HIDE DEF q
  <2>3. R(r)' = q
    BY <1>0, <2>1, <2>2, Turned
  <2>4. set.class \in meddled \/ kept[set.class] <= minute
    <3>. SUFFICES ASSUME set.class \notin meddled PROVE kept[set.class] <= minute
      OBVIOUS
    <3>1. kept[set.class] \in Int
      BY <1>0 DEF DatabaseTyped
    <3>2. CASE set.class \notin DOMAIN statedb
      BY <1>0, <3>1, <3>2 DEF Safe
    <3>3. CASE set.class \in DOMAIN statedb
      <4>1. /\ statedb[set.class].expires \in Nat
            /\ kept[set.class] <= statedb[set.class].expires
            /\ statedb[set.class].policy # "preserve" => kept[set.class] <= minute
        BY <1>0, <3>3 DEF Safe, DatabaseTyped
      <4>2. statedb[set.class].policy # "preserve" \/ ~(minute < statedb[set.class].expires)
        BY <1>2, <3>3 DEF Preserved
      <4>. QED
        BY <1>0, <3>1, <4>1, <4>2
    <3>. QED
      BY <3>2, <3>3
  <2>5. PutSafe(r)' /\ DeleteSafe(r)' /\ Loading(r)'
    BY <1>0, <2>2, <2>3, <2>4 DEF PutSafe, DeleteSafe, Loading, In
  <2>6. q.now <= minute
    BY <1>0, <2>2
  <2>. QED
    BY <1>0, <2>1, <2>2, <2>5, <2>6, QuietStep
<1>. QED
  BY <1>1, <1>2

(* The alerts that are left, if any are. *)
LEMMA NextAlert ==
  ASSUME PInv, NEW r \in Runner \cup {0}, NEW left, left \subseteq Alerts(r), left # {}
  PROVE  /\ Min(left) \in left /\ Min(left) \in DOMAIN valerts /\ Min(left) + 1 \in Nat \ {0}
         /\ Min(left) \in Nat \ {0}
         /\ valerts[Min(left)] \in Settings /\ valerts[Min(left)].class \in Keys
<1>1. valerts \in AlertLists /\ R(r).n \in Nat /\ R(r).n >= 1
  BY Typing DEF PInv, DatabaseTyped
<1>2. DOMAIN valerts = 1..Len(valerts) /\ Len(valerts) \in Nat
  BY <1>1, PersistenceAssumption
<1>3. \A k \in left : k \in DOMAIN valerts /\ k \in Nat /\ k >= 1
  BY <1>1, <1>2 DEF Alerts
<1>4. left \in SUBSET Nat
  BY <1>3
<1>5. PICK k : k = Min(left)
  OBVIOUS
<1>6. k \in left
  BY <1>4, <1>5, Least
<1>7. k \in DOMAIN valerts /\ k \in Nat /\ k >= 1
  BY <1>3, <1>6
<1>8. valerts[k] \in Settings
  BY <1>1, <1>7 DEF Settings, ToSet
<1>9. valerts[k].class \in Keys
  BY <1>8, SettingsTyped
<1>. QED
  BY <1>5, <1>6, <1>7, <1>8, <1>9

(* Classes are unset while the policy is read. *)
LEMMA Parsing ==
  ASSUME PInv, NEW r \in Runner \cup {0}, ParseAlert(r)
  PROVE  PInv'
<1> DEFINE left == {k \in Alerts(r) : valerts[k].policy = "unset"}
<1>0. /\ RunnersTyped /\ R(r) \in RunnerState /\ In(r, "parse") /\ r # 0 /\ minute \in Nat
      /\ UNCHANGED <<valerts, minute>> /\ R(r).now \in Nat /\ R(r).now <= minute
  <2>1. r # 0
    BY DEF PInv, RunnersTyped, ParseAlert, In
  <2>. QED
    BY <2>1, Typing DEF PInv, RunnersTyped, DatabaseTyped, ParseAlert
<1>1. CASE left = {}
  <2> DEFINE q == [R(r) EXCEPT !.phase = "alerts", !.n = 1, !.now = 0, !.due = {}]
  <2>1. Turns(r, q) /\ UNCHANGED <<statedb, kept, meddled>>
    BY <1>1 DEF ParseAlert
  <2>2. q \in RunnerState /\ q.now = 0 /\ q.phase = "alerts"
    <3>1. \A n \in Nat \ {0}, now \in Nat, due \in SUBSET Keys :
             LET b == [R(r) EXCEPT !.phase = "alerts", !.n = n, !.now = now, !.due = due]
             IN  b \in RunnerState /\ b.now = now /\ b.phase = "alerts"
      BY <1>0 DEF RunnerState
    <3>2. 1 \in Nat \ {0} /\ 0 \in Nat /\ {} \in SUBSET Keys
      OBVIOUS
    <3>. QED
      BY ZenonT(40), <3>1, <3>2
  <2> HIDE DEF q
  <2>3. R(r)' = q
    BY <1>0, <2>1, <2>2, Turned
  <2>4. PutSafe(r)' /\ DeleteSafe(r)' /\ Loading(r)'
    BY <2>2, <2>3 DEF PutSafe, DeleteSafe, Loading, In
  <2>. QED
    BY <1>0, <2>1, <2>2, <2>4, QuietStep
<1>2. CASE left # {}
  <2>1. PICK n : n = Min(left)
    OBVIOUS
  <2> DEFINE q == [R(r) EXCEPT !.n = n + 1, !.due = {}]
             c == valerts[n].class
  <2>2. DeletePersistentClass(r, c, q)
    BY <1>2, <2>1 DEF ParseAlert
  <2>3. n + 1 \in Nat \ {0} /\ c \in Keys
    <3>1. left \subseteq Alerts(r)
      OBVIOUS
    <3> HIDE DEF left
    <3>. QED
      BY <1>2, <2>1, <3>1, NextAlert
  <2>4. q \in RunnerState /\ q.phase = "parse" /\ q.now = R(r).now /\ q.due = {}
    BY <1>0, <2>3 DEF RunnerState, In
  <2> HIDE DEF q, c
  <2>. QED
    BY <1>0, <2>2, <2>3, <2>4, Unsetting
<1>. QED
  BY <1>1, <1>2

(* The alerts of the agent, one after the other. *)
LEMMA Alerting ==
  ASSUME PInv, NEW r \in Runner \cup {0}, DoAlerts(r)
  PROVE  PInv'
<1> DEFINE left == {k \in Alerts(r) : valerts[k].guard \in R(r).heap}
<1>0. /\ RunnersTyped /\ R(r) \in RunnerState /\ In(r, "alerts") /\ r # 0 /\ minute \in Nat
      /\ UNCHANGED <<valerts, minute>> /\ 0 <= minute
  <2>1. r # 0
    BY DEF PInv, RunnersTyped, DoAlerts, In
  <2>2. minute \in Nat
    BY DEF PInv, DatabaseTyped
  <2>. QED
    BY <2>1, <2>2, Typing DEF PInv, DoAlerts
<1>1. CASE left = {}
  <2>1. Turns(r, Nobody) /\ UNCHANGED <<statedb, kept, meddled>>
    BY <1>1 DEF DoAlerts
  <2>2. Nobody.now = 0 /\ Nobody.phase = "idle"
    BY DEF Nobody
  <2>3. R(r)' = Nobody
    BY <1>0, <2>1, NobodyTyped, Turned
  <2>4. PutSafe(r)' /\ DeleteSafe(r)' /\ Loading(r)'
    BY <2>2, <2>3 DEF PutSafe, DeleteSafe, Loading, In
  <2>. QED
    BY <1>0, <2>1, <2>2, <2>4, NobodyTyped, QuietStep
<1>2. CASE left # {}
  <2>1. PICK n : n = Min(left)
    OBVIOUS
  <2>2. n \in Nat \ {0} /\ n + 1 \in Nat \ {0} /\ valerts[n] \in Settings /\ valerts[n].class \in Keys
    <3>1. left \subseteq Alerts(r)
      OBVIOUS
    <3> HIDE DEF left
    <3>. QED
      BY <1>2, <2>1, <3>1, NextAlert
  <2> DEFINE q == GoesOn(r, n + 1)
  <2>3. q \in RunnerState /\ q.now = 0 /\ q.phase = "alerts"
    BY <1>0, <2>2, GoingOn
  <2>4. \/ DeletePersistentClass(r, valerts[n].class, q)
        \/ Turns(r, q) /\ UNCHANGED <<statedb, kept, meddled>>
        \/ AddPersistentClass(r, n, valerts[n], minute)
    BY <1>2, <2>1 DEF DoAlerts
  <2> HIDE DEF q
  <2>5. CASE DeletePersistentClass(r, valerts[n].class, q)
    BY <1>0, <2>2, <2>3, <2>5, Unsetting
  <2>6. CASE Turns(r, q) /\ UNCHANGED <<statedb, kept, meddled>>
    <3>1. R(r)' = q
      BY <1>0, <2>3, <2>6, Turned
    <3>2. PutSafe(r)' /\ DeleteSafe(r)' /\ Loading(r)'
      BY <2>3, <3>1 DEF PutSafe, DeleteSafe, Loading, In
    <3>. QED
      BY <1>0, <2>3, <2>6, <3>2, QuietStep
  <2>7. CASE AddPersistentClass(r, n, valerts[n], minute)
    BY <1>0, <2>2, <2>7, Adding
  <2>. QED
    BY <2>4, <2>5, <2>6, <2>7
<1>. QED
  BY <1>1, <1>2

(* Every step of every program, and of the clock, keeps PInv. *)
LEMMA StepPInv == PInv /\ [PersistenceNext]_stateVars => PInv'
<1>. SUFFICES ASSUME PInv, [PersistenceNext]_stateVars PROVE PInv'
  OBVIOUS
<1>1. ASSUME NEW r \in DOMAIN runner,
             \/ StartRunner(r) \/ PersistentClassesToHeap(r) \/ DeleteExpired(r)
             \/ ParseAlert(r) \/ DoAlerts(r) \/ Put(r)
      PROVE  PInv'
  <2>1. r \in Runner \cup {0}
    BY DEF PInv, RunnersTyped
  <2>. QED
    BY <1>1, <2>1, Starting, LoadingStep, Expiring, Parsing, Alerting, Putting
<1>2. CASE SetClasses
  <2>1. PICK c \in Anomalies :
           AddPersistentClass(0, 1, [class |-> c, ttl |-> Lifetime, policy |-> "preserve"], minute)
    BY <1>2 DEF SetClasses
  <2>2. [class |-> c, ttl |-> Lifetime, policy |-> "preserve"] \in Settings
    BY DEF Settings, Measured
  <2>3. UNCHANGED <<valerts, minute>> /\ 1 \in Nat \ {0} /\ 0 \in Runner \cup {0}
    BY <1>2 DEF SetClasses
  <2>. QED
    BY <2>1, <2>2, <2>3, Adding
<1>3. CASE Minute
  <2>1. /\ UNCHANGED <<valerts, statedb, runner, kept, meddled>> /\ minute' = minute + 1
        /\ minute \in Nat /\ minute' \in Nat
    BY <1>3 DEF Minute, PInv, DatabaseTyped
  <2>2. RunnersTyped'
    <3>1. \A r \in Runner \cup {0} : R(r).now \in Nat
      BY Typing DEF PInv
    <3>. QED
      BY <2>1, <3>1 DEF PInv, RunnersTyped, R, In
  <2>3. DatabaseTyped'
    BY <2>1 DEF PInv, DatabaseTyped
  <2>4. \A c \in Keys : Safe(c)'
    <3>1. \A c \in Keys : kept[c] \in Int
      BY DEF PInv, DatabaseTyped
    <3>. QED
      BY <2>1, <3>1 DEF PInv, Safe
  <2>5. \A r \in Runner \cup {0} : PutSafe(r)' /\ DeleteSafe(r)' /\ Loading(r)'
    BY <2>1 DEF PInv, PutSafe, DeleteSafe, Loading, Ahead, R, In
  <2>. QED
    BY <2>2, <2>3, <2>4, <2>5 DEF PInv
<1>4. CASE UNCHANGED stateVars
  BY <1>4 DEF stateVars, PInv, RunnersTyped, DatabaseTyped, Safe, PutSafe, DeleteSafe, Loading,
     Ahead, R, In
<1>. QED
  BY <1>1, <1>2, <1>3, <1>4 DEF PersistenceNext

(* At first the database is empty and nobody runs. *)
LEMMA InitPInv == PersistenceInit => PInv
<1>. SUFFICES ASSUME PersistenceInit PROVE PInv
  OBVIOUS
<1>1. runner = [r \in Runner \cup {0} |-> Nobody] /\ DOMAIN statedb = {} /\ minute = 0
      /\ kept = [c \in Keys |-> -1] /\ valerts \in AlertLists
  BY DEF PersistenceInit
<1>2. Nobody.phase = "idle" /\ Nobody.now = 0
  BY DEF Nobody
<1>3. RunnersTyped
  BY <1>1, <1>2, NobodyTyped DEF RunnersTyped, R, In
<1>4. DatabaseTyped
  BY <1>1 DEF DatabaseTyped
<1>5. \A c \in Keys : Safe(c)
  BY <1>1 DEF Safe
<1>6. \A r \in Runner \cup {0} : PutSafe(r) /\ DeleteSafe(r) /\ Loading(r)
  BY <1>1, <1>2 DEF PutSafe, DeleteSafe, Loading, R, In
<1>. QED
  BY <1>3, <1>4, <1>5, <1>6 DEF PInv

(* What is to be preserved is in the database, unless its time is over or   *)
(* two programs were at work at its record, whatever agents and cfenvd do   *)
(* in AddPersistentClass, DeletePersistentClass and                         *)
(* PersistentClassesToHeap, and in whatever order (state.c).                *)
THEOREM PersistenceInvariant == PersistenceSpec => []PInv
BY InitPInv, StepPInv, PTL DEF PersistenceSpec

(* An agent that has read the database (PersistentClassesToHeap) has every  *)
(* class in its heap that was to be preserved when it started and that      *)
(* nobody has unset since, although others set, renew and delete classes    *)
(* while it reads.                                                          *)
THEOREM PreservedIsRemembered == PersistenceSpec => []ClassesRemembered
<1>1. PInv => ClassesRemembered
  BY DEF PInv, Loading, ClassesRemembered, In
<1>. QED
  BY <1>1, PersistenceInvariant, PTL

---------------------------------------------------------------------------
(* Methods *)

(* Where an agent is in its loops over the methods and over the packages. *)
Sending == {"open", "close", "attach", "write"}
Fetching == {"load", "drop", "clear"}
AgentPhases == {"idle", "dispatch", "exec", "wait", "fetch"} \cup Sending \cup Fetching
(* What a child does from reading the argument to writing the result. *)
Before == {"remove", "loaded"}
After == {"ran", "close", "attach", "write"}
ChildState ==
    [pc : {"check", "count", "load"} \cup Before \cup After, name : Method, digest : Method,
     from : {"localhost", "peer", None}, arg : Nat \cup {None}]

MethodsTyped ==
    /\ order \in Directory
    /\ in \in [Package -> Nat \cup {None}]
    /\ out \in SUBSET (Method \ Local)
    /\ at \in [Agent -> AgentPhases]
    /\ todo \in [Agent -> SUBSET Nat]
    /\ returnfile \in [Agent -> Method \cup {None}]
    /\ child \in [Agent -> ChildState \cup {NoChild}]
    /\ calls \in [Method -> Nat] /\ result \in [Method -> Nat]
    /\ ran \in [Local -> Seq(Nat)] /\ orphans \in SUBSET Method

(* What an agent's list is a list of. *)
Listing(p) ==
    /\ at[p] \in Sending \cup {"dispatch"} => todo[p] \subseteq DOMAIN Promises
    /\ at[p] \in Fetching \cup {"exec", "wait", "fetch"} => todo[p] \subseteq DOMAIN order
    /\ at[p] \in Fetching \cup {"fetch"} =>
          \A n \in todo[p] : order[n].kind = "reply" /\ order[n].part = 0
    /\ at[p] \in Sending \cup Fetching \cup {"wait"} => todo[p] # {}

(* Nobody else works at the method an agent holds a lock of. *)
Excluded(p, q) ==
    /\ at[p] \in Sending /\ at[q] \in Sending => CallAt(p) # CallAt(q)
    /\ at[p] = "wait" /\ at[q] = "wait" => FileAt(p).m # FileAt(q).m
(* An agent waits for its child, unless it was killed. *)
Waited(p) ==
    child[p] # NoChild =>
        /\ (at[p] = "wait" /\ child[p].digest = FileAt(p).m) \/ child[p].digest \in orphans
        /\ child[p].pc \in {"load"} \cup Before \cup After => child[p].name = child[p].digest
        /\ child[p].pc \in Before \cup After => child[p].arg \in Nat
        /\ child[p].pc # "check" => child[p].from \in {"localhost", "peer"}
        /\ child[p].pc \in After \ {"ran"} => child[p].from = "localhost"

(* The peer does not answer calls that were not sent to it. *)
Unasked ==
    \A f \in Package : f.m \in Local /\ f.kind = "reply" /\ f.from = "peer" => in[f] = None

Argument(m) == in[Attachment(CallOf(m))]
Result(m) == in[Attachment(ReplyOf(m))]
Serves(p, m) == child[p].name = m /\ child[p].from = "localhost"
New(m, a) == a = 0 \/ \A i \in DOMAIN ran[m] : ran[m][i] < a
Latest(m, a) ==
    /\ \E i \in DOMAIN ran[m] : ran[m][i] = a
    /\ a = 0 \/ \A i \in DOMAIN ran[m] : ran[m][i] <= a

(* Arguments are run in the order in which they are written. *)
RanInOrder(m) ==
    /\ \A i, j \in DOMAIN ran[m] :
          i < j /\ ran[m][i] # 0 /\ ran[m][j] # 0 => ran[m][i] < ran[m][j]
    /\ \A i \in DOMAIN ran[m] : ran[m][i] <= calls[m]
    /\ Argument(m) # None => Argument(m) <= calls[m] /\ New(m, Argument(m))
(* What an agent is about to write is newer than all that was. *)
Writing(p, m) ==
    at[p] \in Sending \ {"open"} /\ CallAt(p) = m =>
        /\ calls[m] > 0 /\ New(m, calls[m])
        /\ Argument(m) # None => Argument(m) < calls[m]
(* What a child holds is older than what there still is, *)
Held(p, m) ==
    Serves(p, m) =>
        /\ child[p].pc \in Before => child[p].arg <= calls[m] /\ New(m, child[p].arg)
        /\ child[p].pc = "loaded" /\ Argument(m) \notin {None, 0} => child[p].arg < Argument(m)
        /\ child[p].pc \in After => Latest(m, child[p].arg)
(* and older than what is being written. *)
Older(p, q, m) ==
    Serves(p, m) /\ child[p].pc \in Before /\ at[q] \in Sending \ {"open"} /\ CallAt(q) = m =>
        child[p].arg < calls[m]
(* Results are of what was run, and the variable is behind the file. *)
Answered(m) ==
    /\ Result(m) \notin {None, 0} =>
          Result(m) >= result[m] /\ \E i \in DOMAIN ran[m] : ran[m][i] = Result(m)
    /\ result[m] # 0 => \E i \in DOMAIN ran[m] : ran[m][i] = result[m]

Numbered(m) ==
    /\ RanInOrder(m) /\ Answered(m)
    /\ \A p \in Agent : Writing(p, m) /\ Held(p, m) /\ \A q \in Agent : Older(p, q, m)

MInv ==
    /\ MethodsTyped /\ Unasked
    /\ \A p \in Agent : Listing(p) /\ Waited(p) /\ \A q \in Agent \ {p} : Excluded(p, q)
    /\ \A m \in Local \ orphans : Numbered(m)

(* The packages of a method, and their attachments. *)
LEMMA Packages ==
  /\ \A f \in Package :
        /\ f.m \in Method /\ f.kind \in {"call", "reply"} /\ f.from \in {"localhost", "peer"}
        /\ f.part \in {0, 1}
        /\ Attachment(f) \in Package /\ Attachment(f).m = f.m /\ Attachment(f).kind = f.kind
        /\ Attachment(f).from = f.from /\ Attachment(f).part = 1
  /\ \A m \in Method :
        /\ CallOf(m) \in Package /\ CallOf(m).m = m /\ CallOf(m).kind = "call"
        /\ CallOf(m).from = "localhost" /\ CallOf(m).part = 0
        /\ ReplyOf(m) \in Package /\ ReplyOf(m).m = m /\ ReplyOf(m).kind = "reply"
        /\ ReplyOf(m).part = 0 /\ (m \in Local => ReplyOf(m).from = "localhost")
BY DEF Package, Attachment, CallOf, ReplyOf

(* A package is known by its fields. *)
LEMMA SamePackage ==
  ASSUME NEW f \in Package, NEW g \in Package, f.m = g.m, f.kind = g.kind, f.from = g.from,
         f.part = g.part
  PROVE  f = g
BY DEF Package

(* The file of the argument of a call, and that of the result of a reply. *)
LEMMA Attached ==
  \A m \in Method :
     /\ Attachment(CallOf(m)) \in Package /\ Attachment(CallOf(m)).m = m
     /\ Attachment(CallOf(m)).kind = "call" /\ Attachment(CallOf(m)).part = 1
     /\ Attachment(CallOf(m)).from = "localhost"
     /\ Attachment(ReplyOf(m)) \in Package /\ Attachment(ReplyOf(m)).m = m
     /\ Attachment(ReplyOf(m)).kind = "reply" /\ Attachment(ReplyOf(m)).part = 1
     /\ (m \in Local => Attachment(ReplyOf(m)).from = "localhost")
BY Packages

(* Methods of this host are methods of the policy. *)
LEMMA LocalMethods == \A m \in Local : m \in Method
BY MethodsAssumption

(* What an agent has come to. *)
LEMMA Heads ==
  ASSUME MethodsTyped, NEW p \in Agent, Listing(p), todo[p] # {}
  PROVE  /\ Min(todo[p]) \in todo[p]
         /\ at[p] \in Sending \cup {"dispatch"} => CallAt(p) \in Method
         /\ at[p] \in Fetching \cup {"exec", "wait", "fetch"} => FileAt(p) \in Package
         /\ at[p] \in Fetching \cup {"fetch"} => FileAt(p).kind = "reply" /\ FileAt(p).part = 0
<1>1. PICK n : n = Min(todo[p])
  OBVIOUS
<1>2. n \in todo[p]
  BY <1>1, Least DEF MethodsTyped
<1>3. CallAt(p) = Promises[n] /\ FileAt(p) = order[n]
  BY <1>1 DEF CallAt, FileAt
<1>4. n \in DOMAIN Promises => Promises[n] \in Method
  BY MethodsAssumption DEF Method, ToSet
<1>5. n \in DOMAIN order => order[n] \in Package
  BY MethodsAssumption DEF MethodsTyped, ToSet
<1>. QED
  BY <1>1, <1>2, <1>3, <1>4, <1>5 DEF Listing

(* What is written, and who writes it, stays, but for what is removed.       *)
LEMMA Steady ==
  ASSUME MInv, orphans \subseteq orphans', NEW m \in Local \ orphans',
         ran'[m] = ran[m], calls'[m] = calls[m], result'[m] = result[m],
         Argument(m)' \in {Argument(m), None, 0}, Result(m)' \in {Result(m), None, 0},
         \A p \in Agent : at'[p] \in Sending \ {"open"} /\ CallAt(p)' = m =>
             at[p] \in Sending \ {"open"} /\ CallAt(p) = m,
         \A p \in Agent : Serves(p, m)' /\ child'[p].pc \in Before \cup After =>
             /\ Serves(p, m) /\ child'[p].arg = child[p].arg
             /\ child'[p].pc \in Before => child[p].pc \in Before
             /\ child'[p].pc = "loaded" => child[p].pc = "loaded" \/ Argument(m)' = None
             /\ child'[p].pc \in After => child[p].pc \in After
  PROVE  Numbered(m)'
<1>1. m \in Method /\ m \notin orphans /\ Numbered(m)
  BY LocalMethods DEF MInv
<1>2. calls[m] \in Nat /\ ran[m] \in Seq(Nat) /\ result[m] \in Nat
  BY <1>1 DEF MInv, MethodsTyped
<1>3. None \notin Nat /\ 0 \in Nat
  BY MethodsAssumption
<1>4. RanInOrder(m)'
  BY <1>1, <1>2, <1>3 DEF Numbered, RanInOrder, New
<1>5. Answered(m)'
  BY <1>1, <1>3 DEF Numbered, Answered
<1>6. ASSUME NEW p \in Agent PROVE Writing(p, m)'
  BY <1>1, <1>2, <1>3 DEF Numbered, Writing, New
<1>7. ASSUME NEW p \in Agent PROVE Held(p, m)'
  <2>1. Held(p, m)
    BY <1>1 DEF Numbered
  <2>. SUFFICES ASSUME Serves(p, m)'
                PROVE  /\ child'[p].pc \in Before => child'[p].arg <= calls[m] /\ New(m, child'[p].arg)
                       /\ child'[p].pc = "loaded" /\ Argument(m)' \notin {None, 0} =>
                             child'[p].arg < Argument(m)'
                       /\ child'[p].pc \in After => Latest(m, child'[p].arg)
    BY DEF Held, New, Latest
  <2>. QED
    BY <2>1 DEF Held, Before, After
<1>8. ASSUME NEW p \in Agent, NEW q \in Agent PROVE Older(p, q, m)'
  BY <1>1 DEF Numbered, Older
<1>. QED
  BY <1>4, <1>5, <1>6, <1>7, <1>8 DEF Numbered

(* Excluding is mutual. *)
LEMMA Mutual ==
  ASSUME MInv, NEW p \in Agent, orphans \subseteq orphans', order' = order,
         \A q \in Agent \ {p} : at'[q] = at[q] /\ todo'[q] = todo[q] /\ child'[q] = child[q],
         Listing(p)', Waited(p)', \A q \in Agent \ {p} : Excluded(p, q)'
  PROVE  \A q \in Agent : Listing(q)' /\ Waited(q)' /\ \A r \in Agent \ {q} : Excluded(q, r)'
<1>1. ASSUME NEW q \in Agent \ {p} PROVE Listing(q)' /\ Waited(q)'
  BY <1>1 DEF MInv, Listing, Waited, FileAt
<1>2. ASSUME NEW q \in Agent \ {p}, NEW r \in Agent \ {p, q} PROVE Excluded(q, r)'
  BY <1>2 DEF MInv, Excluded, FileAt, CallAt
<1>3. ASSUME NEW q \in Agent \ {p} PROVE Excluded(q, p)'
  <2>1. Excluded(p, q)'
    OBVIOUS
  <2>. QED
    BY <2>1 DEF Excluded
<1>. QED
  BY <1>1, <1>2, <1>3

(* A step of an agent that comes to hold no lock and writes no number. *)
LEMMA AgentOnly ==
  ASSUME MInv, NEW p \in Agent, MethodsTyped', Unasked', order' = order, child' = child,
         orphans' = orphans, ran' = ran, result' = result, \A m \in Local : calls'[m] = calls[m],
         \A q \in Agent \ {p} : at'[q] = at[q] /\ todo'[q] = todo[q],
         at'[p] \in Sending => at[p] \in Sending /\ todo'[p] = todo[p],
         at'[p] \in Sending \ {"open"} => at[p] \in Sending \ {"open"},
         at'[p] # "wait", at[p] # "wait" \/ child[p] = NoChild, Listing(p)',
         \A m \in Local : /\ Argument(m)' \in {Argument(m), None, 0}
                          /\ Result(m)' \in {Result(m), None, 0}
  PROVE  MInv'
<1>1. Waited(p)'
  BY DEF MInv, Waited
<1>2. \A q \in Agent \ {p} : Excluded(p, q)'
  BY DEF MInv, Excluded, CallAt
<1>3. \A q \in Agent : Listing(q)' /\ Waited(q)' /\ \A r \in Agent \ {q} : Excluded(q, r)'
  BY <1>1, <1>2, Mutual
<1>4. ASSUME NEW m \in Local \ orphans' PROVE Numbered(m)'
  <2>1. \A q \in Agent : at'[q] \in Sending \ {"open"} /\ CallAt(q)' = m =>
           at[q] \in Sending \ {"open"} /\ CallAt(q) = m
    BY DEF CallAt
  <2>2. \A q \in Agent : Serves(q, m)' <=> Serves(q, m)
    BY DEF Serves
  <2>. QED
    BY <2>1, <2>2, Steady
<1>. QED
  BY <1>3, <1>4 DEF MInv

(* A step of a child that reads and runs nothing and writes no result. *)
LEMMA ChildOnly ==
  ASSUME MInv, NEW p \in Agent, MethodsTyped', Unasked', order' = order, at' = at, todo' = todo,
         orphans' = orphans, ran' = ran, result' = result, calls' = calls,
         \A q \in Agent \ {p} : child'[q] = child[q], Waited(p)',
         \A m \in Local \ orphans :
            /\ Argument(m)' \in {Argument(m), None, 0} /\ Result(m)' \in {Result(m), None, 0}
            /\ Serves(p, m)' /\ child'[p].pc \in Before \cup After =>
                  /\ Serves(p, m) /\ child'[p].arg = child[p].arg
                  /\ child'[p].pc \in Before => child[p].pc \in Before
                  /\ child'[p].pc = "loaded" => child[p].pc = "loaded" \/ Argument(m)' = None
                  /\ child'[p].pc \in After => child[p].pc \in After
  PROVE  MInv'
<1>1. Listing(p)'
  BY DEF MInv, Listing
<1>2. \A q \in Agent \ {p} : Excluded(p, q)'
  BY DEF MInv, Excluded, CallAt, FileAt
<1>3. \A q \in Agent : Listing(q)' /\ Waited(q)' /\ \A r \in Agent \ {q} : Excluded(q, r)'
  BY <1>1, <1>2, Mutual
<1>4. ASSUME NEW m \in Local \ orphans' PROVE Numbered(m)'
  <2>1. \A q \in Agent : at'[q] \in Sending \ {"open"} /\ CallAt(q)' = m =>
           at[q] \in Sending \ {"open"} /\ CallAt(q) = m
    BY DEF CallAt
  <2>2. \A q \in Agent \ {p} : (Serves(q, m)' <=> Serves(q, m)) /\ child'[q] = child[q]
    BY DEF Serves
  <2>3. \A q \in Agent : Serves(q, m)' /\ child'[q].pc \in Before \cup After =>
             /\ Serves(q, m) /\ child'[q].arg = child[q].arg
             /\ child'[q].pc \in Before => child[q].pc \in Before
             /\ child'[q].pc = "loaded" => child[q].pc = "loaded" \/ Argument(m)' = None
             /\ child'[q].pc \in After => child[q].pc \in After
    BY <2>2
  <2>. QED
    BY <2>1, <2>3, Steady
<1>. QED
  BY <1>3, <1>4 DEF MInv

(* Removing files. *)
LEMMA FilesRemoved ==
  ASSUME MInv, NEW fs, in' = Without(fs)
  PROVE  /\ in' \in [Package -> Nat \cup {None}] /\ Unasked'
         /\ \A f \in Package : in'[f] = (IF f \in fs THEN None ELSE in[f])
         /\ \A m \in Local : /\ Argument(m)' \in {Argument(m), None, 0}
                             /\ Result(m)' \in {Result(m), None, 0}
<1>1. /\ in' \in [Package -> Nat \cup {None}]
      /\ \A f \in Package : in'[f] = (IF f \in fs THEN None ELSE in[f])
  BY DEF MInv, MethodsTyped, Without
<1>2. Unasked'
  BY <1>1 DEF MInv, Unasked
<1>3. ASSUME NEW m \in Local
      PROVE  /\ Argument(m)' \in {Argument(m), None, 0}
             /\ Result(m)' \in {Result(m), None, 0}
  BY <1>1, LocalMethods, Attached DEF Argument, Result
<1>. QED
  BY <1>1, <1>2, <1>3

(* Nothing happens to the files. *)
LEMMA FilesStay ==
  ASSUME MInv, in' = in
  PROVE  /\ in' \in [Package -> Nat \cup {None}] /\ Unasked'
         /\ \A m \in Local : Argument(m)' = Argument(m) /\ Result(m)' = Result(m)
BY DEF MInv, MethodsTyped, Unasked, Argument, Result

(* Writing a file. *)
LEMMA FileWritten ==
  ASSUME MInv, NEW g \in Package, NEW v \in Nat \cup {None}, in' = [in EXCEPT ![g] = v],
         g.kind = "call" \/ g.from = "localhost" \/ g.m \notin Local
  PROVE  /\ in' \in [Package -> Nat \cup {None}] /\ Unasked'
         /\ \A f \in Package : in'[f] = (IF f = g THEN v ELSE in[f])
         /\ \A m \in Local : g # Attachment(CallOf(m)) => Argument(m)' = Argument(m)
         /\ \A m \in Local : g # Attachment(ReplyOf(m)) => Result(m)' = Result(m)
<1>1. /\ in' \in [Package -> Nat \cup {None}]
      /\ \A f \in Package : in'[f] = (IF f = g THEN v ELSE in[f])
  BY DEF MInv, MethodsTyped
<1>2. Unasked'
  BY <1>1 DEF MInv, Unasked
<1>. QED
  BY <1>1, <1>2, LocalMethods, Attached DEF Argument, Result

(* An agent goes from one place to another, *)
LEMMA Going ==
  ASSUME MInv, NEW p \in Agent, NEW from, NEW to \in AgentPhases, Goes(p, from, to)
  PROVE  /\ at' \in [Agent -> AgentPhases] /\ at[p] = from /\ at'[p] = to
         /\ \A q \in Agent \ {p} : at'[q] = at[q]
BY DEF MInv, MethodsTyped, Goes

(* gets a list, *)
LEMMA Listed ==
  ASSUME MInv, NEW p \in Agent, NEW S \in SUBSET Nat, todo' = [todo EXCEPT ![p] = S]
  PROVE  /\ todo' \in [Agent -> SUBSET Nat] /\ todo'[p] = S
         /\ \A q \in Agent \ {p} : todo'[q] = todo[q]
BY DEF MInv, MethodsTyped

(* or has done what stands at the head of it. *)
LEMMA OneDone ==
  ASSUME MInv, NEW p \in Agent, Done(p)
  PROVE  /\ todo' \in [Agent -> SUBSET Nat] /\ todo'[p] \subseteq todo[p]
         /\ \A q \in Agent \ {p} : todo'[q] = todo[q]
BY DEF MInv, MethodsTyped, Done

(* A run begins with all methods of the policy. *)
LEMMA BeginningMethods ==
  ASSUME MInv, NEW p \in Agent, BeginMethods(p), UNCHANGED order
  PROVE  MInv'
<1>1. /\ at[p] = "idle" /\ child[p] = NoChild /\ Goes(p, "idle", "dispatch")
      /\ todo' = [todo EXCEPT ![p] = DOMAIN Promises]
      /\ returnfile' = [returnfile EXCEPT ![p] = None]
      /\ UNCHANGED <<in, out, child, calls, result, ran, orphans, order>>
  BY DEF BeginMethods, Busy
<1>2. /\ at' \in [Agent -> AgentPhases] /\ at'[p] = "dispatch"
      /\ \A q \in Agent \ {p} : at'[q] = at[q]
  BY <1>1, Going DEF AgentPhases
<1>3. DOMAIN Promises \in SUBSET Nat
  BY MethodsAssumption
<1>4. /\ todo' \in [Agent -> SUBSET Nat] /\ todo'[p] = DOMAIN Promises
      /\ \A q \in Agent \ {p} : todo'[q] = todo[q]
  BY <1>1, <1>3, Listed
<1>5. MethodsTyped' /\ Unasked'
  BY <1>1, <1>2, <1>4, FilesStay DEF MInv, MethodsTyped
<1>6. Listing(p)'
  BY <1>2, <1>4 DEF Listing, Sending, Fetching
<1>. QED
  BY <1>1, <1>2, <1>4, <1>5, <1>6, FilesStay, AgentOnly DEF Sending

(* GetLock refuses. *)
LEMMA BeingRefused ==
  ASSUME MInv, NEW p \in Agent, Refused(p), UNCHANGED order
  PROVE  MInv'
<1>1. /\ at[p] \in {"dispatch", "exec", "fetch"} /\ todo[p] # {} /\ Done(p)
      /\ UNCHANGED <<in, out, at, child, calls, result, ran, orphans, order>>
  BY DEF Refused
<1>2. /\ todo' \in [Agent -> SUBSET Nat] /\ todo'[p] \subseteq todo[p]
      /\ \A q \in Agent \ {p} : todo'[q] = todo[q]
  BY <1>1, OneDone
<1>3. at[p] = "exec" => FileAt(p).m \in Method
  <2>1. at[p] = "exec" => FileAt(p) \in Package
    BY <1>1, Heads DEF MInv
  <2>. QED
    BY <2>1, Packages
<1>4. returnfile' \in [Agent -> Method \cup {None}]
  BY <1>3 DEF MInv, MethodsTyped, Refused
<1>5. MethodsTyped' /\ Unasked'
  BY <1>1, <1>2, <1>4, FilesStay DEF MInv, MethodsTyped
<1>6. Listing(p)'
  BY <1>1, <1>2 DEF MInv, Listing, Sending, Fetching
<1>. QED
  BY <1>1, <1>2, <1>5, <1>6, FilesStay, AgentOnly DEF Sending

(* The package of a call is closed, or the file of its argument opened. *)
LEMMA Closing ==
  ASSUME MInv, NEW p \in Agent, CloseCall(p) \/ AttachArgument(p), UNCHANGED order
  PROVE  MInv'
<1> DEFINE to == IF at[p] = "close" THEN "attach" ELSE "write"
<1>a. PICK g : g = IF at[p] = "close" THEN CallOf(CallAt(p)) ELSE Attachment(CallOf(CallAt(p)))
  OBVIOUS
<1>b. PICK v : v = IF at[p] = "close" /\ in[g] # None THEN 1 ELSE IF at[p] = "close" THEN None ELSE 0
  OBVIOUS
<1>1. /\ at[p] \in {"close", "attach"} /\ Goes(p, at[p], to)
      /\ in' = [in EXCEPT ![g] = v]
      /\ UNCHANGED <<out, todo, returnfile, child, calls, result, ran, orphans, order>>
  BY <1>a, <1>b DEF CloseCall, AttachArgument, Goes, agentFrame, MInv, MethodsTyped
<1>2. /\ at' \in [Agent -> AgentPhases] /\ at'[p] \in Sending \ {"open"}
      /\ \A q \in Agent \ {p} : at'[q] = at[q]
  BY <1>1, Going DEF AgentPhases, Sending
<1>3. todo[p] # {} /\ todo[p] \subseteq DOMAIN Promises /\ CallAt(p) \in Method
  BY <1>1, Heads DEF MInv, Listing, Sending
<1>4. g \in Package /\ g.kind = "call" /\ (g.part = 0 \/ v = 0) /\ v \in Nat \cup {None}
  BY <1>1, <1>3, <1>a, <1>b, Packages
<1>5. /\ in' \in [Package -> Nat \cup {None}] /\ Unasked'
      /\ \A f \in Package : in'[f] = (IF f = g THEN v ELSE in[f])
  BY <1>1, <1>4, FileWritten
<1>6. ASSUME NEW m \in Local
      PROVE  /\ Argument(m)' \in {Argument(m), None, 0}
             /\ Result(m)' \in {Result(m), None, 0}
  BY <1>4, <1>5, Attached, LocalMethods DEF Argument, Result
<1>7. MethodsTyped'
  BY <1>1, <1>2, <1>5 DEF MInv, MethodsTyped
<1>8. Listing(p)'
  BY <1>1, <1>2, <1>3 DEF Listing, Sending, Fetching
<1>. QED
  BY <1>1, <1>2, <1>5, <1>6, <1>7, <1>8, AgentOnly DEF Sending

(* The lists of packages. *)
LEMMA Listings ==
  ASSUME MInv, NEW p \in Agent, NEW kind, NEW from, NEW to \in AgentPhases, Goes(p, from, to),
         List(p, kind), UNCHANGED <<order, out, returnfile, child, calls, result, agentFrame>>,
         <<from, to, kind>> \in {<<"dispatch", "exec", "call">>, <<"exec", "fetch", "reply">>}
  PROVE  MInv'
<1>1. /\ at' \in [Agent -> AgentPhases] /\ at[p] = from /\ at'[p] = to
      /\ \A q \in Agent \ {p} : at'[q] = at[q]
  BY Going
<1>2. PICK S : S = {n \in DOMAIN order : order[n] \in Pending(kind) /\ Approved(order[n])}
  OBVIOUS
<1>3. DOMAIN order \subseteq Nat
  BY MethodsAssumption DEF MInv, MethodsTyped
<1>4. S \in SUBSET Nat /\ S \subseteq DOMAIN order /\ todo' = [todo EXCEPT ![p] = S]
  BY <1>2, <1>3 DEF List
<1>5. /\ todo' \in [Agent -> SUBSET Nat] /\ todo'[p] = S
      /\ \A q \in Agent \ {p} : todo'[q] = todo[q]
  BY <1>4, Listed
<1>6. \A n \in S : order[n].kind = kind /\ order[n].part = 0
  BY <1>2 DEF Pending
<1>7. in' = Without({f \in Pending(kind) : ~Approved(f)})
  BY DEF List
<1>8. /\ in' \in [Package -> Nat \cup {None}] /\ Unasked'
      /\ \A m \in Local : /\ Argument(m)' \in {Argument(m), None, 0}
                          /\ Result(m)' \in {Result(m), None, 0}
  BY <1>7, FilesRemoved
<1>9. UNCHANGED <<out, returnfile, child, calls, result, ran, orphans, order>>
  BY DEF agentFrame
<1>10. MethodsTyped'
  BY <1>1, <1>5, <1>8, <1>9 DEF MInv, MethodsTyped
<1>11. Listing(p)'
  BY <1>1, <1>4, <1>5, <1>6, <1>9 DEF Listing, Sending, Fetching
<1>. QED
  BY <1>1, <1>5, <1>8, <1>9, <1>10, <1>11, AgentOnly DEF Sending

(* The two loops over packages begin. *)
LEMMA ListingPackages ==
  ASSUME MInv, NEW p \in Agent, ListCalls(p) \/ ListReplies(p), UNCHANGED order
  PROVE  MInv'
<1>1. CASE ListCalls(p)
  BY <1>1, Listings DEF ListCalls, AgentPhases, agentFrame
<1>2. CASE ListReplies(p)
  BY <1>2, Listings DEF ListReplies, AgentPhases, agentFrame
<1>. QED
  BY <1>1, <1>2

(* The child has ended, or there is nothing to fetch. *)
LEMMA Ending ==
  ASSUME MInv, NEW p \in Agent, UNCHANGED order,
         ChildEnded(p) \/ EndMethods(p) \/ Fetch(p)
  PROVE  MInv'
<1>1. /\ UNCHANGED <<in, out, returnfile, child, calls, result, ran, orphans, order>>
      /\ \/ Goes(p, "wait", "exec") /\ Done(p) /\ child[p] = NoChild
         \/ Goes(p, "fetch", "idle") /\ UNCHANGED todo
         \/ Goes(p, "fetch", "load") /\ UNCHANGED todo /\ todo[p] # {}
         \/ Goes(p, "fetch", "fetch") /\ Done(p)
  BY DEF ChildEnded, EndMethods, Fetch, agentFrame
<1>2. /\ at' \in [Agent -> AgentPhases] /\ at[p] \in {"wait", "fetch"}
      /\ at[p] = "wait" => child[p] = NoChild
      /\ at'[p] \in {"exec", "idle", "load", "fetch"}
      /\ (at'[p] = "exec") <=> (at[p] = "wait")
      /\ at'[p] = "load" => todo'[p] # {}
      /\ \A q \in Agent \ {p} : at'[q] = at[q]
  BY <1>1, Going DEF AgentPhases, Fetching
<1>3. /\ todo' \in [Agent -> SUBSET Nat] /\ todo'[p] \subseteq todo[p]
      /\ \A q \in Agent \ {p} : todo'[q] = todo[q]
  BY <1>1, OneDone DEF MInv, MethodsTyped
<1>4. MethodsTyped' /\ Unasked'
  BY <1>1, <1>2, <1>3, FilesStay DEF MInv, MethodsTyped
<1>5. Listing(p)'
  <2>1. todo[p] \subseteq DOMAIN order
    BY <1>2 DEF MInv, Listing
  <2>2. at[p] = "fetch" => \A n \in todo[p] : order[n].kind = "reply" /\ order[n].part = 0
    BY DEF MInv, Listing
  <2>. QED
    BY <1>1, <1>2, <1>3, <2>1, <2>2 DEF Listing, Sending, Fetching
<1>. QED
  BY <1>1, <1>2, <1>3, <1>4, <1>5, FilesStay, AgentOnly DEF Sending

(* The answer is taken, and removed. *)
LEMMA Removing ==
  ASSUME MInv, NEW p \in Agent, UNCHANGED order, RemoveResult(p) \/ RemoveReply(p)
  PROVE  MInv'
<1>1. /\ UNCHANGED <<out, returnfile, child, calls, result, ran, orphans, order>>
      /\ \E fs : in' = Without(fs)
      /\ \/ Goes(p, "drop", "clear") /\ UNCHANGED todo
         \/ Goes(p, "clear", "fetch") /\ Done(p)
  BY DEF RemoveResult, RemoveReply, agentFrame
<1>2. /\ at' \in [Agent -> AgentPhases] /\ at[p] \in Fetching /\ at'[p] \in {"clear", "fetch"}
      /\ at'[p] = "clear" => UNCHANGED todo
      /\ \A q \in Agent \ {p} : at'[q] = at[q]
  BY <1>1, Going DEF AgentPhases, Fetching
<1>3. /\ todo' \in [Agent -> SUBSET Nat] /\ todo'[p] \subseteq todo[p]
      /\ \A q \in Agent \ {p} : todo'[q] = todo[q]
  BY <1>1, OneDone DEF MInv, MethodsTyped
<1>4. /\ in' \in [Package -> Nat \cup {None}] /\ Unasked'
      /\ \A m \in Local : /\ Argument(m)' \in {Argument(m), None, 0}
                          /\ Result(m)' \in {Result(m), None, 0}
  BY <1>1, FilesRemoved
<1>5. MethodsTyped'
  BY <1>1, <1>2, <1>3, <1>4 DEF MInv, MethodsTyped
<1>6. Listing(p)'
  BY <1>1, <1>2, <1>3 DEF MInv, Listing, Sending, Fetching
<1>. QED
  BY <1>1, <1>2, <1>3, <1>4, <1>5, <1>6, AgentOnly DEF Sending, Fetching

(* The lock of the sending is got. *)
LEMMA Dispatching ==
  ASSUME MInv, NEW p \in Agent, UNCHANGED order, Dispatch(p)
  PROVE  MInv'
<1>1. /\ UNCHANGED <<in, out, todo, returnfile, child, calls, result, ran, orphans, order>>
      /\ Goes(p, "dispatch", "open") /\ todo[p] # {}
  BY DEF Dispatch, agentFrame
<1>2. /\ at' \in [Agent -> AgentPhases] /\ at[p] = "dispatch" /\ at'[p] = "open"
      /\ \A q \in Agent \ {p} : at'[q] = at[q]
  BY <1>1, Going DEF AgentPhases, Sending
<1>3. \A q \in Agent \ {p} : at[q] \in Sending => CallAt(q) # CallAt(p)
  BY DEF Dispatch, LockFree, Holding, MethodAt, Sending
<1>4. MethodsTyped' /\ Unasked'
  BY <1>1, <1>2, FilesStay DEF MInv, MethodsTyped
<1>5. Listing(p)' /\ Waited(p)' /\ \A q \in Agent \ {p} : Excluded(p, q)'
  <2>1. Listing(p)' /\ Waited(p)'
    BY <1>1, <1>2 DEF MInv, Listing, Waited, Sending, Fetching
  <2>2. \A q \in Agent \ {p} : Excluded(p, q)'
    BY <1>1, <1>2, <1>3 DEF Excluded, CallAt
  <2>. QED
    BY <2>1, <2>2
<1>6. \A q \in Agent : Listing(q)' /\ Waited(q)' /\ \A r \in Agent \ {q} : Excluded(q, r)'
  BY <1>1, <1>2, <1>5, Mutual
<1>7. ASSUME NEW m \in Local \ orphans' PROVE Numbered(m)'
  <2>1. \A q \in Agent : at'[q] \in Sending \ {"open"} /\ CallAt(q)' = m =>
           at[q] \in Sending \ {"open"} /\ CallAt(q) = m
    BY <1>1, <1>2 DEF CallAt
  <2>2. \A q \in Agent : Serves(q, m)' <=> Serves(q, m)
    BY <1>1 DEF Serves
  <2>. QED
    BY <1>1, <2>1, <2>2, FilesStay, Steady
<1>. QED
  BY <1>4, <1>6, <1>7 DEF MInv

(* A method of another host is called. *)
LEMMA CallingPeer ==
  ASSUME MInv, NEW p \in Agent, UNCHANGED order, OpenCall(p), CallAt(p) \notin Local
  PROVE  MInv'
<1>1. /\ UNCHANGED <<in, returnfile, child, result, ran, orphans, order>>
      /\ calls' = [calls EXCEPT ![CallAt(p)] = @ + 1] /\ out' = out \cup {CallAt(p)}
      /\ Goes(p, "open", "dispatch") /\ Done(p)
  BY DEF OpenCall, agentFrame, Goes
<1>2. /\ at' \in [Agent -> AgentPhases] /\ at[p] = "open" /\ at'[p] = "dispatch"
      /\ \A q \in Agent \ {p} : at'[q] = at[q]
  BY <1>1, Going DEF AgentPhases, Sending
<1>3. /\ todo' \in [Agent -> SUBSET Nat] /\ todo'[p] \subseteq todo[p]
      /\ \A q \in Agent \ {p} : todo'[q] = todo[q]
  BY <1>1, OneDone
<1>4. CallAt(p) \in Method
  BY <1>2, Heads DEF MInv, Listing, Sending
<1>5. /\ calls' \in [Method -> Nat] /\ \A m \in Local : calls'[m] = calls[m]
  BY <1>1, <1>4, LocalMethods DEF MInv, MethodsTyped
<1>6. MethodsTyped' /\ Unasked'
  BY <1>1, <1>2, <1>3, <1>4, <1>5, FilesStay DEF MInv, MethodsTyped
<1>7. Listing(p)'
  BY <1>2, <1>3 DEF MInv, Listing, Sending, Fetching
<1>. QED
  BY <1>1, <1>2, <1>3, <1>5, <1>6, <1>7, FilesStay, AgentOnly DEF Sending

(* A method of this host is called: the number of the call is new. *)
LEMMA Calling ==
  ASSUME MInv, NEW p \in Agent, UNCHANGED order, OpenCall(p), CallAt(p) \in Local
  PROVE  MInv'
<1>a. PICK m : m = CallAt(p)
  OBVIOUS
<1>1. /\ UNCHANGED <<out, todo, returnfile, child, result, ran, orphans, order>>
      /\ calls' = [calls EXCEPT ![m] = @ + 1]
      /\ Goes(p, "open", "close") /\ in' = [in EXCEPT ![CallOf(m)] = 0]
  BY <1>a DEF OpenCall, agentFrame, Goes
<1>2. /\ at' \in [Agent -> AgentPhases] /\ at[p] = "open" /\ at'[p] = "close"
      /\ \A q \in Agent \ {p} : at'[q] = at[q]
  BY <1>1, Going DEF AgentPhases, Sending
<1>3. m \in Method /\ m \in Local /\ CallAt(p)' = m
  BY <1>1, <1>a, LocalMethods DEF CallAt
<1>4. /\ calls' \in [Method -> Nat] /\ calls[m] \in Nat /\ calls'[m] = calls[m] + 1
      /\ \A k \in Method : k # m => calls'[k] = calls[k]
  BY <1>1, <1>3 DEF MInv, MethodsTyped
<1>5. /\ in' \in [Package -> Nat \cup {None}] /\ Unasked'
      /\ \A k \in Local : Argument(k)' = Argument(k) /\ Result(k)' = Result(k)
  <2>1. /\ CallOf(m) \in Package /\ CallOf(m).kind = "call"
        /\ \A k \in Local : CallOf(m) # Attachment(CallOf(k)) /\ CallOf(m) # Attachment(ReplyOf(k))
    BY <1>3, Packages, Attached, LocalMethods
  <2>. QED
    BY <1>1, <2>1, FileWritten
<1>6. MethodsTyped'
  BY <1>1, <1>2, <1>4, <1>5 DEF MInv, MethodsTyped
<1>7. Listing(p)' /\ Waited(p)'
  BY <1>1, <1>2 DEF MInv, Listing, Waited, Sending, Fetching
<1>8. \A q \in Agent \ {p} : Excluded(p, q)'
  BY <1>1, <1>2 DEF MInv, Excluded, CallAt, Sending
<1>9. \A q \in Agent : Listing(q)' /\ Waited(q)' /\ \A r \in Agent \ {q} : Excluded(q, r)'
  BY <1>1, <1>2, <1>7, <1>8, Mutual
<1>10. ASSUME NEW k \in Local \ orphans', k # m PROVE Numbered(k)'
  <2>1. \A q \in Agent : at'[q] \in Sending \ {"open"} /\ CallAt(q)' = k =>
           at[q] \in Sending \ {"open"} /\ CallAt(q) = k
    BY <1>1, <1>2, <1>3, <1>10 DEF CallAt
  <2>2. \A q \in Agent : Serves(q, k)' <=> Serves(q, k)
    BY <1>1 DEF Serves
  <2>3. calls'[k] = calls[k]
    BY <1>4, <1>10, LocalMethods
  <2>. QED
    BY <1>1, <1>5, <2>1, <2>2, <2>3, Steady
<1>11. ASSUME m \notin orphans PROVE Numbered(m)'
  <2>0. /\ RanInOrder(m) /\ Answered(m) /\ ran[m] \in Seq(Nat) /\ None \notin Nat
        /\ \A q \in Agent : Held(q, m)
        /\ Argument(m) \in Nat \cup {None}
    BY <1>3, <1>11, Attached, MethodsAssumption DEF MInv, Numbered, MethodsTyped, Argument
  <2>1. RanInOrder(m)' /\ Answered(m)'
    BY <1>1, <1>3, <1>4, <1>5, <2>0 DEF RanInOrder, Answered, New
  <2>2. \A i \in DOMAIN ran[m] : ran[m][i] \in Nat /\ ran[m][i] < calls[m] + 1
    BY <1>4, <2>0 DEF RanInOrder
  <2>3. Argument(m) # None => Argument(m) \in Nat /\ Argument(m) < calls[m] + 1
    BY <1>4, <2>0 DEF RanInOrder
  <2>4. ASSUME NEW q \in Agent PROVE Writing(q, m)'
    <3>1. CASE q = p
      BY <1>1, <1>3, <1>4, <1>5, <2>2, <2>3, <3>1 DEF Writing, New
    <3>2. CASE q # p
      <4>1. ~(at'[q] \in Sending /\ CallAt(q)' = m)
        BY <1>2, <1>3, <1>8, <3>2 DEF Excluded, Sending
      <4>. QED
        BY <4>1 DEF Writing
    <3>. QED
      BY <3>1, <3>2
  <2>5. ASSUME NEW q \in Agent PROVE Held(q, m)'
    <3>1. Held(q, m) /\ (child[q].pc \in Before /\ Serves(q, m) => child[q].arg \in Nat)
      BY <2>0 DEF MInv, Waited, NoChild, Before
    <3>. QED
      BY <1>1, <1>3, <1>4, <1>5, <3>1 DEF Held, Serves, New, Latest
  <2>6. ASSUME NEW q \in Agent, NEW r \in Agent PROVE Older(q, r, m)'
    <3>1. Held(q, m) /\ (child[q].pc \in Before /\ Serves(q, m) => child[q].arg \in Nat)
      BY <2>0 DEF MInv, Waited, NoChild, Before
    <3>. QED
      BY <1>1, <1>4, <3>1 DEF Held, Older, Serves
  <2>. QED
    BY <2>1, <2>4, <2>5, <2>6 DEF Numbered
<1>. QED
  BY <1>1, <1>5, <1>6, <1>9, <1>10, <1>11 DEF MInv

(* The argument is written: it is newer than what a child holds. *)
LEMMA WritingArgument ==
  ASSUME MInv, NEW p \in Agent, UNCHANGED order, WriteArgument(p)
  PROVE  MInv'
<1>a. PICK m : m = CallAt(p)
  OBVIOUS
<1>b. PICK a : a = Attachment(CallOf(m))
  OBVIOUS
<1>c. PICK v : v = IF in[a] = None THEN None ELSE calls[m]
  OBVIOUS
<1>1. /\ UNCHANGED <<out, returnfile, child, calls, result, ran, orphans, order>>
      /\ Goes(p, "write", "dispatch") /\ Done(p) /\ in' = [in EXCEPT ![a] = v]
  BY <1>a, <1>b, <1>c DEF WriteArgument, agentFrame, MInv, MethodsTyped
<1>2. /\ at' \in [Agent -> AgentPhases] /\ at[p] = "write" /\ at'[p] = "dispatch"
      /\ \A q \in Agent \ {p} : at'[q] = at[q]
  BY <1>1, Going DEF AgentPhases, Sending
<1>3. /\ todo' \in [Agent -> SUBSET Nat] /\ todo'[p] \subseteq todo[p]
      /\ \A q \in Agent \ {p} : todo'[q] = todo[q]
  BY <1>1, OneDone
<1>4. m \in Method
  BY <1>a, <1>2, Heads DEF MInv, Listing, Sending
<1>5. v \in {None, calls[m]} /\ calls[m] \in Nat /\ v \in Nat \cup {None}
  BY <1>4, <1>c DEF MInv, MethodsTyped
<1>6. a \in Package /\ a.kind = "call" /\ a.m = m
  BY <1>4, <1>b, Attached
<1>7. /\ in' \in [Package -> Nat \cup {None}] /\ Unasked'
      /\ \A f \in Package : in'[f] = (IF f = a THEN v ELSE in[f])
  BY <1>1, <1>5, <1>6, FileWritten
<1>8. /\ \A k \in Local : Result(k)' = Result(k)
      /\ \A k \in Local : k # m => Argument(k)' = Argument(k)
      /\ m \in Local => Argument(m)' = v
  BY <1>b, <1>6, <1>7, Attached, LocalMethods DEF Argument, Result
<1>9. MethodsTyped'
  BY <1>1, <1>2, <1>3, <1>7 DEF MInv, MethodsTyped
<1>10. Listing(p)' /\ Waited(p)' /\ \A q \in Agent \ {p} : Excluded(p, q)'
  <2>1. Listing(p)' /\ Waited(p)'
    BY <1>1, <1>2, <1>3 DEF MInv, Listing, Waited, Sending, Fetching
  <2>2. \A q \in Agent \ {p} : Excluded(p, q)'
    BY <1>2 DEF Excluded, Sending
  <2>. QED
    BY <2>1, <2>2
<1>11. \A q \in Agent : Listing(q)' /\ Waited(q)' /\ \A r \in Agent \ {q} : Excluded(q, r)'
  BY <1>1, <1>2, <1>3, <1>10, Mutual
<1>12. \A q \in Agent, k \in Method : at'[q] \in Sending \ {"open"} /\ CallAt(q)' = k =>
           at[q] \in Sending \ {"open"} /\ CallAt(q) = k /\ q # p
  BY <1>2, <1>3 DEF CallAt, Sending
<1>13. ASSUME NEW k \in Local \ orphans', k # m PROVE Numbered(k)'
  <2>2. \A q \in Agent : Serves(q, k)' <=> Serves(q, k)
    BY <1>1 DEF Serves
  <2>. QED
    BY <1>1, <1>8, <1>12, <1>13, <2>2, LocalMethods, Steady
<1>14. ASSUME m \in Local \ orphans PROVE Numbered(m)'
  <2>0. /\ RanInOrder(m) /\ Answered(m) /\ ran[m] \in Seq(Nat) /\ None \notin Nat
        /\ \A q \in Agent : Held(q, m) /\ Writing(q, m) /\ Older(q, p, m)
    BY <1>14, MethodsAssumption DEF MInv, Numbered, MethodsTyped
  <2>1. Writing(p, m) /\ calls[m] > 0 /\ New(m, calls[m])
    BY <1>2, <1>a, <2>0 DEF Writing, Sending
  <2>2. RanInOrder(m)' /\ Answered(m)'
    BY <1>1, <1>5, <1>8, <1>14, <2>0, <2>1 DEF RanInOrder, Answered, New
  <2>3. ASSUME NEW q \in Agent PROVE Writing(q, m)'
    <3>1. ~(at'[q] \in Sending \ {"open"} /\ CallAt(q)' = m)
      <4>1. CASE q = p
        BY <1>2, <4>1 DEF Sending
      <4>2. CASE q # p
        BY <1>2, <1>4, <1>12, <1>a, <4>2 DEF MInv, Excluded, Sending
      <4>. QED
        BY <4>1, <4>2
    <3>. QED
      BY <3>1 DEF Writing
  <2>4. ASSUME NEW q \in Agent PROVE Held(q, m)'
    <3>1. Held(q, m) /\ Older(q, p, m)
      BY <2>0
    <3>2. Serves(q, m) /\ child[q].pc = "loaded" => child[q].arg < calls[m]
      BY <1>2, <1>a, <3>1 DEF Older, Sending, Before
    <3>. QED
      BY <1>1, <1>5, <1>8, <1>14, <3>1, <3>2 DEF Held, Serves, New, Latest
  <2>5. ASSUME NEW q \in Agent, NEW r \in Agent PROVE Older(q, r, m)'
    <3>1. ~(at'[r] \in Sending \ {"open"} /\ CallAt(r)' = m)
      <4>1. CASE r = p
        BY <1>2, <4>1 DEF Sending
      <4>2. CASE r # p
        BY <1>2, <1>4, <1>12, <1>a, <4>2 DEF MInv, Excluded, Sending
      <4>. QED
        BY <4>1, <4>2
    <3>. QED
      BY <3>1 DEF Older
  <2>. QED
    BY <2>2, <2>3, <2>4, <2>5 DEF Numbered
<1>. QED
  BY <1>1, <1>7, <1>9, <1>11, <1>13, <1>14 DEF MInv

(* A child is started under the lock of the package's method. *)
LEMMA StartingChild ==
  ASSUME MInv, NEW p \in Agent, UNCHANGED order, StartChild(p)
  PROVE  MInv'
<1>a. PICK m : m = FileAt(p).m
  OBVIOUS
<1>b. PICK file : file = GetMethodFilename(p, m)
  OBVIOUS
<1>c. PICK c : c = [NoChild EXCEPT !.pc = "check", !.name = file, !.digest = m]
  OBVIOUS
<1>1. /\ UNCHANGED <<in, out, todo, calls, result, ran, orphans, order>>
      /\ Goes(p, "exec", "wait") /\ todo[p] # {}
      /\ returnfile' = [returnfile EXCEPT ![p] = file]
      /\ child' = IF file = None THEN child ELSE [child EXCEPT ![p] = c]
  BY <1>a, <1>b, <1>c DEF StartChild, agentFrame
<1>2. /\ at' \in [Agent -> AgentPhases] /\ at[p] = "exec" /\ at'[p] = "wait"
      /\ \A q \in Agent \ {p} : at'[q] = at[q]
  BY <1>1, Going DEF AgentPhases
<1>3. m \in Method
  <2>1. FileAt(p) \in Package
    BY <1>1, <1>2, Heads DEF MInv
  <2>. QED
    BY <1>a, <2>1, Packages
<1>4. file \in Method \cup {None}
  BY <1>3, <1>b DEF MInv, MethodsTyped, GetMethodFilename
<1>5. c.pc = "check" /\ c.digest = m /\ (file # None => c \in ChildState)
  BY <1>3, <1>4, <1>c DEF NoChild, ChildState
<1>6. /\ child' \in [Agent -> ChildState \cup {NoChild}]
      /\ child'[p] = (IF file = None THEN child[p] ELSE c)
      /\ \A q \in Agent \ {p} : child'[q] = child[q]
  BY <1>1, <1>5 DEF MInv, MethodsTyped
<1>7. MethodsTyped' /\ Unasked'
  BY <1>1, <1>2, <1>4, <1>6, FilesStay DEF MInv, MethodsTyped
<1>8. \A q \in Agent \ {p} : at[q] = "wait" => FileAt(q).m # m
  BY <1>a DEF StartChild, LockFree, Holding, MethodAt
<1>9. Listing(p)' /\ Waited(p)'
  <2>1. Listing(p)'
    BY <1>1, <1>2 DEF MInv, Listing, Sending, Fetching
  <2>2. Waited(p)'
    <3>1. FileAt(p)' = FileAt(p)
      BY <1>1 DEF FileAt
    <3>2. CASE file = None
      BY <1>1, <1>2, <1>6, <3>2 DEF MInv, Waited
    <3>3. CASE file # None
      BY <1>2, <1>5, <1>6, <1>a, <3>1, <3>3 DEF Waited, Before, After
    <3>. QED
      BY <3>2, <3>3
  <2>. QED
    BY <2>1, <2>2
<1>10. \A q \in Agent \ {p} : Excluded(p, q)'
  BY <1>1, <1>2, <1>8, <1>a DEF Excluded, FileAt, Sending
<1>11. \A q \in Agent : Listing(q)' /\ Waited(q)' /\ \A r \in Agent \ {q} : Excluded(q, r)'
  BY <1>1, <1>2, <1>6, <1>9, <1>10, Mutual
<1>12. ASSUME NEW k \in Local \ orphans' PROVE Numbered(k)'
  <2>1. \A q \in Agent : at'[q] \in Sending \ {"open"} /\ CallAt(q)' = k =>
           at[q] \in Sending \ {"open"} /\ CallAt(q) = k
    BY <1>1, <1>2 DEF CallAt, Sending
  <2>2. \A q \in Agent : Serves(q, k)' /\ child'[q].pc \in Before \cup After =>
             Serves(q, k) /\ child'[q] = child[q]
    <3>1. child'[p].pc \in Before \cup After => child'[p] = child[p]
      BY <1>5, <1>6 DEF Before, After
    <3>. QED
      BY <1>6, <3>1 DEF Serves
  <2>. QED
    BY <1>1, <2>1, <2>2, FilesStay, Steady
<1>. QED
  BY <1>7, <1>11, <1>12 DEF MInv

(* The result is read. *)
LEMMA LoadingResult ==
  ASSUME MInv, NEW p \in Agent, UNCHANGED order, LoadResult(p)
  PROVE  /\ MInv'
         /\ \A m \in Local \ orphans : result'[m] \notin {result[m], 0} =>
               result'[m] > result[m] /\ \E i \in DOMAIN ran[m] : ran[m][i] = result'[m]
<1>a. PICK f : f = FileAt(p)
  OBVIOUS
<1>b. PICK a : a = Attachment(f)
  OBVIOUS
<1>1. /\ UNCHANGED <<in, out, returnfile, child, calls, ran, orphans, order>>
      /\ at[p] = "load"
      /\ \/ /\ Goes(p, "load", "drop") /\ UNCHANGED todo
            /\ in[a] # None /\ result' = [result EXCEPT ![f.m] = in[a]]
         \/ /\ Goes(p, "load", "idle") /\ todo' = [todo EXCEPT ![p] = {}]
            /\ UNCHANGED result
  BY <1>a, <1>b DEF LoadResult, agentFrame, Present
<1>2. /\ f \in Package /\ f.kind = "reply" /\ f.part = 0 /\ f.m \in Method
      /\ a \in Package /\ a.m = f.m /\ a.kind = "reply" /\ a.from = f.from /\ a.part = 1
  <2>1. f \in Package /\ f.kind = "reply" /\ f.part = 0
    BY <1>1, <1>a, Heads DEF MInv, Listing, Fetching
  <2>. QED
    BY <1>b, <2>1, Packages
<1>3. /\ at' \in [Agent -> AgentPhases] /\ at'[p] \in {"drop", "idle"}
      /\ at'[p] = "drop" => UNCHANGED todo
      /\ \A q \in Agent \ {p} : at'[q] = at[q]
  BY <1>1, Going DEF AgentPhases, Fetching
<1>4. /\ todo' \in [Agent -> SUBSET Nat]
      /\ \A q \in Agent \ {p} : todo'[q] = todo[q]
  BY <1>1, Listed DEF MInv, MethodsTyped
<1>5. in[a] \in Nat \cup {None}
  BY <1>2 DEF MInv, MethodsTyped
<1>6. ASSUME NEW m \in Local
      PROVE  result'[m] = result[m] \/ (result'[m] = Result(m) /\ Result(m) # None)
  <2>1. CASE result' = result
    BY <2>1
  <2>2. CASE in[a] # None /\ result' = [result EXCEPT ![f.m] = in[a]]
    <3>1. CASE f.m = m
      <4>1. f.from = "localhost"
        BY <1>2, <2>2, <3>1, <1>6, Packages DEF MInv, Unasked
      <4>2. a = Attachment(ReplyOf(m))
        BY <1>2, <3>1, <4>1, <1>6, LocalMethods, Attached, SamePackage
      <4>. QED
        BY <2>2, <3>1, <4>2, <1>6, LocalMethods DEF Result, MInv, MethodsTyped
    <3>2. CASE f.m # m
      BY <2>2, <3>2, <1>6, LocalMethods DEF MInv, MethodsTyped
    <3>. QED
      BY <3>1, <3>2
  <2>. QED
    BY <1>1, <2>1, <2>2
<1>7. MethodsTyped' /\ Unasked'
  <2>1. result' \in [Method -> Nat]
    BY <1>1, <1>2, <1>5 DEF MInv, MethodsTyped
  <2>. QED
    BY <1>1, <1>3, <1>4, <2>1, FilesStay DEF MInv, MethodsTyped
<1>8. Listing(p)' /\ Waited(p)' /\ \A q \in Agent \ {p} : Excluded(p, q)'
  <2>1. Listing(p)'
    BY <1>1, <1>3 DEF MInv, Listing, Sending, Fetching
  <2>2. Waited(p)'
    BY <1>1, <1>3 DEF MInv, Waited
  <2>3. \A q \in Agent \ {p} : Excluded(p, q)'
    BY <1>3 DEF Excluded, Sending
  <2>. QED
    BY <2>1, <2>2, <2>3
<1>9. \A q \in Agent : Listing(q)' /\ Waited(q)' /\ \A r \in Agent \ {q} : Excluded(q, r)'
  BY <1>1, <1>3, <1>4, <1>8, Mutual
<1>10. ASSUME NEW m \in Local \ orphans PROVE Numbered(m)'
  <2>0. Numbered(m) /\ result'[m] \in Nat /\ result[m] \in Nat /\ None \notin Nat
    BY <1>7, <1>10, LocalMethods, MethodsAssumption DEF MInv, MethodsTyped
  <2>1. Argument(m)' = Argument(m) /\ Result(m)' = Result(m)
    BY <1>1, FilesStay
  <2>2. \A q \in Agent : at'[q] \in Sending \ {"open"} /\ CallAt(q)' = m =>
           at[q] \in Sending \ {"open"} /\ CallAt(q) = m
    BY <1>3, <1>4 DEF CallAt, Sending
  <2>3. RanInOrder(m)'
    BY <1>1, <2>0, <2>1 DEF Numbered, RanInOrder, New
  <2>4. Answered(m)'
    BY <1>1, <1>6, <2>0, <2>1 DEF Numbered, Answered
  <2>5. \A q \in Agent : Writing(q, m)' /\ Held(q, m)' /\ \A r \in Agent : Older(q, r, m)'
    BY <1>1, <2>0, <2>1, <2>2 DEF Numbered, Writing, Held, Older, Serves, New, Latest
  <2>. QED
    BY <2>3, <2>4, <2>5 DEF Numbered
<1>11. ASSUME NEW m \in Local \ orphans, result'[m] \notin {result[m], 0}
       PROVE  result'[m] > result[m] /\ \E i \in DOMAIN ran[m] : ran[m][i] = result'[m]
  <2>1. /\ Answered(m) /\ result'[m] = Result(m) /\ result'[m] \in Nat /\ result[m] \in Nat
        /\ None \notin Nat
    BY <1>6, <1>7, <1>11, LocalMethods, MethodsAssumption DEF MInv, Numbered, MethodsTyped
  <2>. QED
    BY <1>11, <2>1 DEF Answered
<1>. QED
  BY <1>1, <1>7, <1>9, <1>10, <1>11 DEF MInv

ChildPhases == {"check", "count", "load"} \cup Before \cup After

(* A child goes on, *)
LEMMA ChildMoves ==
  ASSUME MInv, NEW p \in Agent, child[p].pc \in ChildPhases,
         NEW to \in ChildPhases \ {"check"}, NEW from \in {"localhost", "peer"},
         NEW arg \in Nat \cup {None},
         child' = [child EXCEPT ![p] = [@ EXCEPT !.pc = to, !.from = from, !.arg = arg]]
  PROVE  /\ child' \in [Agent -> ChildState \cup {NoChild}]
         /\ child'[p] \in ChildState /\ child'[p] # NoChild
         /\ child'[p].pc = to /\ child'[p].from = from /\ child'[p].arg = arg
         /\ child'[p].name = child[p].name /\ child'[p].digest = child[p].digest
         /\ \A q \in Agent \ {p} : child'[q] = child[q]
<1>1. child[p] \in ChildState /\ child[p] # NoChild
  BY DEF MInv, MethodsTyped, NoChild, ChildPhases, Before, After
<1>2. PICK c : c = [child[p] EXCEPT !.pc = to, !.from = from, !.arg = arg]
  OBVIOUS
<1>3. /\ c \in ChildState /\ c.pc = to /\ c.from = from /\ c.arg = arg
      /\ c.name = child[p].name /\ c.digest = child[p].digest
  BY <1>1, <1>2 DEF ChildState, ChildPhases
<1>4. child' = [child EXCEPT ![p] = c]
  BY <1>2
<1>5. c # NoChild
  BY <1>3 DEF NoChild, ChildPhases, Before, After
<1>. QED
  BY <1>3, <1>4, <1>5 DEF MInv, MethodsTyped

(* without anything new, *)
LEMMA ChildGoesOn ==
  ASSUME MInv, NEW p \in Agent, child[p].pc \in ChildPhases \ {"check"},
         NEW to \in ChildPhases \ {"check"}, Becomes(p, to)
  PROVE  /\ child' \in [Agent -> ChildState \cup {NoChild}]
         /\ child'[p] \in ChildState /\ child'[p] # NoChild
         /\ child'[p].pc = to /\ child'[p].from = child[p].from /\ child'[p].arg = child[p].arg
         /\ child'[p].name = child[p].name /\ child'[p].digest = child[p].digest
         /\ \A q \in Agent \ {p} : child'[q] = child[q]
<1>1. child[p] \in ChildState /\ child[p] # NoChild
  BY DEF MInv, MethodsTyped, NoChild, ChildPhases, Before, After
<1>2. PICK c : c = [child[p] EXCEPT !.pc = to]
  OBVIOUS
<1>3. /\ c \in ChildState /\ c.pc = to /\ c.from = child[p].from /\ c.arg = child[p].arg
      /\ c.name = child[p].name /\ c.digest = child[p].digest
  BY <1>1, <1>2 DEF ChildState, ChildPhases
<1>4. child' = [child EXCEPT ![p] = c]
  BY <1>2 DEF Becomes
<1>5. c # NoChild
  BY <1>3 DEF NoChild, ChildPhases, Before, After
<1>. QED
  BY <1>3, <1>4, <1>5 DEF MInv, MethodsTyped

(* or ends. *)
LEMMA ChildExits ==
  ASSUME MInv, NEW p \in Agent, Exits(p)
  PROVE  /\ child' \in [Agent -> ChildState \cup {NoChild}]
         /\ child'[p] = NoChild /\ child'[p].pc \notin ChildPhases
         /\ \A q \in Agent \ {p} : child'[q] = child[q]
BY DEF MInv, MethodsTyped, Exits, NoChild, ChildPhases, Before, After

(* The agent waits for a child that goes on as well as before. *)
LEMMA StillWaited ==
  ASSUME MInv, NEW p \in Agent, order' = order, at' = at, todo' = todo, orphans' = orphans,
         child[p] # NoChild, child'[p].digest = child[p].digest,
         child'[p].pc \in {"load"} \cup Before \cup After => child'[p].name = child'[p].digest,
         child'[p].pc \in Before \cup After => child'[p].arg \in Nat,
         child'[p].from \in {"localhost", "peer"},
         child'[p].pc \in After \ {"ran"} => child'[p].from = "localhost"
  PROVE  Waited(p)'
BY DEF MInv, Waited, FileAt

(* A child that ends leaves everything as it is. *)
LEMMA ChildEnds ==
  ASSUME MInv, NEW p \in Agent, Exits(p),
         UNCHANGED <<order, in, out, at, todo, returnfile, orphans, ran, result, calls>>
  PROVE  MInv'
<1>1. /\ child' \in [Agent -> ChildState \cup {NoChild}]
      /\ child'[p] = NoChild /\ child'[p].pc \notin ChildPhases
      /\ \A q \in Agent \ {p} : child'[q] = child[q]
  BY ChildExits
<1>2. MethodsTyped' /\ Unasked'
  BY <1>1, FilesStay DEF MInv, MethodsTyped
<1>3. Waited(p)'
  BY <1>1 DEF Waited
<1>. QED
  BY <1>1, <1>2, <1>3, FilesStay, ChildOnly DEF ChildPhases

(* The child finds a package of its name, or the like. *)
LEMMA Checking ==
  ASSUME MInv, NEW p \in Agent, UNCHANGED order, CheckForMethodPackage(p)
  PROVE  MInv'
<1>a. PICK name : name = child[p].name
  OBVIOUS
<1>b. PICK from : from = order[Min(Named(name))].from
  OBVIOUS
<1>1. /\ UNCHANGED <<order, out, at, todo, returnfile, orphans, ran, result, calls>>
      /\ in' = Without(Passed(name)) /\ child[p].pc = "check"
      /\ \/ Exits(p)
         \/ Named(name) # {} /\ child' = [child EXCEPT ![p].pc = "count", ![p].from = from]
  BY <1>a, <1>b DEF CheckForMethodPackage, childFrame, agentVars, Exits
<1>2. /\ in' \in [Package -> Nat \cup {None}] /\ Unasked'
      /\ \A m \in Local : /\ Argument(m)' \in {Argument(m), None, 0}
                          /\ Result(m)' \in {Result(m), None, 0}
  BY <1>1, FilesRemoved
<1>3. CASE Exits(p)
  <2>1. /\ child' \in [Agent -> ChildState \cup {NoChild}]
        /\ child'[p] = NoChild /\ child'[p].pc \notin ChildPhases
        /\ \A q \in Agent \ {p} : child'[q] = child[q]
    BY <1>3, ChildExits
  <2>2. MethodsTyped'
    BY <1>1, <1>2, <2>1 DEF MInv, MethodsTyped
  <2>3. Waited(p)'
    BY <2>1 DEF Waited
  <2>. QED
    BY <1>1, <1>2, <2>1, <2>2, <2>3, ChildOnly DEF ChildPhases
<1>4. CASE Named(name) # {} /\ child' = [child EXCEPT ![p].pc = "count", ![p].from = from]
  <2>1. from \in {"localhost", "peer"}
    <3>1. Named(name) \in SUBSET Nat
      BY MethodsAssumption DEF Named, MInv, MethodsTyped
    <3>2. PICK n : n = Min(Named(name))
      OBVIOUS
    <3>3. n \in DOMAIN order
      <4>1. n \in Named(name)
        BY <1>4, <3>1, <3>2, Least
      <4>. QED
        BY <4>1 DEF Named
    <3>4. order[n] \in Package
      BY <3>3, MethodsAssumption DEF MInv, MethodsTyped, ToSet
    <3>. QED
      BY <1>b, <3>2, <3>4, Packages
  <2>2. child[p] \in ChildState /\ child[p] # NoChild /\ child[p].arg \in Nat \cup {None}
    BY <1>1 DEF MInv, MethodsTyped, NoChild, ChildState
  <2>3. PICK c : c = [child[p] EXCEPT !.pc = "count", !.from = from]
    OBVIOUS
  <2>4. /\ c \in ChildState /\ c.pc = "count" /\ c.from = from /\ c.digest = child[p].digest
    BY <2>1, <2>2, <2>3 DEF ChildState
  <2>5. /\ child' \in [Agent -> ChildState \cup {NoChild}] /\ child'[p] = c
        /\ \A q \in Agent \ {p} : child'[q] = child[q]
    BY <1>4, <2>3, <2>4 DEF MInv, MethodsTyped
  <2>6. MethodsTyped'
    BY <1>1, <1>2, <2>5 DEF MInv, MethodsTyped
  <2>7. Waited(p)'
    BY <1>1, <2>1, <2>2, <2>4, <2>5, StillWaited DEF Before, After
  <2>. QED
    BY <1>1, <1>2, <2>4, <2>5, <2>6, <2>7, ChildOnly DEF Before, After
<1>. QED
  BY <1>1, <1>3, <1>4

(* A child that goes on was told of the method whose policy it keeps. *)
LEMMA Counting ==
  ASSUME MInv, NEW p \in Agent, UNCHANGED order, CountAttachments(p)
  PROVE  MInv'
<1>1. /\ UNCHANGED <<order, in, out, at, todo, returnfile, orphans, ran, result, calls>>
      /\ child[p].pc = "count" /\ child[p] # NoChild
      /\ (child[p].digest = child[p].name /\ Becomes(p, "load")) \/ Exits(p)
  BY DEF CountAttachments, childFrame, agentVars, NoChild
<1>2. CASE child[p].digest = child[p].name /\ Becomes(p, "load")
  <2>1. /\ child' \in [Agent -> ChildState \cup {NoChild}]
        /\ child'[p].pc = "load" /\ child'[p].from = child[p].from
        /\ child'[p].name = child[p].name /\ child'[p].digest = child[p].digest
        /\ \A q \in Agent \ {p} : child'[q] = child[q]
    BY <1>1, <1>2, ChildGoesOn DEF ChildPhases
  <2>2. MethodsTyped' /\ Unasked'
    BY <1>1, <2>1, FilesStay DEF MInv, MethodsTyped
  <2>3. child[p].from \in {"localhost", "peer"}
    BY <1>1 DEF MInv, Waited
  <2>4. Waited(p)'
    BY <1>1, <1>2, <2>1, <2>3, StillWaited DEF Before, After
  <2>. QED
    BY <1>1, <2>1, <2>2, <2>4, FilesStay, ChildOnly DEF Before, After
<1>. QED
  BY <1>1, <1>2, ChildEnds

(* Only one child serves calls of this host of a method whose agents wait.  *)
LEMMA OneServes ==
  ASSUME MInv, NEW m \in Local \ orphans, NEW p \in Agent, NEW q \in Agent \ {p},
         child[p].pc \in {"load"} \cup Before \cup After, child[p].name = m,
         child[q].pc \in {"load"} \cup Before \cup After
  PROVE  child[q].name # m
<1>1. child[p] # NoChild /\ child[q] # NoChild
  BY DEF NoChild, Before, After
<1>2. child[p].digest = m /\ at[p] = "wait" /\ FileAt(p).m = m
  BY <1>1 DEF MInv, Waited
<1>3. ASSUME child[q].name = m PROVE FALSE
  <2>1. at[q] = "wait" /\ FileAt(q).m = m
    BY <1>1, <1>3 DEF MInv, Waited
  <2>. QED
    BY <1>2, <2>1 DEF MInv, Excluded
<1>. QED
  BY <1>3

(* The argument that a child reads is newer than all that were run. *)
LEMMA LoadingArgument ==
  ASSUME MInv, NEW p \in Agent, UNCHANGED order, LoadArgument(p)
  PROVE  MInv'
<1>a. PICK f : f = Attachment(Invitation(p))
  OBVIOUS
<1>1. /\ UNCHANGED <<order, in, out, at, todo, returnfile, orphans, ran, result, calls>>
      /\ child[p].pc = "load" /\ child[p] # NoChild
      /\ \/ Exits(p)
         \/ in[f] # None /\ child' = [child EXCEPT ![p].pc = "remove", ![p].arg = in[f]]
  BY <1>a DEF LoadArgument, childFrame, agentVars, NoChild, Present
<1>2. CASE in[f] # None /\ child' = [child EXCEPT ![p].pc = "remove", ![p].arg = in[f]]
  <2>1. /\ child[p] \in ChildState /\ child[p].from \in {"localhost", "peer"}
        /\ child[p].name = child[p].digest
    BY <1>1 DEF MInv, MethodsTyped, Waited
  <2>2. f \in Package /\ f.m = child[p].name /\ f.kind = "call" /\ f.from = child[p].from
                      /\ f.part = 1
    <3>1. /\ Invitation(p) \in Package /\ Invitation(p).m = child[p].name
          /\ Invitation(p).kind = "call" /\ Invitation(p).from = child[p].from
      BY <2>1 DEF Invitation, Package, ChildState
    <3>. QED
      BY <1>a, <3>1, Packages
  <2>3. PICK a : a = in[f]
    OBVIOUS
  <2>4. a \in Nat
    BY <1>2, <2>2, <2>3 DEF MInv, MethodsTyped
  <2>5. PICK c : c = [child[p] EXCEPT !.pc = "remove", !.arg = a]
    OBVIOUS
  <2>6. /\ c \in ChildState /\ c.pc = "remove" /\ c.arg = a /\ c.from = child[p].from
        /\ c.digest = child[p].digest /\ c.name = child[p].name
    BY <2>1, <2>4, <2>5 DEF ChildState, Before
  <2>7. /\ child' \in [Agent -> ChildState \cup {NoChild}] /\ child'[p] = c
        /\ \A q \in Agent \ {p} : child'[q] = child[q]
    BY <1>2, <2>3, <2>5, <2>6 DEF MInv, MethodsTyped
  <2>8. MethodsTyped' /\ Unasked'
    BY <1>1, <2>7, FilesStay DEF MInv, MethodsTyped
  <2>9. Waited(p)'
    BY <1>1, <2>1, <2>4, <2>6, <2>7, StillWaited DEF After
  <2>10. Listing(p)' /\ \A q \in Agent \ {p} : Excluded(p, q)'
    BY <1>1 DEF MInv, Listing, Excluded, CallAt, FileAt
  <2>11. \A q \in Agent : Listing(q)' /\ Waited(q)' /\ \A r \in Agent \ {q} : Excluded(q, r)'
    BY <1>1, <2>7, <2>9, <2>10, Mutual
  <2>12. ASSUME NEW m \in Local \ orphans' PROVE Numbered(m)'
    <3>0. /\ Numbered(m) /\ m \in Method /\ None \notin Nat
      BY <1>1, <2>12, LocalMethods, MethodsAssumption DEF MInv
    <3>1. Argument(m)' = Argument(m) /\ Result(m)' = Result(m)
      BY <1>1, <2>12, FilesStay
    <3>2. Serves(p, m)' => Argument(m) = a
      <4>1. SUFFICES ASSUME Serves(p, m)' PROVE Argument(m) = a
        OBVIOUS
      <4>2. f.m = m /\ f.from = "localhost"
        BY <2>2, <2>6, <2>7, <4>1 DEF Serves
      <4>3. f = Attachment(CallOf(m))
        BY <2>2, <3>0, <4>2, Attached, SamePackage
      <4>. QED
        BY <2>3, <4>3 DEF Argument
    <3>3. RanInOrder(m)' /\ Answered(m)'
      BY <1>1, <3>0, <3>1 DEF Numbered, RanInOrder, Answered, New
    <3>4. ASSUME NEW q \in Agent PROVE Writing(q, m)'
      BY <1>1, <3>0, <3>1 DEF Numbered, Writing, New, CallAt
    <3>5. ASSUME NEW q \in Agent PROVE Held(q, m)'
      <4>1. CASE q = p
        <5>1. a # None /\ child'[q].pc = "remove" /\ child'[q].arg = a
          BY <2>4, <2>6, <2>7, <3>0, <4>1
        <5>2. Serves(q, m)' => a <= calls[m] /\ New(m, a)
          BY <3>0, <3>2, <4>1, <5>1 DEF Numbered, RanInOrder
        <5>. QED
          BY <1>1, <5>1, <5>2 DEF Held, New, After
      <4>2. CASE q # p
        BY <1>1, <2>7, <3>0, <3>1, <4>2 DEF Numbered, Held, Serves, New, Latest
      <4>. QED
        BY <4>1, <4>2
    <3>6. ASSUME NEW q \in Agent, NEW r \in Agent PROVE Older(q, r, m)'
      <4>1. CASE q = p
        <5>1. a # None /\ child'[q].arg = a
          BY <2>4, <2>6, <2>7, <3>0, <4>1
        <5>. QED
          BY <1>1, <3>0, <3>2, <4>1, <5>1 DEF Numbered, Writing, Older, CallAt
      <4>2. CASE q # p
        BY <1>1, <2>7, <3>0, <4>2 DEF Numbered, Older, Serves, CallAt
      <4>. QED
        BY <4>1, <4>2
    <3>. QED
      BY <3>3, <3>4, <3>5, <3>6 DEF Numbered
  <2>. QED
    BY <2>8, <2>11, <2>12 DEF MInv
<1>. QED
  BY <1>1, <1>2, ChildEnds

(* The argument is removed. *)
LEMMA RemovingArgument ==
  ASSUME MInv, NEW p \in Agent, UNCHANGED order, RemoveArgument(p)
  PROVE  MInv'
<1>a. PICK f : f = Attachment(Invitation(p))
  OBVIOUS
<1>1. /\ UNCHANGED <<order, out, at, todo, returnfile, orphans, ran, result, calls>>
      /\ child[p].pc = "remove" /\ child[p] # NoChild
      /\ Becomes(p, "loaded") /\ in' = Without({f})
  BY <1>a DEF RemoveArgument, childFrame, agentVars, NoChild
<1>2. /\ child' \in [Agent -> ChildState \cup {NoChild}]
      /\ child'[p].pc = "loaded" /\ child'[p].from = child[p].from
      /\ child'[p].name = child[p].name /\ child'[p].digest = child[p].digest
      /\ child'[p].arg = child[p].arg
      /\ \A q \in Agent \ {p} : child'[q] = child[q]
  BY <1>1, ChildGoesOn DEF ChildPhases, Before
<1>3. /\ in' \in [Package -> Nat \cup {None}] /\ Unasked'
      /\ \A g \in Package : in'[g] = (IF g \in {f} THEN None ELSE in[g])
      /\ \A m \in Local : /\ Argument(m)' \in {Argument(m), None, 0}
                          /\ Result(m)' \in {Result(m), None, 0}
  BY <1>1, FilesRemoved
<1>4. MethodsTyped'
  BY <1>1, <1>2, <1>3 DEF MInv, MethodsTyped
<1>5. Waited(p)'
  <2>1. /\ child[p].name = child[p].digest /\ child[p].arg \in Nat
        /\ child[p].from \in {"localhost", "peer"}
    BY <1>1 DEF MInv, Waited, Before
  <2>. QED
    BY <1>1, <1>2, <2>1, StillWaited DEF After
<1>6. ASSUME NEW m \in Local, Serves(p, m) PROVE Argument(m)' = None
  <2>1. f = Attachment(CallOf(m))
    BY <1>a, <1>6 DEF Serves, Invitation, CallOf
  <2>. QED
    BY <1>3, <2>1, LocalMethods, Attached DEF Argument
<1>7. child'[p].pc \in Before /\ child[p].pc \in Before /\ child'[p].pc \notin After
  BY <1>1, <1>2 DEF Before, After
<1>8. ASSUME NEW m \in Local \ orphans
      PROVE  /\ Argument(m)' \in {Argument(m), None, 0} /\ Result(m)' \in {Result(m), None, 0}
             /\ Serves(p, m)' /\ child'[p].pc \in Before \cup After =>
                  /\ Serves(p, m) /\ child'[p].arg = child[p].arg
                  /\ child'[p].pc \in Before => child[p].pc \in Before
                  /\ child'[p].pc = "loaded" => child[p].pc = "loaded" \/ Argument(m)' = None
                  /\ child'[p].pc \in After => child[p].pc \in After
  BY <1>2, <1>3, <1>6, <1>7 DEF Serves
<1>. QED
  BY <1>1, <1>2, <1>3, <1>4, <1>5, <1>8, ChildOnly

(* The method is run with an argument newer than all that it was run with. *)
LEMMA Running ==
  ASSUME MInv, NEW p \in Agent, UNCHANGED order, RunMethod(p)
  PROVE  MInv'
<1>a. PICK name : name = child[p].name
  OBVIOUS
<1>b. PICK a : a = child[p].arg
  OBVIOUS
<1>c. PICK from : from = child[p].from
  OBVIOUS
<1>1. /\ UNCHANGED <<order, out, at, todo, returnfile, orphans, result, calls>>
      /\ child[p].pc = "loaded" /\ child[p] # NoChild
      /\ Becomes(p, "ran") /\ in' = Without({Invitation(p)})
      /\ ran' = IF from = "peer" THEN ran ELSE [ran EXCEPT ![name] = Append(@, a)]
  BY <1>a, <1>b, <1>c DEF RunMethod, childFrame, agentVars, NoChild
<1>2. /\ child' \in [Agent -> ChildState \cup {NoChild}]
      /\ child'[p].pc = "ran" /\ child'[p].from = from /\ child'[p].arg = a
      /\ child'[p].name = name /\ child'[p].digest = child[p].digest
      /\ \A q \in Agent \ {p} : child'[q] = child[q]
  <2>1. child[p].pc \in ChildPhases \ {"check"} /\ "ran" \in ChildPhases \ {"check"}
    BY <1>1 DEF ChildPhases, Before, After
  <2>2. /\ child' \in [Agent -> ChildState \cup {NoChild}]
        /\ child'[p].pc = "ran" /\ child'[p].from = child[p].from
        /\ child'[p].arg = child[p].arg
        /\ child'[p].name = child[p].name /\ child'[p].digest = child[p].digest
        /\ \A q \in Agent \ {p} : child'[q] = child[q]
    BY <1>1, <2>1, ChildGoesOn
  <2>. QED
    BY <1>a, <1>b, <1>c, <2>2
<1>3. name = child[p].digest /\ a \in Nat /\ from \in {"localhost", "peer"}
  BY <1>1, <1>a, <1>b, <1>c DEF MInv, Waited, Before
<1>4. /\ in' \in [Package -> Nat \cup {None}] /\ Unasked'
      /\ \A m \in Local : /\ Argument(m)' \in {Argument(m), None, 0}
                          /\ Result(m)' \in {Result(m), None, 0}
  BY <1>1, FilesRemoved
<1>5. /\ ran' \in [Local -> Seq(Nat)]
      /\ \A m \in Local : ran'[m] = IF from = "localhost" /\ m = name THEN Append(ran[m], a)
                                    ELSE ran[m]
  <2>1. ran \in [Local -> Seq(Nat)]
    BY DEF MInv, MethodsTyped
  <2>2. CASE from = "peer"
    BY <1>1, <2>1, <2>2
  <2>3. CASE from = "localhost"
    <3>1. ran' = [ran EXCEPT ![name] = Append(@, a)]
      BY <1>1, <2>3
    <3>2. ASSUME name \in Local PROVE Append(ran[name], a) \in Seq(Nat)
      BY <1>3, <2>1, <3>2
    <3>3. PICK s : s = Append(ran[name], a)
      OBVIOUS
    <3>4. ran' = [ran EXCEPT ![name] = s]
      BY <3>1, <3>3
    <3>5. ran' \in [Local -> Seq(Nat)]
      BY <2>1, <3>2, <3>3, <3>4
    <3>6. \A m \in Local : ran'[m] = IF m = name THEN s ELSE ran[m]
      BY <2>1, <3>4
    <3>. QED
      BY <2>3, <3>3, <3>5, <3>6
  <2>. QED
    BY <1>3, <2>2, <2>3
<1>6. MethodsTyped'
  BY <1>1, <1>2, <1>4, <1>5 DEF MInv, MethodsTyped
<1>7. Waited(p)'
  BY <1>1, <1>2, <1>3, <1>a, StillWaited DEF After
<1>8. Listing(p)' /\ \A q \in Agent \ {p} : Excluded(p, q)'
  BY <1>1 DEF MInv, Listing, Excluded, CallAt, FileAt
<1>9. \A q \in Agent : Listing(q)' /\ Waited(q)' /\ \A r \in Agent \ {q} : Excluded(q, r)'
  BY <1>1, <1>2, <1>7, <1>8, Mutual
<1>10. child[p].pc \in Before /\ child'[p].pc \in After /\ child'[p].pc \notin Before
  BY <1>1, <1>2 DEF Before, After
<1>11. ASSUME NEW m \in Local \ orphans', ~Serves(p, m) PROVE Numbered(m)'
  <2>1. ran'[m] = ran[m] /\ ~Serves(p, m)'
    BY <1>2, <1>5, <1>11, <1>a, <1>c DEF Serves
  <2>2. \A q \in Agent : at'[q] \in Sending \ {"open"} /\ CallAt(q)' = m =>
           at[q] \in Sending \ {"open"} /\ CallAt(q) = m
    BY <1>1 DEF CallAt
  <2>3. \A q \in Agent : Serves(q, m)' =>
             Serves(q, m) /\ child'[q] = child[q]
    BY <1>2, <2>1 DEF Serves
  <2>4. \A q \in Agent : Serves(q, m)' /\ child'[q].pc \in Before \cup After =>
             /\ Serves(q, m) /\ child'[q].arg = child[q].arg
             /\ child'[q].pc \in Before => child[q].pc \in Before
             /\ child'[q].pc = "loaded" => child[q].pc = "loaded" \/ Argument(m)' = None
             /\ child'[q].pc \in After => child[q].pc \in After
    BY <2>3
  <2>. QED
    BY <1>1, <1>4, <1>11, <2>1, <2>2, <2>4, Steady
<1>12. ASSUME NEW m \in Local \ orphans', Serves(p, m) PROVE Numbered(m)'
  <2>0. /\ RanInOrder(m) /\ Answered(m) /\ None \notin Nat
        /\ \A q \in Agent : Writing(q, m) /\ Held(q, m) /\ Older(p, q, m)
        /\ ran[m] \in Seq(Nat) /\ calls[m] \in Nat /\ result[m] \in Nat
    BY <1>1, <1>12, LocalMethods, MethodsAssumption DEF MInv, Numbered, MethodsTyped
  <2>1. ran'[m] = Append(ran[m], a) /\ name = m
    BY <1>5, <1>12, <1>a, <1>c DEF Serves
  <2>2. a <= calls[m] /\ New(m, a) /\ (Argument(m) \notin {None, 0} => a < Argument(m))
    <3>1. Held(p, m)
      BY <2>0
    <3>. QED
      BY <1>1, <1>10, <1>12, <1>b, <3>1 DEF Held
  <2>3. PICK n \in Nat : n = Len(ran[m])
    BY <2>0
  <2>4. /\ DOMAIN ran[m] = 1..n /\ DOMAIN ran'[m] = 1..(n + 1) /\ ran'[m][n + 1] = a
        /\ \A i \in 1..n : ran'[m][i] = ran[m][i] /\ ran[m][i] \in Nat
    BY <1>3, <2>0, <2>1, <2>3
  <2>5. \A i \in DOMAIN ran'[m] : i \in 1..n \/ i = n + 1
    BY <2>4
  <2>6. \A i, j \in DOMAIN ran'[m] :
           i < j /\ ran'[m][i] # 0 /\ ran'[m][j] # 0 => ran'[m][i] < ran'[m][j]
    <3>1. \A i, j \in 1..n :
             i < j /\ ran[m][i] # 0 /\ ran[m][j] # 0 => ran[m][i] < ran[m][j]
      BY <2>0, <2>4 DEF RanInOrder
    <3>2. \A i \in 1..n : a # 0 => ran[m][i] < a
      BY <2>2, <2>4 DEF New
    <3>3. TAKE i, j \in DOMAIN ran'[m]
    <3>4. CASE i \in 1..n /\ j \in 1..n
      BY <2>4, <3>1, <3>4
    <3>5. CASE i \in 1..n /\ j = n + 1
      BY <2>4, <3>2, <3>5
    <3>6. CASE i = n + 1
      BY <2>3, <2>4, <2>5, <3>6
    <3>. QED
      BY <2>5, <3>4, <3>5, <3>6
  <2>7. \A i \in DOMAIN ran'[m] : ran'[m][i] <= calls[m]
    BY <2>0, <2>2, <2>4, <2>5 DEF RanInOrder
  <2>8. ASSUME NEW b \in Nat, New(m, b), b # 0 => a < b
        PROVE  b = 0 \/ \A i \in DOMAIN ran'[m] : ran'[m][i] < b
    BY <2>4, <2>5, <2>8 DEF New
  <2>9. PICK g : g = Argument(m)'
    OBVIOUS
  <2>10. g # None => g \in Nat /\ g <= calls[m] /\ New(m, g) /\ (g # 0 => a < g)
    <3>1. Argument(m) \in Nat \cup {None}
      BY <1>12, LocalMethods, Attached DEF MInv, MethodsTyped, Argument
    <3>. QED
      BY <1>4, <2>0, <2>2, <2>9, <3>1 DEF RanInOrder, New
  <2>11. RanInOrder(m)'
    <3>1. g # None => /\ g <= calls'[m]
                      /\ g = 0 \/ \A i \in DOMAIN ran'[m] : ran'[m][i] < g
      BY <1>1, <2>8, <2>10
    <3>. QED
      BY <1>1, <2>6, <2>7, <2>9, <3>1 DEF RanInOrder, New
  <2>12. Answered(m)'
    <3>1. \A b : (\E i \in DOMAIN ran[m] : ran[m][i] = b) =>
                    \E i \in DOMAIN ran'[m] : ran'[m][i] = b
      BY <2>4
    <3>. QED
      BY ZenonT(120), <1>1, <1>4, <2>0, <3>1 DEF Answered
  <2>13. ASSUME NEW q \in Agent PROVE Writing(q, m)'
    <3>. SUFFICES ASSUME at[q] \in Sending \ {"open"}, CallAt(q) = m
                  PROVE  /\ calls[m] > 0 /\ New(m, calls[m])'
                         /\ g # None => g < calls[m]
      BY <1>1, <2>9 DEF Writing, New, CallAt
    <3>1. calls[m] > 0 /\ New(m, calls[m]) /\ (Argument(m) # None => Argument(m) < calls[m])
      BY <2>0 DEF Writing
    <3>2. a < calls[m]
      BY <1>10, <1>12, <1>b, <2>0 DEF Older
    <3>3. calls[m] > 0 /\ New(m, calls[m])'
      BY <1>1, <2>0, <2>8, <3>1, <3>2 DEF New
    <3>4. g # None => g < calls[m]
      BY <1>4, <1>12, <2>9, <3>1
    <3>. QED
      BY <3>3, <3>4
  <2>14. ASSUME NEW q \in Agent \ {p} PROVE ~(Serves(q, m)' /\ child'[q].pc \in Before \cup After)
    <3>1. child[p].pc \in {"load"} \cup Before \cup After /\ child[p].name = m
      BY <1>10, <1>12 DEF Serves
    <3>2. ~(child[q].name = m /\ child[q].pc \in {"load"} \cup Before \cup After)
      BY <1>1, <1>12, <3>1, OneServes
    <3>. QED
      BY <1>2, <3>2 DEF Serves
  <2>15. ASSUME NEW q \in Agent PROVE Held(q, m)'
    <3>1. CASE q = p
      <4>1. \E i \in DOMAIN ran'[m] : ran'[m][i] = a
        BY <2>3, <2>4
      <4>2. a = 0 \/ \A i \in DOMAIN ran'[m] : ran'[m][i] <= a
        BY <1>3, <2>2, <2>4, <2>5 DEF New
      <4>. QED
        BY <1>2, <1>10, <3>1, <4>1, <4>2 DEF Held, Latest
    <3>2. CASE q # p
      BY <2>14, <3>2 DEF Held, Before
    <3>. QED
      BY <3>1, <3>2
  <2>16. ASSUME NEW q \in Agent, NEW r \in Agent PROVE Older(q, r, m)'
    <3>1. CASE q = p
      BY <1>10, <3>1 DEF Older
    <3>2. CASE q # p
      BY <2>14, <3>2 DEF Older
    <3>. QED
      BY <3>1, <3>2
  <2>. QED
    BY <2>11, <2>12, <2>13, <2>15, <2>16 DEF Numbered
<1>. QED
  BY <1>1, <1>4, <1>6, <1>9, <1>11, <1>12 DEF MInv

(* The reply is opened and closed and the result opened, or the reply goes  *)
(* to the peer.                                                             *)
LEMMA Replying ==
  ASSUME MInv, NEW p \in Agent, UNCHANGED order,
         OpenReply(p) \/ CloseReply(p) \/ AttachResult(p)
  PROVE  MInv'
<1>a. PICK name : name = child[p].name
  OBVIOUS
<1>1. /\ UNCHANGED <<order, out, at, todo, returnfile, orphans, ran, result, calls>>
      /\ child[p].pc \in After /\ child[p] # NoChild
  BY DEF OpenReply, CloseReply, AttachResult, childFrame, agentVars, NoChild, After
<1>2. /\ child[p].name = child[p].digest /\ child[p].arg \in Nat
      /\ child[p].from \in {"localhost", "peer"} /\ name \in Method
  BY <1>1, <1>a DEF MInv, MethodsTyped, Waited, After, Before, ChildState, NoChild
<1>3. CASE UNCHANGED in /\ Exits(p)
  BY <1>1, <1>3, ChildEnds
<1>9. ASSUME ~(UNCHANGED in /\ Exits(p)) PROVE child[p].from = "localhost"
  BY <1>1, <1>2, <1>9 DEF OpenReply, CloseReply, AttachResult, MInv, Waited, After
<1>4. CASE ~(UNCHANGED in /\ Exits(p)) /\ \E to \in {"close", "attach", "write"}, g \in {ReplyOf(name), Attachment(ReplyOf(name))},
             v \in {0, 1, None} :
             /\ Becomes(p, to) /\ in' = [in EXCEPT ![g] = v]
             /\ g = Attachment(ReplyOf(name)) => v = 0
  <2>1. PICK to \in {"close", "attach", "write"}, v \in {0, 1, None},
             g \in {ReplyOf(name), Attachment(ReplyOf(name))} :
             /\ Becomes(p, to) /\ in' = [in EXCEPT ![g] = v]
             /\ g = Attachment(ReplyOf(name)) => v = 0
    BY <1>4
  <2>2. /\ g \in Package /\ g.m = name /\ g.kind = "reply"
        /\ (g.from = "localhost" \/ g.m \notin Local)
        /\ g.part = 0 \/ v = 0
    BY <1>2, <2>1, Packages, Attached
  <2>3. /\ in' \in [Package -> Nat \cup {None}] /\ Unasked'
        /\ \A f \in Package : in'[f] = (IF f = g THEN v ELSE in[f])
    BY <2>1, <2>2, FileWritten
  <2>4. ASSUME NEW m \in Local
        PROVE  /\ Argument(m)' \in {Argument(m), None, 0}
               /\ Result(m)' \in {Result(m), None, 0}
    BY <2>2, <2>3, Attached, LocalMethods DEF Argument, Result
  <2>5. /\ child' \in [Agent -> ChildState \cup {NoChild}]
        /\ child'[p].pc = to /\ child'[p].from = child[p].from
        /\ child'[p].arg = child[p].arg
        /\ child'[p].name = child[p].name /\ child'[p].digest = child[p].digest
        /\ \A q \in Agent \ {p} : child'[q] = child[q]
    <3>1. child[p].pc \in ChildPhases \ {"check"} /\ to \in ChildPhases \ {"check"}
      BY <1>1, <2>1 DEF ChildPhases, After
    <3>. QED
      BY <2>1, <3>1, ChildGoesOn
  <2>6. MethodsTyped'
    BY <1>1, <2>3, <2>5 DEF MInv, MethodsTyped
  <2>7. Waited(p)'
    BY <1>1, <1>2, <1>4, <1>9, <2>5, StillWaited
  <2>8. child'[p].pc \in After /\ child'[p].pc \notin Before
    BY <2>1, <2>5 DEF Before, After
  <2>9. ASSUME NEW m \in Local \ orphans
        PROVE  Serves(p, m)' /\ child'[p].pc \in Before \cup After =>
                  /\ Serves(p, m) /\ child'[p].arg = child[p].arg
                  /\ child'[p].pc \in Before => child[p].pc \in Before
                  /\ child'[p].pc = "loaded" => child[p].pc = "loaded" \/ Argument(m)' = None
                  /\ child'[p].pc \in After => child[p].pc \in After
    BY <1>1, <2>5, <2>8 DEF Serves, Before
  <2>. QED
    BY <1>1, <2>3, <2>4, <2>5, <2>6, <2>7, <2>9, ChildOnly
<1>5. OpenReply(p) => \/ UNCHANGED in /\ Exits(p)
                      \/ Becomes(p, "close") /\ in' = [in EXCEPT ![ReplyOf(name)] = 0]
  BY <1>a DEF OpenReply
<1>6. CloseReply(p) => /\ Becomes(p, "attach")
                       /\ \E v \in {0, 1, None} : in' = [in EXCEPT ![ReplyOf(name)] = v]
  <2>. SUFFICES ASSUME CloseReply(p)
                PROVE  \E v \in {0, 1, None} : in' = [in EXCEPT ![ReplyOf(name)] = v]
    BY DEF CloseReply
  <2>1. PICK v : v = IF in[ReplyOf(name)] = None THEN None ELSE 1
    OBVIOUS
  <2>2. in' = [in EXCEPT ![ReplyOf(name)] = v]
    BY <1>2, <1>a, <2>1, Packages DEF CloseReply, MInv, MethodsTyped
  <2>. QED
    BY <2>1, <2>2
<1>7. AttachResult(p) => Becomes(p, "write") /\ in' = [in EXCEPT ![Attachment(ReplyOf(name))] = 0]
  BY <1>a DEF AttachResult
<1>8. ReplyOf(name) # Attachment(ReplyOf(name))
  BY <1>2, Packages, Attached
<1>. QED
  BY <1>3, <1>4, <1>5, <1>6, <1>7, <1>8

(* The result is written: it is that of the latest run. *)
LEMMA WritingResult ==
  ASSUME MInv, NEW p \in Agent, UNCHANGED order, WriteResult(p)
  PROVE  MInv'
<1>a. PICK name : name = child[p].name
  OBVIOUS
<1>b. PICK g : g = Attachment(ReplyOf(name))
  OBVIOUS
<1>c. PICK v : v = IF in[g] = None THEN None ELSE child[p].arg
  OBVIOUS
<1>1. /\ UNCHANGED <<order, out, at, todo, returnfile, orphans, ran, result, calls>>
      /\ child[p].pc = "write" /\ child[p].pc \in After /\ child[p] # NoChild /\ Exits(p)
  BY DEF WriteResult, childFrame, agentVars, NoChild, After
<1>2. child[p].arg \in Nat /\ child[p].from \in {"localhost", "peer"} /\ name \in Method
  BY <1>1, <1>a DEF MInv, MethodsTyped, Waited, ChildState
<1>3. /\ g \in Package /\ g.m = name /\ g.kind = "reply"
      /\ (g.from = "localhost" \/ g.m \notin Local)
  BY <1>2, <1>b, Attached
<1>4. in' = [in EXCEPT ![g] = v] /\ v \in Nat \cup {None}
  BY <1>2, <1>3, <1>a, <1>b, <1>c DEF WriteResult, MInv, MethodsTyped
<1>5. /\ in' \in [Package -> Nat \cup {None}] /\ Unasked'
      /\ \A f \in Package : in'[f] = (IF f = g THEN v ELSE in[f])
  BY <1>3, <1>4, FileWritten
<1>6. /\ \A m \in Local : Argument(m)' = Argument(m)
      /\ \A m \in Local : Result(m)' = IF m = name THEN v ELSE Result(m)
  BY <1>3, <1>5, <1>b, Attached, LocalMethods DEF Argument, Result
<1>7. /\ child' \in [Agent -> ChildState \cup {NoChild}]
      /\ child'[p] = NoChild /\ child'[p].pc \notin ChildPhases
      /\ \A q \in Agent \ {p} : child'[q] = child[q]
  BY <1>1, ChildExits
<1>8. MethodsTyped'
  BY <1>1, <1>5, <1>7 DEF MInv, MethodsTyped
<1>9. Listing(p)' /\ Waited(p)' /\ \A q \in Agent \ {p} : Excluded(p, q)'
  BY <1>1, <1>7 DEF MInv, Listing, Waited, Excluded, CallAt, FileAt
<1>10. \A q \in Agent : Listing(q)' /\ Waited(q)' /\ \A r \in Agent \ {q} : Excluded(q, r)'
  BY <1>1, <1>7, <1>9, Mutual
<1>11. ASSUME NEW m \in Local \ orphans', v = None \/ ~(m = name) \/ v = 0 PROVE Numbered(m)'
  <2>1. Result(m)' \in {Result(m), None, 0}
    BY <1>6, <1>11
  <2>2. \A q \in Agent : at'[q] \in Sending \ {"open"} /\ CallAt(q)' = m =>
           at[q] \in Sending \ {"open"} /\ CallAt(q) = m
    BY <1>1 DEF CallAt
  <2>3. \A q \in Agent : Serves(q, m)' /\ child'[q].pc \in Before \cup After =>
             Serves(q, m) /\ child'[q] = child[q]
    BY <1>7 DEF Serves, ChildPhases
  <2>4. \A q \in Agent : Serves(q, m)' /\ child'[q].pc \in Before \cup After =>
             /\ Serves(q, m) /\ child'[q].arg = child[q].arg
             /\ child'[q].pc \in Before => child[q].pc \in Before
             /\ child'[q].pc = "loaded" => child[q].pc = "loaded" \/ Argument(m)' = None
             /\ child'[q].pc \in After => child[q].pc \in After
    BY <2>3
  <2>. QED
    BY <1>1, <1>6, <1>11, <2>1, <2>2, <2>4, Steady
<1>12. ASSUME NEW m \in Local \ orphans', m = name PROVE Numbered(m)'
  <2>0. /\ Numbered(m) /\ result[m] \in Nat /\ None \notin Nat /\ ran[m] \in Seq(Nat)
    BY <1>1, <1>12, LocalMethods, MethodsAssumption DEF MInv, MethodsTyped
  <2>1. Latest(m, child[p].arg)
    <3>1. Serves(p, m)
      BY <1>1, <1>12, <1>a DEF MInv, Waited, Serves, After
    <3>. QED
      BY <1>1, <2>0, <3>1 DEF Numbered, Held
  <2>2. RanInOrder(m)'
    BY <1>1, <1>6, <1>12, <2>0 DEF Numbered, RanInOrder, New
  <2>3. Answered(m)'
    <3>1. Result(m)' \in {None, child[p].arg}
      BY <1>6, <1>12, <1>c
    <3>2. child[p].arg # 0 => /\ \E i \in DOMAIN ran[m] : ran[m][i] = child[p].arg
                              /\ child[p].arg >= result[m]
      BY <1>2, <2>0, <2>1 DEF Latest, Numbered, Answered
    <3>. QED
      BY <1>1, <2>0, <3>1, <3>2 DEF Numbered, Answered
  <2>4. ASSUME NEW q \in Agent PROVE Writing(q, m)'
    BY <1>1, <1>6, <1>12, <2>0 DEF Numbered, Writing, New, CallAt
  <2>5. \A q \in Agent : child'[q].pc \in Before \cup After => child'[q] = child[q]
    BY <1>7 DEF ChildPhases
  <2>6. ASSUME NEW q \in Agent PROVE Held(q, m)'
    <3>1. Held(q, m)
      BY <2>0 DEF Numbered
    <3>. QED
      BY <1>1, <1>6, <1>12, <2>5, <3>1 DEF Held, Serves, New, Latest, Before
  <2>7. ASSUME NEW q \in Agent, NEW r \in Agent PROVE Older(q, r, m)'
    <3>1. Older(q, r, m)
      BY <2>0 DEF Numbered
    <3>. QED
      BY <1>1, <2>5, <3>1 DEF Older, Serves, CallAt
  <2>. QED
    BY <2>2, <2>3, <2>4, <2>6, <2>7 DEF Numbered
<1>. QED
  BY <1>1, <1>5, <1>8, <1>10, <1>11, <1>12 DEF MInv

(* Copies from the peer are of its own packages. *)
LEMMA Pulling ==
  ASSUME MInv, GetRemoteMethods, UNCHANGED order
  PROVE  MInv'
<1>1. UNCHANGED <<order, out, at, todo, returnfile, child, calls, result, ran, orphans>>
  BY DEF GetRemoteMethods, agentVars
<1>2. PICK parts \in SUBSET Package :
         /\ in' = [g \in Package |-> IF g \in parts THEN 1 ELSE in[g]]
         /\ \A g \in parts : g.from = "peer" /\ (g.kind = "reply" => g.m \in out)
  <2>1. PICK f \in {g \in Package : g.part = 0 /\ g.from = "peer" /\
                      (IF g.kind = "call" THEN TRUE ELSE g.m \in out)} :
           \E parts \in {{f}, {Attachment(f)}, {f, Attachment(f)}} :
              in' = [g \in Package |-> IF g \in parts THEN 1 ELSE in[g]]
    BY DEF GetRemoteMethods
  <2>2. PICK parts \in {{f}, {Attachment(f)}, {f, Attachment(f)}} :
           in' = [g \in Package |-> IF g \in parts THEN 1 ELSE in[g]]
    BY <2>1
  <2>3. parts \in SUBSET Package
    BY <2>1, <2>2, Packages
  <2>4. \A g \in parts : g.from = "peer" /\ (g.kind = "reply" => g.m \in out)
    BY <2>1, <2>2, Packages
  <2>. QED
    BY <2>2, <2>3, <2>4
<1>3. /\ in' \in [Package -> Nat \cup {None}]
      /\ \A g \in Package : in'[g] = IF g \in parts THEN 1 ELSE in[g]
  BY <1>2 DEF MInv, MethodsTyped
<1>4. Unasked'
  BY <1>2, <1>3 DEF MInv, MethodsTyped, Unasked
<1>5. \A m \in Local : Argument(m)' = Argument(m) /\ Result(m)' = Result(m)
  BY <1>2, <1>3, LocalMethods, Attached DEF Argument, Result
<1>6. MethodsTyped'
  BY <1>1, <1>3 DEF MInv, MethodsTyped
<1>7. \A p \in Agent : Listing(p)' /\ Waited(p)' /\ \A q \in Agent \ {p} : Excluded(p, q)'
  BY <1>1 DEF MInv, Listing, Waited, Excluded, CallAt, FileAt
<1>8. ASSUME NEW m \in Local \ orphans' PROVE Numbered(m)'
  <2>1. \A q \in Agent : at'[q] \in Sending \ {"open"} /\ CallAt(q)' = m =>
           at[q] \in Sending \ {"open"} /\ CallAt(q) = m
    BY <1>1 DEF CallAt
  <2>2. \A q \in Agent : Serves(q, m)' <=> Serves(q, m)
    BY <1>1 DEF Serves
  <2>. QED
    BY <1>1, <1>5, <2>1, <2>2, Steady
<1>. QED
  BY <1>1, <1>4, <1>6, <1>7, <1>8 DEF MInv

(* The child of an agent that is killed is an orphan. *)
LEMMA KillingAgent ==
  ASSUME MInv, NEW p \in Agent, KillAgent(p), UNCHANGED order
  PROVE  MInv'
<1>1. /\ UNCHANGED <<order, in, out, returnfile, child, calls, result, ran>>
      /\ at' = [at EXCEPT ![p] = "idle"] /\ todo' = [todo EXCEPT ![p] = {}]
      /\ orphans \subseteq orphans'
      /\ child[p] # NoChild => child[p].digest \in orphans'
      /\ orphans' \in SUBSET Method
  BY DEF KillAgent, MInv, MethodsTyped, ChildState
<1>2. /\ at' \in [Agent -> AgentPhases] /\ at'[p] = "idle"
      /\ \A q \in Agent \ {p} : at'[q] = at[q]
  BY <1>1 DEF MInv, MethodsTyped, AgentPhases
<1>3. /\ todo' \in [Agent -> SUBSET Nat]
      /\ \A q \in Agent \ {p} : todo'[q] = todo[q]
  BY <1>1, Listed
<1>4. MethodsTyped' /\ Unasked'
  BY <1>1, <1>2, <1>3, FilesStay DEF MInv, MethodsTyped
<1>5. Listing(p)' /\ Waited(p)' /\ \A q \in Agent \ {p} : Excluded(p, q)'
  BY <1>1, <1>2 DEF MInv, Listing, Waited, Excluded, Sending, Fetching
<1>6. \A q \in Agent : Listing(q)' /\ Waited(q)' /\ \A r \in Agent \ {q} : Excluded(q, r)'
  BY <1>1, <1>2, <1>3, <1>5, Mutual
<1>7. ASSUME NEW m \in Local \ orphans' PROVE Numbered(m)'
  <2>1. \A q \in Agent : at'[q] \in Sending \ {"open"} /\ CallAt(q)' = m =>
           at[q] \in Sending \ {"open"} /\ CallAt(q) = m
    BY <1>2, <1>3 DEF CallAt, Sending
  <2>2. \A q \in Agent : Serves(q, m)' <=> Serves(q, m)
    BY <1>1 DEF Serves
  <2>. QED
    BY <1>1, <2>1, <2>2, FilesStay, Steady
<1>. QED
  BY <1>4, <1>6, <1>7 DEF MInv

(* A child that is killed just ends. *)
LEMMA KillingChild ==
  ASSUME MInv, NEW p \in Agent, KillChild(p), UNCHANGED order
  PROVE  MInv'
BY ChildEnds DEF KillChild, agentVars

(* Nothing was called. *)
LEMMA InitMInv ==
  ASSUME MethodsInit
  PROVE  MInv
<1>1. MethodsTyped
  BY LocalMethods DEF MethodsInit, MethodsTyped, AgentPhases
<1>2. Unasked
  BY DEF MethodsInit, Unasked
<1>3. \A p \in Agent : Listing(p) /\ Waited(p) /\ \A q \in Agent \ {p} : Excluded(p, q)
  BY DEF MethodsInit, Listing, Waited, Excluded, Sending, Fetching
<1>4. ASSUME NEW m \in Local \ orphans PROVE Numbered(m)
  <2>1. /\ Argument(m) = None /\ Result(m) = None /\ ran[m] = <<>> /\ result[m] = 0
        /\ DOMAIN ran[m] = {}
    BY <1>4, LocalMethods, Attached DEF MethodsInit, Argument, Result
  <2>2. \A p \in Agent : at[p] \notin Sending /\ child[p].pc \notin Before \cup After
    BY DEF MethodsInit, Sending, NoChild, Before, After
  <2>. QED
    BY <2>1, <2>2 DEF Numbered, RanInOrder, Answered, Writing, Held, Older, Before, Sending
<1>. QED
  BY <1>1, <1>2, <1>3, <1>4 DEF MInv

(* The steps of a child, *)
LEMMA ChildMInv ==
  ASSUME MInv, NEW p \in Agent, Child(p), UNCHANGED order
  PROVE  MInv'
<1>1. CASE CheckForMethodPackage(p)
  BY <1>1, Checking
<1>2. CASE CountAttachments(p)
  BY <1>2, Counting
<1>3. CASE LoadArgument(p)
  BY <1>3, LoadingArgument
<1>4. CASE RemoveArgument(p)
  BY <1>4, RemovingArgument
<1>5. CASE RunMethod(p)
  BY <1>5, Running
<1>6. CASE OpenReply(p) \/ CloseReply(p) \/ AttachResult(p)
  BY <1>6, Replying
<1>7. CASE WriteResult(p)
  BY <1>7, WritingResult
<1>. QED
  BY <1>1, <1>2, <1>3, <1>4, <1>5, <1>6, <1>7 DEF Child

(* those of an agent, *)
LEMMA AgentMInv ==
  ASSUME MInv, NEW p \in Agent, DoMethods(p), UNCHANGED order
  PROVE  MInv'
<1>1. CASE BeginMethods(p)
  BY <1>1, BeginningMethods
<1>2. CASE Refused(p)
  BY <1>2, BeingRefused
<1>3. CASE Dispatch(p)
  BY <1>3, Dispatching
<1>4. CASE OpenCall(p)
  BY <1>4, Calling, CallingPeer
<1>5. CASE CloseCall(p) \/ AttachArgument(p)
  BY <1>5, Closing
<1>6. CASE WriteArgument(p)
  BY <1>6, WritingArgument
<1>7. CASE ListCalls(p) \/ ListReplies(p)
  BY <1>7, ListingPackages
<1>8. CASE StartChild(p)
  BY <1>8, StartingChild
<1>9. CASE ChildEnded(p) \/ EndMethods(p) \/ Fetch(p)
  BY <1>9, Ending
<1>10. CASE LoadResult(p)
  BY <1>10, LoadingResult
<1>11. CASE RemoveResult(p) \/ RemoveReply(p)
  BY <1>11, Removing
<1>. QED
  BY <1>1, <1>2, <1>3, <1>4, <1>5, <1>6, <1>7, <1>8, <1>9, <1>10, <1>11 DEF DoMethods

(* and all steps. *)
LEMMA StepMInv ==
  ASSUME MInv, [MethodsNext]_methodVars
  PROVE  MInv'
<1>1. CASE UNCHANGED methodVars
  <2>1. UNCHANGED <<order, in, out, at, todo, returnfile, child, calls, result, ran, orphans>>
    BY <1>1 DEF methodVars, agentVars
  <2>2. MethodsTyped' /\ Unasked'
    BY <2>1 DEF MInv, MethodsTyped, Unasked
  <2>3. \A p \in Agent : Listing(p)' /\ Waited(p)' /\ \A q \in Agent \ {p} : Excluded(p, q)'
    BY <2>1 DEF MInv, Listing, Waited, Excluded, CallAt, FileAt
  <2>4. ASSUME NEW m \in Local \ orphans' PROVE Numbered(m)'
    BY <2>1, <2>4, FilesStay, Steady DEF CallAt, Serves
  <2>. QED
    BY <2>1, <2>2, <2>3, <2>4 DEF MInv
<1>2. ASSUME NEW p \in Agent, DoMethods(p) \/ Child(p) \/ KillAgent(p) \/ KillChild(p),
             UNCHANGED order
      PROVE  MInv'
  BY <1>2, AgentMInv, ChildMInv, KillingAgent, KillingChild
<1>3. CASE GetRemoteMethods /\ UNCHANGED order
  BY <1>3, Pulling
<1>. QED
  BY <1>1, <1>2, <1>3 DEF MethodsNext

(* Arguments and results are in the order of the calls everywhere, in each   *)
(* state of DoMethods, EvaluatePendingMethod and their children.            *)
THEOREM MethodsInvariant == MethodsSpec => []MInv
<1>1. MethodsInit => MInv
  BY InitMInv
<1>2. MInv /\ [MethodsNext]_methodVars => MInv'
  BY StepMInv
<1>. QED
  BY <1>1, <1>2, PTL DEF MethodsSpec

(* A call of a method of this host is run at most once, and after those that *)
(* were written before it (EvaluatePendingMethod, CheckForMethod).          *)
THEOREM CallsRunOnce == MethodsSpec => []RunOncePerCall
<1>1. MInv => RunOncePerCall
  BY DEF MInv, Numbered, RanInOrder, RunOncePerCall
<1>. QED
  BY <1>1, MethodsInvariant, PTL

(* Only LoadResult changes the variable of a result. *)
LEMMA OnlyLoading ==
  ASSUME [MethodsNext]_methodVars
  PROVE  result' = result \/ \E p \in Agent : LoadResult(p) /\ UNCHANGED order
BY ZenonT(40) DEF MethodsNext, DoMethods, Child, methodVars, agentVars, childFrame, agentFrame,
       BeginMethods, Refused, Dispatch, OpenCall, CloseCall, AttachArgument, WriteArgument,
       ListCalls, StartChild, ChildEnded, ListReplies, Fetch, RemoveResult, RemoveReply,
       EndMethods, CheckForMethodPackage, CountAttachments, LoadArgument, RemoveArgument,
       RunMethod, OpenReply, CloseReply, AttachResult, WriteResult, GetRemoteMethods,
       KillAgent, KillChild

(* What ParentLoadReplyPackage reads is the result of a run, and not of one  *)
(* before that whose result the variable holds.                             *)
THEOREM ResultsComeInOrder == MethodsSpec => ResultsInOrder
<1> DEFINE InOrder ==
      \A m \in Local \ orphans : result'[m] \notin {result[m], 0} =>
          result'[m] > result[m] /\ result'[m] \in Range(ran[m])
<1>1. ASSUME MInv, [MethodsNext]_methodVars PROVE [InOrder]_methodVars
  <2>1. CASE result' = result
    BY <2>1
  <2>2. CASE \E p \in Agent : LoadResult(p) /\ UNCHANGED order
    BY <1>1, <2>2, LoadingResult DEF Range
  <2>. QED
    BY <1>1, <2>1, <2>2, OnlyLoading
<1>. QED
  BY <1>1, MethodsInvariant, PTL DEF MethodsSpec, ResultsInOrder

---------------------------------------------------------------------------
(***************************************************************************)
(* An undisturbed run.  While an agent is alone the files of each method   *)
(* of this host are, in the loop over the methods, those of the call that  *)
(* was just written (CallReady), and in the loop over the calls still that *)
(* or the reply of the child to it (ReplyReady), which the third loop      *)
(* takes.  Which of the two depends on whether the method is still ahead   *)
(* in the list of the agent.                                               *)
(***************************************************************************)

(* The other agents rest and the peer has sent nothing. *)
Alone(p) ==
    /\ \A q \in Agent \ {p} : at[q] = "idle" /\ child[q] = NoChild
    /\ \A f \in Package : f.from = "peer" => in[f] = None
CallReady(m) == in[CallOf(m)] = 1 /\ Argument(m) = calls[m]
ReplyReady(m) == in[ReplyOf(m)] = 1 /\ Result(m) = calls[m]
ToDo(p, m) == \E n \in todo[p] : order[n].m = m

Sends(p) ==
    at[p] \in Sending \cup {"dispatch"} =>
        /\ \A m \in Local : (\A i \in todo[p] : Promises[i] # m) => CallReady(m)
        /\ at[p] \in Sending \ {"open"} =>
              CallAt(p) \in Local /\ in[CallOf(CallAt(p))] # None
        /\ at[p] \in {"attach", "write"} => in[CallOf(CallAt(p))] = 1
        /\ at[p] = "write" => Argument(CallAt(p)) # None
Serving(p, m) ==
    IF child[p] = NoChild THEN ReplyReady(m)
    ELSE /\ child[p].name = m /\ child[p].digest = m
         /\ child[p].pc \in {"check", "count", "load"} => CallReady(m)
         /\ child[p].pc # "check" => child[p].from = "localhost"
         /\ child[p].pc \in Before \cup After => child[p].arg = calls[m]
         /\ child[p].pc = "close" => in[ReplyOf(m)] # None
         /\ child[p].pc \in {"attach", "write"} => in[ReplyOf(m)] = 1
         /\ child[p].pc = "write" => Result(m) # None
Runs(p) ==
    at[p] \in {"exec", "wait"} =>
        /\ \A n \in todo[p] : order[n].m \in Local /\ order[n] = CallOf(order[n].m)
        /\ \A m \in Local : ToDo(p, m) =>
              /\ bundle[p][m] = CallOf(m)
              /\ CallReady(m) \/ (at[p] = "wait" /\ FileAt(p).m = m)
        /\ \A m \in Local : ~ToDo(p, m) => ReplyReady(m)
        /\ at[p] = "wait" => Serving(p, FileAt(p).m)
Fetches(p) ==
    at[p] \in Fetching \cup {"fetch"} =>
        /\ \A n \in todo[p] : order[n].m \in Local /\ order[n] = ReplyOf(order[n].m)
        /\ \A m \in Local : ToDo(p, m) =>
              ReplyReady(m) \/ (at[p] \in {"drop", "clear"} /\ FileAt(p).m = m)
        /\ \A m \in Local : ~ToDo(p, m) => result[m] = calls[m]
        /\ at[p] \in {"drop", "clear"} => result[FileAt(p).m] = calls[FileAt(p).m]

Quiet(p) ==
    /\ Alone(p) /\ (at[p] # "wait" => child[p] = NoChild)
    /\ Sends(p) /\ Runs(p) /\ Fetches(p)
Undisturbed(p) == at[p] # "idle" /\ ~disturbed[p] => Quiet(p)
QInv == DOMAIN bundle = Agent /\ \A p \in Agent : Undisturbed(p)

(* What disturbs a run is not forgotten while it lasts. *)
LEMMA Remembered ==
  ASSUME NEW p \in Agent, NEW q \in Agent,
         DoMethods(q) \/ Child(q) \/ KillAgent(q) \/ KillChild(q),
         ~(q = p /\ BeginMethods(q)), ~disturbed'[p]
  PROVE  ~disturbed[p]
<1>1. CASE BeginMethods(q)
  BY <1>1 DEF BeginMethods
<1>2. CASE Refused(q) \/ CheckForMethodPackage(q) \/ KillChild(q)
  <2>1. PICK ps : Disturb(ps)
    BY <1>2 DEF Refused, CheckForMethodPackage, KillChild
  <2>. QED
    BY <2>1 DEF Disturb
<1>3. CASE ~(BeginMethods(q) \/ Refused(q) \/ CheckForMethodPackage(q) \/ KillChild(q))
  <2>1. disturbed' = disturbed
    BY <1>3 DEF DoMethods, Child, childFrame, agentFrame, Dispatch, OpenCall, CloseCall,
       AttachArgument, WriteArgument, ListCalls, StartChild, ChildEnded, ListReplies, Fetch,
       LoadResult, RemoveResult, RemoveReply, EndMethods, CountAttachments, LoadArgument,
       RemoveArgument, RunMethod, OpenReply, CloseReply, AttachResult, WriteResult, KillAgent
  <2>. QED
    BY <2>1
<1>. QED
  BY <1>1, <1>2, <1>3

(* The steps of an agent and its child leave the others where they are. *)
LEMMA OthersStay ==
  ASSUME MethodsTyped, NEW p \in Agent,
         DoMethods(p) \/ Child(p) \/ KillAgent(p) \/ KillChild(p)
  PROVE  \A q \in Agent \ {p} : /\ at'[q] = at[q] /\ todo'[q] = todo[q]
                                /\ child'[q] = child[q]
<1>1. at' = at \/ \E to : at' = [at EXCEPT ![p] = to]
  BY ZenonT(40) DEF DoMethods, Child, KillAgent, KillChild, childFrame, agentVars, Goes,
     BeginMethods, Refused, Dispatch, OpenCall, CloseCall, AttachArgument, WriteArgument,
     ListCalls, StartChild, ChildEnded, ListReplies, Fetch, LoadResult, RemoveResult,
     RemoveReply, EndMethods, CheckForMethodPackage, CountAttachments, LoadArgument,
     RemoveArgument, RunMethod, OpenReply, CloseReply, AttachResult, WriteResult
<1>2. todo' = todo \/ \E S : todo' = [todo EXCEPT ![p] = S]
  <2>1. CASE Done(p)
    BY <2>1 DEF Done
  <2>2. CASE ~Done(p)
    BY <2>2, ZenonT(40) DEF DoMethods, Child, KillAgent, KillChild, childFrame, agentVars, List,
       BeginMethods, Refused, Dispatch, OpenCall, CloseCall, AttachArgument, WriteArgument,
       ListCalls, StartChild, ChildEnded, ListReplies, Fetch, LoadResult, RemoveResult,
       RemoveReply, EndMethods, CheckForMethodPackage, CountAttachments, LoadArgument,
       RemoveArgument, RunMethod, OpenReply, CloseReply, AttachResult, WriteResult
  <2>. QED
    BY <2>1, <2>2
<1>3. \A q \in Agent \ {p} : child'[q] = child[q]
  <2>1. CASE DoMethods(p) /\ ~StartChild(p)
    <3>1. child' = child
      BY <2>1 DEF DoMethods, BeginMethods, Refused, Dispatch, OpenCall, CloseCall,
         AttachArgument, WriteArgument, ListCalls, ChildEnded, ListReplies, Fetch,
         LoadResult, RemoveResult, RemoveReply, EndMethods
    <3>. QED
      BY <3>1
  <2>2. CASE StartChild(p)
    BY <2>2 DEF StartChild, MethodsTyped
  <2>3. CASE Child(p) \/ KillChild(p)
    BY <2>3 DEF Child, Becomes, Exits, MethodsTyped, CheckForMethodPackage,
       CountAttachments, LoadArgument, RemoveArgument, RunMethod, OpenReply, CloseReply,
       AttachResult, WriteResult, KillChild
  <2>4. CASE KillAgent(p)
    BY <2>4 DEF KillAgent
  <2>. QED
    BY <2>1, <2>2, <2>3, <2>4
<1>. QED
  BY <1>1, <1>2, <1>3 DEF MethodsTyped

(* What another agent does disturbs the run. *)
LEMMA Elsewhere ==
  ASSUME MInv, NEW p \in Agent, Undisturbed(p), NEW q \in Agent \ {p},
         DoMethods(q) \/ Child(q) \/ KillAgent(q) \/ KillChild(q)
  PROVE  Undisturbed(p)'
<1>. SUFFICES ASSUME at'[p] # "idle", ~disturbed'[p] PROVE FALSE
  BY DEF Undisturbed
<1>1. at[p] # "idle"
  BY OthersStay DEF MInv
<1>2. ~disturbed[p]
  BY Remembered
<1>3. at[q] = "idle" /\ child[q] = NoChild
  BY <1>1, <1>2 DEF Undisturbed, Quiet, Alone
<1>4. ~Child(q) /\ ~KillAgent(q) /\ ~KillChild(q)
  BY <1>3 DEF Child, KillAgent, KillChild, NoChild, CheckForMethodPackage, CountAttachments,
     LoadArgument, RemoveArgument, RunMethod, OpenReply, CloseReply, AttachResult, WriteResult
<1>5. BeginMethods(q)
  BY <1>3, <1>4 DEF DoMethods, Goes, Refused, Dispatch, OpenCall, CloseCall,
     AttachArgument, WriteArgument, ListCalls, StartChild, ChildEnded, ListReplies, Fetch,
     LoadResult, RemoveResult, RemoveReply, EndMethods
<1>6. p \in {r \in Agent \ {q} : Busy(r)}
  BY <1>1 DEF Busy
<1>7. disturbed'[p]
  BY <1>5, <1>6 DEF BeginMethods
<1>. QED
  BY <1>7

(* A step of a run that has not been disturbed. *)
LEMMA SoFarQuiet ==
  ASSUME MInv, QInv, NEW p \in Agent,
         DoMethods(p) \/ Child(p) \/ KillAgent(p) \/ KillChild(p),
         ~BeginMethods(p), at'[p] # "idle", ~disturbed'[p]
  PROVE  at[p] # "idle" /\ Quiet(p)
<1>1. ~disturbed[p]
  BY Remembered
<1>2. at[p] # "idle"
  BY DEF DoMethods, Child, KillAgent, KillChild, childFrame, agentVars, Goes, MInv,
     MethodsTyped, Refused, Dispatch, OpenCall, CloseCall, AttachArgument, WriteArgument,
     ListCalls, StartChild, ChildEnded, ListReplies, Fetch, LoadResult, RemoveResult,
     RemoveReply, EndMethods, CheckForMethodPackage, CountAttachments, LoadArgument,
     RemoveArgument, RunMethod, OpenReply, CloseReply, AttachResult, WriteResult
<1>. QED
  BY <1>1, <1>2 DEF QInv, Undisturbed

LEMMA StillAlone ==
  ASSUME MInv, NEW p \in Agent, Alone(p),
         DoMethods(p) \/ Child(p) \/ KillAgent(p) \/ KillChild(p),
         \A f \in Package : f.from = "peer" => in'[f] \in {in[f], None}
  PROVE  Alone(p)'
BY OthersStay DEF Alone, MInv

(* What Done leaves to do. *)
LEMMA DoneIs ==
  ASSUME MInv, NEW p \in Agent, todo[p] # {}, Done(p)
  PROVE  todo'[p] = todo[p] \ {Min(todo[p])} /\ Min(todo[p]) \in todo[p]
<1>1. todo'[p] = todo[p] \ {Min(todo[p])}
  BY DEF Done, MInv, MethodsTyped
<1>2. todo[p] \in SUBSET Nat
  BY DEF MInv, MethodsTyped
<1>. QED
  BY <1>1, <1>2, Least

(* The files of different methods, and those of one. *)
LEMMA FilesApart ==
  ASSUME NEW m \in Local
  PROVE  /\ m \in Method /\ m # None
         /\ CallOf(m) \in Package /\ CallOf(m).m = m /\ CallOf(m).from = "localhost"
         /\ ReplyOf(m) \in Package /\ ReplyOf(m).m = m /\ ReplyOf(m).from = "localhost"
         /\ Attachment(CallOf(m)) \in Package /\ Attachment(CallOf(m)).m = m
         /\ Attachment(CallOf(m)).from = "localhost"
         /\ Attachment(ReplyOf(m)) \in Package /\ Attachment(ReplyOf(m)).m = m
         /\ Attachment(ReplyOf(m)).from = "localhost"
         /\ CallOf(m) # Attachment(CallOf(m)) /\ CallOf(m) # ReplyOf(m)
         /\ CallOf(m) # Attachment(ReplyOf(m)) /\ ReplyOf(m) # Attachment(CallOf(m))
         /\ ReplyOf(m) # Attachment(ReplyOf(m))
         /\ Attachment(CallOf(m)) # Attachment(ReplyOf(m))
<1>1. m \in Method /\ m # None
  BY LocalMethods, MethodsAssumption
<1>. QED
  BY <1>1, Packages, Attached

(* The files of methods that are left alone are ready if they were. *)
LEMMA ReadyStays ==
  ASSUME NEW m \in Local, calls'[m] = calls[m],
         \A f \in Package : f.m = m => in'[f] = in[f]
  PROVE  /\ CallReady(m)' <=> CallReady(m)
         /\ ReplyReady(m)' <=> ReplyReady(m)
BY FilesApart DEF CallReady, ReplyReady, Argument, Result

(* The files are of this host. *)
LEMMA RemovedHere ==
  ASSUME NEW fs, in' = Without(fs)
  PROVE  /\ \A f \in Package : f \notin fs => in'[f] = in[f]
         /\ \A f \in Package : f.from = "peer" => in'[f] \in {in[f], None}
BY DEF Without

-----------------------------------------------------------------------------
(* The run begins. *)
LEMMA BeginQuiet ==
  ASSUME MInv, QInv, NEW p \in Agent, BeginMethods(p), UNCHANGED order
  PROVE  Undisturbed(p)'
<1>. SUFFICES ASSUME ~disturbed'[p] PROVE Quiet(p)'
  BY DEF Undisturbed
<1>1. at'[p] = "dispatch" /\ todo'[p] = DOMAIN Promises /\ child' = child /\ child[p] = NoChild
      /\ in' = in
  BY DEF BeginMethods, Goes, Busy, MInv, MethodsTyped
<1>2. \A q \in Agent \ {p} : at'[q] = at[q]
  BY DEF BeginMethods, Goes, MInv, MethodsTyped
<1>3. /\ {q \in Agent \ {p} : Busy(q)} = {}
      /\ {f \in Package : Present(f) /\ f.from = "peer"} = {}
  BY DEF BeginMethods
<1>4. Alone(p)'
  BY <1>1, <1>2, <1>3 DEF Alone, Busy, Present
<1>5. Sends(p)'
  <2>1. \A m \in Local : \E i \in DOMAIN Promises : Promises[i] = m
    BY LocalMethods DEF Method, ToSet
  <2>. QED
    BY <1>1, <2>1 DEF Sends, Sending
<1>. QED
  BY <1>1, <1>4, <1>5 DEF Quiet, Runs, Fetches, Fetching

(* It goes on with the loop over the methods. *)
LEMMA SendQuiet ==
  ASSUME MInv, QInv, NEW p \in Agent, UNCHANGED order,
         \/ Dispatch(p) \/ OpenCall(p) \/ CloseCall(p)
         \/ AttachArgument(p) \/ WriteArgument(p)
  PROVE  Undisturbed(p)'
<1>. SUFFICES ASSUME at'[p] # "idle", ~disturbed'[p] PROVE Quiet(p)'
  BY DEF Undisturbed
<1>1. Quiet(p) /\ DoMethods(p)
  <2>1. DoMethods(p)
    BY DEF DoMethods
  <2>2. ~BeginMethods(p)
    BY DEF BeginMethods, Goes, Busy, Dispatch, OpenCall, CloseCall, AttachArgument,
       WriteArgument
  <2>. QED
    BY <2>1, <2>2, SoFarQuiet
<1>2. Alone(p) /\ Sends(p) /\ at[p] \in Sending \cup {"dispatch"} /\ child[p] = NoChild
      /\ child' = child
  BY <1>1 DEF Quiet, Sending, Dispatch, OpenCall, CloseCall, AttachArgument, WriteArgument,
     Goes
<1>3. at'[p] \in Sending \cup {"dispatch"}
  BY DEF Dispatch, OpenCall, CloseCall, AttachArgument, WriteArgument, Goes, MInv,
     MethodsTyped, Sending
<1>4. todo[p] # {} /\ CallAt(p) \in Method /\ Min(todo[p]) \in todo[p]
      /\ Promises[Min(todo[p])] = CallAt(p)
  <2>1. todo[p] # {}
    BY DEF MInv, Listing, Dispatch, OpenCall, CloseCall, AttachArgument, WriteArgument,
       Goes, Sending
  <2>. QED
    BY <1>2, <2>1, Heads DEF MInv, CallAt
<1> DEFINE m == CallAt(p)
<1>. SUFFICES /\ Sends(p)'
              /\ \A f \in Package : f.from = "peer" => in'[f] \in {in[f], None}
  BY <1>1, <1>2, <1>3, StillAlone DEF Quiet, Runs, Fetches, Fetching, Sending
<1>5. CASE Dispatch(p)
  <2>1. at'[p] = "open" /\ UNCHANGED <<in, todo, calls>> /\ at[p] = "dispatch"
    BY <1>5 DEF Dispatch, Goes, MInv, MethodsTyped
  <2>2. Sends(p)'
    BY <1>2, <2>1 DEF Sends, CallReady, Argument
  <2>. QED
    BY <2>1, <2>2
<1>6. CASE OpenCall(p) /\ m \in Local
  <2>1. at'[p] = "close" /\ in' = [in EXCEPT ![CallOf(m)] = 0] /\ UNCHANGED todo
        /\ \A k \in Method : k # m => calls'[k] = calls[k]
    BY <1>6 DEF OpenCall, Goes, MInv, MethodsTyped
  <2>2. /\ in'[CallOf(m)] = 0
        /\ \A f \in Package : f # CallOf(m) => in'[f] = in[f]
        /\ \A f \in Package : f.from = "peer" => in'[f] \in {in[f], None}
    BY <1>6, <2>1, FilesApart DEF MInv, MethodsTyped
  <2>3. ASSUME NEW k \in Local, \A i \in todo[p] : Promises[i] # k
        PROVE  CallReady(k)'
    <3>1. k # m /\ CallReady(k)
      BY <1>2, <1>4, <2>3 DEF Sends
    <3>. QED
      BY <1>6, <2>1, <2>2, <3>1, ReadyStays, FilesApart
  <2>4. CallAt(p)' = m /\ 0 # None
    BY <2>1, MethodsAssumption DEF CallAt
  <2>. QED
    BY <1>6, <2>1, <2>2, <2>3, <2>4 DEF Sends
<1>7. CASE OpenCall(p) /\ m \notin Local
  <2>1. at'[p] = "dispatch" /\ in' = in /\ Done(p)
        /\ \A k \in Method : k # m => calls'[k] = calls[k]
    BY <1>7 DEF OpenCall, Goes, MInv, MethodsTyped
  <2>2. todo'[p] = todo[p] \ {Min(todo[p])}
    BY <1>4, <2>1, DoneIs
  <2>3. ASSUME NEW k \in Local, \A i \in todo'[p] : Promises[i] # k
        PROVE  CallReady(k)'
    <3>1. k # m
      BY <1>7
    <3>2. CallReady(k)
      BY <1>2, <1>4, <2>2, <2>3, <3>1 DEF Sends
    <3>. QED
      BY <2>1, <3>1, <3>2, ReadyStays, FilesApart
  <2>. QED
    BY <2>1, <2>3 DEF Sends, Sending
<1>8. CASE CloseCall(p)
  <2>1. at[p] = "close" /\ at'[p] = "attach" /\ UNCHANGED <<todo, calls>>
    BY <1>8 DEF CloseCall, Goes, MInv, MethodsTyped
  <2>2. m \in Local /\ in[CallOf(m)] # None
    BY <1>2, <2>1 DEF Sends, Sending
  <2>3. in' = [in EXCEPT ![CallOf(m)] = 1]
    BY <1>8, <2>2, FilesApart DEF CloseCall, MInv, MethodsTyped
  <2>4. /\ in'[CallOf(m)] = 1
        /\ \A f \in Package : f # CallOf(m) => in'[f] = in[f]
        /\ \A f \in Package : f.from = "peer" => in'[f] \in {in[f], None}
    BY <2>2, <2>3, FilesApart DEF MInv, MethodsTyped
  <2>5. ASSUME NEW k \in Local, \A i \in todo[p] : Promises[i] # k
        PROVE  CallReady(k)'
    <3>1. k # m /\ CallReady(k)
      BY <1>2, <1>4, <2>5 DEF Sends
    <3>. QED
      BY <2>1, <2>2, <2>4, <3>1, ReadyStays, FilesApart
  <2>6. CallAt(p)' = m /\ 1 # None
    BY <2>1, MethodsAssumption DEF CallAt
  <2>. QED
    BY <2>1, <2>2, <2>4, <2>5, <2>6 DEF Sends
<1>9. CASE AttachArgument(p)
  <2>1. at[p] = "attach" /\ at'[p] = "write" /\ UNCHANGED <<todo, calls>>
        /\ in' = [in EXCEPT ![Attachment(CallOf(m))] = 0]
    BY <1>9 DEF AttachArgument, Goes, MInv, MethodsTyped
  <2>2. m \in Local /\ in[CallOf(m)] = 1
    BY <1>2, <2>1 DEF Sends, Sending
  <2>3. /\ in'[Attachment(CallOf(m))] = 0 /\ in'[CallOf(m)] = 1
        /\ \A f \in Package : f # Attachment(CallOf(m)) => in'[f] = in[f]
        /\ \A f \in Package : f.from = "peer" => in'[f] \in {in[f], None}
    BY <2>1, <2>2, FilesApart DEF MInv, MethodsTyped
  <2>4. ASSUME NEW k \in Local, \A i \in todo[p] : Promises[i] # k
        PROVE  CallReady(k)'
    <3>1. k # m /\ CallReady(k)
      BY <1>2, <1>4, <2>4 DEF Sends
    <3>. QED
      BY <2>1, <2>2, <2>3, <3>1, ReadyStays, FilesApart
  <2>5. CallAt(p)' = m /\ 1 # None /\ 0 # None
    BY <2>1, MethodsAssumption DEF CallAt
  <2>. QED
    BY <2>1, <2>2, <2>3, <2>4, <2>5 DEF Sends, Argument
<1>10. CASE WriteArgument(p)
  <2>1. at[p] = "write" /\ at'[p] = "dispatch" /\ calls' = calls /\ Done(p)
    BY <1>10 DEF WriteArgument, Goes, MInv, MethodsTyped
  <2>2. m \in Local /\ in[CallOf(m)] = 1 /\ Argument(m) # None
    BY <1>2, <2>1 DEF Sends, Sending
  <2>3. in' = [in EXCEPT ![Attachment(CallOf(m))] = calls[m]]
    BY <1>10, <2>2, FilesApart DEF WriteArgument, Argument, MInv, MethodsTyped
  <2>4. /\ in'[Attachment(CallOf(m))] = calls[m] /\ in'[CallOf(m)] = 1
        /\ \A f \in Package : f # Attachment(CallOf(m)) => in'[f] = in[f]
        /\ \A f \in Package : f.from = "peer" => in'[f] \in {in[f], None}
    BY <2>2, <2>3, FilesApart DEF MInv, MethodsTyped
  <2>5. todo'[p] = todo[p] \ {Min(todo[p])}
    BY <1>4, <2>1, DoneIs
  <2>6. ASSUME NEW k \in Local, \A i \in todo'[p] : Promises[i] # k
        PROVE  CallReady(k)'
    <3>1. CASE k = m
      BY <2>1, <2>4, <3>1 DEF CallReady, Argument
    <3>2. CASE k # m
      <4>1. CallReady(k)
        BY <1>2, <1>4, <2>5, <2>6, <3>2 DEF Sends
      <4>. QED
        BY <2>1, <2>2, <2>4, <3>2, <4>1, ReadyStays, FilesApart
    <3>. QED
      BY <3>1, <3>2
  <2>. QED
    BY <2>1, <2>4, <2>6 DEF Sends, Sending
<1>. QED
  BY <1>5, <1>6, <1>7, <1>8, <1>9, <1>10

(* Where a file stands in the directory. *)
LEMMA PlacesOf ==
  ASSUME MInv
  PROVE  /\ DOMAIN order \subseteq Nat
         /\ \A f \in Package : \E n \in DOMAIN order : order[n] = f
         /\ \A n \in DOMAIN order : order[n] \in Package
         /\ \A n, k \in DOMAIN order : order[n] = order[k] => n = k
<1>1. /\ DOMAIN order = 1..Len(order) /\ Len(order) \in Nat
      /\ ToSet(order) = Package /\ IsInjective(order)
  BY MethodsAssumption DEF MInv, MethodsTyped
<1>. QED
  BY <1>1 DEF ToSet, IsInjective

(* A list of packages of which each method has one. *)
LEMMA OneEach ==
  ASSUME MInv, NEW p \in Agent, todo[p] # {}, todo[p] \subseteq DOMAIN order,
         \A n, k \in todo[p] : order[n].m = order[k].m => order[n] = order[k],
         Done(p), UNCHANGED order
  PROVE  /\ FileAt(p) = order[Min(todo[p])] /\ Min(todo[p]) \in todo[p]
         /\ \A m \in Method : ToDo(p, m)' <=> ToDo(p, m) /\ m # FileAt(p).m
         /\ todo'[p] \subseteq todo[p]
<1>1. todo'[p] = todo[p] \ {Min(todo[p])} /\ Min(todo[p]) \in todo[p]
  BY DoneIs
<1>2. \A n \in todo[p] : order[n].m = FileAt(p).m => n = Min(todo[p])
  BY <1>1, PlacesOf DEF FileAt
<1>. QED
  BY <1>1, <1>2 DEF ToDo, FileAt

(* The packages of this host that a loop lists. *)
LEMMA ListQuiet ==
  ASSUME MInv, QInv, NEW p \in Agent, Alone(p), NEW kind \in {"call", "reply"}, List(p, kind)
  PROVE  /\ \A n \in todo'[p] : /\ n \in DOMAIN order /\ order[n].m \in Local
                                /\ order[n].kind = kind /\ order[n].part = 0
                                /\ order[n].from = "localhost"
         /\ \A n \in DOMAIN order :
               /\ order[n].m \in Local /\ order[n].kind = kind /\ order[n].part = 0
               /\ Present(order[n])
               => n \in todo'[p]
         /\ \A f \in Package :
               f.m \in Local /\ (f.part = 1 \/ f.kind = kind) => in'[f] = in[f]
         /\ \A f \in Package : f.from = "peer" => in'[f] \in {in[f], None}
<1> DEFINE S == {n \in DOMAIN order : order[n] \in Pending(kind) /\ Approved(order[n])}
           fs == {f \in Pending(kind) : ~Approved(f)}
<1>1. todo'[p] = S /\ in' = Without(fs)
  BY DEF List, MInv, MethodsTyped
<1>2. \A f \in Pending(kind) : /\ f \in Package /\ f.kind = kind /\ f.part = 0
                               /\ f.from = "localhost"
  BY Packages DEF Pending, Present, Alone
<1>3. \A f \in Pending(kind) : Approved(f) <=> f.m \in Local
  BY <1>2 DEF Approved
<1>4. \A f \in Package : f.m \in Local => f \notin fs
  BY <1>3
<1>5. \A f \in Package : f \notin fs => in'[f] = in[f]
  BY <1>1, RemovedHere
<1>6. \A f \in Package : f.from = "peer" => in'[f] \in {in[f], None}
  BY <1>1, RemovedHere
<1>7. \A n \in DOMAIN order : order[n].kind = kind /\ order[n].part = 0 /\ Present(order[n])
                               => order[n] \in Pending(kind)
  BY PlacesOf DEF Pending
<1>8. \A n \in S : order[n] \in Pending(kind) /\ Approved(order[n]) /\ n \in DOMAIN order
  OBVIOUS
<1>9. \A n \in DOMAIN order : order[n].m \in Local /\ order[n] \in Pending(kind) => n \in S
  BY <1>3
<1> HIDE DEF S, fs
<1>. QED
  BY <1>1, <1>2, <1>3, <1>4, <1>5, <1>6, <1>7, <1>8, <1>9

LEMMA ListCallsQuiet ==
  ASSUME MInv, QInv, NEW p \in Agent, UNCHANGED order, ListCalls(p)
  PROVE  Undisturbed(p)'
<1>. SUFFICES ASSUME at'[p] # "idle", ~disturbed'[p] PROVE Quiet(p)'
  BY DEF Undisturbed
<1>1. Quiet(p) /\ DoMethods(p)
  <2>1. DoMethods(p) /\ ~BeginMethods(p)
    BY DEF DoMethods, BeginMethods, Goes, Busy, ListCalls
  <2>. QED
    BY <2>1, SoFarQuiet
<1>2. /\ at[p] = "dispatch" /\ at'[p] = "exec" /\ todo[p] = {} /\ List(p, "call")
      /\ UNCHANGED <<child, calls>>
  BY DEF ListCalls, Goes, MInv, MethodsTyped
<1>3. Alone(p) /\ child[p] = NoChild /\ \A m \in Local : CallReady(m)
  BY <1>1, <1>2 DEF Quiet, Sends
<1>4. /\ \A n \in todo'[p] : /\ n \in DOMAIN order /\ order[n].m \in Local
                             /\ order[n].kind = "call" /\ order[n].part = 0
                             /\ order[n].from = "localhost"
      /\ \A n \in DOMAIN order :
            /\ order[n].m \in Local /\ order[n].kind = "call" /\ order[n].part = 0
            /\ Present(order[n])
            => n \in todo'[p]
      /\ \A f \in Package :
            f.m \in Local /\ (f.part = 1 \/ f.kind = "call") => in'[f] = in[f]
      /\ \A f \in Package : f.from = "peer" => in'[f] \in {in[f], None}
  BY <1>2, <1>3, ListQuiet
<1>5. ASSUME NEW n \in todo'[p] PROVE order[n].m \in Local /\ order[n] = CallOf(order[n].m)
  BY <1>4, FilesApart, Packages, SamePackage, PlacesOf
<1>6. ASSUME NEW m \in Local
      PROVE  /\ CallReady(m)' /\ ToDo(p, m)'
             /\ bundle'[p][m] = CallOf(m)
  <2>1. CallReady(m)'
    <3>1. CallOf(m).kind = "call" /\ Attachment(CallOf(m)).part = 1
      BY LocalMethods, Packages
    <3>. QED
      BY <1>2, <1>3, <1>4, <3>1, FilesApart DEF CallReady, Argument
  <2>2. PICK n \in DOMAIN order : order[n] = CallOf(m)
    BY FilesApart, PlacesOf
  <2>3. n \in todo'[p]
    <3>1. Present(order[n])
      BY <1>3, <2>2, MethodsAssumption DEF CallReady, Present
    <3>2. order[n].kind = "call" /\ order[n].part = 0 /\ order[n].m = m
      BY <2>2, LocalMethods, Packages
    <3>. QED
      BY <1>4, <3>1, <3>2
  <2>4. ToDo(p, m)'
    BY <2>2, <2>3, FilesApart DEF ToDo
  <2>5. {k \in todo'[p] : order[k].m = m} = {n}
    <3>1. \A k \in todo'[p] : order[k].m = m => order[k] = order[n]
      BY <1>5, <2>2
    <3>. QED
      BY <1>4, <2>2, <2>3, <3>1, FilesApart, PlacesOf
  <2>6. bundle'[p][m] = CallOf(m)
    <3> DEFINE list == {k \in DOMAIN order :
                          order[k] \in Pending("call") /\ Approved(order[k])}
    <3>1. todo'[p] = list
      BY <1>2 DEF List, MInv, MethodsTyped
    <3>2. bundle'[p] = [k \in Method |->
                          IF {i \in list : order[i].m = k} = {} THEN bundle[p][k]
                          ELSE order[Max({i \in list : order[i].m = k})]]
      BY <1>2 DEF List, QInv
    <3> HIDE DEF list
    <3>3. bundle'[p][m] = order[Max({n})]
      BY <2>5, <3>1, <3>2, LocalMethods
    <3>4. Max({n}) = n
      <4>1. n \in Nat
        BY PlacesOf
      <4>. QED
        BY <4>1 DEF Max
    <3>. QED
      BY <2>2, <3>3, <3>4
  <2>. QED
    BY <2>1, <2>4, <2>6
<1>7. Alone(p)'
  BY <1>1, <1>3, <1>4, StillAlone
<1>8. Runs(p)'
  BY <1>2, <1>5, <1>6 DEF Runs
<1>. QED
  BY <1>2, <1>3, <1>7, <1>8 DEF Quiet, Sends, Fetches, Sending, Fetching

LEMMA ListRepliesQuiet ==
  ASSUME MInv, QInv, NEW p \in Agent, UNCHANGED order, ListReplies(p)
  PROVE  Undisturbed(p)'
<1>. SUFFICES ASSUME at'[p] # "idle", ~disturbed'[p] PROVE Quiet(p)'
  BY DEF Undisturbed
<1>1. Quiet(p) /\ DoMethods(p)
  <2>1. DoMethods(p) /\ ~BeginMethods(p)
    BY DEF DoMethods, BeginMethods, Goes, Busy, ListReplies
  <2>. QED
    BY <2>1, SoFarQuiet
<1>2. /\ at[p] = "exec" /\ at'[p] = "fetch" /\ todo[p] = {} /\ List(p, "reply")
      /\ UNCHANGED <<child, calls, result>>
  BY DEF ListReplies, Goes, MInv, MethodsTyped
<1>3. Alone(p) /\ child[p] = NoChild /\ \A m \in Local : ReplyReady(m)
  BY <1>1, <1>2 DEF Quiet, Runs, ToDo
<1>4. /\ \A n \in todo'[p] : /\ n \in DOMAIN order /\ order[n].m \in Local
                             /\ order[n].kind = "reply" /\ order[n].part = 0
                             /\ order[n].from = "localhost"
      /\ \A n \in DOMAIN order :
            /\ order[n].m \in Local /\ order[n].kind = "reply" /\ order[n].part = 0
            /\ Present(order[n])
            => n \in todo'[p]
      /\ \A f \in Package :
            f.m \in Local /\ (f.part = 1 \/ f.kind = "reply") => in'[f] = in[f]
      /\ \A f \in Package : f.from = "peer" => in'[f] \in {in[f], None}
  BY <1>2, <1>3, ListQuiet
<1>5. ASSUME NEW n \in todo'[p] PROVE order[n].m \in Local /\ order[n] = ReplyOf(order[n].m)
  BY <1>4, FilesApart, Packages, SamePackage, PlacesOf
<1>6. ASSUME NEW m \in Local PROVE ReplyReady(m)' /\ ToDo(p, m)'
  <2>1. ReplyReady(m)'
    <3>1. ReplyOf(m).kind = "reply" /\ Attachment(ReplyOf(m)).part = 1
      BY LocalMethods, Packages
    <3>. QED
      BY <1>2, <1>3, <1>4, <3>1, FilesApart DEF ReplyReady, Result
  <2>2. PICK n \in DOMAIN order : order[n] = ReplyOf(m)
    BY FilesApart, PlacesOf
  <2>3. n \in todo'[p]
    <3>1. Present(order[n])
      BY <1>3, <2>2, MethodsAssumption DEF ReplyReady, Present
    <3>2. order[n].kind = "reply" /\ order[n].part = 0 /\ order[n].m = m
      BY <2>2, LocalMethods, Packages
    <3>. QED
      BY <1>4, <3>1, <3>2
  <2>. QED
    BY <2>1, <2>2, <2>3, FilesApart DEF ToDo
<1>7. Alone(p)'
  BY <1>1, <1>3, <1>4, StillAlone
<1>8. Fetches(p)'
  BY <1>2, <1>5, <1>6 DEF Fetches
<1>. QED
  BY <1>2, <1>3, <1>7, <1>8 DEF Quiet, Sends, Runs, Sending, Fetching

(* The loop over the calls: a child is started, and has ended. *)
LEMMA StartQuiet ==
  ASSUME MInv, QInv, NEW p \in Agent, UNCHANGED order, StartChild(p)
  PROVE  Undisturbed(p)'
<1>. SUFFICES ASSUME at'[p] # "idle", ~disturbed'[p] PROVE Quiet(p)'
  BY DEF Undisturbed
<1>1. Quiet(p) /\ DoMethods(p)
  <2>1. DoMethods(p) /\ ~BeginMethods(p)
    BY DEF DoMethods, BeginMethods, Goes, Busy, StartChild
  <2>. QED
    BY <2>1, SoFarQuiet
<1> DEFINE m == FileAt(p).m
<1>2. /\ at[p] = "exec" /\ at'[p] = "wait" /\ todo[p] # {}
      /\ UNCHANGED <<in, todo, bundle, calls>>
  BY DEF StartChild, Goes, MInv, MethodsTyped
<1>3. Alone(p) /\ Runs(p)
  BY <1>1 DEF Quiet
<1>4. m \in Local /\ ToDo(p, m)
  <2>1. Min(todo[p]) \in todo[p]
    BY <1>2, Heads DEF MInv
  <2>. QED
    BY <1>2, <1>3, <2>1 DEF Runs, ToDo, FileAt
<1>5. bundle[p][m] = CallOf(m) /\ CallReady(m)
  BY <1>2, <1>3, <1>4 DEF Runs
<1>6. GetMethodFilename(p, m) = m
  BY <1>4, <1>5, FilesApart, MethodsAssumption DEF GetMethodFilename, Complete, CallReady
<1>7. child'[p] = [NoChild EXCEPT !.pc = "check", !.name = m, !.digest = m]
  BY <1>4, <1>6, FilesApart DEF StartChild, MInv, MethodsTyped
<1>8. child'[p].pc = "check" /\ child'[p].name = m /\ child'[p].digest = m
      /\ child'[p] # NoChild
  <2>1. NoChild.pc = "none" /\ "none" # "check"
    BY DEF NoChild
  <2>2. child'[p].pc = "check" /\ child'[p].name = m /\ child'[p].digest = m
    BY <1>7 DEF NoChild
  <2>. QED
    BY <2>1, <2>2
<1>9. FileAt(p)' = FileAt(p) /\ \A k : ToDo(p, k)' <=> ToDo(p, k)
  BY <1>2 DEF FileAt, ToDo
<1>10. \A k \in Local : (CallReady(k)' <=> CallReady(k)) /\ (ReplyReady(k)' <=> ReplyReady(k))
  BY <1>2 DEF CallReady, ReplyReady, Argument, Result
<1>11. Serving(p, m)'
  BY <1>4, <1>5, <1>8, <1>9, <1>10 DEF Serving, Before, After
<1>12. Runs(p)'
  BY <1>2, <1>3, <1>9, <1>10, <1>11 DEF Runs
<1>13. Alone(p)'
  BY <1>1, <1>2, <1>3, StillAlone
<1>. QED
  BY <1>2, <1>12, <1>13 DEF Quiet, Sends, Fetches, Sending, Fetching

LEMMA EndedQuiet ==
  ASSUME MInv, QInv, NEW p \in Agent, UNCHANGED order, ChildEnded(p)
  PROVE  Undisturbed(p)'
<1>. SUFFICES ASSUME at'[p] # "idle", ~disturbed'[p] PROVE Quiet(p)'
  BY DEF Undisturbed
<1>1. Quiet(p) /\ DoMethods(p)
  <2>1. DoMethods(p) /\ ~BeginMethods(p)
    BY DEF DoMethods, BeginMethods, Goes, Busy, ChildEnded
  <2>. QED
    BY <2>1, SoFarQuiet
<1>2. /\ at[p] = "wait" /\ at'[p] = "exec" /\ Done(p) /\ child[p] = NoChild
      /\ UNCHANGED <<in, bundle, calls, child>>
  BY DEF ChildEnded, Goes, MInv, MethodsTyped
<1>3. Alone(p) /\ Runs(p) /\ ReplyReady(FileAt(p).m)
  BY <1>1, <1>2 DEF Quiet, Runs, Serving
<1>4. /\ todo'[p] \subseteq todo[p]
      /\ \A k \in Method : ToDo(p, k)' <=> ToDo(p, k) /\ k # FileAt(p).m
  <2>1. todo[p] # {} /\ todo[p] \subseteq DOMAIN order
    BY <1>2 DEF MInv, Listing
  <2>2. \A n, k \in todo[p] : order[n].m = order[k].m => order[n] = order[k]
    BY <1>2, <1>3 DEF Runs
  <2>. QED
    BY <1>2, <2>1, <2>2, OneEach
<1>5. \A k \in Local : (CallReady(k)' <=> CallReady(k)) /\ (ReplyReady(k)' <=> ReplyReady(k))
  BY <1>2 DEF CallReady, ReplyReady, Argument, Result
<1>6. Runs(p)'
  BY <1>2, <1>3, <1>4, <1>5, LocalMethods DEF Runs
<1>7. Alone(p)'
  BY <1>1, <1>2, <1>3, StillAlone
<1>. QED
  BY <1>2, <1>6, <1>7 DEF Quiet, Sends, Fetches, Sending, Fetching

(* The loop over the replies. *)
LEMMA FetchQuiet ==
  ASSUME MInv, QInv, NEW p \in Agent, UNCHANGED order,
         Fetch(p) \/ LoadResult(p) \/ RemoveResult(p) \/ RemoveReply(p)
  PROVE  Undisturbed(p)'
<1>. SUFFICES ASSUME at'[p] # "idle", ~disturbed'[p] PROVE Quiet(p)'
  BY DEF Undisturbed
<1>1. Quiet(p) /\ DoMethods(p)
  <2>1. DoMethods(p) /\ ~BeginMethods(p)
    BY DEF DoMethods, BeginMethods, Goes, Busy, Fetch, LoadResult, RemoveResult, RemoveReply
  <2>. QED
    BY <2>1, SoFarQuiet
<1>2. at[p] \in Fetching \cup {"fetch"} /\ todo[p] # {} /\ UNCHANGED <<child, calls>>
  BY DEF Fetch, LoadResult, RemoveResult, RemoveReply, Goes, Fetching, MInv, Listing
<1>3. Alone(p) /\ Fetches(p) /\ child[p] = NoChild
  BY <1>1, <1>2 DEF Quiet, Fetching
<1>4. PICK m : m = FileAt(p).m
  OBVIOUS
<1>5. /\ m \in Local /\ FileAt(p) = ReplyOf(m) /\ ToDo(p, m) /\ todo[p] \subseteq DOMAIN order
      /\ \A n, k \in todo[p] : order[n].m = order[k].m => order[n] = order[k]
  <2>1. Min(todo[p]) \in todo[p]
    BY <1>2, Heads DEF MInv
  <2>2. \A n \in todo[p] : order[n].m \in Local /\ order[n] = ReplyOf(order[n].m)
    BY <1>2, <1>3 DEF Fetches
  <2>3. todo[p] \subseteq DOMAIN order
    BY <1>2 DEF MInv, Listing
  <2>. QED
    BY <1>4, <2>1, <2>2, <2>3 DEF ToDo, FileAt
<1>6. at[p] \in {"fetch", "load"} => ReplyReady(m)
  BY <1>2, <1>3, <1>5 DEF Fetches
<1>7. CASE Fetch(p)
  <2>1. Complete(FileAt(p))
    BY <1>5, <1>6, <1>7, MethodsAssumption DEF Fetch, ReplyReady, Complete
  <2>2. at[p] = "fetch" /\ at'[p] = "load" /\ UNCHANGED <<in, todo, result>>
    BY <1>7, <2>1 DEF Fetch, Goes, MInv, MethodsTyped
  <2>3. Fetches(p)'
    BY <1>3, <2>2, <1>2 DEF Fetches, ToDo, ReplyReady, Result, Fetching
  <2>4. Alone(p)'
    BY <1>1, <1>3, <2>2, StillAlone
  <2>. QED
    BY <1>2, <1>3, <2>2, <2>3, <2>4 DEF Quiet, Sends, Runs, Sending
<1>8. CASE LoadResult(p)
  <2>1. Present(Attachment(FileAt(p))) /\ in[Attachment(FileAt(p))] = calls[m]
    <3>1. at[p] = "load" /\ calls[m] \in Nat
      BY <1>5, <1>8, LocalMethods DEF LoadResult, MInv, MethodsTyped
    <3>. QED
      BY <1>5, <1>6, <3>1, MethodsAssumption DEF ReplyReady, Result, Present
  <2>2. /\ at[p] = "load" /\ at'[p] = "drop" /\ UNCHANGED <<in, todo>>
        /\ result' = [result EXCEPT ![m] = calls[m]]
    BY <1>4, <1>8, <2>1 DEF LoadResult, Goes, MInv, MethodsTyped
  <2>3. result'[m] = calls[m] /\ \A k \in Local : k # m => result'[k] = result[k]
    BY <1>5, <2>2, LocalMethods DEF MInv, MethodsTyped
  <2>4. Fetches(p)'
    <3>1. \A k : ToDo(p, k)' <=> ToDo(p, k)
      BY <2>2 DEF ToDo
    <3>2. FileAt(p)' = FileAt(p)
      BY <2>2 DEF FileAt
    <3>3. \A k \in Local : ReplyReady(k)' <=> ReplyReady(k)
      BY <1>2, <2>2 DEF ReplyReady, Result
    <3>. QED
      BY <1>2, <1>3, <1>4, <1>5, <2>2, <2>3, <3>1, <3>2, <3>3 DEF Fetches, Fetching
  <2>5. Alone(p)'
    BY <1>1, <1>3, <2>2, StillAlone
  <2>. QED
    BY <1>2, <1>3, <2>2, <2>4, <2>5 DEF Quiet, Sends, Runs, Sending
<1>9. CASE RemoveResult(p)
  <2>1. /\ at[p] = "drop" /\ at'[p] = "clear" /\ UNCHANGED <<todo, result>>
        /\ in' = Without({Attachment(ReplyOf(m))})
    BY <1>5, <1>9 DEF RemoveResult, Goes, MInv, MethodsTyped
  <2>2. /\ \A f \in Package : f # Attachment(ReplyOf(m)) => in'[f] = in[f]
        /\ \A f \in Package : f.from = "peer" => in'[f] \in {in[f], None}
    BY <2>1, RemovedHere
  <2>3. Fetches(p)'
    <3>1. \A k : ToDo(p, k)' <=> ToDo(p, k)
      BY <2>1 DEF ToDo
    <3>2. FileAt(p)' = FileAt(p)
      BY <2>1 DEF FileAt
    <3>3. \A k \in Local : k # m => (ReplyReady(k)' <=> ReplyReady(k))
      BY <1>2, <1>5, <2>2, ReadyStays, FilesApart
    <3>. QED
      BY <1>2, <1>3, <1>4, <2>1, <3>1, <3>2, <3>3 DEF Fetches, Fetching
  <2>4. Alone(p)'
    BY <1>1, <1>3, <2>2, StillAlone
  <2>. QED
    BY <1>2, <1>3, <2>1, <2>3, <2>4 DEF Quiet, Sends, Runs, Sending
<1>10. CASE RemoveReply(p)
  <2>1. /\ at[p] = "clear" /\ at'[p] = "fetch" /\ Done(p) /\ UNCHANGED <<result>>
        /\ in' = Without({ReplyOf(m)})
    BY <1>5, <1>10 DEF RemoveReply, Goes, MInv, MethodsTyped
  <2>2. /\ \A f \in Package : f # ReplyOf(m) => in'[f] = in[f]
        /\ \A f \in Package : f.from = "peer" => in'[f] \in {in[f], None}
    BY <2>1, RemovedHere
  <2>3. /\ todo'[p] \subseteq todo[p]
        /\ \A k \in Method : ToDo(p, k)' <=> ToDo(p, k) /\ k # m
    BY <1>2, <1>4, <1>5, <2>1, OneEach
  <2>4. Fetches(p)'
    <3>1. \A k \in Local : k # m => (ReplyReady(k)' <=> ReplyReady(k))
      BY <1>2, <1>5, <2>2, ReadyStays, FilesApart
    <3>2. result[m] = calls[m]
      BY <1>3, <1>4, <2>1 DEF Fetches, Fetching
    <3>. QED
      BY <1>2, <1>3, <1>4, <2>1, <2>3, <3>1, <3>2, LocalMethods DEF Fetches, Fetching
  <2>5. Alone(p)'
    BY <1>1, <1>3, <2>2, StillAlone
  <2>. QED
    BY <1>2, <1>3, <2>1, <2>4, <2>5 DEF Quiet, Sends, Runs, Sending
<1>. QED
  BY <1>7, <1>8, <1>9, <1>10

-----------------------------------------------------------------------------
(* What a child does while the agent that waits for it is undisturbed. *)
LEMMA ServesOn ==
  ASSUME MInv, NEW p \in Agent, Quiet(p), at[p] = "wait", Child(p),
         UNCHANGED <<order, at, todo, bundle, calls>>, FileAt(p).m \in Local,
         \A f \in Package : f.m # FileAt(p).m => in'[f] = in[f],
         \A f \in Package : f.from = "peer" => in'[f] \in {in[f], None},
         Serving(p, FileAt(p).m)'
  PROVE  Quiet(p)'
<1>1. Alone(p)'
  BY StillAlone DEF Quiet
<1>2. FileAt(p)' = FileAt(p) /\ \A k : ToDo(p, k)' <=> ToDo(p, k)
  BY DEF FileAt, ToDo
<1>3. \A k \in Local : k # FileAt(p).m =>
         (CallReady(k)' <=> CallReady(k)) /\ (ReplyReady(k)' <=> ReplyReady(k))
  BY ReadyStays
<1>4. ToDo(p, FileAt(p).m)
  <2>1. Min(todo[p]) \in todo[p]
    BY Heads DEF MInv, Listing
  <2>. QED
    BY <2>1 DEF ToDo, FileAt
<1>5. Runs(p)
  BY DEF Quiet
<1>6. Runs(p)'
  BY <1>2, <1>3, <1>4, <1>5 DEF Runs
<1>. QED
  BY <1>1, <1>6 DEF Quiet, Sends, Fetches, Sending, Fetching

LEMMA ChildQuiet ==
  ASSUME MInv, QInv, NEW p \in Agent, UNCHANGED order, Child(p)
  PROVE  Undisturbed(p)'
<1>. SUFFICES ASSUME at'[p] # "idle", ~disturbed'[p] PROVE Quiet(p)'
  BY DEF Undisturbed
<1>1. child[p] # NoChild
  <2>1. child[p].pc \in ChildPhases
    BY DEF ChildPhases, Before, After, Child, CheckForMethodPackage, CountAttachments,
       LoadArgument, RemoveArgument, RunMethod, OpenReply, CloseReply, AttachResult,
       WriteResult
  <2>2. NoChild.pc \notin ChildPhases
    BY DEF ChildPhases, Before, After, NoChild
  <2>. QED
    BY <2>1, <2>2
<1>2. Quiet(p)
  <2>1. ~BeginMethods(p)
    BY <1>1 DEF BeginMethods, Busy
  <2>. QED
    BY <2>1, SoFarQuiet
<1>3. at[p] = "wait" /\ Alone(p) /\ Runs(p)
  BY <1>1, <1>2 DEF Quiet
<1>4. PICK m : m = FileAt(p).m
  OBVIOUS
<1>5. m \in Local /\ Serving(p, m)
  <2>1. Min(todo[p]) \in todo[p]
    BY <1>3, Heads DEF MInv, Listing
  <2>. QED
    BY <1>3, <1>4, <2>1 DEF Runs, FileAt
<1>6. /\ child[p].name = m /\ child[p].digest = m
      /\ child[p].pc \in {"check", "count", "load"} => CallReady(m)
      /\ child[p].pc # "check" => child[p].from = "localhost"
      /\ child[p].pc \in Before \cup After => child[p].arg = calls[m]
      /\ child[p].pc = "close" => in[ReplyOf(m)] # None
      /\ child[p].pc \in {"attach", "write"} => in[ReplyOf(m)] = 1
      /\ child[p].pc = "write" => Result(m) # None
  BY <1>1, <1>5 DEF Serving
<1>7. UNCHANGED <<at, todo, bundle, calls>>
  BY DEF Child, childFrame, agentVars, CheckForMethodPackage, CountAttachments,
     LoadArgument, RemoveArgument, RunMethod, OpenReply, CloseReply, AttachResult, WriteResult
<1>8. FileAt(p)' = FileAt(p)
  BY <1>7 DEF FileAt
<1>9. child[p].pc # "check" => Invitation(p) = CallOf(m)
  BY <1>6 DEF Invitation, CallOf
<1>. SUFFICES /\ \A f \in Package : f.m # m => in'[f] = in[f]
              /\ \A f \in Package : f.from = "peer" => in'[f] \in {in[f], None}
              /\ Serving(p, m)'
  BY <1>2, <1>3, <1>4, <1>5, <1>7, <1>8, ServesOn
<1>10. child[p] \in ChildState /\ child[p] # NoChild /\ calls[m] \in Nat
  BY <1>1, <1>5, LocalMethods DEF MInv, MethodsTyped
<1>11. CASE CheckForMethodPackage(p)
  <2>1. child[p].pc = "check" /\ CallReady(m)
    BY <1>6, <1>11 DEF CheckForMethodPackage
  <2>2. in' = Without({})
    <3>1. PICK gone : gone = Passed(m)
      OBVIOUS
    <3>2. in' = Without(gone) /\ Disturb(IF gone = {} THEN {} ELSE Agent)
      BY <1>6, <1>11, <3>1 DEF CheckForMethodPackage
    <3>3. gone = {}
      BY <3>2 DEF Disturb
    <3>. QED
      BY <3>2, <3>3
  <2>3. \A f \in Package : in'[f] = in[f]
    BY <2>2 DEF Without
  <2>4. PICK h : h = Min(Named(m))
    OBVIOUS
  <2>5. h \in Named(m) /\ Named(m) # {}
    <3>1. Named(m) \in SUBSET Nat
      BY PlacesOf DEF Named
    <3>2. PICK n \in DOMAIN order : order[n] = CallOf(m)
      BY <1>5, FilesApart, PlacesOf
    <3>3. n \in Named(m)
      <4>1. CallOf(m).kind = "call" /\ CallOf(m).m = m /\ Present(CallOf(m))
        BY <1>5, <2>1, LocalMethods, Packages, MethodsAssumption DEF CallReady, Present
      <4>. QED
        BY <3>2, <4>1 DEF Named
    <3>. QED
      BY <2>4, <3>1, <3>3, Least
  <2>6. order[h].from = "localhost"
    <3>1. order[h] \in Package /\ Present(order[h])
      BY <2>5, PlacesOf DEF Named
    <3>. QED
      BY <1>3, <3>1, Packages DEF Alone, Present
  <2>7. child' = [child EXCEPT ![p].pc = "count", ![p].from = "localhost"]
    BY <1>6, <1>11, <2>4, <2>5, <2>6 DEF CheckForMethodPackage
  <2>8. PICK c : c = [child[p] EXCEPT !.pc = "count", !.from = "localhost"]
    OBVIOUS
  <2>9. /\ c.pc = "count" /\ c.from = "localhost" /\ c.name = m /\ c.digest = m
        /\ c # NoChild
    <3>1. /\ c.pc = "count" /\ c.from = "localhost" /\ c.name = child[p].name
          /\ c.digest = child[p].digest
      BY <1>10, <2>8 DEF ChildState
    <3>. QED
      BY <1>6, <3>1 DEF NoChild
  <2>10. child'[p] = c
    BY <2>7, <2>8 DEF MInv, MethodsTyped
  <2>11. CallReady(m)'
    BY <1>5, <1>7, <2>1, <2>3, ReadyStays
  <2>. QED
    BY <2>3, <2>9, <2>10, <2>11 DEF Serving, Before, After
<1>12. CASE CountAttachments(p)
  <2>1. child[p].pc = "count" /\ CallReady(m) /\ in' = in
    BY <1>6, <1>12 DEF CountAttachments
  <2>2. Complete(Invitation(p))
    BY <1>9, <2>1, MethodsAssumption DEF CallReady, Complete
  <2>3. Becomes(p, "load")
    BY <1>6, <1>12, <2>2 DEF CountAttachments
  <2>4. /\ child'[p] # NoChild /\ child'[p].pc = "load" /\ child'[p].from = child[p].from
        /\ child'[p].name = child[p].name /\ child'[p].digest = child[p].digest
    BY <2>1, <2>3, ChildGoesOn DEF ChildPhases
  <2>5. CallReady(m)'
    BY <1>5, <1>7, <2>1, ReadyStays
  <2>. QED
    BY <1>6, <2>1, <2>4, <2>5 DEF Serving, Before, After
<1>13. CASE LoadArgument(p)
  <2>1. child[p].pc = "load" /\ CallReady(m) /\ in' = in
    BY <1>6, <1>13 DEF LoadArgument
  <2>2. PICK f : f = Attachment(Invitation(p))
    OBVIOUS
  <2>3. in[f] = calls[m]
    BY <1>9, <2>1, <2>2 DEF CallReady, Argument
  <2>4. child' = [child EXCEPT ![p].pc = "remove", ![p].arg = calls[m]]
    BY <1>10, <1>13, <2>2, <2>3, MethodsAssumption DEF LoadArgument, Present
  <2>5. PICK c : c = [child[p] EXCEPT !.pc = "remove", !.arg = calls[m]]
    OBVIOUS
  <2>6. /\ c.pc = "remove" /\ c.from = child[p].from /\ c.name = m /\ c.digest = m
        /\ c # NoChild /\ c.arg = calls[m]
    <3>1. /\ c.pc = "remove" /\ c.from = child[p].from /\ c.name = child[p].name
          /\ c.digest = child[p].digest /\ c.arg = calls[m]
      BY <1>10, <2>5 DEF ChildState
    <3>. QED
      BY <1>6, <3>1 DEF NoChild
  <2>7. child'[p] = c /\ calls'[m] = calls[m]
    BY <1>7, <2>4, <2>5 DEF MInv, MethodsTyped
  <2>. QED
    BY <1>6, <2>1, <2>6, <2>7 DEF Serving, Before, After
<1>14. CASE RemoveArgument(p) \/ RunMethod(p)
  <2>1. PICK to \in {"loaded", "ran"} :
          /\ Becomes(p, to)
          /\ \E fs : in' = Without(fs) /\ fs \subseteq {Invitation(p), Attachment(Invitation(p))}
    BY <1>14 DEF RemoveArgument, RunMethod
  <2>2. child[p].pc \in Before
    BY <1>14 DEF RemoveArgument, RunMethod, Before
  <2>3. PICK fs : in' = Without(fs) /\ fs \subseteq {CallOf(m), Attachment(CallOf(m))}
    BY <1>9, <2>1, <2>2 DEF Before
  <2>4. /\ \A f \in Package : f.m # m => in'[f] = in[f]
        /\ \A f \in Package : f.from = "peer" => in'[f] \in {in[f], None}
    BY <1>5, <2>3, RemovedHere, FilesApart
  <2>5. /\ child'[p] # NoChild /\ child'[p].pc = to /\ child'[p].from = child[p].from
        /\ child'[p].name = child[p].name /\ child'[p].digest = child[p].digest
        /\ child'[p].arg = child[p].arg
    BY <2>1, <2>2, ChildGoesOn DEF ChildPhases, Before, After
  <2>6. Serving(p, m)'
    BY <1>6, <1>7, <2>1, <2>2, <2>5 DEF Serving, Before, After
  <2>. QED
    BY <2>4, <2>6
<1>15. CASE OpenReply(p)
  <2>1. child[p].pc = "ran" /\ child[p].from = "localhost"
    BY <1>6, <1>15 DEF OpenReply
  <2>2. Becomes(p, "close") /\ in' = [in EXCEPT ![ReplyOf(m)] = 0]
    BY <1>6, <1>15, <2>1 DEF OpenReply
  <2>3. /\ in'[ReplyOf(m)] = 0 /\ 0 # None
        /\ \A f \in Package : f.m # m => in'[f] = in[f]
        /\ \A f \in Package : f.from = "peer" => in'[f] \in {in[f], None}
    BY <1>5, <2>2, FilesApart, MethodsAssumption DEF MInv, MethodsTyped
  <2>4. /\ child'[p] # NoChild /\ child'[p].pc = "close" /\ child'[p].from = child[p].from
        /\ child'[p].name = child[p].name /\ child'[p].digest = child[p].digest
        /\ child'[p].arg = child[p].arg
    BY <2>1, <2>2, ChildGoesOn DEF ChildPhases, Before, After
  <2>5. Serving(p, m)'
    BY <1>6, <1>7, <2>1, <2>3, <2>4 DEF Serving, Before, After
  <2>. QED
    BY <2>3, <2>5
<1>16. CASE CloseReply(p)
  <2>1. child[p].pc = "close" /\ in[ReplyOf(m)] # None /\ Becomes(p, "attach")
    BY <1>6, <1>16 DEF CloseReply
  <2>2. in' = [in EXCEPT ![ReplyOf(m)] = 1]
    BY <1>5, <1>6, <1>16, <2>1, FilesApart DEF CloseReply, MInv, MethodsTyped
  <2>3. /\ in'[ReplyOf(m)] = 1
        /\ \A f \in Package : f.m # m => in'[f] = in[f]
        /\ \A f \in Package : f.from = "peer" => in'[f] \in {in[f], None}
    BY <1>5, <2>2, FilesApart DEF MInv, MethodsTyped
  <2>4. /\ child'[p] # NoChild /\ child'[p].pc = "attach" /\ child'[p].from = child[p].from
        /\ child'[p].name = child[p].name /\ child'[p].digest = child[p].digest
        /\ child'[p].arg = child[p].arg
    BY <2>1, ChildGoesOn DEF ChildPhases, Before, After
  <2>5. Serving(p, m)'
    BY <1>6, <1>7, <2>1, <2>3, <2>4 DEF Serving, Before, After
  <2>. QED
    BY <2>3, <2>5
<1>17. CASE AttachResult(p)
  <2>1. child[p].pc = "attach" /\ in[ReplyOf(m)] = 1 /\ Becomes(p, "write")
        /\ in' = [in EXCEPT ![Attachment(ReplyOf(m))] = 0]
    BY <1>6, <1>17 DEF AttachResult
  <2>2. /\ in'[Attachment(ReplyOf(m))] = 0 /\ 0 # None /\ in'[ReplyOf(m)] = 1
        /\ \A f \in Package : f.m # m => in'[f] = in[f]
        /\ \A f \in Package : f.from = "peer" => in'[f] \in {in[f], None}
    BY <1>5, <2>1, FilesApart, MethodsAssumption DEF MInv, MethodsTyped
  <2>3. /\ child'[p] # NoChild /\ child'[p].pc = "write" /\ child'[p].from = child[p].from
        /\ child'[p].name = child[p].name /\ child'[p].digest = child[p].digest
        /\ child'[p].arg = child[p].arg
    BY <2>1, ChildGoesOn DEF ChildPhases, Before, After
  <2>4. Serving(p, m)'
    BY <1>6, <1>7, <2>1, <2>2, <2>3 DEF Serving, Before, After, Result
  <2>. QED
    BY <2>2, <2>4
<1>18. CASE WriteResult(p)
  <2>1. child[p].pc = "write" /\ in[ReplyOf(m)] = 1 /\ Result(m) # None /\ Exits(p)
        /\ child[p].arg = calls[m]
    BY <1>6, <1>18 DEF WriteResult, After
  <2>2. in' = [in EXCEPT ![Attachment(ReplyOf(m))] = calls[m]]
    BY <1>5, <1>6, <1>18, <2>1, FilesApart DEF WriteResult, Result, MInv, MethodsTyped
  <2>3. /\ in'[Attachment(ReplyOf(m))] = calls[m] /\ in'[ReplyOf(m)] = 1
        /\ \A f \in Package : f.m # m => in'[f] = in[f]
        /\ \A f \in Package : f.from = "peer" => in'[f] \in {in[f], None}
    BY <1>5, <2>1, <2>2, FilesApart DEF MInv, MethodsTyped
  <2>4. child'[p] = NoChild
    BY <2>1, ChildExits
  <2>5. Serving(p, m)'
    BY <1>7, <2>3, <2>4 DEF Serving, ReplyReady, Result
  <2>. QED
    BY <2>3, <2>5
<1>. QED
  BY <1>11, <1>12, <1>13, <1>14, <1>15, <1>16, <1>17, <1>18 DEF Child

(* The loops of an agent and what its child does. *)
LEMMA AgentQuiet ==
  ASSUME MInv, QInv, NEW p \in Agent, UNCHANGED order, DoMethods(p)
  PROVE  Undisturbed(p)'
<1>1. CASE Refused(p)
  BY <1>1 DEF Refused, Disturb, Undisturbed
<1>2. CASE EndMethods(p)
  <2>1. at'[p] = "idle"
    BY <1>2 DEF EndMethods, Goes, MInv, MethodsTyped
  <2>. QED
    BY <2>1 DEF Undisturbed
<1>. QED
  BY <1>1, <1>2, BeginQuiet, SendQuiet, ListCallsQuiet, StartQuiet, EndedQuiet,
     ListRepliesQuiet, FetchQuiet DEF DoMethods

LEMMA KilledQuiet ==
  ASSUME MInv, NEW p \in Agent, KillAgent(p) \/ KillChild(p)
  PROVE  Undisturbed(p)'
<1>1. CASE KillAgent(p)
  <2>1. at'[p] = "idle"
    BY <1>1 DEF KillAgent, MInv, MethodsTyped
  <2>. QED
    BY <2>1 DEF Undisturbed
<1>2. CASE KillChild(p)
  BY <1>2 DEF KillChild, Disturb, Undisturbed
<1>. QED
  BY <1>1, <1>2

(* What an agent has found is listed for every agent. *)
LEMMA BundlesStay ==
  ASSUME QInv, NEW p \in Agent,
         DoMethods(p) \/ Child(p) \/ KillAgent(p) \/ KillChild(p)
  PROVE  DOMAIN bundle' = Agent
<1>1. bundle' = bundle \/ \E b : bundle' = [bundle EXCEPT ![p] = b]
  BY ZenonT(40) DEF DoMethods, Child, KillAgent, KillChild, childFrame, agentVars, List,
     BeginMethods, Refused, Dispatch, OpenCall, CloseCall, AttachArgument, WriteArgument,
     ListCalls, StartChild, ChildEnded, ListReplies, Fetch, LoadResult, RemoveResult,
     RemoveReply, EndMethods, CheckForMethodPackage, CountAttachments, LoadArgument,
     RemoveArgument, RunMethod, OpenReply, CloseReply, AttachResult, WriteResult
<1>. QED
  BY <1>1 DEF QInv

LEMMA StepQInv ==
  ASSUME MInv, QInv, [MethodsNext]_methodVars
  PROVE  QInv'
<1>1. CASE UNCHANGED methodVars
  BY <1>1 DEF methodVars, agentVars, QInv, Undisturbed, Quiet, Alone, Sends, Runs, Fetches,
     Serving, CallReady, ReplyReady, ToDo, Argument, Result, CallAt, FileAt
<1>2. ASSUME NEW q \in Agent, DoMethods(q) \/ Child(q) \/ KillAgent(q) \/ KillChild(q),
             UNCHANGED order
      PROVE  QInv'
  <2>1. Undisturbed(q)'
    BY <1>2, AgentQuiet, ChildQuiet, KilledQuiet
  <2>2. ASSUME NEW p \in Agent \ {q} PROVE Undisturbed(p)'
    BY <1>2, <2>2, Elsewhere DEF QInv
  <2>3. DOMAIN bundle' = Agent
    BY <1>2, BundlesStay
  <2>. QED
    BY <2>1, <2>2, <2>3 DEF QInv
<1>3. CASE GetRemoteMethods
  BY <1>3 DEF GetRemoteMethods, Disturb, agentVars, QInv, Undisturbed
<1>. QED
  BY <1>1, <1>2, <1>3 DEF MethodsNext

LEMMA InitQInv == MethodsInit => QInv
BY DEF MethodsInit, QInv, Undisturbed

(* A run of DoMethods in which no other agent, copy or kill comes in between, *)
(* no lock is refused and no file is taken for expired has the result of      *)
(* every method of this host that it called, before it ends.                  *)
THEOREM UndisturbedRunsAreAnswered == MethodsSpec => []AnsweredUnlessDisturbed
<1>1. MethodsInit => QInv
  BY InitQInv
<1>2. MInv /\ QInv /\ [MethodsNext]_methodVars => QInv'
  BY StepQInv
<1>3. QInv => AnsweredUnlessDisturbed
  BY DEF QInv, Undisturbed, Quiet, Fetches, ToDo, AnsweredUnlessDisturbed
<1>. QED
  BY <1>1, <1>2, <1>3, MethodsInvariant, PTL DEF MethodsSpec

---------------------------------------------------------------------------
(* Combinations *)

CombinationsTyped ==
    /\ ilist \in Seq(Seq(Item))
    /\ current \in Picks /\ rounds \in [Nodes -> Nat]
    /\ returned \in Seq(Picks) /\ null \in BOOLEAN
(* What is still to come. *)
Returned(p) == \E n \in DOMAIN returned : returned[n] = p
ReturnedInOrder == \A m, n \in DOMAIN returned : m < n => Sooner(returned[m], returned[n])
Proceeding ==
    ~EndOfTwoDimList =>
        /\ \A n \in DOMAIN returned : Sooner(returned[n], current)
        /\ \A p \in Picks : Sooner(p, current) => Returned(p)
AllReturned == EndOfTwoDimList /\ ilist # <<>> => \A p \in Picks : Returned(p)
CombinationsInv ==
    /\ CombinationsTyped /\ ReturnedInOrder /\ Proceeding /\ AllReturned
    /\ null => EndOfTwoDimList

LEMMA NodesAre ==
  ASSUME ilist \in Seq(Seq(Item))
  PROVE  /\ Len(ilist) \in Nat /\ Nodes = 1..Len(ilist) /\ Nodes \in SUBSET Nat
         /\ ilist = <<>> <=> Len(ilist) = 0
         /\ \A i \in Nodes : NumItems(i) \in Nat
         /\ \A i \in Nodes : ilist[i] = <<>> <=> NumItems(i) = 0
         /\ Lists \in SUBSET Nodes
<1>1. ilist \in [1..Len(ilist) -> Seq(Item)] /\ Len(ilist) \in Nat
  OBVIOUS
<1>. QED
  BY <1>1 DEF Nodes, NumItems, Lists

LEMMA PicksAre ==
  ASSUME ilist \in Seq(Seq(Item)), NEW p
  PROVE  p \in Picks <=>
            /\ p \in [Nodes -> Nat]
            /\ \A i \in Nodes : Start(ilist[i]) <= p[i] /\ p[i] <= NumItems(i)
<1> DEFINE Places == UNION {0..NumItems(i) : i \in Nodes}
<1>1. Places \in SUBSET Nat
  BY NodesAre
<1>2. ASSUME p \in [Nodes -> Nat], \A i \in Nodes : p[i] <= NumItems(i)
      PROVE  p \in [Nodes -> Places]
  <2>1. ASSUME NEW i \in Nodes PROVE p[i] \in Places
    <3>1. p[i] \in 0..NumItems(i)
      BY <1>2, NodesAre
    <3>. QED
      BY <3>1
  <2>. QED
    BY <1>2, <2>1
<1>. QED
  BY <1>1, <1>2 DEF Picks

(* A node that is no list has one place. *)
LEMMA OnePlace ==
  ASSUME ilist \in Seq(Seq(Item)), NEW p \in Picks, NEW q \in Picks,
         NEW i \in Nodes \ Lists
  PROVE  p[i] = q[i]
<1>1. NumItems(i) \in Nat /\ ~(NumItems(i) > 1)
      /\ Start(ilist[i]) = IF NumItems(i) = 0 THEN 0 ELSE 1
  BY NodesAre DEF Lists, Is2d, NumItems, Start
<1>2. /\ p[i] \in Nat /\ Start(ilist[i]) <= p[i] /\ p[i] <= NumItems(i)
      /\ q[i] \in Nat /\ Start(ilist[i]) <= q[i] /\ q[i] <= NumItems(i)
  BY PicksAre
<1>. QED
  BY <1>1, <1>2

(* Of two combinations one comes before the other. *)
LEMMA FirstDifference ==
  ASSUME ilist \in Seq(Seq(Item)), NEW p \in Picks, NEW q \in Picks, p # q
  PROVE  \E i \in Lists : p[i] # q[i] /\ \A j \in Nodes : j < i => p[j] = q[j]
<1> DEFINE D == {i \in Nodes : p[i] # q[i]}
<1>1. p \in [Nodes -> Nat] /\ q \in [Nodes -> Nat]
  BY PicksAre
<1>2. PICK x \in Nodes : p[x] # q[x]
  BY <1>1
<1>3. D \in SUBSET Nat /\ x \in D
  BY <1>2, NodesAre
<1>4. PICK i \in D : \A z \in D : i <= z
  BY <1>3, Smallest
<1>5. i \in Lists
  BY <1>4, OnePlace
<1>6. ASSUME NEW j \in Nodes, j < i PROVE p[j] = q[j]
  BY <1>3, <1>4, <1>6
<1>. QED
  BY <1>4, <1>5, <1>6

LEMMA SoonerTransitive ==
  ASSUME ilist \in Seq(Seq(Item)),
         NEW p \in Picks, NEW q \in Picks, NEW r \in Picks,
         Sooner(p, q), Sooner(q, r)
  PROVE  Sooner(p, r)
<1>1. PICK i \in Nodes : p[i] < q[i] /\ \A j \in Nodes : j < i => p[j] = q[j]
  BY DEF Sooner
<1>2. PICK k \in Nodes : q[k] < r[k] /\ \A j \in Nodes : j < k => q[j] = r[j]
  BY DEF Sooner
<1>3. \A j \in Nodes : p[j] \in Nat /\ q[j] \in Nat /\ r[j] \in Nat /\ j \in Nat
  BY PicksAre, NodesAre
<1>4. CASE i < k
  <2>1. p[i] < r[i] /\ \A j \in Nodes : j < i => p[j] = r[j]
    BY <1>1, <1>2, <1>3, <1>4
  <2>. QED
    BY <2>1 DEF Sooner
<1>5. CASE i >= k
  <2>1. p[k] < r[k] /\ \A j \in Nodes : j < k => p[j] = r[j]
    BY <1>1, <1>2, <1>3, <1>5
  <2>. QED
    BY <2>1 DEF Sooner
<1>. QED
  BY <1>3, <1>4, <1>5

(* Of the lists one is leftmost, and of those that do not wrap one is last.  *)
LEMMA LeftmostExists ==
  ASSUME ilist \in Seq(Seq(Item)), Lists # {}
  PROVE  \E i \in Lists : Leftmost(i)
<1>1. PICK x \in Lists : TRUE
  OBVIOUS
<1>2. Lists \in SUBSET Nat
  BY NodesAre
<1>3. PICK i \in Lists : \A j \in Lists : i <= j
  BY <1>1, <1>2, Smallest
<1>. QED
  BY <1>3 DEF Leftmost

LEMMA LastOpenExists ==
  ASSUME ilist \in Seq(Seq(Item)), NEW x \in Lists, current[x] # NumItems(x)
  PROVE  \E k \in Lists : current[k] # NumItems(k) /\ Advances(k)
<1> DEFINE L == Len(ilist)
           S == {n \in 0..L : \E k \in Lists : current[k] # NumItems(k) /\ n = L - k}
<1>1. L \in Nat /\ \A k \in Lists : k \in 1..L
  BY NodesAre
<1>2. S \in SUBSET Nat /\ L - x \in S
  BY <1>1
<1>3. PICK n \in S : \A z \in S : n <= z
  BY <1>2, Smallest
<1>4. PICK k \in Lists : current[k] # NumItems(k) /\ n = L - k
  BY <1>3
<1>5. ASSUME NEW j \in Lists, j > k, current[j] # NumItems(j) PROVE FALSE
  <2>1. L - j \in S /\ L - j < n
    BY <1>1, <1>4, <1>5
  <2>. QED
    BY <1>2, <1>3, <2>1
<1>6. Is2d(k) /\ \A j \in Lists : j > k => current[j] = NumItems(j)
  BY <1>5 DEF Lists
<1>. QED
  BY <1>4, <1>6 DEF Advances

(* Whether Get2DListEnt has come to the end. *)
LEMMA EndAt ==
  ASSUME ilist \in Seq(Seq(Item)), ilist # <<>>
  PROVE  /\ \A l \in Lists : Leftmost(l) => (EndOfTwoDimList <=> rounds[l] > 0)
         /\ Lists = {} => (EndOfTwoDimList <=> rounds[1] > 0) /\ 1 \in Nodes
<1>1. 1 \in Nodes /\ \A i \in Nodes : i \in Nat
  BY NodesAre
<1>2. ASSUME NEW l \in Lists, Leftmost(l), NEW i \in Nodes, Leftmost(i) PROVE i = l
  <2>1. i <= l /\ l <= i /\ i \in Nat /\ l \in Nat
    BY <1>1, <1>2, NodesAre DEF Leftmost
  <2>. QED
    BY <2>1
<1>3. ASSUME NEW l \in Lists, Leftmost(l) PROVE EndOfTwoDimList <=> rounds[l] > 0
  BY <1>2, <1>3, NodesAre DEF EndOfTwoDimList
<1>4. Lists = {} => (EndOfTwoDimList <=> rounds[1] > 0)
  BY <1>1 DEF EndOfTwoDimList, Leftmost
<1>. QED
  BY <1>1, <1>3, <1>4

(* A list that advances is followed by lists that wrap, and those before it  *)
(* stay: the next combination in order.                                      *)
LEMMA NextInOrder ==
  ASSUME CombinationsTyped, Increment, UNCHANGED ilist,
         NEW k \in Lists, Advances(k), current[k] # NumItems(k)
  PROVE  /\ current' \in Picks
         /\ Sooner(current, current')
         /\ \A p \in Picks : Sooner(p, current') => p = current \/ Sooner(p, current)
         /\ \A l \in Lists : Leftmost(l) => rounds'[l] = rounds[l]
<1>1. /\ ilist \in Seq(Seq(Item)) /\ current \in [Nodes -> Nat] /\ k \in Nodes
      /\ \A i \in Nodes : /\ i \in Nat /\ NumItems(i) \in Nat /\ current[i] \in Nat
                          /\ Start(ilist[i]) <= current[i] /\ current[i] <= NumItems(i)
  BY PicksAre, NodesAre DEF CombinationsTyped
<1>2. \A j \in Lists : j > k => current[j] = NumItems(j)
  BY DEF Advances
<1>3. \A j \in Nodes : j < k => ~Advances(j)
  BY <1>1 DEF Advances
<1>4. \A j \in Lists : j > k => Wraps(j)
  BY <1>1, <1>2 DEF Wraps, Advances, Lists
<1>5. \A j \in Nodes \ Lists : ~Advances(j) /\ ~Wraps(j)
  BY DEF Advances, Wraps, Lists
<1>6. ~Wraps(k) /\ \A j \in Nodes : j < k => ~Wraps(j)
  BY <1>3 DEF Wraps
<1>7. /\ current' \in [Nodes -> Nat] /\ current'[k] = current[k] + 1
      /\ \A j \in Nodes : j < k => current'[j] = current[j]
      /\ \A j \in Lists : j > k => current'[j] = 1
      /\ \A j \in Nodes \ Lists : current'[j] = current[j]
  <2>1. current' = [i \in Nodes |-> IF Wraps(i) THEN 1
                                    ELSE IF Advances(i) THEN current[i] + 1 ELSE current[i]]
    BY DEF Increment
  <2>. QED
    BY <1>1, <1>3, <1>4, <1>5, <1>6, <2>1, NodesAre
<1>8. \A j \in Lists : Start(ilist[j]) = 1 /\ NumItems(j) > 1
  BY <1>1, NodesAre DEF Lists, Is2d, NumItems, Start
<1>9. current' \in Picks
  <2>1. ASSUME NEW i \in Nodes
        PROVE  Start(ilist[i]) <= current'[i] /\ current'[i] <= NumItems(i)
    <3>1. CASE i = k
      BY <1>1, <1>7, <1>8, <3>1
    <3>2. CASE i # k /\ (i \notin Lists \/ i < k)
      BY <1>1, <1>7, <3>2
    <3>3. CASE i # k /\ i \in Lists /\ ~(i < k)
      <4>1. current'[i] = 1
        BY <1>1, <1>7, <3>3
      <4>. QED
        BY <1>1, <1>8, <3>3, <4>1
    <3>. QED
      BY <3>1, <3>2, <3>3
  <2>. QED
    BY <1>1, <1>7, <2>1, PicksAre
<1>10. Sooner(current, current')
  <2>1. current[k] < current'[k] /\ \A j \in Nodes : j < k => current[j] = current'[j]
    BY <1>1, <1>7
  <2>. QED
    BY <1>1, <2>1 DEF Sooner
<1>11. ASSUME NEW p \in Picks, Sooner(p, current'), p # current
       PROVE  Sooner(p, current)
  <2>1. PICK d \in Lists : p[d] # current[d] /\ \A j \in Nodes : j < d => p[j] = current[j]
    BY <1>1, <1>11, FirstDifference DEF CombinationsTyped
  <2>2. PICK i \in Nodes : p[i] < current'[i] /\ \A j \in Nodes : j < i => p[j] = current'[j]
    BY <1>11 DEF Sooner
  <2>3. /\ \A j \in Nodes : p[j] \in Nat /\ p[j] <= NumItems(j)
        /\ \A j \in Lists : 1 <= p[j]
        /\ d \in Nodes
    BY <1>1, <1>8, PicksAre, NodesAre
  <2>4. i <= k
    <3>1. CASE i > k /\ i \in Lists
      <4>1. current'[i] = 1 /\ 1 <= p[i] /\ p[i] \in Nat
        BY <1>1, <1>7, <2>3, <3>1
      <4>. QED
        BY <2>2, <4>1
    <3>2. CASE i > k /\ i \notin Lists
      BY <1>1, <1>9, <2>2, <2>3, <3>2, OnePlace
    <3>. QED
      BY <1>1, <3>1, <3>2
  <2>5. CASE i < k
    <3>1. p[i] < current[i] /\ \A j \in Nodes : j < i => p[j] = current[j]
      BY <1>1, <1>7, <2>2, <2>5
    <3>. QED
      BY <3>1 DEF Sooner
  <2>6. CASE i = k
    <3>1. /\ p[k] <= current[k]
          /\ \A j \in Nodes : j < k => p[j] = current[j]
      BY <1>1, <1>7, <2>2, <2>3, <2>6
    <3>2. d >= k
      BY <1>1, <2>1, <2>3, <3>1
    <3>3. p[d] < current[d]
      <4>1. CASE d = k
        BY <1>1, <2>1, <2>3, <3>1, <4>1
      <4>2. CASE d > k
        BY <1>1, <1>2, <2>1, <2>3, <4>2
      <4>. QED
        BY <1>1, <2>3, <3>2, <4>1, <4>2
    <3>. QED
      BY <2>1, <2>3, <3>3 DEF Sooner
  <2>. QED
    BY <1>1, <2>4, <2>5, <2>6
<1>12. ASSUME NEW l \in Lists, Leftmost(l) PROVE rounds'[l] = rounds[l]
  <2>1. l \in Nodes /\ l <= k /\ ~Wraps(l)
    BY <1>1, <1>6, <1>12, NodesAre DEF Leftmost
  <2>. QED
    BY <2>1 DEF Increment
<1>. QED
  BY <1>9, <1>10, <1>11, <1>12

(* When every list is at its last item nothing is later.                     *)
LEMMA LastInOrder ==
  ASSUME CombinationsTyped, \A k \in Lists : current[k] = NumItems(k),
         NEW p \in Picks, p # current
  PROVE  Sooner(p, current)
<1>1. PICK d \in Lists : p[d] # current[d] /\ \A j \in Nodes : j < d => p[j] = current[j]
  BY FirstDifference DEF CombinationsTyped
<1>2. d \in Nodes /\ p[d] \in Nat /\ p[d] <= NumItems(d) /\ NumItems(d) \in Nat
  BY PicksAre, NodesAre DEF CombinationsTyped
<1>. QED
  BY <1>1, <1>2 DEF Sooner

(* What is appended comes last. *)
LEMMA ReturnedGrows ==
  ASSUME CombinationsTyped, returned' = Append(returned, current)
  PROVE  /\ Len(returned) \in Nat /\ DOMAIN returned = 1..Len(returned)
         /\ DOMAIN returned' = 1..(Len(returned) + 1)
         /\ returned' \in Seq(Picks)
         /\ \A n \in DOMAIN returned : returned'[n] = returned[n]
         /\ returned'[Len(returned) + 1] = current
<1>1. returned \in Seq(Picks) /\ current \in Picks
  BY DEF CombinationsTyped
<1>. QED
  BY <1>1

LEMMA SamePicks ==
  ASSUME UNCHANGED ilist
  PROVE  /\ Nodes' = Nodes /\ Lists' = Lists /\ Picks' = Picks
         /\ \A l \in Lists : Leftmost(l)' <=> Leftmost(l)
<1>1. Nodes' = Nodes /\ Lists' = Lists
  BY DEF Nodes, Lists, Is2d
<1>. QED
  BY <1>1 DEF Picks, NumItems, Leftmost

LEMMA CombinationsStep ==
  ASSUME CombinationsInv, Get2DListEnt, ~EndOfTwoDimList
  PROVE  CombinationsInv'
<1> USE DEF CombinationsInv
<1>1. /\ ilist \in Seq(Seq(Item)) /\ ilist # <<>> /\ ilist' = ilist
      /\ returned' = Append(returned, current) /\ Increment /\ ~null' /\ null' \in BOOLEAN
  BY DEF Get2DListEnt, EndOfTwoDimList, CombinationsTyped
<1>2. /\ Len(returned) \in Nat /\ DOMAIN returned = 1..Len(returned)
      /\ DOMAIN returned' = 1..(Len(returned) + 1)
      /\ returned' \in Seq(Picks)
      /\ \A n \in DOMAIN returned : returned'[n] = returned[n]
      /\ returned'[Len(returned) + 1] = current
  BY <1>1, ReturnedGrows
<1>3. /\ Nodes' = Nodes /\ Lists' = Lists /\ Picks' = Picks
      /\ \A l \in Lists : Leftmost(l)' <=> Leftmost(l)
  BY <1>1, SamePicks
<1>4. rounds' \in [Nodes -> Nat]
  BY <1>1, NodesAre DEF Increment, CombinationsTyped
<1>5. ReturnedInOrder'
  <2>1. ASSUME NEW m \in DOMAIN returned', NEW n \in DOMAIN returned', m < n
        PROVE  Sooner(returned'[m], returned'[n])
    <3>1. m \in DOMAIN returned
      BY <1>2, <2>1
    <3>2. CASE n \in DOMAIN returned
      BY <1>2, <2>1, <3>1, <3>2 DEF ReturnedInOrder
    <3>3. CASE n \notin DOMAIN returned
      <4>1. n = Len(returned) + 1
        BY <1>2, <3>3
      <4>. QED
        BY <1>2, <3>1, <4>1 DEF Proceeding
    <3>. QED
      BY <3>2, <3>3
  <2>. QED
    BY <1>3, <2>1 DEF ReturnedInOrder, Sooner
<1>6. \A p : (Returned(p) \/ p = current) => Returned(p)'
  BY <1>2 DEF Returned
<1>7. CASE \E k \in Lists : current[k] # NumItems(k)
  <2>1. PICK k \in Lists : current[k] # NumItems(k) /\ Advances(k)
    BY <1>1, <1>7, LastOpenExists
  <2>2. /\ current' \in Picks
        /\ Sooner(current, current')
        /\ \A p \in Picks : Sooner(p, current') => p = current \/ Sooner(p, current)
        /\ \A l \in Lists : Leftmost(l) => rounds'[l] = rounds[l]
    BY <1>1, <2>1, NextInOrder
  <2>3. CombinationsTyped'
    BY <1>1, <1>2, <1>3, <1>4, <2>2 DEF CombinationsTyped
  <2>4. ~EndOfTwoDimList'
    <3>1. PICK l \in Lists : Leftmost(l)
      BY <1>1, <2>1, LeftmostExists
    <3>2. ~(rounds'[l] > 0)
      BY <1>1, <2>2, <3>1, EndAt
    <3>3. ilist' \in Seq(Seq(Item)) /\ ilist' # <<>>
      BY <1>1
    <3>4. \A i \in Nodes : Leftmost(i) => i = l
      <4>. SUFFICES ASSUME NEW i \in Nodes, Leftmost(i) PROVE i = l
        OBVIOUS
      <4>1. i <= l /\ l <= i /\ i \in Nat /\ l \in Nat
        BY <1>1, <3>1, NodesAre DEF Leftmost
      <4>. QED
        BY <4>1
    <3>5. \A i \in Nodes : Leftmost(i)' <=> Leftmost(i)
      BY <1>1, <1>3 DEF Leftmost
    <3>. QED
      BY <1>3, <3>1, <3>2, <3>3, <3>4, <3>5 DEF EndOfTwoDimList
  <2>5. Proceeding'
    <3>1. \A n \in DOMAIN returned' : Sooner(returned'[n], current')
      <4>. SUFFICES ASSUME NEW n \in DOMAIN returned' PROVE Sooner(returned'[n], current')
        OBVIOUS
      <4>1. CASE n \in DOMAIN returned
        <5>1. returned'[n] = returned[n] /\ returned[n] \in Picks /\ current \in Picks
          BY <1>2, <4>1 DEF CombinationsTyped
        <5>2. Sooner(returned[n], current)
          BY <4>1 DEF Proceeding
        <5>. QED
          BY <1>1, <2>2, <5>1, <5>2, SoonerTransitive
      <4>2. CASE n \notin DOMAIN returned
        BY <1>2, <2>2, <4>2
      <4>. QED
        BY <4>1, <4>2
    <3>2. \A p \in Picks : Sooner(p, current') => Returned(p)'
      BY <1>6, <2>2 DEF Proceeding
    <3>. QED
      BY <1>3, <3>1, <3>2 DEF Proceeding, Sooner
  <2>. QED
    BY <1>1, <1>5, <2>3, <2>4, <2>5 DEF AllReturned
<1>8. CASE \A k \in Lists : current[k] = NumItems(k)
  <2>1. ASSUME NEW p \in Picks PROVE Returned(p)'
    <3>1. CASE p = current
      BY <1>6, <3>1
    <3>2. CASE p # current
      BY <1>6, <1>8, <3>2, LastInOrder DEF Proceeding
    <3>. QED
      BY <3>1, <3>2
  <2>2. current' \in Picks
    <3>1. /\ current \in [Nodes -> Nat] /\ rounds \in [Nodes -> Nat]
          /\ \A i \in Nodes : Start(ilist[i]) <= current[i] /\ current[i] <= NumItems(i)
      BY <1>1, PicksAre DEF CombinationsTyped
    <3>2. \A i \in Nodes : Advances(i) => Wraps(i) /\ i \in Lists
      BY <1>8 DEF Advances, Wraps, Lists
    <3>3. current' = [i \in Nodes |-> IF Wraps(i) THEN 1 ELSE current[i]]
      <4>1. current' = [i \in Nodes |-> IF Wraps(i) THEN 1
                          ELSE IF Advances(i) THEN current[i] + 1 ELSE current[i]]
        BY <1>1 DEF Increment
      <4>. QED
        BY <3>2, <4>1
    <3>4. \A i \in Nodes : Wraps(i) => Start(ilist[i]) = 1 /\ 1 <= NumItems(i)
      BY <1>1, NodesAre DEF Wraps, Advances, Is2d, NumItems, Start
    <3>5. /\ current' \in [Nodes -> Nat]
          /\ \A i \in Nodes : Start(ilist[i]) <= current'[i] /\ current'[i] <= NumItems(i)
      BY <3>1, <3>3, <3>4
    <3>. QED
      BY <1>1, <3>5, PicksAre
  <2>3. EndOfTwoDimList'
    <3>1. CASE Lists = {}
      <4>1. 1 \in Nodes /\ rounds'[1] = rounds[1] + 1 /\ rounds[1] \in Nat
        BY <1>1, <3>1, EndAt DEF Increment, CombinationsTyped
      <4>. QED
        BY <1>3, <3>1, <4>1 DEF EndOfTwoDimList
    <3>2. CASE Lists # {}
      <4>1. PICK l \in Lists : Leftmost(l)
        BY <1>1, <3>2, LeftmostExists
      <4>2. l \in Nodes /\ Wraps(l)
        BY <1>1, <1>8, NodesAre DEF Wraps, Advances, Lists
      <4>3. rounds'[l] = rounds[l] + 1 /\ rounds[l] \in Nat
        BY <1>1, <4>2 DEF Increment, CombinationsTyped
      <4>. QED
        BY <1>3, <4>1, <4>2, <4>3 DEF EndOfTwoDimList
    <3>. QED
      BY <3>1, <3>2
  <2>4. CombinationsTyped'
    BY <1>1, <1>2, <1>3, <1>4, <2>2 DEF CombinationsTyped
  <2>. QED
    BY <1>1, <1>3, <1>5, <2>1, <2>3, <2>4 DEF Proceeding, AllReturned
<1>. QED
  BY <1>7, <1>8

LEMMA CombinationsStart == CombinationsInit => CombinationsInv
<1>. SUFFICES ASSUME CombinationsInit PROVE CombinationsInv
  OBVIOUS
<1>1. /\ ilist \in Seq(Seq(Item)) /\ returned = <<>> /\ null = FALSE
      /\ current = [i \in Nodes |-> Start(ilist[i])] /\ rounds = [i \in Nodes |-> 0]
  BY VarStringsAssumption DEF CombinationsInit
<1>2. current \in Picks
  <2>1. \A i \in Nodes : Start(ilist[i]) \in Nat /\ Start(ilist[i]) <= NumItems(i)
    BY <1>1, NodesAre DEF Start
  <2>. QED
    BY <1>1, <2>1, PicksAre
<1>3. CombinationsTyped
  <2>1. rounds \in [Nodes -> Nat] /\ returned \in Seq(Picks)
    BY <1>1
  <2>. QED
    BY <1>1, <1>2, <2>1 DEF CombinationsTyped
<1>4. \A p \in Picks : ~Sooner(p, current)
  <2>. SUFFICES ASSUME NEW p \in Picks, NEW i \in Nodes, p[i] < current[i] PROVE FALSE
    BY DEF Sooner
  <2>1. current[i] = Start(ilist[i]) /\ Start(ilist[i]) \in Nat
        /\ p[i] \in Nat /\ Start(ilist[i]) <= p[i]
    BY <1>1, PicksAre DEF Start
  <2>. QED
    BY <2>1
<1>5. EndOfTwoDimList => ilist = <<>>
  BY <1>1 DEF EndOfTwoDimList
<1>6. ReturnedInOrder /\ Proceeding
  BY <1>1, <1>4 DEF ReturnedInOrder, Proceeding
<1>. QED
  BY <1>1, <1>3, <1>5, <1>6 DEF CombinationsInv, AllReturned

(* Get2DListEnt returns each combination once, in order, and none is left    *)
(* out: for every number of lists, of any lengths.                           *)
THEOREM EachCombinationOnce == CombinationsSpec => []CombinationsOnce
<1>1. CombinationsInv /\ [Get2DListEnt]_combinationVars => CombinationsInv'
  <2>. SUFFICES ASSUME CombinationsInv, [Get2DListEnt]_combinationVars
                PROVE  CombinationsInv'
    OBVIOUS
  <2>1. CASE Get2DListEnt /\ ~EndOfTwoDimList
    BY <2>1, CombinationsStep
  <2>2. CASE UNCHANGED combinationVars \/ (Get2DListEnt /\ EndOfTwoDimList)
    <3>1. /\ UNCHANGED <<ilist, current, rounds, returned>>
          /\ null' = null \/ (null' = TRUE /\ EndOfTwoDimList)
      BY <2>2 DEF Get2DListEnt, combinationVars
    <3>2. /\ Nodes' = Nodes /\ Lists' = Lists /\ Picks' = Picks
      BY <3>1, SamePicks
    <3>3. EndOfTwoDimList' = EndOfTwoDimList
      BY <3>1, <3>2 DEF EndOfTwoDimList, Leftmost
    <3>4. CombinationsTyped'
      <4>. null' \in BOOLEAN
        BY <3>1 DEF CombinationsInv, CombinationsTyped
      <4>. QED
        BY <3>1, <3>2 DEF CombinationsInv, CombinationsTyped
    <3>6. ReturnedInOrder'
      BY <3>1, <3>2 DEF CombinationsInv, ReturnedInOrder, Sooner
    <3>5. Proceeding' /\ AllReturned'
      BY <3>1, <3>2, <3>3
         DEF CombinationsInv, Proceeding, AllReturned, Returned, Sooner
    <3>. QED
      BY <3>1, <3>3, <3>4, <3>5, <3>6 DEF CombinationsInv
  <2>. QED
    BY <2>1, <2>2
<1>2. CombinationsInv => CombinationsOnce
  BY DEF CombinationsInv, CombinationsOnce, ReturnedInOrder, AllReturned, Returned
<1>. QED
  BY <1>1, <1>2, CombinationsStart, PTL DEF CombinationsSpec
============================================================================
