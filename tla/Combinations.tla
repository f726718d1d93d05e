---------------------------- MODULE Combinations ----------------------------
(* 2Dlist.c: the values of a string with list variables, one after another.  *)
(* The string is split before each variable, into nodes; a node has an item  *)
(* for each value of its variable, none for an empty list, and one without   *)
(* variable has one.  Get2DListEnt combines an item of every node, as an     *)
(* odometer does: the last list turns fastest.  install.c makes a promise    *)
(* for each value.  What is returned is known by the places of its items,    *)
(* 0 in a node without any, and a string by the items of its nodes.          *)
EXTENDS Integers, Sequences

CONSTANTS
    Item,
    VarStrings      \* sequences of sequences of items

ASSUME VarStringsAssumption == VarStrings \subseteq Seq(Seq(Item))

VARIABLES
    ilist,      \* the items of each node
    current,    \* the place of the next item of each
    rounds,     \* how often each has been gone through
    returned,   \* what Get2DListEnt has returned
    null        \* it has returned NULL

combinationVars == <<ilist, current, rounds, returned, null>>

Nodes == DOMAIN ilist
Is2d(i) == Len(ilist[i]) > 1
Start(items) == IF items = <<>> THEN 0 ELSE 1
NumItems(i) == Len(ilist[i])

(* EndOfTwoDimList looks at the first list of several items, or, where there *)
(* is none, at the first node: then its rounds are counted here.             *)
Lists == {i \in Nodes : Is2d(i)}
Leftmost(i) == i \in Lists /\ \A j \in Lists : i <= j
EndOfTwoDimList ==
    \/ ilist = <<>>
    \/ \E i \in Nodes : rounds[i] > 0 /\ (Leftmost(i) \/ (Lists = {} /\ i = 1))

(* IncrementTwoDimList: a list goes on when all those after it wrap.         *)
Advances(i) == Is2d(i) /\ \A j \in Lists : j > i => current[j] = NumItems(j)
Wraps(i) == Advances(i) /\ current[i] = NumItems(i)

\* MUTANT of Increment: a list goes on although the next has not wrapped.
IncrementEach ==
    /\ current' = [i \in Nodes |-> IF ~Is2d(i) THEN current[i]
                                   ELSE IF current[i] = NumItems(i) THEN 1 ELSE current[i] + 1]
    /\ rounds' = [i \in Nodes |-> IF Wraps(i) \/ (Lists = {} /\ i = 1)
                                  THEN rounds[i] + 1 ELSE rounds[i]]

Increment ==
    /\ current' = [i \in Nodes |-> IF Wraps(i) THEN 1
                                   ELSE IF Advances(i) THEN current[i] + 1 ELSE current[i]]
    /\ rounds' = [i \in Nodes |-> IF Wraps(i) \/ (Lists = {} /\ i = 1)
                                  THEN rounds[i] + 1 ELSE rounds[i]]

(* Build2DListFromVarstring and Set2DList.                                   *)
CombinationsInit ==
    /\ ilist \in VarStrings
    /\ current = [i \in Nodes |-> Start(ilist[i])]
    /\ rounds = [i \in Nodes |-> 0]
    /\ returned = <<>> /\ null = FALSE

Get2DListEnt ==
    /\ ~null
    /\ IF EndOfTwoDimList
       THEN null' = TRUE /\ UNCHANGED <<current, rounds, returned>>
       ELSE returned' = Append(returned, current) /\ Increment /\ UNCHANGED null
    /\ UNCHANGED ilist

CombinationsSpec == CombinationsInit /\ [][Get2DListEnt]_combinationVars

---------------------------------------------------------------------------
(* Properties *)

Picks == {p \in [Nodes -> UNION {0..NumItems(i) : i \in Nodes}] :
             \A i \in Nodes : Start(ilist[i]) <= p[i] /\ p[i] <= NumItems(i)}
(* p comes before q: the first list in which they differ decides.            *)
Sooner(p, q) ==
    \E i \in Nodes : p[i] < q[i] /\ \A j \in Nodes : j < i => p[j] = q[j]

(* Every combination of the items is returned once, in order, and all of     *)
(* them have been when Get2DListEnt returns NULL: no promise is made twice   *)
(* for the same values, and none is forgotten.                               *)
CombinationsOnce ==
    /\ \A m, n \in DOMAIN returned : m < n => Sooner(returned[m], returned[n])
    /\ null /\ ilist # <<>> =>
          \A p \in Picks : \E n \in DOMAIN returned : returned[n] = p
=============================================================================
