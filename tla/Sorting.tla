------------------------------ MODULE Sorting ------------------------------
(* The two sorts of item.c: a list of names in alphabetical order            *)
(* (ListDefinedClasses prints the classes so) and one of counted names, the  *)
(* highest count first (ShowState).  Both merge runs of insize items two by  *)
(* two, doubling insize, by changing the links of the items.                 *)
(*                                                                           *)
(* An item is [name, counter]; names are numbers in the order of strcmp.     *)
EXTENDS Integers, Sequences, FiniteSetsExt, SequencesExt

(* Whether the next item comes from p, x its head, and not from q. *)
FromP(by, x, y) ==
    IF by = "name" THEN x.name <= y.name ELSE x.counter > y.counter
RECURSIVE Merge(_, _, _)
Merge(p, q, by) ==
    IF p = <<>> \/ q = <<>> THEN p \o q
    ELSE IF FromP(by, Head(p), Head(q)) THEN <<Head(p)>> \o Merge(Tail(p), q, by)
         ELSE <<Head(q)>> \o Merge(p, Tail(q), by)

Stretch(list, from, to) == SubSeq(list, from, Min({to, Len(list)}))
RECURSIVE MergePairs(_, _, _)
MergePairs(list, insize, by) ==
    IF list = <<>> THEN <<>>
    ELSE Merge(Stretch(list, 1, insize), Stretch(list, insize + 1, 2 * insize), by)
         \o MergePairs(Stretch(list, 2 * insize + 1, Len(list)), insize, by)
(* It ends after a pass that had to merge one pair only. *)
RECURSIVE SortFrom(_, _, _)
SortFrom(list, insize, by) ==
    LET merged == MergePairs(list, insize, by)
    IN  IF Len(list) <= 2 * insize THEN merged ELSE SortFrom(merged, 2 * insize, by)
SortItemListNames(list) == SortFrom(list, 1, "name")
SortItemListCounters(list) == SortFrom(list, 1, "counter")

(* The caller's own pointer still leads to the item that was the first.      *)
(* ListDefinedClasses sorts g_vheap itself, and what is before that item is  *)
(* no longer in the heap: cfagent and cfservd do so with -v (cfagent.c:605). *)
StillReached(list, sorted) ==
    IF list = <<>> THEN <<>>
    ELSE Stretch(sorted, Min({i \in DOMAIN sorted : sorted[i] = list[1]}), Len(sorted))
ListDefinedClasses(heap) == StillReached(heap, SortItemListNames(heap))
=============================================================================
