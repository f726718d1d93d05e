----------------------------- MODULE Expressions -----------------------------
(* Class expressions (eval.c): whether a promise is for this host now        *)
(* (IsDefinedClass), and, when the policy is read, whether it could be for   *)
(* it later in the run (IsInstallable); a promise that could not is not kept *)
(* in memory.                                                                *)
(*                                                                           *)
(* An expression is a sequence of marks and names.  The operators are those  *)
(* of eval.c: level 2 is "|", level 3 "." or "&" with "!" in front of an     *)
(* atom, and what is bracketed goes back to level 2.  classes is what the    *)
(* agent knows: the heap (heap), the classes defined in this run (added),    *)
(* those the policy may define (installable), those negated (negated).       *)
EXTENDS Integers, Sequences, FiniteSets, FiniteSetsExt, SequencesExt

Or == {"|"}
And == {".", "&"}

(* bracklevel after the first i marks. *)
Level(s, i) == Cardinality({j \in 1..i : s[j] = "("})
               - Cardinality({j \in 1..i : s[j] = ")"})
(* What GetORAtom or GetANDAtom find one after the other. *)
Atoms(s, separators) ==
    LET ends == {0, Len(s) + 1} \cup
                {i \in 1..Len(s) : s[i] \in separators /\ Level(s, i) = 0}
    IN  {SubSeq(s, i + 1, Min({j \in ends : j > i}) - 1) :
            i \in ends \ {Len(s) + 1}}
\* MUTANT of IsBracketed: the bracket that is opened first may be closed before the end.
BeginsAndEnds(s) == s # <<>> /\ s[1] = "(" /\ s[Len(s)] = ")"
IsBracketed(s) ==
    s # <<>> /\ s[1] = "(" /\ \A i \in 1..(Len(s) - 1) : Level(s, i) # 0
Inside(s) == SubSeq(s, 2, Len(s) - 1)
(* The marks "!" in front of an atom. *)
Negations(s) == Min({i \in 0..Len(s) : i = Len(s) \/ s[i + 1] # "!"})

(* list: the one the caller gives to EvaluateORString. *)
IsTrue(name, list, classes) ==
    name \notin classes.negated /\ name \in classes.heap \cup list

RECURSIVE EvaluateORString(_, _, _)
EvaluateAtom(s, list, classes) ==
    LET n == Negations(s)
        atom == SubSeq(s, n + 1, Len(s))
        value == IF IsBracketed(atom)
                 THEN EvaluateORString(Inside(atom), list, classes)
                 ELSE Len(atom) = 1 /\ IsTrue(atom[1], list, classes)
    IN  value # (n % 2 = 1)
(* An empty atom adds to CountEvalAtoms and is not true. *)
EvaluateANDString(s, list, classes) ==
    \A atom \in Atoms(s, And) : EvaluateAtom(atom, list, classes)
EvaluateORString(s, list, classes) ==
    \E part \in Atoms(s, Or) \ {<<>>} :
        IF IsBracketed(part) THEN EvaluateORString(Inside(part), list, classes)
        ELSE EvaluateANDString(part, list, classes)

IsDefinedClass(s, classes) == EvaluateORString(s, classes.added, classes)
IsInstallable(s, classes) ==
    \/ EvaluateORString(SelectSeq(s, LAMBDA m : m # "!"), classes.installable, classes)
    \/ EvaluateORString(s, classes.installable, classes)
    \/ EvaluateORString(s, classes.added, classes)

---------------------------------------------------------------------------
(* What expressions mean: a name, [op |-> "!", of |-> x], or                 *)
(* [op |-> "." or "|", left |-> x, right |-> y].                             *)

Name(x) == [op |-> "name", name |-> x]
Not(x) == [op |-> "!", of |-> x]
Both(x, y) == [op |-> ".", left |-> x, right |-> y]
Either(x, y) == [op |-> "|", left |-> x, right |-> y]

RECURSIVE Holds(_, _, _), Written(_), Signs(_, _)
Holds(x, list, classes) ==
    CASE x.op = "name" -> IsTrue(x.name, list, classes)
      [] x.op = "!" -> ~Holds(x.of, list, classes)
      [] x.op = "." -> Holds(x.left, list, classes) /\ Holds(x.right, list, classes)
      [] x.op = "|" -> Holds(x.left, list, classes) \/ Holds(x.right, list, classes)
Bracketed(s) == <<"(">> \o s \o <<")">>
Written(x) ==
    LET within(y, ops) == IF y.op \in ops THEN Bracketed(Written(y)) ELSE Written(y)
    IN  CASE x.op = "name" -> <<x.name>>
          [] x.op = "!" -> <<"!">> \o within(x.of, {".", "|"})
          [] x.op = "." -> within(x.left, {"|"}) \o <<".">> \o within(x.right, {"|"})
          [] x.op = "|" -> Written(x.left) \o <<"|">> \o Written(x.right)
(* The names that occur in x, with TRUE if they are negated there. *)
Signs(x, negated) ==
    CASE x.op = "name" -> {<<x.name, negated>>}
      [] x.op = "!" -> Signs(x.of, ~negated)
      [] OTHER -> Signs(x.left, negated) \cup Signs(x.right, negated)
=============================================================================
