----------------------------- MODULE EditProofs -----------------------------
(***************************************************************************)
(* Proofs about Edit, for every set of programs that the parser lets pass, *)
(* every file, every script and every bound.                               *)
(*                                                                         *)
(* That the position is in the list is inductive as soon as the lines, the *)
(* line buffer and the beginning of a loop have their types: each command  *)
(* takes a good list and a good position to another one, and goes on       *)
(* within the program because groups and loops end.  That edits are        *)
(* reported needs that nothing but a script touches the file, or says      *)
(* anything about it, before the end of the program (Unsaid).              *)
(***************************************************************************)
EXTENDS Edit, FiniteSetTheorems, SequenceTheorems, WellFoundedInduction, TLAPS

Typed ==
    /\ program \in Program
    /\ disk \in Lines /\ before \in Lines /\ list \in Lines
    /\ buff \in TextLine
    /\ loop \in [start : 0..Len(program), left : Lines]
    /\ faults \in Nat

Unsaid == pc >= 1 /\ ~Has({"RunScript"}) => disk = before /\ told = {}

IInv == Typed /\ CursorInList /\ Unsaid

---------------------------------------------------------------------------
(* Smallest and greatest numbers, and lines.                               *)

(* A set of numbers that is not empty has a smallest one: < is well-founded. *)
LEMMA Smallest ==
  ASSUME NEW S \in SUBSET Nat, S # {}
  PROVE  \E y \in S : \A z \in S : y <= z
<1> DEFINE Less == OpToRel(<, Nat)
<1>1. IsWellFoundedOn(Less, Nat)
  BY NatLessThanWellFounded
<1>2. \A T : T \subseteq Nat /\ T # {} => \E y \in T : \A z \in T : ~(<<z, y>> \in Less)
  <2> HIDE DEF Less
  <2>. QED BY <1>1, WFMin
<1>3. PICK y \in S : \A z \in S : ~(<<z, y>> \in Less)
  <2> HIDE DEF Less
  <2>. QED BY <1>2
<1>4. \A z \in Nat : z < y => <<z, y>> \in Less
  <2>. SUFFICES ASSUME NEW z \in Nat, z < y PROVE <<z, y>> \in Less
    OBVIOUS
  <2>1. y \in Nat
    OBVIOUS
  <2>2. <<z, y>> \in {ss \in Nat \X Nat : ss[1] < ss[2]}
    BY <2>1
  <2>. QED
    BY <2>2 DEF OpToRel
<1>5. \A z \in S : y <= z
  <2> HIDE DEF Less
  <2>. SUFFICES ASSUME NEW z \in S PROVE y <= z
    OBVIOUS
  <2>1. y \in Nat /\ z \in Nat /\ ~(z < y)
    BY <1>3, <1>4
  <2>. QED
    BY <2>1
<1>. QED
  BY <1>5

LEMMA Least ==
  ASSUME NEW S \in SUBSET Nat, S # {}
  PROVE  Min(S) \in S /\ \A y \in S : Min(S) <= y
BY Smallest DEF Min

(* What is greatest lies at the smallest distance from the end. *)
LEMMA Greatest ==
  ASSUME NEW n \in Nat, NEW S \in SUBSET (1..n), S # {}
  PROVE  Max(S) \in S /\ \A y \in S : y <= Max(S)
<1> DEFINE T == {n - i : i \in S}
<1>1. T \in SUBSET Nat /\ T # {}
  <2>1. \A i \in S : n - i \in Nat
    OBVIOUS
  <2>. QED BY <2>1
<1>2. PICK d \in T : \A z \in T : d <= z
  <2> HIDE DEF T
  <2>. QED BY <1>1, Smallest
<1>3. PICK x \in S : d = n - x
  OBVIOUS
<1>4. \A y \in S : x >= y
  <2>. SUFFICES ASSUME NEW y \in S PROVE x >= y
    OBVIOUS
  <2>1. n - x <= n - y
    BY <1>2, <1>3
  <2>2. x \in 1..n /\ y \in 1..n
    OBVIOUS
  <2>. QED BY <2>1, <2>2
<1>5. Max(S) \in S /\ \A y \in S : Max(S) >= y
  <2>. HIDE DEF T
  <2>. QED BY <1>4 DEF Max
<1>. QED
  BY <1>5

(* The lines of a list, one by one. *)
LEMMA ListTyped ==
  ASSUME NEW s \in Lines
  PROVE  /\ Len(s) \in Nat /\ DOMAIN s = 1..Len(s)
         /\ \A i \in 1..Len(s) : s[i] \in TextLine
         /\ (s = <<>>) <=> (Len(s) = 0)
<1>1. s \in Seq(TextLine)
  BY DEF Lines
<1>. QED
  BY <1>1, LenProperties, EmptySeq

(* Lines are changed, each in its place. *)
LEMMA Changing ==
  ASSUME NEW s \in Lines, NEW t, DOMAIN t = DOMAIN s, t = [i \in DOMAIN t |-> t[i]],
         \A i \in 1..Len(s) : t[i] \in TextLine
  PROVE  t \in Lines /\ Len(t) = Len(s)
<1>1. Len(s) \in Nat /\ DOMAIN s = 1..Len(s)
  BY ListTyped
<1>2. t \in [1..Len(s) -> TextLine]
  BY <1>1
<1>. QED
  BY <1>1, <1>2 DEF Lines

LEMMA Joining ==
  ASSUME NEW s \in Lines, NEW t \in Lines
  PROVE  s \o t \in Lines /\ Len(s \o t) = Len(s) + Len(t)
BY DEF Lines

(* Lines are cut out, from number i to before number j. *)
LEMMA Cutting ==
  ASSUME NEW s \in Lines, NEW i \in 1..Len(s), NEW j \in i..Len(s) + 1
  PROVE  /\ SubSeq(s, 1, i - 1) \o SubSeq(s, j, Len(s)) \in Lines
         /\ Len(SubSeq(s, 1, i - 1) \o SubSeq(s, j, Len(s))) = Len(s) - (j - i)
<1>1. Len(s) \in Nat
  BY ListTyped
<1>2. PICK x : x = SubSeq(s, 1, i - 1)
  OBVIOUS
<1>3. x \in Lines /\ Len(x) = i - 1
  BY <1>1, <1>2 DEF Lines
<1>4. PICK y : y = SubSeq(s, j, Len(s))
  OBVIOUS
<1>5. y \in Lines /\ Len(y) = Len(s) - j + 1
  BY <1>1, <1>4 DEF Lines
<1>6. x \o y \in Lines /\ Len(x \o y) = Len(s) - (j - i)
  BY <1>1, <1>3, <1>5, Joining
<1>. QED
  BY <1>2, <1>4, <1>6

(* Lines are inserted, behind number i. *)
LEMMA Inserting ==
  ASSUME NEW s \in Lines, NEW t \in Lines, NEW i \in 0..Len(s)
  PROVE  /\ SubSeq(s, 1, i) \o t \o SubSeq(s, i + 1, Len(s)) \in Lines
         /\ Len(SubSeq(s, 1, i) \o t \o SubSeq(s, i + 1, Len(s))) = Len(s) + Len(t)
<1>1. Len(s) \in Nat /\ Len(t) \in Nat
  BY ListTyped
<1>2. PICK x : x = SubSeq(s, 1, i)
  OBVIOUS
<1>3. x \in Lines /\ Len(x) = i
  BY <1>1, <1>2 DEF Lines
<1>4. PICK y : y = SubSeq(s, i + 1, Len(s))
  OBVIOUS
<1>5. y \in Lines /\ Len(y) = Len(s) - i
  BY <1>1, <1>4 DEF Lines
<1>6. x \o t \in Lines /\ Len(x \o t) = i + Len(t)
  BY <1>1, <1>3, Joining
<1>7. x \o t \o y \in Lines /\ Len(x \o t \o y) = Len(s) + Len(t)
  BY <1>1, <1>5, <1>6, Joining
<1>. QED
  BY <1>2, <1>4, <1>7
---------------------------------------------------------------------------
(* The interpreter goes on within the program.                             *)

(* What is known of the program at hand, and of the command. *)
LEMMA ProgramKnown ==
  ASSUME Typed
  PROVE  /\ IsProgram(program) /\ Len(program) \in Nat /\ End \in Nat
         /\ DOMAIN program = 1..Len(program)
         /\ \A i \in 1..Len(program) : IsCommand(program[i])
BY EditAssumption DEF Typed, IsProgram, End

LEMMA OpKnown ==
  ASSUME Typed, Running
  PROVE  /\ IsCommand(Op) /\ pc \in 1..Len(program) /\ pc \in Nat
         /\ pc \in 1..End /\ pc + 1 \in 1..End /\ End \in 1..End
         /\ \A codes : Op.code \in codes => Has(codes)
<1>1. Len(program) \in Nat /\ DOMAIN program = 1..Len(program) /\ pc \in 1..Len(program)
  BY ProgramKnown DEF Running
<1>2. IsCommand(Op)
  BY <1>1, ProgramKnown DEF Op
<1>3. \A codes : Op.code \in codes => Has(codes)
  BY <1>1 DEF Op, Has
<1>. QED
  BY <1>1, <1>2, <1>3 DEF End

(* Behind the first of the commands ahead that are looked for. *)
LEMMA Ahead ==
  ASSUME Typed, Running, NEW S \in SUBSET (pc..Len(program)), S # {}
  PROVE  1 + Min(S) \in 1..End
<1>1. Len(program) \in Nat /\ pc \in 1..Len(program)
  BY OpKnown, ProgramKnown
<1>2. S \in SUBSET Nat
  BY <1>1
<1>3. PICK m : m = Min(S)
  OBVIOUS
<1>4. m \in S
  BY <1>2, <1>3, Least
<1>5. m \in pc..Len(program)
  BY <1>4
<1>6. 1 + m \in 1..Len(program) + 1
  BY <1>1, <1>5
<1>. QED
  BY <1>3, <1>6 DEF End

LEMMA AbortsAhead ==
  ASSUME Typed, Running
  PROVE  ThrowAbort \in 1..End
<1> DEFINE catches == {i \in pc..Len(program) : program[i].code = "CatchAbort"}
<1>1. catches # {} => 1 + Min(catches) \in 1..End
  BY Ahead
<1>. QED
  BY <1>1, OpKnown DEF ThrowAbort

LEMMA GroupEndsAhead ==
  ASSUME Typed, Running, Begins(Op.code)
  PROVE  SkipToEndGroup \in 1..End
<1>1. Balanced(program, pc) # {}
  BY ProgramKnown, OpKnown DEF IsProgram, Op
<1>2. Balanced(program, pc) \in SUBSET (pc..Len(program))
  BY DEF Balanced
<1>. QED
  BY <1>1, <1>2, Ahead DEF SkipToEndGroup

(* Where nesting is back at its level a group has ended. *)
LEMMA FirstEndAhead ==
  ASSUME Typed, Running, Begins(Op.code)
  PROVE  1 + Min({i \in pc..Len(program) : Ends(program[i].code)}) \in 1..End
<1> DEFINE ends == {i \in pc..Len(program) : Ends(program[i].code)}
<1>1. Len(program) \in Nat /\ pc \in 1..Len(program)
  BY OpKnown, ProgramKnown
<1>2. PICK j \in Balanced(program, pc) : TRUE
  BY <1>1, ProgramKnown, OpKnown DEF IsProgram, Op
<1>3. j \in pc..Len(program) /\ Nesting(program, pc, j) = 0
  BY <1>2 DEF Balanced
<1> DEFINE B == {i \in pc..j : Begins(program[i].code)}
           E == {i \in pc..j : Ends(program[i].code)}
<1>4. IsFiniteSet(pc..j)
  BY <1>1, <1>3, FS_Interval
<1>5. IsFiniteSet(B) /\ IsFiniteSet(E)
  BY <1>4, FS_Subset
<1>6. B # {}
  <2>1. pc \in B
    BY <1>1, <1>3 DEF Op
  <2>. QED BY <2>1
<1>7. Cardinality(B) \in Nat /\ Cardinality(B) # 0 /\ Cardinality(E) \in Nat
  <2>. HIDE DEF B, E
  <2>. QED BY <1>5, <1>6, FS_CardinalityType, FS_EmptySet
<1>8. Cardinality(B) - Cardinality(E) = 0
  BY <1>3 DEF Nesting
<1>9. E # {}
  <2>. HIDE DEF B, E
  <2>. SUFFICES ASSUME E = {} PROVE FALSE
    OBVIOUS
  <2>1. Cardinality(E) = 0
    BY FS_EmptySet
  <2>. QED BY <1>7, <1>8, <2>1
<1>10. ends # {}
  BY <1>1, <1>3, <1>9
<1>. QED
  BY <1>10, Ahead

LEMMA LoopEndsAhead ==
  ASSUME Typed, Running, Op.code = "ForEachLineIn"
  PROVE  EndLoop \in 1..End
<1>1. LoopEnds(program, pc) # {}
  BY ProgramKnown, OpKnown DEF IsProgram, Op
<1>2. LoopEnds(program, pc) \in SUBSET (pc..Len(program))
  BY DEF LoopEnds
<1>. QED
  BY <1>1, <1>2, Ahead DEF EndLoop

(* What a search finds. *)
LEMMA Searching ==
  ASSUME list \in Lines, NEW lines, NEW from \in Nat \ {0}, NEW stops,
         NEW i, i = FirstIn(lines, from, stops), i # Null
  PROVE  i \in from..Len(list) /\ i \in 1..Len(list) /\ list[i] \in lines /\ list[i] \in TextLine
<1>1. PICK reach : reach = {k \in from..Len(list) : \A j \in from..k : list[j] \notin stops}
  OBVIOUS
<1>2. PICK hits : hits = {k \in reach : list[k] \in lines}
  OBVIOUS
<1>3. Len(list) \in Nat
  BY ListTyped
<1>4. hits \in SUBSET Nat /\ hits \in SUBSET (from..Len(list)) /\ \A k \in hits : list[k] \in lines
  BY <1>1, <1>2, <1>3
<1>5. i = IF hits = {} THEN Null ELSE Min(hits)
  BY <1>1, <1>2 DEF FirstIn
<1>6. i \in hits
  BY <1>4, <1>5, Least
<1>. QED
  BY <1>3, <1>4, <1>6, ListTyped

---------------------------------------------------------------------------
(* One command that only changes the lines and the position in memory, and *)
(* where the program goes on.                                              *)

TextKept ==
    /\ list' \in Lines /\ cursor' \in Freed..Len(list') /\ number' \in Nat
    /\ cursor' = Freed => cursor = Freed \/ Has({"DeleteLines", "DeleteAfter"})
StateKept == buff' \in TextLine /\ loop' \in [start : 0..Len(program), left : Lines]
GoesOn == pc' \in 1..End /\ UNCHANGED <<program, disk, faults, history>>

LEMMA Commanded ==
  ASSUME IInv, Running, GoesOn, TextKept, StateKept
  PROVE  IInv'
<1>1. program' = program /\ disk' = disk /\ faults' = faults /\ before' = before /\ told' = told
  BY DEF history, GoesOn
<1>2. pc \in Nat /\ pc >= 1 /\ End \in Nat
  BY OpKnown, ProgramKnown DEF IInv
<1>3. Typed'
  BY <1>1 DEF IInv, Typed, TextKept, StateKept
<1>4. \A codes : Has(codes)' <=> Has(codes)
  BY <1>1 DEF Has
<1>5. End' = End
  BY <1>1 DEF End
<1>6. CursorInList'
  <2>1. pc' \in Broken..End /\ pc' # Broken
    BY <1>2 DEF Broken, GoesOn
  <2>2. cursor' = Freed => Has({"DeleteLines", "DeleteAfter", "RunScript"})
    <3>1. Has({"DeleteLines", "DeleteAfter"}) => Has({"DeleteLines", "DeleteAfter", "RunScript"})
      BY DEF Has
    <3>. QED BY <3>1 DEF IInv, CursorInList, TextKept
  <2>3. told' \subseteq {"define", "elsedefine"}
    BY <1>1 DEF IInv, CursorInList
  <2>. QED
    BY <1>1, <1>4, <1>5, <2>1, <2>2, <2>3 DEF CursorInList, Has, TextKept
<1>7. Unsaid'
  BY <1>1, <1>2, <1>4 DEF IInv, Unsaid, Has
<1>. QED
  BY <1>3, <1>6, <1>7 DEF IInv

(* Lines, position and the rest that a command finds. *)
LEMMA TextLeft ==
  ASSUME IInv
  PROVE  /\ list \in Lines /\ cursor \in Freed..Len(list) /\ number \in Nat
         /\ cursor \in Int /\ Len(list) \in Nat
         /\ buff \in TextLine /\ loop \in [start : 0..Len(program), left : Lines]
         /\ Typed
BY ListTyped DEF IInv, Typed, CursorInList, Freed

LEMMA TextStays ==
  ASSUME IInv, UNCHANGED text
  PROVE  TextKept
BY TextLeft DEF text, TextKept

LEMMA StateStays ==
  ASSUME IInv, UNCHANGED <<buff, loop>>
  PROVE  StateKept
BY TextLeft DEF StateKept

(* Where the program goes on. *)
LEMMA Stepping ==
  ASSUME IInv, Running, Step \/ Stay \/ \E i \in 1..End : Goto(i)
  PROVE  GoesOn
BY TextLeft, OpKnown DEF GoesOn, Step, Stay, Goto

LEMMA Appending ==
  ASSUME NEW s \in Lines, NEW line \in TextLine
  PROVE  Append(s, line) \in Lines /\ Len(Append(s, line)) = Len(s) + 1
BY AppendProperties DEF Lines

LEMMA Appended ==
  ASSUME IInv, NEW line \in TextLine, AppendItem(line)
  PROVE  TextKept
<1>1. list' = Append(list, line) /\ cursor' = cursor /\ number' = number
  BY DEF AppendItem, Insert
<1>2. list' \in Lines /\ Len(list') = Len(list) + 1
  BY <1>1, Appending, TextLeft
<1>. QED
  BY <1>1, <1>2, TextLeft DEF TextKept, Freed

(* A line is rewritten. *)
LEMMA Rewriting ==
  ASSUME IInv, NEW i \in 1..Len(list), NEW line \in TextLine, Rewrite(i, line)
  PROVE  TextKept
<1>1. list' = [list EXCEPT ![i] = line] /\ cursor' = cursor /\ number' = number
  BY DEF Rewrite
<1>2. list' \in Lines /\ Len(list') = Len(list)
  BY <1>1, TextLeft, ExceptSeq DEF Lines
<1>. QED
  BY <1>1, <1>2, TextLeft DEF TextKept

---------------------------------------------------------------------------
(* Lines are deleted.                                                      *)

LEMMA DeletesItem ==
  ASSUME IInv, NEW i \in 1..Len(list), DeleteItem(i), Op.code \in {"DeleteLines", "DeleteAfter"}, Running
  PROVE  IInv'
<1>1. list' = SubSeq(list, 1, i - 1) \o SubSeq(list, i + 1, Len(list)) /\ number' = number
  BY DEF DeleteItem, RemoveAt
<1>2. cursor' = IF cursor = i THEN Freed ELSE IF cursor > i THEN cursor - 1 ELSE cursor
  BY DEF DeleteItem
<1>3. list' \in Lines /\ Len(list') = Len(list) - 1
  <2>1. PICK j : j = i + 1
    OBVIOUS
  <2>2. j \in i..Len(list) + 1 /\ Len(list) - (j - i) = Len(list) - 1
    BY <2>1, TextLeft
  <2>3. list' = SubSeq(list, 1, i - 1) \o SubSeq(list, j, Len(list))
    BY <1>1, <2>1
  <2>. QED BY <2>2, <2>3, TextLeft, Cutting
<1>4. cursor' \in Freed..Len(list')
  BY <1>2, <1>3, TextLeft DEF Freed
<1>5. Has({"DeleteLines", "DeleteAfter"})
  BY OpKnown, TextLeft
<1>6. TextKept
  BY <1>1, <1>3, <1>4, <1>5, TextLeft DEF TextKept
<1>7. StateKept
  BY StateStays DEF DeleteItem, state
<1>8. GoesOn
  BY Stepping DEF DeleteItem
<1>. QED
  BY <1>6, <1>7, <1>8, Commanded

LEMMA DeleteLinesKeeps ==
  ASSUME IInv, DeleteLines
  PROVE  IInv'
<1>1. Running /\ Op.code = "DeleteLines"
  BY DEF DeleteLines, At
<1>2. PICK i : i = FirstIn(Op.on, 1, abort)
  OBVIOUS
<1>3. IF i # Null THEN DeleteItem(i) ELSE Step /\ UNCHANGED <<text, state>>
  BY <1>2 DEF DeleteLines
<1>4. CASE i # Null
  <2>1. i \in 1..Len(list)
    BY <1>2, <1>4, Searching, TextLeft
  <2>. QED
    BY <1>1, <1>3, <1>4, <2>1, DeletesItem
<1>5. CASE i = Null
  BY <1>1, <1>3, <1>5, TextStays, StateStays, Stepping, Commanded DEF state
<1>. QED
  BY <1>4, <1>5

LEMMA DeleteAfterKeeps ==
  ASSUME IInv, DeleteLinesAfterThisMatching
  PROVE  IInv'
<1>1. Running /\ Op.code = "DeleteAfter"
  BY DEF DeleteLinesAfterThisMatching, At
<1>2. PICK i : i = FirstIn(Op.on, cursor + 1, abort)
  OBVIOUS
<1>3. \/ Step /\ UNCHANGED <<text, state>>
      \/ cursor > 0 /\ i # Null /\ DeleteItem(i)
  BY <1>2 DEF DeleteLinesAfterThisMatching
<1>4. CASE cursor > 0 /\ i # Null /\ DeleteItem(i)
  <2>1. cursor + 1 \in Nat \ {0}
    BY <1>4, TextLeft
  <2>2. i \in 1..Len(list)
    BY <1>2, <1>4, <2>1, Searching, TextLeft
  <2>. QED
    BY <1>1, <1>4, <2>2, DeletesItem
<1>5. CASE Step /\ UNCHANGED <<text, state>>
  BY <1>1, <1>5, TextStays, StateStays, Stepping, Commanded DEF state
<1>. QED
  BY <1>3, <1>4, <1>5

LEMMA DeleteToLineKeeps ==
  ASSUME IInv, DeleteToLineMatching
  PROVE  IInv'
<1>1. Running /\ cursor # Freed /\ cursor' = cursor /\ number' = number /\ UNCHANGED <<buff, loop>>
  BY DEF DeleteToLineMatching, At, Usable, state
<1>2. PICK e : e = IF cursor = Null THEN Null ELSE FirstIn(Op.on, cursor, abort)
  OBVIOUS
<1>3. /\ IF e = Null THEN UNCHANGED <<list, edited>>
         ELSE list' = SubSeq(list, 1, cursor - 1) \o SubSeq(list, e, Len(list))
      /\ Goto(IF e = Null /\ cursor # Null THEN ThrowAbort ELSE pc + 1)
  BY <1>2 DEF DeleteToLineMatching
<1>4. GoesOn
  BY <1>1, <1>3, Stepping, AbortsAhead, OpKnown, TextLeft
<1>5. list' \in Lines /\ Len(list') \in Nat /\ cursor <= Len(list')
  <2>1. CASE e = Null
    BY <1>3, <2>1, TextLeft DEF Freed
  <2>2. CASE e # Null
    <3>1. cursor \in 1..Len(list) /\ cursor \in Nat \ {0}
      BY <1>1, <1>2, <2>2, TextLeft DEF Freed, Null
    <3>2. e \in cursor..Len(list) /\ e \in cursor..Len(list) + 1
      <4>1. e = FirstIn(Op.on, cursor, abort)
        BY <1>2, <2>2
      <4>2. e \in cursor..Len(list)
        BY <2>2, <3>1, <4>1, Searching, TextLeft
      <4>. QED
        BY <3>1, <4>2, TextLeft
    <3>3. list' \in Lines /\ Len(list') = Len(list) - (e - cursor)
      <4>1. list' = SubSeq(list, 1, cursor - 1) \o SubSeq(list, e, Len(list))
        BY <1>3, <2>2
      <4>2. list \in Lines
        BY TextLeft
      <4>. QED
        BY <3>1, <3>2, <4>1, <4>2, Cutting
    <3>4. Len(list') \in Nat
      BY <3>3, ListTyped
    <3>5. cursor <= Len(list) - (e - cursor)
      <4>1. Len(list) \in Nat
        BY TextLeft
      <4>. QED
        BY <3>1, <3>2, <4>1
    <3>. QED
      BY <3>3, <3>4, <3>5
  <2>. QED
    BY <2>1, <2>2
<1>6. TextKept
  BY <1>1, <1>5, TextLeft DEF TextKept, Freed
<1>. QED
  BY <1>1, <1>4, <1>6, StateStays, Commanded

LEMMA DeleteNLinesKeeps ==
  ASSUME IInv, DeleteNLines
  PROVE  IInv'
<1>1. Running /\ Op.code = "DeleteNLines" /\ cursor # Freed /\ number' = number /\ UNCHANGED <<buff, loop>>
  BY DEF DeleteNLines, At, Usable, state
<1>2. CASE cursor = Null
  <2>1. Step /\ UNCHANGED <<list, cursor>>
    BY <1>2 DEF DeleteNLines
  <2>2. TextKept
    BY <1>1, <2>1, TextLeft DEF TextKept
  <2>. QED
    BY <1>1, <2>1, <2>2, Stepping, StateStays, Commanded
<1>3. CASE cursor # Null
  <2>1. cursor \in 1..Len(list) /\ cursor \in Nat \ {0}
    BY <1>1, <1>3, TextLeft DEF Freed, Null
  <2>2. Op.on \in Nat \ {0}
    BY <1>1, OpKnown, TextLeft DEF IsCommand, Counted
  <2>3. PICK stop : stop = FirstIn(abort, cursor, {})
    OBVIOUS
  <2>4. PICK due : due = IF Op.on < Len(list) - cursor + 1 THEN Op.on ELSE Len(list) - cursor + 1
    OBVIOUS
  <2>5. PICK stopped \in BOOLEAN : stopped <=> stop # Null /\ stop - cursor < due
    OBVIOUS
  <2>6. PICK k : k = IF stopped THEN stop - cursor ELSE due
    OBVIOUS
  <2>7. /\ list' = SubSeq(list, 1, cursor - 1) \o SubSeq(list, cursor + k, Len(list))
        /\ cursor' = AtOrNull(cursor, list')
        /\ Goto(IF stopped THEN ThrowAbort ELSE pc + 1)
    BY <1>3, <2>3, <2>4, <2>5, <2>6 DEF DeleteNLines
  <2>8. k \in Nat /\ cursor + k \in cursor..Len(list) + 1
    <3>1. due \in Nat /\ cursor + due <= Len(list) + 1
      BY <2>1, <2>2, <2>4, TextLeft
    <3>2. CASE stopped
      <4>1. stop \in cursor..Len(list)
        BY <2>1, <2>3, <2>5, <3>2, Searching, TextLeft
      <4>. QED
        BY <2>1, <2>6, <3>2, <4>1, TextLeft
    <3>3. CASE ~stopped
      BY <2>1, <2>6, <3>1, <3>3, TextLeft
    <3>. QED
      BY <3>2, <3>3
  <2>9. list' \in Lines /\ Len(list') \in Nat
    <3>1. PICK j : j = cursor + k
      OBVIOUS
    <3>2. list' = SubSeq(list, 1, cursor - 1) \o SubSeq(list, j, Len(list))
      BY <2>7, <3>1
    <3>3. list' \in Lines
      BY <2>1, <2>8, <3>1, <3>2, Cutting, TextLeft
    <3>. QED
      BY <3>3, ListTyped
  <2>10. cursor' \in 0..Len(list')
    <3>1. cursor' = IF cursor <= Len(list') THEN cursor ELSE 0
      BY <2>7 DEF AtOrNull, Null
    <3>. QED
      BY <2>1, <2>9, <3>1
  <2>11. TextKept
    BY <1>1, <2>9, <2>10, TextLeft DEF TextKept, Freed
  <2>12. GoesOn
    BY <1>1, <2>7, Stepping, AbortsAhead, OpKnown, TextLeft
  <2>. QED
    BY <1>1, <2>11, <2>12, StateStays, Commanded
<1>. QED
  BY <1>2, <1>3

LEMMA EmptyKeeps ==
  ASSUME IInv, EmptyEntireFile
  PROVE  IInv'
<1>1. Running /\ list' = <<>> /\ cursor' = 0 /\ number' = 0 /\ UNCHANGED <<buff, loop>> /\ Step
  BY DEF EmptyEntireFile, At, state, Null
<1>2. TextKept
  BY <1>1 DEF TextKept, Lines, Freed
<1>. QED
  BY <1>1, <1>2, Stepping, StateStays, Commanded

---------------------------------------------------------------------------
(* Lines are added.                                                        *)

LEMMA AppendLineKeeps ==
  ASSUME IInv, AppendLine
  PROVE  IInv'
<1>1. Running /\ Op.code = "Append" /\ AppendItem(Op.on) /\ Step /\ UNCHANGED <<buff, loop>>
  BY DEF AppendLine, At, state
<1>2. Op.on \in TextLine
  BY <1>1, OpKnown, TextLeft DEF IsCommand, TakesLine
<1>. QED
  BY <1>1, <1>2, Appended, Stepping, StateStays, Commanded

LEMMA AppendIfNoSuchLineKeeps ==
  ASSUME IInv, AppendIfNoSuchLine
  PROVE  IInv'
<1>1. Running /\ Op.code = "AppendIfNoSuchLine" /\ Step /\ UNCHANGED <<buff, loop>>
  BY DEF AppendIfNoSuchLine, At, state
<1>2. AppendItem(Op.on) \/ UNCHANGED text
  BY DEF AppendIfNoSuchLine
<1>3. Op.on \in TextLine
  BY <1>1, OpKnown, TextLeft DEF IsCommand, TakesLine
<1>4. TextKept
  BY <1>2, <1>3, Appended, TextStays
<1>. QED
  BY <1>1, <1>4, Stepping, StateStays, Commanded

LEMMA AppendLinesFromFileKeeps ==
  ASSUME IInv, AppendLinesFromFile
  PROVE  IInv'
<1>1. Running /\ Op.code = "AppendLinesFromFile" /\ UNCHANGED <<buff, loop>>
  BY DEF AppendLinesFromFile, At, state
<1>2. PICK lines : lines = Append(Op.on, Blank)
  OBVIOUS
<1>3. PICK missing : missing = {i \in DOMAIN lines : lines[i] \notin Range(list)}
  OBVIOUS
<1>4. IF missing = {} THEN Step /\ UNCHANGED text
      ELSE Stay /\ AppendItem(lines[Min(missing)])
  BY <1>2, <1>3 DEF AppendLinesFromFile
<1>5. lines \in Lines
  <2>1. Op.on \in Lines
    BY <1>1, OpKnown, TextLeft DEF IsCommand, TakesFile
  <2>2. Blank \in TextLine
    BY EditAssumption
  <2>. QED
    BY <1>2, <2>1, <2>2, Appending
<1>6. CASE missing = {}
  BY <1>1, <1>4, <1>6, TextStays, StateStays, Stepping, Commanded
<1>7. CASE missing # {}
  <2>1. missing \in SUBSET (1..Len(lines)) /\ missing \in SUBSET Nat
    BY <1>3, <1>5, ListTyped
  <2>2. Min(missing) \in missing
    BY <1>7, <2>1, Least
  <2>3. lines[Min(missing)] \in TextLine
    BY <1>5, <2>1, <2>2, ListTyped
  <2>. QED
    BY <1>1, <1>4, <1>7, <2>3, Appended, StateStays, Stepping, Commanded
<1>. QED
  BY <1>6, <1>7

LEMMA AppendIfNoLineMatchingKeeps ==
  ASSUME IInv, AppendIfNoLineMatching
  PROVE  IInv'
<1>1. Running /\ Step /\ UNCHANGED <<buff, loop>> /\ (AppendItem(buff) \/ UNCHANGED text)
  BY DEF AppendIfNoLineMatching, At, state
<1>2. TextKept
  BY <1>1, Appended, TextStays, TextLeft
<1>. QED
  BY <1>1, <1>2, Stepping, StateStays, Commanded

LEMMA PrependKeeps ==
  ASSUME IInv, Prepend
  PROVE  IInv'
<1>1. Running /\ Op.code \in {"Prepend", "PrependIfNoSuchLine"} /\ Step /\ UNCHANGED <<buff, loop>>
  BY DEF Prepend, At, state
<1>2. \/ /\ list' = <<Op.on>> \o list
         /\ cursor' = (IF cursor > 0 THEN cursor + 1 ELSE cursor)
         /\ number' = number
      \/ UNCHANGED text
  BY DEF Prepend, Insert
<1>3. Op.on \in TextLine
  BY <1>1, OpKnown, TextLeft DEF IsCommand, TakesLine
<1>4. CASE /\ list' = <<Op.on>> \o list
           /\ cursor' = (IF cursor > 0 THEN cursor + 1 ELSE cursor)
           /\ number' = number
  <2>1. PICK one : one = <<Op.on>>
    OBVIOUS
  <2>2. one \in Lines /\ Len(one) = 1
    BY <1>3, <2>1 DEF Lines
  <2>3. list' \in Lines /\ Len(list') = 1 + Len(list)
    BY <1>4, <2>1, <2>2, Joining, TextLeft
  <2>4. cursor' \in Freed..Len(list') /\ (cursor' = Freed => cursor = Freed)
    BY <1>4, <2>3, TextLeft DEF Freed
  <2>5. TextKept
    BY <1>4, <2>3, <2>4, TextLeft DEF TextKept
  <2>. QED
    BY <1>1, <2>5, Stepping, StateStays, Commanded
<1>5. CASE UNCHANGED text
  BY <1>1, <1>5, TextStays, StateStays, Stepping, Commanded
<1>. QED
  BY <1>2, <1>4, <1>5

LEMMA InsertingAfter ==
  ASSUME IInv, NEW lines \in Lines, InsertAfter(lines), cursor # Freed
  PROVE  TextKept
<1>1. PICK k : k = Len(lines)
  OBVIOUS
<1>2. k \in Nat
  BY <1>1, ListTyped
<1>. DEFINE Into(i, at, to) ==
         /\ list' = SubSeq(list, 1, i) \o lines \o SubSeq(list, i + 1, Len(list))
         /\ cursor' = at /\ number' = to
<1>3. \/ cursor > 0 /\ Into(cursor, cursor + k, number + k)
      \/ cursor = Null /\ list # <<>> /\ Into(1, 1 + k, k)
      \/ cursor = Null /\ list = <<>> /\ list' = lines /\ cursor' = k /\ number' = k
  BY <1>1 DEF InsertAfter, Insert
<1>4. CASE cursor > 0 /\ Into(cursor, cursor + k, number + k)
  <2>1. /\ list' = SubSeq(list, 1, cursor) \o lines \o SubSeq(list, cursor + 1, Len(list))
        /\ cursor' = cursor + k /\ number' = number + k
    BY <1>4
  <2>2. cursor \in 0..Len(list)
    BY <1>4, TextLeft
  <2>3. list' \in Lines /\ Len(list') = Len(list) + k
    BY <1>1, <2>1, <2>2, Inserting, TextLeft
  <2>4. cursor' = cursor + k /\ number' = number + k
    BY <1>4
  <2>5. cursor > 0 /\ Len(list) \in Nat /\ number \in Nat
    BY <1>4, TextLeft
  <2>6. number' \in Nat /\ cursor' \in 1..Len(list')
    BY <1>2, <2>3, <2>2, <2>4, <2>5
  <2>7. Len(list') \in Nat
    BY <2>3, ListTyped
  <2>8. cursor' \in Freed..Len(list') /\ cursor' # Freed
    BY <2>6, <2>7 DEF Freed
  <2>. QED
    BY <2>3, <2>6, <2>8 DEF TextKept
<1>5. CASE cursor = Null /\ list # <<>> /\ Into(1, 1 + k, k)
  <2>1. /\ list' = SubSeq(list, 1, 1) \o lines \o SubSeq(list, 1 + 1, Len(list))
        /\ cursor' = 1 + k /\ number' = k
    BY <1>5
  <2>2. 1 \in 0..Len(list)
    BY <1>5, ListTyped, TextLeft
  <2>3. list' \in Lines /\ Len(list') = Len(list) + k
    BY <1>1, <2>1, <2>2, Inserting, TextLeft
  <2>4. cursor' = 1 + k /\ number' = k
    BY <1>5
  <2>. QED
    BY <1>2, <2>2, <2>3, <2>4, TextLeft DEF TextKept, Freed
<1>6. CASE list' = lines /\ cursor' = k /\ number' = k
  BY <1>1, <1>2, <1>6 DEF TextKept, Freed
<1>. QED
  BY <1>4, <1>5, <1>6, <1>3

LEMMA InsertLineKeeps ==
  ASSUME IInv, InsertLine
  PROVE  IInv'
<1>1. Running /\ Op.code = "InsertLine" /\ Step /\ UNCHANGED <<buff, loop>>
  BY DEF InsertLine, At, state
<1>2. Op.on \in TextLine
  BY <1>1, OpKnown, TextLeft DEF IsCommand, TakesLine
<1>3. AppendItem(Op.on) \/ (cursor # Freed /\ InsertAfter(<<Op.on>>))
  BY DEF InsertLine, Usable
<1>4. <<Op.on>> \in Lines
  BY <1>2 DEF Lines
<1>5. TextKept
  BY <1>2, <1>3, <1>4, Appended, InsertingAfter
<1>. QED
  BY <1>1, <1>5, Stepping, StateStays, Commanded

LEMMA InsertFileKeeps ==
  ASSUME IInv, InsertFile
  PROVE  IInv'
<1>1. Running /\ Op.code = "InsertFile" /\ Step /\ UNCHANGED <<buff, loop>>
      /\ cursor # Freed /\ InsertAfter(Op.on)
  BY DEF InsertFile, At, state, Usable
<1>2. Op.on \in Lines
  BY <1>1, OpKnown, TextLeft DEF IsCommand, TakesFile
<1>. QED
  BY <1>1, <1>2, InsertingAfter, Stepping, StateStays, Commanded

---------------------------------------------------------------------------
(* Lines are replaced.                                                     *)

LEMMA ReplaceLineKeeps ==
  ASSUME IInv, ReplaceLineWith
  PROVE  IInv'
<1>1. Running /\ Op.code = "ReplaceLineWith" /\ Step /\ UNCHANGED <<buff, loop>>
      /\ cursor > 0 /\ Rewrite(cursor, Op.on)
  BY DEF ReplaceLineWith, At, state
<1>2. Op.on \in TextLine
  BY <1>1, OpKnown, TextLeft DEF IsCommand, TakesLine
<1>3. cursor \in 1..Len(list)
  BY <1>1, TextLeft
<1>. QED
  BY <1>1, <1>2, <1>3, Rewriting, Stepping, StateStays, Commanded

LEMMA AppendToLineKeeps ==
  ASSUME IInv, AppendToLine
  PROVE  IInv'
<1>1. Running /\ Op.code = "AppendToLine" /\ Step /\ UNCHANGED <<buff, loop>>
      /\ cursor > 0 /\ Rewrite(cursor, [list[cursor] EXCEPT !.body = Op.on])
  BY DEF AppendToLine, At, state
<1>2. Op.on \in Bodies
  BY <1>1, OpKnown, TextLeft DEF IsCommand
<1>3. cursor \in 1..Len(list) /\ list[cursor] \in TextLine
  BY <1>1, TextLeft, ListTyped
<1>4. [list[cursor] EXCEPT !.body = Op.on] \in TextLine
  BY <1>2, <1>3 DEF TextLine
<1>. QED
  BY <1>1, <1>3, <1>4, Rewriting, Stepping, StateStays, Commanded

LEMMA GlobalReplaceKeeps ==
  ASSUME IInv, GlobalReplace
  PROVE  IInv'
<1>1. Running /\ Op.code = "ReplaceAll" /\ Step /\ UNCHANGED <<buff, loop>>
  BY DEF GlobalReplace, At, state
<1>2. PICK hits : hits = {i \in DOMAIN list : list[i] \in Op.on}
  OBVIOUS
<1>3. IF hits = {} \/ Op.with \in Op.on THEN UNCHANGED text
      ELSE /\ list' = [i \in DOMAIN list |-> IF i \in hits THEN Op.with ELSE list[i]]
           /\ cursor' = Max(hits)
           /\ number' = number + Cardinality(hits)
  BY <1>2 DEF GlobalReplace
<1>4. CASE hits = {} \/ Op.with \in Op.on
  BY <1>1, <1>3, <1>4, TextStays, StateStays, Stepping, Commanded
<1>5. CASE hits # {} /\ Op.with \notin Op.on
  <2>1. hits \in SUBSET (1..Len(list))
    BY <1>2, TextLeft, ListTyped
  <2>2. Max(hits) \in 1..Len(list)
    BY <1>5, <2>1, Greatest, TextLeft
  <2>3. Op.with \in TextLine
    BY <1>1, OpKnown, TextLeft DEF IsCommand
  <2>4. list' = [i \in DOMAIN list |-> IF i \in hits THEN Op.with ELSE list[i]]
    BY <1>3, <1>5
  <2>5. list' \in Lines /\ Len(list') = Len(list)
    <3>1. \A i \in 1..Len(list) : list[i] \in TextLine
      BY TextLeft, ListTyped
    <3>2. DOMAIN list = 1..Len(list)
      BY TextLeft, ListTyped
    <3>3. DOMAIN list' = DOMAIN list /\ list' = [i \in DOMAIN list' |-> list'[i]]
      BY <2>4
    <3>4. \A i \in 1..Len(list) : list'[i] \in TextLine
      BY <2>3, <2>4, <3>1, <3>2
    <3>. QED
      BY <3>3, <3>4, Changing, TextLeft
  <2>6. Cardinality(hits) \in Nat
    <3>1. IsFiniteSet(1..Len(list))
      BY TextLeft, FS_Interval
    <3>. QED
      BY <2>1, <3>1, FS_Subset, FS_CardinalityType
  <2>7. number' \in Nat /\ cursor' \in 1..Len(list')
    BY <1>3, <1>5, <2>2, <2>5, <2>6, TextLeft
  <2>8. TextKept
    BY <2>5, <2>7, TextLeft DEF TextKept, Freed
  <2>. QED
    BY <1>1, <2>8, StateStays, Stepping, Commanded
<1>. QED
  BY <1>4, <1>5

LEMMA ReplaceFieldKeeps ==
  ASSUME IInv, ReplaceLinesMatchingField
  PROVE  IInv'
<1>1. Running /\ Step /\ UNCHANGED <<buff, loop>> /\ cursor' = cursor /\ number' = number
  BY DEF ReplaceLinesMatchingField, At, state
<1>2. \/ list' = list
      \/ list' = [i \in DOMAIN list |-> IF list[i] \in Op.on THEN buff ELSE list[i]]
  BY DEF ReplaceLinesMatchingField
<1>3. list' \in Lines /\ Len(list') = Len(list)
  <2>1. CASE list' = list
    BY <2>1, TextLeft
  <2>2. CASE list' = [i \in DOMAIN list |-> IF list[i] \in Op.on THEN buff ELSE list[i]]
    <3>1. \A i \in 1..Len(list) : list[i] \in TextLine
      BY TextLeft, ListTyped
    <3>2. DOMAIN list = 1..Len(list)
      BY TextLeft, ListTyped
    <3>3. DOMAIN list' = DOMAIN list /\ list' = [i \in DOMAIN list' |-> list'[i]]
      BY <2>2
    <3>4. \A i \in 1..Len(list) : list'[i] \in TextLine
      BY <2>2, <3>1, <3>2, TextLeft
    <3>. QED
      BY <3>3, <3>4, Changing, TextLeft
  <2>. QED
    BY <1>2, <2>1, <2>2
<1>4. TextKept
  BY <1>1, <1>3, TextLeft DEF TextKept
<1>. QED
  BY <1>1, <1>4, StateStays, Stepping, Commanded

---------------------------------------------------------------------------
(* The position is moved.                                                  *)

(* The position and its number change, the lines do not. *)
LEMMA Moved ==
  ASSUME IInv, list' = list, cursor' \in Freed..Len(list), number' \in Nat,
         cursor' = Freed => cursor = Freed
  PROVE  TextKept
BY TextLeft DEF TextKept

LEMMA LocateKeeps ==
  ASSUME IInv, LocateLineMatching
  PROVE  IInv'
<1>1. Running /\ cursor # Freed /\ list' = list /\ UNCHANGED <<buff, loop>>
  BY DEF LocateLineMatching, At, Usable
<1>2. PICK i : i = IF cursor = Null THEN Null ELSE FirstIn(Op.on, cursor, abort)
  OBVIOUS
<1>3. PICK success : success = IF cursor = Null THEN found ELSE i # Null
  OBVIOUS
<1>4. /\ IF i # Null THEN MoveTo(i, number + i - cursor) ELSE UNCHANGED <<cursor, number>>
      /\ Goto(IF success THEN pc + 1 ELSE ThrowAbort)
  BY <1>2, <1>3 DEF LocateLineMatching
<1>5. GoesOn
  BY <1>1, <1>4, Stepping, AbortsAhead, OpKnown, TextLeft
<1>6. TextKept
  <2>1. CASE i = Null
    BY <1>1, <1>4, <2>1, Moved, TextLeft
  <2>2. CASE i # Null
    <3>1. cursor \in Nat \ {0} /\ i = FirstIn(Op.on, cursor, abort)
      BY <1>1, <1>2, <2>2, TextLeft DEF Freed, Null
    <3>2. i \in cursor..Len(list)
      BY <2>2, <3>1, Searching, TextLeft
    <3>3. cursor' = i /\ number' = number + i - cursor
      BY <1>4, <2>2 DEF MoveTo
    <3>4. cursor' \in Freed..Len(list) /\ number' \in Nat /\ cursor' # Freed
      BY <3>1, <3>2, <3>3, TextLeft DEF Freed
    <3>. QED
      BY <1>1, <3>4, Moved
  <2>. QED
    BY <2>1, <2>2
<1>. QED
  BY <1>1, <1>5, <1>6, StateStays, Commanded

LEMMA ResetKeeps ==
  ASSUME IInv, ResetEditSearch
  PROVE  IInv'
<1>1. Running /\ Op.code = "ResetSearch" /\ list' = list /\ UNCHANGED <<buff, loop>>
  BY DEF ResetEditSearch, At, state
<1>2. IF Op.on <= Len(list) THEN MoveTo(Op.on, Op.on) /\ Step
      ELSE UNCHANGED <<cursor, number>> /\ Goto(End)
  BY DEF ResetEditSearch
<1>3. Op.on \in Nat \ {0}
  BY <1>1, OpKnown, TextLeft DEF IsCommand, Counted
<1>4. GoesOn
  BY <1>1, <1>2, Stepping, OpKnown, TextLeft
<1>5. TextKept
  <2>1. CASE Op.on <= Len(list)
    <3>1. cursor' = Op.on /\ number' = Op.on
      BY <1>2, <2>1 DEF MoveTo
    <3>2. cursor' \in Freed..Len(list) /\ number' \in Nat /\ cursor' # Freed
      BY <1>3, <2>1, <3>1, TextLeft DEF Freed
    <3>. QED
      BY <1>1, <3>2, Moved
  <2>2. CASE ~(Op.on <= Len(list))
    BY <1>1, <1>2, <2>2, Moved, TextLeft
  <2>. QED
    BY <2>1, <2>2
<1>. QED
  BY <1>1, <1>4, <1>5, StateStays, Commanded

LEMMA GotoLastKeeps ==
  ASSUME IInv, GotoLastItem
  PROVE  IInv'
<1>1. Running /\ list' = list /\ UNCHANGED <<buff, loop>> /\ Step
  BY DEF GotoLastItem, At, state
<1>2. cursor' = Len(list) /\ number' = IF list = <<>> THEN 1 ELSE Len(list)
  BY DEF GotoLastItem, MoveTo
<1>3. cursor' \in Freed..Len(list) /\ number' \in Nat /\ cursor' # Freed
  BY <1>2, TextLeft DEF Freed
<1>. QED
  BY <1>1, <1>3, Moved, StateStays, Stepping, Commanded

LEMMA IncrementKeeps ==
  ASSUME IInv, IncrementEditPointer
  PROVE  IInv'
<1>1. Running /\ Op.code = "IncrementPointer" /\ list' = list /\ UNCHANGED <<buff, loop>> /\ Step
  BY DEF IncrementEditPointer, At, state
<1>2. Op.on \in Int
  BY <1>1, OpKnown, TextLeft DEF IsCommand
<1>3. cursor = Freed => Op.on < 0 /\ number + Op.on <= Len(list)
  BY DEF IncrementEditPointer
<1>4. PICK from : from = IF cursor = Null THEN 1 ELSE cursor
  OBVIOUS
<1>5. PICK at : at = IF cursor = Null THEN 1 ELSE number
  OBVIOUS
<1>6. PICK last : last = IF from + Op.on <= Len(list) THEN from + Op.on ELSE Len(list)
  OBVIOUS
<1>7. IF cursor = Null /\ list = <<>> THEN UNCHANGED <<cursor, number>>
      ELSE IF Op.on > 0 THEN MoveTo(last, at + last - from)
      ELSE IF at + Op.on < 1 THEN MoveTo(AtOrNull(1, list), 1)
      ELSE IF cursor = Freed \/ at + Op.on < from THEN MoveTo(at + Op.on, at + Op.on)
      ELSE MoveTo(from, at)
  BY <1>4, <1>5, <1>6 DEF IncrementEditPointer
<1>8. list = <<>> <=> Len(list) = 0
  BY TextLeft, ListTyped
<1>9. CASE cursor = Null /\ list = <<>>
  BY <1>1, <1>7, <1>9, Moved, TextLeft, StateStays, Stepping, Commanded
<1>10. CASE ~(cursor = Null /\ list = <<>>)
  <2>1. at \in Nat /\ from \in Freed..Len(list) /\ (from = Freed <=> cursor = Freed) /\ from # 0
    BY <1>4, <1>5, <1>8, <1>10, TextLeft DEF Freed, Null
  <2>2. cursor' \in 0..Len(list) /\ number' \in Nat
    <3>1. CASE Op.on > 0
      <4>1. cursor' = last /\ number' = at + last - from
        BY <1>7, <1>10, <3>1 DEF MoveTo
      <4>2. from \in 1..Len(list)
        BY <1>2, <1>3, <2>1, <3>1 DEF Freed
      <4>3. last \in from..Len(list)
        BY <1>2, <1>6, <3>1, <4>2, TextLeft
      <4>. QED
        BY <2>1, <4>1, <4>2, <4>3, TextLeft
    <3>2. CASE ~(Op.on > 0) /\ at + Op.on < 1
      <4>1. cursor' = (IF 1 <= Len(list) THEN 1 ELSE 0) /\ number' = 1
        BY <1>7, <1>10, <3>2 DEF MoveTo, AtOrNull, Null
      <4>. QED
        BY <4>1, TextLeft
    <3>3. CASE ~(Op.on > 0) /\ ~(at + Op.on < 1)
      <4>1. \/ (cursor = Freed \/ at + Op.on < from) /\ cursor' = at + Op.on /\ number' = at + Op.on
            \/ cursor # Freed /\ cursor' = from /\ number' = at
        BY <1>7, <1>10, <3>3 DEF MoveTo
      <4>2. at + Op.on \in Nat
        BY <1>2, <2>1, <3>3
      <4>3. CASE (cursor = Freed \/ at + Op.on < from) /\ cursor' = at + Op.on /\ number' = at + Op.on
        <5>1. cursor = Freed => at = number
          BY <1>5 DEF Freed, Null
        <5>2. at + Op.on <= Len(list)
          BY <1>3, <2>1, <4>2, <4>3, <5>1, TextLeft DEF Freed
        <5>. QED
          BY <4>2, <4>3, <5>2, TextLeft
      <4>4. CASE cursor # Freed /\ cursor' = from /\ number' = at
        BY <2>1, <4>4, TextLeft DEF Freed
      <4>. QED
        BY <4>1, <4>3, <4>4
    <3>. QED
      BY <3>1, <3>2, <3>3
  <2>3. TextKept
    BY <1>1, <2>2, Moved, TextLeft DEF Freed
  <2>. QED
    BY <1>1, <2>3, StateStays, Stepping, Commanded
<1>. QED
  BY <1>9, <1>10

---------------------------------------------------------------------------
(* Lines are commented.                                                    *)

LEMMA Commenting ==
  ASSUME NEW line \in TextLine
  PROVE  Comment(line) \in TextLine /\ UnComment(line) \in TextLine
BY DEF Comment, UnComment, TextLine

(* Behind a line comes another one, or none. *)
LEMMA Behind ==
  ASSUME NEW s \in Lines, NEW i \in 1..Len(s)
  PROVE  After(i, s) \in 0..Len(s)
BY ListTyped DEF After, Null

LEMMA CommentLinesKeeps ==
  ASSUME IInv, CommentLines
  PROVE  IInv'
<1>1. Running /\ UNCHANGED <<buff, loop>>
  BY DEF CommentLines, At, state
<1>2. PICK i : i = FirstIn({l \in Op.on : ~Commented(l)}, 1, abort)
  OBVIOUS
<1>3. IF i = Null THEN Step /\ UNCHANGED text ELSE Stay /\ Rewrite(i, Comment(list[i]))
  BY <1>2 DEF CommentLines
<1>4. CASE i = Null
  BY <1>1, <1>3, <1>4, TextStays, StateStays, Stepping, Commanded
<1>5. CASE i # Null
  <2>1. i \in 1..Len(list) /\ list[i] \in TextLine
    BY <1>2, <1>5, Searching, TextLeft
  <2>2. TextKept
    BY <1>3, <1>5, <2>1, Commenting, Rewriting
  <2>. QED
    BY <1>1, <1>3, <1>5, <2>2, StateStays, Stepping, Commanded
<1>. QED
  BY <1>4, <1>5

LEMMA UnCommentLinesKeeps ==
  ASSUME IInv, UnCommentLines
  PROVE  IInv'
<1>1. Running /\ UNCHANGED <<buff, loop>> /\ number' = number
  BY DEF UnCommentLines, At, state
<1>2. PICK i : i = FirstIn({l \in Op.on : Commented(l)}, 1, {})
  OBVIOUS
<1>3. PICK hits : hits = {j \in DOMAIN list : list[j] \in Op.on}
  OBVIOUS
<1>4. IF i = Null
      THEN /\ cursor' = (IF hits = {} THEN cursor ELSE After(Max(hits), list))
           /\ Step /\ list' = list
      ELSE /\ list' = [list EXCEPT ![i] = UnComment(@)]
           /\ cursor' = After(i, list) /\ Stay
  BY <1>2, <1>3 DEF UnCommentLines
<1>5. CASE i = Null
  <2>1. hits \in SUBSET (1..Len(list))
    BY <1>3, TextLeft, ListTyped
  <2>2. hits # {} => After(Max(hits), list) \in 0..Len(list)
    BY <2>1, Greatest, Behind, TextLeft
  <2>3. cursor' = (IF hits = {} THEN cursor ELSE After(Max(hits), list)) /\ Step /\ list' = list
    BY <1>4, <1>5
  <2>4. TextKept
    BY <1>1, <2>2, <2>3, Moved, TextLeft DEF Freed
  <2>. QED
    BY <1>1, <2>3, <2>4, StateStays, Stepping, Commanded
<1>6. CASE i # Null
  <2>1. i \in 1..Len(list) /\ list[i] \in TextLine
    BY <1>2, <1>6, Searching, TextLeft
  <2>2. list' = [list EXCEPT ![i] = UnComment(list[i])] /\ cursor' = After(i, list) /\ Stay
    BY <1>4, <1>6
  <2>3. list' \in Lines /\ Len(list') = Len(list)
    BY <2>1, <2>2, Commenting, TextLeft, ExceptSeq DEF Lines
  <2>4. cursor' \in 0..Len(list')
    BY <2>1, <2>2, <2>3, Behind, TextLeft
  <2>5. TextKept
    BY <1>1, <2>3, <2>4, TextLeft DEF TextKept, Freed
  <2>. QED
    BY <1>1, <2>2, <2>5, StateStays, Stepping, Commanded
<1>. QED
  BY <1>5, <1>6

LEMMA CommentToLineKeeps ==
  ASSUME IInv, CommentToLineMatching
  PROVE  IInv'
<1>1. Running /\ UNCHANGED <<buff, loop>> /\ number' = number /\ cursor # Freed
  BY DEF CommentToLineMatching, At, state, Usable
<1>2. PICK e : e = IF cursor = Null THEN Null ELSE FirstIn(Op.on, cursor, abort)
  OBVIOUS
<1>3. IF e = Null
      THEN /\ Goto(IF cursor = Null THEN pc + 1 ELSE ThrowAbort)
           /\ UNCHANGED <<list, cursor>>
      ELSE /\ list' = [i \in DOMAIN list |-> IF i \in cursor..e THEN Comment(list[i]) ELSE list[i]]
           /\ cursor' = After(e, list) /\ Step
  BY <1>2 DEF CommentToLineMatching
<1>4. GoesOn
  BY <1>1, <1>3, Stepping, AbortsAhead, OpKnown, TextLeft
<1>5. CASE e = Null
  <2>1. TextKept
    BY <1>1, <1>3, <1>5, Moved, TextLeft
  <2>. QED
    BY <1>1, <1>4, <2>1, StateStays, Commanded
<1>6. CASE e # Null
  <2>1. cursor \in Nat \ {0} /\ e = FirstIn(Op.on, cursor, abort)
    BY <1>1, <1>2, <1>6, TextLeft DEF Freed, Null
  <2>2. e \in 1..Len(list)
    BY <1>6, <2>1, Searching, TextLeft
  <2>3. /\ list' = [i \in DOMAIN list |-> IF i \in cursor..e THEN Comment(list[i]) ELSE list[i]]
        /\ cursor' = After(e, list)
    BY <1>3, <1>6
  <2>4. list' \in Lines /\ Len(list') = Len(list)
    <3>1. \A i \in 1..Len(list) : list[i] \in TextLine /\ Comment(list[i]) \in TextLine
      BY TextLeft, ListTyped, Commenting
    <3>2. DOMAIN list = 1..Len(list)
      BY TextLeft, ListTyped
    <3>3. DOMAIN list' = DOMAIN list /\ list' = [i \in DOMAIN list' |-> list'[i]]
      BY <2>3
    <3>4. \A i \in 1..Len(list) : list'[i] \in TextLine
      BY <2>3, <3>1, <3>2
    <3>. QED
      BY <3>3, <3>4, Changing, TextLeft
  <2>5. cursor' \in 0..Len(list')
    BY <2>2, <2>3, <2>4, Behind, TextLeft
  <2>6. TextKept
    BY <1>1, <2>4, <2>5, TextLeft DEF TextKept, Freed
  <2>. QED
    BY <1>1, <1>4, <2>6, StateStays, Commanded
<1>. QED
  BY <1>5, <1>6

LEMMA CommentNLinesKeeps ==
  ASSUME IInv, CommentNLines
  PROVE  IInv'
<1>1. Running /\ UNCHANGED <<buff, loop>> /\ number' = number /\ cursor # Freed /\ Step
      /\ Op.code \in {"CommentNLines", "UnCommentNLines"}
  BY DEF CommentNLines, At, state, Usable
<1>2. Op.on \in Nat \ {0}
  BY <1>1, OpKnown, TextLeft DEF IsCommand, Counted
<1>3. PICK e : e = IF cursor + Op.on - 1 <= Len(list) THEN cursor + Op.on - 1 ELSE Len(list)
  OBVIOUS
<1>4. DEFINE new(line) == IF Op.code = "UnCommentNLines" THEN UnComment(line)
                          ELSE IF Commented(line) THEN line ELSE Comment(line)
<1>5. IF cursor = Null THEN UNCHANGED <<list, cursor>>
      ELSE /\ list' = [i \in DOMAIN list |-> IF i \in cursor..e THEN new(list[i]) ELSE list[i]]
           /\ cursor' = After(e, list)
  BY <1>3 DEF CommentNLines
<1>6. CASE cursor = Null
  <2>1. TextKept
    BY <1>1, <1>5, <1>6, Moved, TextLeft
  <2>. QED
    BY <1>1, <2>1, StateStays, Stepping, Commanded
<1>7. CASE cursor # Null
  <2>1. cursor \in 1..Len(list)
    BY <1>1, <1>7, TextLeft DEF Freed, Null
  <2>2. e \in 1..Len(list)
    BY <1>2, <1>3, <2>1, TextLeft
  <2>3. /\ list' = [i \in DOMAIN list |-> IF i \in cursor..e THEN new(list[i]) ELSE list[i]]
        /\ cursor' = After(e, list)
    BY <1>5, <1>7
  <2>4. list' \in Lines /\ Len(list') = Len(list)
    <3>1. \A i \in 1..Len(list) : list[i] \in TextLine /\ new(list[i]) \in TextLine
      BY TextLeft, ListTyped, Commenting
    <3>. HIDE DEF new
    <3>2. DOMAIN list = 1..Len(list)
      BY TextLeft, ListTyped
    <3>3. DOMAIN list' = DOMAIN list /\ list' = [i \in DOMAIN list' |-> list'[i]]
      BY <2>3
    <3>4. \A i \in 1..Len(list) : list'[i] \in TextLine
      BY <2>3, <3>1, <3>2
    <3>. QED
      BY <3>3, <3>4, Changing, TextLeft
  <2>5. cursor' \in 0..Len(list')
    BY <2>2, <2>3, <2>4, Behind, TextLeft
  <2>6. TextKept
    BY <1>1, <2>4, <2>5, TextLeft DEF TextKept, Freed
  <2>. QED
    BY <1>1, <2>6, StateStays, Stepping, Commanded
<1>. QED
  BY <1>6, <1>7

---------------------------------------------------------------------------
(* Control.                                                                *)

(* Commands that leave the lines, the position and the rest alone. *)
LEMMA Passing ==
  ASSUME IInv, Running, UNCHANGED text, UNCHANGED <<buff, loop>>,
         Step \/ \E i \in 1..End : Goto(i)
  PROVE  IInv'
BY TextStays, StateStays, Stepping, Commanded

LEMMA ExcludedKeeps ==
  ASSUME IInv, Excluded \/ Nothing \/ AbortAtLineMatching
  PROVE  IInv'
<1>1. Running /\ Step /\ UNCHANGED text /\ UNCHANGED <<buff, loop>>
  BY DEF Excluded, Nothing, AbortAtLineMatching, At, state
<1>. QED
  BY <1>1, Passing

LEMMA SetLineKeeps ==
  ASSUME IInv, SetLine
  PROVE  IInv'
<1>1. Running /\ Op.code = "SetLine" /\ Step /\ UNCHANGED text /\ buff' = Op.on /\ loop' = loop
  BY DEF SetLine, At
<1>2. Op.on \in TextLine
  BY <1>1, OpKnown, TextLeft DEF IsCommand, TakesLine
<1>3. StateKept
  BY <1>1, <1>2, TextLeft DEF StateKept
<1>. QED
  BY <1>1, <1>3, TextStays, Stepping, Commanded

LEMMA BreakKeeps ==
  ASSUME IInv, Break
  PROVE  IInv'
<1>1. Running /\ UNCHANGED text /\ UNCHANGED <<buff, loop>> /\ (Goto(End) \/ Goto(pc + 1))
  BY DEF Break, At, state
<1>2. End \in 1..End /\ pc + 1 \in 1..End
  BY <1>1, OpKnown, TextLeft
<1>. QED
  BY <1>1, <1>2, Passing

LEMMA GroupKeeps ==
  ASSUME IInv, GroupIfNoMatch \/ GroupIfNoSuchLine \/ GroupIfDefined
  PROVE  IInv'
<1>1. Running /\ UNCHANGED text /\ UNCHANGED <<buff, loop>> /\ Begins(Op.code)
  BY DEF GroupIfNoMatch, GroupIfNoSuchLine, GroupIfDefined, At, state, Begins
<1>2. Step \/ Goto(SkipToEndGroup) \/ Goto(pc + 1)
  BY DEF GroupIfNoMatch, GroupIfNoSuchLine, GroupIfDefined
<1>3. SkipToEndGroup \in 1..End /\ pc + 1 \in 1..End
  BY <1>1, OpKnown, GroupEndsAhead, TextLeft
<1>. QED
  BY <1>1, <1>2, <1>3, Passing

LEMMA GroupIfNewerKeeps ==
  ASSUME IInv, GroupIfFileIsNewer
  PROVE  IInv'
<1>1. Running /\ UNCHANGED text /\ UNCHANGED <<buff, loop>> /\ Begins(Op.code)
  BY DEF GroupIfFileIsNewer, At, state, Begins
<1>2. Step \/ Goto(1 + Min({i \in pc..Len(program) : Ends(program[i].code)}))
  BY DEF GroupIfFileIsNewer
<1>3. 1 + Min({i \in pc..Len(program) : Ends(program[i].code)}) \in 1..End
  BY <1>1, FirstEndAhead, TextLeft
<1>. QED
  BY <1>1, <1>2, <1>3, Passing

LEMMA GroupIfNoLineKeeps ==
  ASSUME IInv, GroupIfNoLineMatching
  PROVE  IInv'
<1>1. Running /\ list' = list /\ UNCHANGED <<buff, loop>> /\ Begins(Op.code)
  BY DEF GroupIfNoLineMatching, At, state, Begins
<1>2. PICK i : i = FirstIn(Op.on, 1, abort)
  OBVIOUS
<1>3. IF i = Null THEN Step /\ UNCHANGED <<cursor, number>>
      ELSE Goto(SkipToEndGroup) /\ MoveTo(i, number + i - 1)
  BY <1>2 DEF GroupIfNoLineMatching
<1>4. SkipToEndGroup \in 1..End
  BY <1>1, GroupEndsAhead, TextLeft
<1>5. GoesOn
  BY <1>1, <1>3, <1>4, Stepping
<1>6. TextKept
  <2>1. CASE i = Null
    BY <1>1, <1>3, <2>1, Moved, TextLeft
  <2>2. CASE i # Null
    <3>1. i \in 1..Len(list)
      BY <1>2, <2>2, Searching, TextLeft
    <3>2. cursor' = i /\ number' = number + i - 1
      BY <1>3, <2>2 DEF MoveTo
    <3>3. cursor' \in Freed..Len(list) /\ number' \in Nat /\ cursor' # Freed
      BY <3>1, <3>2, TextLeft DEF Freed
    <3>. QED
      BY <1>1, <3>3, Moved
  <2>. QED
    BY <2>1, <2>2
<1>. QED
  BY <1>1, <1>5, <1>6, StateStays, Commanded

LEMMA ForEachKeeps ==
  ASSUME IInv, ForEachLineIn
  PROVE  IInv'
<1>1. Running /\ Op.code = "ForEachLineIn" /\ UNCHANGED text
  BY DEF ForEachLineIn, At
<1>2. pc \in 1..Len(program) /\ Len(program) \in Nat
  BY <1>1, OpKnown, ProgramKnown, TextLeft
<1>3. loop.start \in 0..Len(program) /\ loop.left \in Lines
  BY TextLeft
<1>4. \/ Stay /\ loop' = [start |-> pc, left |-> LoopLines] /\ buff' = buff
      \/ /\ loop.left # <<>> /\ Step
         /\ loop' = [loop EXCEPT !.left = Tail(loop.left)] /\ buff' = Head(loop.left)
      \/ Goto(EndLoop) /\ loop' = NoLoop /\ buff' = NoLine
  BY DEF ForEachLineIn
<1>5. EndLoop \in 1..End
  BY <1>1, LoopEndsAhead, TextLeft
<1>6. GoesOn
  BY <1>1, <1>4, <1>5, Stepping
<1>7. StateKept
  <2>1. CASE loop' = [start |-> pc, left |-> LoopLines] /\ buff' = buff
    BY <1>2, <2>1, EditAssumption, TextLeft DEF StateKept
  <2>2. CASE /\ loop.left # <<>>
             /\ loop' = [loop EXCEPT !.left = Tail(loop.left)] /\ buff' = Head(loop.left)
    <3>1. Tail(loop.left) \in Lines /\ Head(loop.left) \in TextLine
      BY <1>3, <2>2, HeadTailProperties DEF Lines
    <3>2. loop' \in [start : 0..Len(program), left : Lines]
      BY <2>2, <3>1, TextLeft
    <3>. QED
      BY <2>2, <3>1, <3>2 DEF StateKept
  <2>3. CASE loop' = NoLoop /\ buff' = NoLine
    <3>1. <<>> \in Lines
      BY DEF Lines
    <3>. QED
      BY <1>2, <2>3, <3>1, EditAssumption DEF StateKept, NoLoop
  <2>. QED
    BY <1>4, <2>1, <2>2, <2>3
<1>. QED
  BY <1>1, <1>6, <1>7, TextStays, Commanded

LEMMA JumpBackKeeps ==
  ASSUME IInv, JumpBack
  PROVE  IInv'
<1>1. Running /\ UNCHANGED text /\ UNCHANGED <<buff, loop>>
      /\ Goto(IF loop.start = 0 THEN End ELSE loop.start)
  BY DEF JumpBack, At, state
<1>2. loop.start \in 0..Len(program) /\ Len(program) \in Nat /\ End \in 1..End
  BY <1>1, OpKnown, ProgramKnown, TextLeft
<1>3. (IF loop.start = 0 THEN End ELSE loop.start) \in 1..End
  BY <1>2 DEF End
<1>. QED
  BY <1>1, <1>3, Passing

---------------------------------------------------------------------------
(* Beginnings and ends, scripts, and what ends the agent.                  *)

(* Only where the program has such a command is the agent lost. *)
LEMMA Losing ==
  ASSUME IInv, UNCHANGED <<program, disk, list, cursor, number, buff, loop, before, told>>,
         faults' \in Nat, pc' = Broken,
         Has({"DeleteLines", "DeleteAfter", "RunScript", "DeleteFileItems"} \cup NeedsLine)
  PROVE  IInv'
<1>1. \A codes : Has(codes)' <=> Has(codes)
  BY DEF Has
<1>2. End \in Nat /\ End' = End
  BY TextLeft, ProgramKnown DEF End
<1>3. Typed'
  BY DEF IInv, Typed
<1>4. CursorInList'
  BY <1>1, <1>2 DEF IInv, CursorInList, Broken, Has
<1>5. Unsaid'
  BY DEF Unsaid, Broken
<1>. QED
  BY <1>3, <1>4, <1>5 DEF IInv

LEMMA UndefinedKeeps ==
  ASSUME IInv, Undefined
  PROVE  IInv'
<1>1. UNCHANGED <<program, disk, list, cursor, number, buff, loop, before, told, faults>> /\ pc' = Broken
  BY DEF Undefined, Goto, text, state, history
<1>2. cursor = Freed \/ At(NeedsLine)
  BY DEF Undefined
<1>3. Has({"DeleteLines", "DeleteAfter", "RunScript", "DeleteFileItems"} \cup NeedsLine)
  <2>1. CASE cursor = Freed
    BY <2>1 DEF IInv, CursorInList, Has
  <2>2. CASE At(NeedsLine)
    <3>1. Has(NeedsLine)
      BY <2>2, OpKnown, TextLeft DEF At
    <3>. QED
      BY <3>1 DEF Has
  <2>. QED
    BY <1>2, <2>1, <2>2
<1>4. faults' \in Nat
  BY <1>1 DEF IInv, Typed
<1>. QED
  BY <1>1, <1>3, <1>4, Losing

LEMMA DeleteFileItemsKeeps ==
  ASSUME IInv, DeleteLinesWithFileItems
  PROVE  IInv'
<1>1. Running /\ Op.code = "DeleteFileItems" /\ UNCHANGED text /\ UNCHANGED <<buff, loop>>
      /\ (Goto(pc + 1) \/ Goto(Broken))
  BY DEF DeleteLinesWithFileItems, At, state
<1>2. pc + 1 \in 1..End /\ Has({"DeleteFileItems"})
  BY <1>1, OpKnown, TextLeft
<1>3. CASE Goto(pc + 1)
  BY <1>1, <1>2, <1>3, Passing
<1>4. CASE Goto(Broken)
  <2>1. UNCHANGED <<program, disk, list, cursor, number, buff, loop, before, told>> /\ pc' = Broken
    BY <1>1, <1>4 DEF Goto, text, history
  <2>2. faults' \in Nat
    BY <1>4 DEF IInv, Typed, Goto
  <2>3. Has({"DeleteLines", "DeleteAfter", "RunScript", "DeleteFileItems"} \cup NeedsLine)
    BY <1>2 DEF Has
  <2>. QED
    BY <2>1, <2>2, <2>3, Losing
<1>. QED
  BY <1>1, <1>3, <1>4

LEMMA ScriptFailsKeeps ==
  ASSUME IInv, ScriptFails
  PROVE  IInv'
<1>1. Running /\ Op.code = "RunScript" /\ faults' = faults + 1 /\ pc' = Broken
      /\ UNCHANGED <<program, disk, list, cursor, number, buff, loop, before, told>>
  BY DEF ScriptFails, At, text, state, history
<1>2. faults' \in Nat
  BY <1>1 DEF IInv, Typed
<1>3. Has({"RunScript"})
  BY <1>1, OpKnown, TextLeft
<1>4. Has({"DeleteLines", "DeleteAfter", "RunScript", "DeleteFileItems"} \cup NeedsLine)
  BY <1>3 DEF Has
<1>. QED
  BY <1>1, <1>2, <1>4, Losing

(* Lines are loaded. *)
LEMMA Loading ==
  ASSUME NEW contents \in Lines, Load(contents)
  PROVE  list' \in Lines /\ cursor' \in 0..Len(list') /\ number' \in Nat /\ Len(list') \in Nat
BY ListTyped DEF Load, Null

(* A script, whatever it leaves in the file. *)
LEMMA Scripted ==
  ASSUME IInv, Running, Op.code = "RunScript", UNCHANGED <<program, buff, loop, before>>,
         disk' \in Lines, list' \in Lines, cursor' \in Freed..Len(list'), number' \in Nat,
         faults' \in Nat, pc' \in 1..End,
         told' \subseteq {"define", "elsedefine"}
  PROVE  IInv'
<1>1. \A codes : Has(codes)' <=> Has(codes)
  BY DEF Has
<1>2. End \in Nat /\ End' = End /\ pc' # Broken /\ pc' \in Broken..End
  BY TextLeft, ProgramKnown DEF End, Broken
<1>3. Has({"RunScript"})
  BY OpKnown, TextLeft
<1>4. Typed'
  BY DEF IInv, Typed
<1>5. Has({"DeleteLines", "DeleteAfter", "RunScript"})
  BY <1>3 DEF Has
<1>6. CursorInList'
  BY <1>1, <1>2, <1>5 DEF CursorInList, Has
<1>7. Unsaid'
  BY <1>1, <1>3 DEF Unsaid, Has
<1>. QED
  BY <1>4, <1>6, <1>7 DEF IInv

LEMMA RunScriptKeeps ==
  ASSUME IInv, RunEditScript
  PROVE  IInv'
<1>1. Running /\ Op.code = "RunScript" /\ UNCHANGED <<program, buff, loop, before>> /\ pc' = pc + 1
  BY DEF RunEditScript, At, state
<1>2. PICK saved \in {list, disk} :
        /\ IF edited THEN Save(saved) /\ Say("define")
           ELSE saved = disk /\ Say("elsedefine") /\ UNCHANGED faults
        /\ \E contents \in Script \cup {saved} : disk' = contents /\ Load(contents)
  BY DEF RunEditScript
<1>3. PICK contents \in Script \cup {saved} : disk' = contents /\ Load(contents)
  BY <1>2
<1>4. contents \in Lines
  BY <1>2, <1>3, EditAssumption DEF IInv, Typed
<1>5. list' \in Lines /\ cursor' \in 0..Len(list') /\ number' \in Nat /\ Len(list') \in Nat
  BY <1>3, <1>4, Loading
<1>6. faults' \in Nat
  BY <1>2 DEF IInv, Typed, Save
<1>7. told' \subseteq {"define", "elsedefine"}
  BY <1>2 DEF IInv, CursorInList, Say
<1>8. cursor' \in Freed..Len(list') /\ pc' \in 1..End
  BY <1>1, <1>5, OpKnown, TextLeft DEF Freed
<1>. QED
  BY <1>1, <1>3, <1>4, <1>5, <1>6, <1>7, <1>8, Scripted

LEMMA ScriptIsTooBigKeeps ==
  ASSUME IInv, ScriptIsTooBig
  PROVE  IInv'
<1>1. Running /\ Op.code = "RunScript" /\ UNCHANGED <<program, buff, loop, before>> /\ pc' = ThrowAbort
      /\ number' = number /\ faults' = faults /\ list' = <<>>
  BY DEF ScriptIsTooBig, At, state
<1>2. disk' \in Lines
  BY EditAssumption DEF ScriptIsTooBig
<1>3. cursor' \in {Null, Freed}
  BY DEF ScriptIsTooBig
<1>4. <<>> \in Lines /\ Len(<<>>) = 0
  BY DEF Lines
<1>5. list' \in Lines /\ cursor' \in Freed..Len(list')
  BY <1>1, <1>3, <1>4 DEF Freed, Null
<1>6. told' \subseteq {"define", "elsedefine"}
  BY DEF IInv, CursorInList, Say, ScriptIsTooBig
<1>7. number' \in Nat /\ faults' \in Nat
  BY <1>1, TextLeft DEF IInv, Typed
<1>8. pc' \in 1..End
  BY <1>1, AbortsAhead, TextLeft
<1>. QED
  BY <1>1, <1>2, <1>5, <1>6, <1>7, <1>8, Scripted

LEMMA BeginKeeps ==
  ASSUME IInv, Begin
  PROVE  IInv'
<1>1. pc = Idle /\ Load(disk) /\ buff' = NoLine /\ loop' = NoLoop /\ pc' = 1
      /\ before' = disk /\ told' = {} /\ UNCHANGED <<program, disk, faults>>
  BY DEF Begin
<1>2. list' \in Lines /\ cursor' \in 0..Len(list') /\ number' \in Nat /\ Len(list') \in Nat
  BY <1>1, Loading, TextLeft DEF Typed
<1>3. Len(program) \in Nat /\ End' = End /\ End \in Nat /\ 1 <= End
  BY <1>1, ProgramKnown, TextLeft DEF End
<1>4. <<>> \in Lines
  BY DEF Lines
<1>5. Typed'
  BY <1>1, <1>2, <1>3, <1>4, EditAssumption DEF IInv, Typed, NoLoop
<1>6. CursorInList'
  BY <1>1, <1>2, <1>3 DEF CursorInList, Freed, Broken
<1>7. Unsaid'
  BY <1>1 DEF Unsaid
<1>. QED
  BY <1>5, <1>6, <1>7 DEF IInv

(* The promise is over. *)
LEMMA Ending ==
  ASSUME IInv, UNCHANGED <<program, list, cursor, number, buff, loop, before>>, pc' = Idle,
         disk' \in Lines, faults' \in Nat, told' \subseteq {"define", "elsedefine"}
  PROVE  IInv'
<1>1. \A codes : Has(codes)' <=> Has(codes)
  BY DEF Has
<1>2. End \in Nat /\ End' = End
  BY TextLeft, ProgramKnown DEF End
<1>3. Typed'
  BY DEF IInv, Typed
<1>4. CursorInList'
  BY <1>1, <1>2 DEF IInv, CursorInList, Broken, Idle, Has
<1>5. Unsaid'
  BY DEF Unsaid, Idle
<1>. QED
  BY <1>3, <1>4, <1>5 DEF IInv

LEMMA EndEditKeeps ==
  ASSUME IInv, EndEdit
  PROVE  IInv'
<1>1. UNCHANGED <<program, list, cursor, number, buff, loop, before>> /\ pc' = Idle
  BY DEF EndEdit, text, state
<1>2. disk' \in Lines /\ faults' \in Nat
  BY DEF IInv, Typed, EndEdit, Save
<1>3. told' \subseteq {"define", "elsedefine"}
  BY DEF IInv, CursorInList, EndEdit, Say
<1>. QED
  BY <1>1, <1>2, <1>3, Ending

LEMMA DiedKeeps ==
  ASSUME IInv, Died
  PROVE  IInv'
<1>1. UNCHANGED <<program, list, cursor, number, buff, loop, before>> /\ pc' = Idle
      /\ UNCHANGED <<disk, faults, told>>
  BY DEF Died, text, state, history
<1>2. disk' \in Lines /\ faults' \in Nat /\ told' \subseteq {"define", "elsedefine"}
  BY <1>1 DEF IInv, Typed, CursorInList
<1>. QED
  BY <1>1, <1>2, Ending

LEMMA StutterKeeps ==
  ASSUME IInv, UNCHANGED vars
  PROVE  IInv'
BY DEF vars, text, state, history, IInv, Typed, CursorInList, Unsaid, Has, End

---------------------------------------------------------------------------
(* The theorems.                                                           *)

LEMMA InitIInv == Init => IInv
<1>. SUFFICES ASSUME Init PROVE IInv
  OBVIOUS
<1>1. <<>> \in Lines /\ Len(<<>>) = 0
  BY DEF Lines
<1>2. IsProgram(program) /\ program \in Program
  BY EditAssumption DEF Init
<1>3. Len(program) \in Nat
  BY <1>2 DEF IsProgram
<1>4. Typed
  BY <1>1, <1>2, <1>3, EditAssumption DEF Init, Typed, NoLoop
<1>5. CursorInList
  BY <1>1, <1>3 DEF Init, CursorInList, End, Broken, Idle, Freed, Null
<1>6. Unsaid
  BY DEF Init, Unsaid, Idle
<1>. QED
  BY <1>4, <1>5, <1>6 DEF IInv

LEMMA NextIInv == IInv /\ [Next]_vars => IInv'
<1>. SUFFICES ASSUME IInv, [Next]_vars PROVE IInv'
  OBVIOUS
<1>1. CASE Begin
  BY <1>1, BeginKeeps
<1>2. CASE Delete
  BY <1>2, DeleteLinesKeeps, DeleteAfterKeeps, DeleteFileItemsKeeps, DeleteToLineKeeps,
     DeleteNLinesKeeps, EmptyKeeps DEF Delete
<1>3. CASE Add
  BY <1>3, AppendLineKeeps, AppendIfNoSuchLineKeeps, AppendLinesFromFileKeeps,
     AppendIfNoLineMatchingKeeps, PrependKeeps, InsertLineKeeps, InsertFileKeeps DEF Add
<1>4. CASE Replace
  BY <1>4, ReplaceLineKeeps, AppendToLineKeeps, GlobalReplaceKeeps, ReplaceFieldKeeps DEF Replace
<1>5. CASE PutComments
  BY <1>5, CommentLinesKeeps, UnCommentLinesKeeps, CommentToLineKeeps, CommentNLinesKeeps
     DEF PutComments
<1>6. CASE MoveCursor
  BY <1>6, LocateKeeps, ResetKeeps, GotoLastKeeps, IncrementKeeps DEF MoveCursor
<1>7. CASE Control
  BY <1>7, ExcludedKeeps, SetLineKeeps, BreakKeeps, GroupKeeps, GroupIfNewerKeeps,
     GroupIfNoLineKeeps, ForEachKeeps, JumpBackKeeps DEF Control
<1>8. CASE Scripts
  BY <1>8, RunScriptKeeps, ScriptIsTooBigKeeps, ScriptFailsKeeps DEF Scripts
<1>9. CASE Undefined
  BY <1>9, UndefinedKeeps
<1>10. CASE EndEdit
  BY <1>10, EndEditKeeps
<1>11. CASE Died
  BY <1>11, DiedKeeps
<1>12. CASE UNCHANGED vars
  BY <1>12, StutterKeeps
<1>. QED
  BY <1>1, <1>2, <1>3, <1>4, <1>5, <1>6, <1>7, <1>8, <1>9, <1>10, <1>11, <1>12 DEF Next

LEMMA Invariant == Spec => []IInv
BY InitIInv, NextIInv, PTL DEF Spec

(* g_currentlineptr is NULL or points to a line of the list, but after the  *)
(* deletion of matching lines and after scripts, in every program.          *)
THEOREM PositionInList == Spec => []CursorInList
<1>1. IInv => CursorInList
  BY DEF IInv
<1>. QED
  BY Invariant, <1>1, PTL

(* At its end a program without scripts finds the file as it was, and       *)
(* nothing said of it: what it says is of its own edits.                    *)
LEMMA ReportStep == IInv /\ [Next]_vars =>
    (pc = End /\ pc' = Idle /\ ~Has({"RunScript"}) =>
         /\ disk' # before => told' = {"define"}
         /\ "define" \in told' =>
              disk' # before \/ faults' > faults \/ disk' = <<>>)
<1>. SUFFICES ASSUME IInv, [Next]_vars, pc = End, pc' = Idle, ~Has({"RunScript"})
              PROVE  /\ disk' # before => told' = {"define"}
                     /\ "define" \in told' =>
                          disk' # before \/ faults' > faults \/ disk' = <<>>
  OBVIOUS
<1>1. End \in Nat /\ End = Len(program) + 1 /\ Len(program) \in Nat
  BY TextLeft, ProgramKnown DEF End
<1>2. ~Running /\ pc >= 1 /\ pc # Idle /\ pc # Broken
  BY <1>1 DEF Running, Idle, Broken
<1>3. disk = before /\ told = {}
  BY <1>2 DEF IInv, Unsaid
<1>4. EndEdit
  <2>1. \A codes : ~At(codes)
    BY <1>2 DEF At
  <2>2. ~Delete
    BY <2>1 DEF Delete, DeleteLines, DeleteLinesAfterThisMatching, DeleteLinesWithFileItems,
       DeleteToLineMatching, DeleteNLines, EmptyEntireFile
  <2>3. ~Add
    BY <2>1 DEF Add, AppendLine, AppendIfNoSuchLine, AppendLinesFromFile,
       AppendIfNoLineMatching, Prepend, InsertLine, InsertFile
  <2>4. ~Replace
    BY <2>1 DEF Replace, ReplaceLineWith, AppendToLine, GlobalReplace, ReplaceLinesMatchingField
  <2>5. ~PutComments
    BY <2>1 DEF PutComments, CommentLines, UnCommentLines, CommentToLineMatching, CommentNLines
  <2>6. ~MoveCursor
    BY <2>1 DEF MoveCursor, LocateLineMatching, ResetEditSearch, GotoLastItem, IncrementEditPointer
  <2>7. ~Control
    BY <1>2, <2>1 DEF Control, Excluded, Nothing, SetLine, AbortAtLineMatching, Break,
       GroupIfNoMatch, GroupIfNoLineMatching, GroupIfNoSuchLine, GroupIfDefined,
       GroupIfFileIsNewer, ForEachLineIn, JumpBack
  <2>8. ~Scripts
    BY <2>1 DEF Scripts, RunEditScript, ScriptIsTooBig, ScriptFails
  <2>9. ~Undefined
    BY <2>1 DEF Undefined
  <2>10. ~Begin /\ ~Died /\ ~(UNCHANGED vars)
    BY <1>2 DEF Begin, Died, vars
  <2>. QED
    BY <2>2, <2>3, <2>4, <2>5, <2>6, <2>7, <2>8, <2>9, <2>10 DEF Next
<1>5. CASE Changed
  <2>1. told' = {"define"}
    BY <1>3, <1>4, <1>5 DEF EndEdit, Say
  <2>2. PICK saved \in {list, disk} : Save(saved) /\ disk' = saved
    BY <1>4, <1>5 DEF EndEdit
  <2>3. saved = list \/ faults' = faults + 1
    BY <2>2 DEF Save
  <2>4. saved = list => disk' # before \/ disk' = <<>>
    BY <1>3, <1>5, <2>2 DEF Changed
  <2>5. faults' = faults + 1 => faults' > faults
    BY DEF IInv, Typed
  <2>. QED
    BY <2>1, <2>3, <2>4, <2>5
<1>6. CASE ~Changed
  BY <1>3, <1>4, <1>6 DEF EndEdit, Say
<1>. QED
  BY <1>5, <1>6

(* Every edit that leaves another file is reported, and only such, but for  *)
(* a file that could not be saved or was emptied.                           *)
THEOREM EditsAreReported == Spec => ChangesReported
BY Invariant, ReportStep, PTL DEF Spec, ChangesReported
=============================================================================
