-------------------------------- MODULE Edit --------------------------------
(* The editor of cfagent: an editfiles promise is a program that DoEditFile *)
(* (edittools.c) interprets on the lines of a file, with the functions of   *)
(* item.c and item-ext.c; item-file.c loads, compares and saves the file.   *)
(*                                                                          *)
(* The lines are a linked list and g_currentlineptr points into it: it is   *)
(* here the number of a line, Null, or Freed when the line it points to has *)
(* been freed.  A line has a body and a number of comment signs in front;   *)
(* instead of strings and expressions there are the sets of lines that they *)
(* match, and so one action stands for Starting, Containing and Matching,   *)
(* with and without Not, and for the Hash, Slash and Percent forms.  The    *)
(* warnings, FixEndOfLine, the automounter's resources and binary files are *)
(* left out, and so is whoever else writes into the file meanwhile.         *)
EXTENDS Integers, Sequences, FiniteSets, SequencesExt

CONSTANTS
    Program,        \* the programs that are tried: sequences of actions
    Contents,       \* what the file may contain at the beginning
    Script,         \* what a script may leave in the file
    LoopLines,      \* the file of ForEachLineIn
    Bodies,         \* what a line may say behind its comment signs
    NoLine,         \* an empty g_editbuff
    Convergent,     \* those programs that ask for a state of the file
    MaxRuns,        \* bound: how often the promise is kept
    MaxFaults       \* bound: failures of the system

---------------------------------------------------------------------------
(* Lines and programs                                                       *)

TextLine == [hash : Nat, body : Bodies]
Lines == Seq(TextLine)
Blank == [hash |-> 0, body |-> ""]

Begins(code) == code \in {"GroupIfNoMatch", "GroupIfNoLineMatching",
                          "GroupIfNoSuchLine", "GroupIfFileIsNewer",
                          "GroupIfDefined"}
Ends(code) == code = "EndGroup"
Nesting(p, from, to) == Cardinality({i \in from..to : Begins(p[i].code)})
                         - Cardinality({i \in from..to : Ends(p[i].code)})
Balanced(p, i) == {j \in i..Len(p) : Nesting(p, i, j) = 0}
LoopEnds(p, i) == {j \in i..Len(p) : p[j].code = "EndLoop"}

(* What the parser makes of a promise (install.c, cflex.l): each group and  *)
(* each loop that begins also ends.  A count that is no number, or below 1, *)
(* makes a command give up; programs with such counts are left out.         *)
Counted == {"ResetSearch", "DeleteNLines", "CommentNLines", "UnCommentNLines"}
TakesLine == {"Append", "AppendIfNoSuchLine", "Prepend", "PrependIfNoSuchLine",
              "InsertLine", "ReplaceLineWith", "SetLine", "GroupIfNoSuchLine"}
TakesFile == {"InsertFile", "AppendLinesFromFile"}
IsCommand(op) ==
    /\ op.code \in Counted => op.on \in Nat \ {0}
    /\ op.code = "IncrementPointer" => op.on \in Int \ {0}
    /\ op.code \in TakesLine => op.on \in TextLine
    /\ op.code \in TakesFile => op.on \in Lines
    /\ op.code = "AppendToLine" => op.on \in Bodies
    /\ op.code = "ReplaceAll" => op.with \in TextLine
IsProgram(p) ==
    /\ Len(p) \in Nat /\ DOMAIN p = 1..Len(p)
    /\ \A i \in DOMAIN p :
          /\ IsCommand(p[i])
          /\ Begins(p[i].code) => Balanced(p, i) # {}
          /\ p[i].code = "ForEachLineIn" => LoopEnds(p, i) # {}

ASSUME EditAssumption ==
    /\ MaxRuns \in Nat \ {0} /\ MaxFaults \in Nat
    /\ \A p \in Program : IsProgram(p)
    /\ Convergent \subseteq Program
    /\ Contents \subseteq Lines /\ Script \subseteq Lines
    /\ LoopLines \in Lines /\ NoLine \in TextLine /\ Blank \in TextLine

VARIABLES
    program,        \* struct Edit: the actions
    disk,           \* the file
    list,           \* the lines in memory
    cursor,         \* g_currentlineptr
    number,         \* g_currentlinenumber
    edited,         \* g_numberofedits > 0
    found,          \* newlineptr # NULL
    buff,           \* g_editbuff
    abort,          \* lines matching g_veditabort, if g_edabortmode
    loop,           \* loopstart, and what is left of its file
    pc,             \* the action at hand, or Idle, or Broken
    run, faults,
    before,         \* the file at the beginning of the run
    told            \* whether DefineClasses or ElseDefineClasses were defined

text == <<list, cursor, number, edited>>
state == <<found, buff, abort, loop>>
history == <<run, before, told>>
vars == <<program, disk, text, state, pc, faults, history>>

Null == 0
Freed == -1
Idle == 0
Broken == -1
NoLoop == [start |-> 0, left |-> <<>>]

Init ==
    /\ program \in Program /\ disk \in Contents
    /\ list = <<>> /\ cursor = Null /\ number = 1 /\ edited = FALSE
    /\ found = FALSE /\ buff = NoLine /\ abort = {} /\ loop = NoLoop
    /\ pc = Idle /\ run = 0 /\ faults = 0
    /\ before = disk /\ told = {}

(* LoadItemList *)
Load(contents) ==
    /\ list' = contents /\ cursor' = (IF contents = <<>> THEN Null ELSE 1)
    /\ number' = 1 /\ edited' = FALSE
Begin ==
    /\ pc = Idle /\ run < MaxRuns
    /\ Load(disk)
    /\ found' = FALSE /\ buff' = NoLine /\ abort' = {} /\ loop' = NoLoop
    /\ pc' = 1 /\ run' = run + 1 /\ before' = disk
    /\ told' = {}
    /\ UNCHANGED <<program, disk, faults>>

---------------------------------------------------------------------------
(* The interpreter *)

Op == program[pc]
Running == pc \in 1..Len(program)
At(codes) == Running /\ ~Op.excluded /\ Op.code \in codes
End == Len(program) + 1
Step == pc' = pc + 1 /\ UNCHANGED <<program, disk, faults, history>>
Stay == UNCHANGED <<program, disk, pc, faults, history>>
Goto(i) == pc' = i /\ UNCHANGED <<program, disk, faults, history>>
(* ThrowAbort: on with what follows CatchAbort, or the end. *)
ThrowAbort ==
    LET catches == {i \in pc..Len(program) : program[i].code = "CatchAbort"}
    IN  IF catches = {} THEN End ELSE 1 + Min(catches)
SkipToEndGroup == 1 + Min(Balanced(program, pc))

Excluded ==
    /\ Running /\ Op.excluded
    /\ Step /\ UNCHANGED <<text, state>>
Nothing ==
    /\ At({"CatchAbort", "EndGroup"})
    /\ Step /\ UNCHANGED <<text, state>>

(* The first line of a set, not behind a line at which a search is aborted. *)
FirstIn(lines, from, stops) ==
    LET reach == {i \in from..Len(list) : \A j \in from..i : list[j] \notin stops}
        hits == {i \in reach : list[i] \in lines}
    IN  IF hits = {} THEN Null ELSE Min(hits)
After(i, lines) == IF i < Len(lines) THEN i + 1 ELSE Null
AtOrNull(i, lines) == IF i <= Len(lines) THEN i ELSE Null

(* What an action does that reads through a pointer to freed memory, or     *)
(* through NULL, is undefined.                                              *)
Uses == {"InsertLine", "InsertFile", "LocateLineMatching", "DeleteAfter",
         "DeleteToLineMatching", "DeleteNLines", "CommentToLineMatching",
         "CommentNLines", "UnCommentNLines", "Break", "GroupIfNoMatch",
         "ReplaceLineWith", "AppendToLine"}
NeedsLine == {"ReplaceLineWith", "AppendToLine"}
Undefined ==
    /\ \/ At(Uses) /\ cursor = Freed /\ ~(Op.code \in {"InsertLine", "DeleteAfter"}
                                          /\ list = <<>>)
       \/ At(NeedsLine) /\ cursor = Null
       \/ At({"IncrementPointer"}) /\ cursor = Freed
          /\ IF Op.on > 0 THEN TRUE ELSE number + Op.on > Len(list)
    /\ Goto(Broken) /\ UNCHANGED <<text, state>>
Usable == cursor # Freed

---------------------------------------------------------------------------
(* Lines are deleted, added and replaced *)

(* One line at a time, until no line matches; the cursor is left alone. *)
DeleteItem(i) ==
    /\ list' = RemoveAt(list, i) /\ edited' = TRUE
    /\ cursor' = (IF cursor = i THEN Freed ELSE IF cursor > i THEN cursor - 1
                  ELSE cursor)
    /\ Stay /\ UNCHANGED <<number, state>>
DeleteLines ==
    /\ At({"DeleteLines"})
    /\ LET i == FirstIn(Op.on, 1, abort)
       IN  IF i # Null THEN DeleteItem(i) ELSE Step /\ UNCHANGED <<text, state>>
DeleteLinesAfterThisMatching ==
    /\ At({"DeleteAfter"})
    /\ \/ /\ list = <<>> \/ cursor = Null
          /\ Step /\ UNCHANGED <<text, state>>
       \/ /\ list # <<>> /\ cursor > 0
          /\ LET i == FirstIn(Op.on, cursor + 1, abort)
             IN  IF i # Null THEN DeleteItem(i)
                 ELSE Step /\ UNCHANGED <<text, state>>
(* DeleteLinesWithFileItems goes on from the line it has just freed. *)
DeleteLinesWithFileItems ==
    /\ At({"DeleteFileItems"})
    /\ Goto(IF FirstIn(Op.on, 1, {}) = Null THEN pc + 1 ELSE Broken)
    /\ UNCHANGED <<text, state>>

Insert(lines) == list' = lines /\ edited' = TRUE
AppendItem(line) == Insert(Append(list, line)) /\ UNCHANGED <<cursor, number>>
AppendLine ==
    /\ At({"Append"})
    /\ AppendItem(Op.on)
    /\ Step /\ UNCHANGED state
AppendIfNoSuchLine ==
    /\ At({"AppendIfNoSuchLine"})
    /\ IF Op.on \notin Range(list) THEN AppendItem(Op.on) ELSE UNCHANGED text
    /\ Step /\ UNCHANGED state
(* One line at a time.  fgets is called once more behind the last line of   *)
(* the file.                                                                *)
AppendLinesFromFile ==
    /\ At({"AppendLinesFromFile"})
    /\ LET lines == Append(Op.on, Blank)
           missing == {i \in DOMAIN lines : lines[i] \notin Range(list)}
       IN  IF missing = {} THEN Step /\ UNCHANGED text
           ELSE Stay /\ AppendItem(lines[Min(missing)])
    /\ UNCHANGED state
\* MUTANT of AppendIfNoLineMatching: the line is not looked for.
AppendSetLine ==
    /\ At({"AppendIfNoLineMatching"})
    /\ IF buff # NoLine THEN AppendItem(buff) ELSE UNCHANGED text
    /\ Step /\ UNCHANGED state
(* The line is that of SetLine.  A search that is aborted finds nothing. *)
AppendIfNoLineMatching ==
    /\ At({"AppendIfNoLineMatching"})
    /\ IF buff # NoLine /\ FirstIn(Op.on, 1, abort) = Null
       THEN AppendItem(buff) ELSE UNCHANGED text
    /\ Step /\ UNCHANGED state
Prepend ==
    /\ At({"Prepend", "PrependIfNoSuchLine"})
    /\ IF Op.code = "Prepend" \/ Op.on \notin Range(list)
       THEN /\ Insert(<<Op.on>> \o list)
            /\ cursor' = (IF cursor > 0 THEN cursor + 1 ELSE cursor)
            /\ UNCHANGED number
       ELSE UNCHANGED text
    /\ Step /\ UNCHANGED state

(* InsertItemAfter and InsertFileAfter: without a current line they insert  *)
(* behind the first.                                                        *)
InsertAfter(lines) ==
    LET k == Len(lines)
        behind(i) == SubSeq(list, 1, i) \o lines \o SubSeq(list, i + 1, Len(list))
    IN  \/ /\ cursor > 0 /\ Insert(behind(cursor))
           /\ cursor' = cursor + k /\ number' = number + k
        \/ /\ cursor = Null /\ list # <<>> /\ Insert(behind(1))
           /\ cursor' = 1 + k /\ number' = k
        \/ /\ cursor = Null /\ list = <<>> /\ Insert(lines)
           /\ cursor' = k /\ number' = k
InsertLine ==
    /\ At({"InsertLine"}) /\ (Usable \/ list = <<>>)
    /\ IF list = <<>> THEN AppendItem(Op.on) ELSE InsertAfter(<<Op.on>>)
    /\ Step /\ UNCHANGED state
InsertFile ==
    /\ At({"InsertFile"}) /\ Usable
    /\ InsertAfter(Op.on)
    /\ Step /\ UNCHANGED state
EmptyEntireFile ==
    /\ At({"EmptyEntireFilePlease"})
    /\ list' = <<>> /\ cursor' = Null /\ number' = 0 /\ edited' = TRUE
    /\ Step /\ UNCHANGED state

Rewrite(i, line) ==
    /\ list' = [list EXCEPT ![i] = line]
    /\ edited' = (edited \/ list[i] # line)
    /\ UNCHANGED <<cursor, number>>
ReplaceLineWith ==
    /\ At({"ReplaceLineWith"}) /\ cursor > 0
    /\ Rewrite(cursor, Op.on)
    /\ Step /\ UNCHANGED state
AppendToLine ==
    /\ At({"AppendToLine"}) /\ cursor > 0
    /\ Rewrite(cursor, [list[cursor] EXCEPT !.body = Op.on])
    /\ Step /\ UNCHANGED state
\* MUTANT of GlobalReplace: the current line is not the new one but the one
\* that was replaced.
ReplaceAndForget ==
    /\ At({"ReplaceAll"})
    /\ LET hits == {i \in DOMAIN list : list[i] \in Op.on}
       IN  IF hits = {} \/ Op.with \in Op.on THEN UNCHANGED text
           ELSE /\ list' = [i \in DOMAIN list |->
                                IF i \in hits THEN Op.with ELSE list[i]]
                /\ cursor' = Freed /\ edited' = TRUE /\ UNCHANGED number
    /\ Step /\ UNCHANGED state
(* GlobalReplace: a replacement that would be replaced again is not made.   *)
(* Of every line that is changed a new one is made, and becomes current.    *)
GlobalReplace ==
    /\ At({"ReplaceAll"})
    /\ LET hits == {i \in DOMAIN list : list[i] \in Op.on}
       IN  IF hits = {} \/ Op.with \in Op.on THEN UNCHANGED text
           ELSE /\ list' = [i \in DOMAIN list |->
                                IF i \in hits THEN Op.with ELSE list[i]]
                /\ cursor' = Max(hits)
                /\ number' = number + Cardinality(hits)
                /\ edited' = TRUE
    /\ Step /\ UNCHANGED state
ReplaceLinesMatchingField ==
    /\ At({"ReplaceLinesMatchingField"})
    /\ list' = IF buff = NoLine THEN list
               ELSE [i \in DOMAIN list |-> IF list[i] \in Op.on THEN buff
                                           ELSE list[i]]
    /\ edited' = (edited \/ list' # list)
    /\ Step /\ UNCHANGED <<cursor, number, state>>

---------------------------------------------------------------------------
(* The cursor *)

MoveTo(i, n) == cursor' = i /\ number' = n
LocateLineMatching ==
    /\ At({"LocateLineMatching"}) /\ Usable
    /\ LET i == IF cursor = Null THEN Null ELSE FirstIn(Op.on, cursor, abort)
           success == IF cursor = Null THEN found ELSE i # Null
       IN  /\ found' = success
           /\ IF i # Null THEN MoveTo(i, number + i - cursor)
              ELSE UNCHANGED <<cursor, number>>
           /\ Goto(IF success THEN pc + 1 ELSE ThrowAbort)
    /\ UNCHANGED <<list, edited, buff, abort, loop>>
ResetEditSearch ==
    /\ At({"ResetSearch"})
    /\ IF Op.on <= Len(list) THEN MoveTo(Op.on, Op.on) /\ Step
       ELSE UNCHANGED <<cursor, number>> /\ Goto(End)
    /\ UNCHANGED <<list, edited, state>>
GotoLastItem ==
    /\ At({"GotoLastLine"})
    /\ MoveTo(Len(list), IF list = <<>> THEN 1 ELSE Len(list))
    /\ Step /\ UNCHANGED <<list, edited, state>>
(* Backwards it goes to the line of that number, if it lies before the      *)
(* cursor.                                                                  *)
IncrementEditPointer ==
    /\ At({"IncrementPointer"})
    /\ cursor = Freed => Op.on < 0 /\ number + Op.on <= Len(list)
    /\ LET start == cursor = Null
           from == IF start THEN 1 ELSE cursor
           at == IF start THEN 1 ELSE number
           to == at + Op.on
           last == IF from + Op.on <= Len(list) THEN from + Op.on ELSE Len(list)
       IN  IF start /\ list = <<>> THEN UNCHANGED <<cursor, number>>
           ELSE IF Op.on > 0 THEN MoveTo(last, at + last - from)
           ELSE IF to < 1 THEN MoveTo(AtOrNull(1, list), 1)
           ELSE IF cursor = Freed \/ to < from THEN MoveTo(to, to)
           ELSE MoveTo(from, at)
    /\ Step /\ UNCHANGED <<list, edited, state>>

(* DeleteToRegExp, DeleteSeveralLines *)
DeleteToLineMatching ==
    /\ At({"DeleteToLineMatching"}) /\ Usable
    /\ LET e == IF cursor = Null THEN Null ELSE FirstIn(Op.on, cursor, abort)
       IN  /\ IF e = Null THEN UNCHANGED <<list, edited>>
              ELSE /\ list' = SubSeq(list, 1, cursor - 1)
                              \o SubSeq(list, e, Len(list))
                   /\ edited' = (edited \/ e > cursor)
           /\ Goto(IF e = Null /\ cursor # Null THEN ThrowAbort ELSE pc + 1)
    /\ UNCHANGED <<cursor, number, state>>
DeleteNLines ==
    /\ At({"DeleteNLines"}) /\ Usable
    /\ LET stop == FirstIn(abort, cursor, {})
           rest == Len(list) - cursor + 1
           due == IF Op.on < rest THEN Op.on ELSE rest
           stopped == stop # Null /\ stop - cursor < due
           k == IF stopped THEN stop - cursor ELSE due
       IN  IF cursor = Null THEN Step /\ UNCHANGED <<list, cursor, edited>>
           ELSE /\ list' = SubSeq(list, 1, cursor - 1)
                           \o SubSeq(list, cursor + k, Len(list))
                /\ cursor' = AtOrNull(cursor, list')
                /\ edited' = (edited \/ k > 0)
                /\ Goto(IF stopped THEN ThrowAbort ELSE pc + 1)
    /\ UNCHANGED <<number, state>>

---------------------------------------------------------------------------
(* Lines are commented out and in *)

Comment(line) == [line EXCEPT !.hash = @ + 1]
UnComment(line) == [line EXCEPT !.hash = IF @ > 0 THEN @ - 1 ELSE 0]
Commented(line) == line.hash > 0

(* CommentItemStarting, Containing, Matching: one line at a time. *)
CommentLines ==
    /\ At({"CommentLines"})
    /\ LET i == FirstIn({l \in Op.on : ~Commented(l)}, 1, abort)
       IN  IF i = Null THEN Step /\ UNCHANGED text
           ELSE Stay /\ Rewrite(i, Comment(list[i]))
    /\ UNCHANGED state
(* UnCommentItemContaining, Matching: one line at a time; the cursor goes   *)
(* behind the last line that was looked at.                                 *)
UnCommentLines ==
    /\ At({"UnCommentLines"})
    /\ LET i == FirstIn({l \in Op.on : Commented(l)}, 1, {})
           hits == {j \in DOMAIN list : list[j] \in Op.on}
       IN  IF i = Null
           THEN /\ cursor' = (IF hits = {} THEN cursor ELSE After(Max(hits), list))
                /\ Step /\ UNCHANGED <<list, edited>>
           ELSE /\ list' = [list EXCEPT ![i] = UnComment(@)] /\ edited' = TRUE
                /\ cursor' = After(i, list) /\ Stay
    /\ UNCHANGED <<number, state>>

(* CommentToRegExp, CommentSeveralLines, UnCommentSeveralLines: from the    *)
(* current line on.                                                         *)
CommentToLineMatching ==
    /\ At({"CommentToLineMatching"}) /\ Usable
    /\ LET e == IF cursor = Null THEN Null ELSE FirstIn(Op.on, cursor, abort)
       IN  IF e = Null
           THEN /\ Goto(IF cursor = Null THEN pc + 1 ELSE ThrowAbort)
                /\ UNCHANGED <<list, cursor, edited>>
           ELSE /\ list' = [i \in DOMAIN list |->
                                IF i \in cursor..e THEN Comment(list[i]) ELSE list[i]]
                /\ cursor' = After(e, list) /\ edited' = TRUE
                /\ Step
    /\ UNCHANGED <<number, state>>
CommentNLines ==
    /\ At({"CommentNLines", "UnCommentNLines"}) /\ Usable
    /\ LET e == IF cursor + Op.on - 1 <= Len(list) THEN cursor + Op.on - 1
                ELSE Len(list)
           new(line) == IF Op.code = "UnCommentNLines" THEN UnComment(line)
                        ELSE IF Commented(line) THEN line ELSE Comment(line)
       IN  IF cursor = Null THEN UNCHANGED <<list, cursor, edited>>
           ELSE /\ list' = [i \in DOMAIN list |->
                                IF i \in cursor..e THEN new(list[i]) ELSE list[i]]
                /\ cursor' = After(e, list)
                /\ edited' = (edited \/ list' # list)
    /\ Step /\ UNCHANGED <<number, state>>

---------------------------------------------------------------------------
(* Control *)

SetLine ==
    /\ At({"SetLine"})
    /\ buff' = Op.on
    /\ Step /\ UNCHANGED <<text, found, abort, loop>>
AbortAtLineMatching ==
    /\ At({"AbortAtLineMatching"})
    /\ abort' = Op.on
    /\ Step /\ UNCHANGED <<text, found, buff, loop>>
Break ==
    /\ At({"Break"}) /\ Usable
    /\ Goto(IF cursor > 0 /\ list[cursor] \in Op.on THEN End ELSE pc + 1)
    /\ UNCHANGED <<text, state>>
GroupIfNoMatch ==
    /\ At({"GroupIfNoMatch"}) /\ Usable
    /\ Goto(IF cursor > 0 /\ list[cursor] \in Op.on THEN SkipToEndGroup ELSE pc + 1)
    /\ UNCHANGED <<text, state>>
(* The search moves the cursor, and counts its line from the current one.   *)
GroupIfNoLineMatching ==
    /\ At({"GroupIfNoLineMatching"})
    /\ LET i == FirstIn(Op.on, 1, abort)
       IN  IF i = Null THEN Step /\ UNCHANGED <<cursor, number>>
           ELSE Goto(SkipToEndGroup) /\ MoveTo(i, number + i - 1)
    /\ UNCHANGED <<list, edited, state>>
GroupIfNoSuchLine ==
    /\ At({"GroupIfNoSuchLine"})
    /\ Goto(IF Op.on \in Range(list) THEN SkipToEndGroup ELSE pc + 1)
    /\ UNCHANGED <<text, state>>
(* IfDefined, IfNotDefined and IfFileExists *)
GroupIfDefined ==
    /\ At({"GroupIfDefined"})
    /\ Step \/ Goto(SkipToEndGroup)
    /\ UNCHANGED <<text, state>>
(* When the file is older the first EndGroup is taken, whosever it is. *)
GroupIfFileIsNewer ==
    /\ At({"GroupIfFileIsNewer"})
    /\ \/ Step
       \/ Goto(1 + Min({i \in pc..Len(program) : Ends(program[i].code)}))
    /\ UNCHANGED <<text, state>>

EndLoop == 1 + Min(LoopEnds(program, pc))
ForEachLineIn ==
    /\ At({"ForEachLineIn"})
    /\ CASE loop.start = 0 ->
              /\ Stay /\ loop' = [start |-> pc, left |-> LoopLines]
              /\ UNCHANGED buff
         [] loop.start # 0 /\ loop.left # <<>> ->
              /\ Step /\ loop' = [loop EXCEPT !.left = Tail(@)]
              /\ buff' = Head(loop.left)
         [] OTHER -> /\ Goto(EndLoop) /\ loop' = NoLoop /\ buff' = NoLine
    /\ UNCHANGED <<text, found, abort>>
(* Without a loop the program ends here. *)
JumpBack ==
    /\ At({"EndLoop"})
    /\ Goto(IF loop.start = 0 THEN End ELSE loop.start)
    /\ UNCHANGED <<text, state>>

---------------------------------------------------------------------------
(* The end, and scripts *)

(* SaveItemList: its failure does not change what is said of the file. *)
Save(saved) ==
    \/ saved = list /\ UNCHANGED faults
    \/ saved = disk /\ faults < MaxFaults /\ faults' = faults + 1
Say(what) == told' = told \cup {what}
(* RunEditScript: what was edited is saved, and what the script left in the *)
(* file is loaded.                                                          *)
RunEditScript ==
    /\ At({"RunScript"})
    /\ \E saved \in {list, disk} :
          /\ IF edited THEN Save(saved) /\ Say("define")
             ELSE saved = disk /\ Say("elsedefine") /\ UNCHANGED faults
          /\ \E contents \in Script \cup {saved} :
                disk' = contents /\ Load(contents)
    /\ pc' = pc + 1
    /\ UNCHANGED <<program, state, run, before>>
(* A file that is now bigger than editfilesize is not loaded: there are no  *)
(* lines, g_currentlineptr points to one of the old ones, and g_numberof-   *)
(* edits is as it was.                                                      *)
ScriptIsTooBig ==
    /\ At({"RunScript"})
    /\ \E contents \in Script : disk' = contents
    /\ list' = <<>> /\ cursor' = (IF cursor = Null THEN Null ELSE Freed)
    /\ Say(IF edited THEN "define" ELSE "elsedefine")
    /\ pc' = ThrowAbort
    /\ UNCHANGED <<program, number, edited, state, faults, run, before>>
(* The lines have been freed and are read all the same. *)
ScriptFails ==
    /\ At({"RunScript"}) /\ faults < MaxFaults
    /\ faults' = faults + 1 /\ pc' = Broken
    /\ UNCHANGED <<program, disk, text, state, history>>

\* MUTANT of Changed: the lines are not compared to the file.
Touched == edited
(* CompareToFile: no lines are never the same as the file. *)
Changed == edited /\ (list = <<>> \/ list # disk)
EndEdit ==
    /\ pc = End
    /\ IF Changed
       THEN /\ \E saved \in {list, disk} : Save(saved) /\ disk' = saved
            /\ Say("define")
       ELSE Say("elsedefine") /\ UNCHANGED <<disk, faults>>
    /\ pc' = Idle
    /\ UNCHANGED <<program, text, state, run, before>>
(* What went wrong ends the agent: nothing more is said of the run. *)
Died ==
    /\ pc = Broken /\ pc' = Idle
    /\ UNCHANGED <<program, disk, text, state, faults, history>>

Delete == DeleteLines \/ DeleteLinesAfterThisMatching \/ DeleteLinesWithFileItems
          \/ DeleteToLineMatching \/ DeleteNLines \/ EmptyEntireFile
Add == \/ AppendLine \/ AppendIfNoSuchLine \/ AppendLinesFromFile
       \/ AppendIfNoLineMatching \/ Prepend \/ InsertLine \/ InsertFile
Replace == \/ ReplaceLineWith \/ AppendToLine \/ GlobalReplace
           \/ ReplaceLinesMatchingField
PutComments == CommentLines \/ UnCommentLines \/ CommentToLineMatching \/ CommentNLines
MoveCursor == LocateLineMatching \/ ResetEditSearch \/ GotoLastItem
              \/ IncrementEditPointer
Control == \/ Excluded \/ Nothing \/ SetLine \/ AbortAtLineMatching \/ Break
           \/ GroupIfNoMatch \/ GroupIfNoLineMatching \/ GroupIfNoSuchLine
           \/ GroupIfDefined \/ GroupIfFileIsNewer \/ ForEachLineIn \/ JumpBack
Scripts == RunEditScript \/ ScriptIsTooBig \/ ScriptFails
Next == \/ Begin \/ Delete \/ Add \/ Replace \/ PutComments \/ MoveCursor
        \/ Control \/ Scripts \/ Undefined \/ EndEdit \/ Died
Spec == Init /\ [][Next]_vars

---------------------------------------------------------------------------
Has(codes) == \E i \in DOMAIN program : program[i].code \in codes

(* g_currentlineptr is NULL or points to a line of the list, whatever is    *)
(* inserted, replaced, cut out or moved over; only the deletion of matching *)
(* lines and scripts (item-ext.c:597, edittools.c:1222, 1543) can leave it  *)
(* at a line that is no more, and only then, or when a line is rewritten    *)
(* where there is none (edittools.c:1178), is freed or no memory read.      *)
CursorInList ==
    /\ pc \in Broken..End /\ cursor \in Freed..Len(list) /\ number \in Nat
    /\ told \subseteq {"define", "elsedefine"}
    /\ cursor = Freed => Has({"DeleteLines", "DeleteAfter", "RunScript"})
    /\ pc = Broken => Has({"DeleteLines", "DeleteAfter", "RunScript",
                           "DeleteFileItems"} \cup NeedsLine)

(* DefineClasses tell whether the file was edited (DoEditFile): every edit  *)
(* that leaves another file is reported, and what is reported left another  *)
(* file, unless it could not be saved, which nobody looks at, or the file   *)
(* is empty, which is never found unchanged.  Scripts are reported as such. *)
ChangesReported ==
    [][pc = End /\ pc' = Idle /\ ~Has({"RunScript"}) =>
         /\ disk' # before => told' = {"define"}
         /\ "define" \in told' =>
              disk' # before \/ faults' > faults \/ disk' = <<>>]_vars

(* Convergence: a promise that asks for a state of the file is kept by one  *)
(* run that is not disturbed, and the runs that follow find nothing to do.  *)
Converged ==
    [][pc = End /\ pc' = Idle /\ program \in Convergent /\ run > 1 /\ faults = 0 =>
         disk' = before /\ told' = {"elsedefine"}]_vars
============================================================================
