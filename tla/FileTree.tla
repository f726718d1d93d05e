------------------------------ MODULE FileTree ------------------------------
(* The promises of cfagent about single files: links (link.c), tidying      *)
(* (tidy.c), modes and owners (filedir.c, wrapper.c), directories and       *)
(* disabling (do.c), with the repository, rotation and checksums, on a      *)
(* small tree of files, while the user works in it.                         *)
(*                                                                          *)
(* A promise is kept by a sequence of calls of the system; the agenda holds *)
(* the functions that have still to be called, with what they were told,    *)
(* and each step is one of them.  What a function has seen with stat it     *)
(* passes on in the task: it may be out of date when the task is done.      *)
(*                                                                          *)
(* A name is a sequence, to which the suffixes of backups are appended, and *)
(* a path is a sequence of names.  Instead of patterns there are sets of    *)
(* names.  Left out: hard links, home directories of several users, mounted *)
(* file systems, filters, groups, flags, ACLs, travlinks, the dry run, and  *)
(* locks, which Agent models.                                               *)
EXTENDS Integers, Sequences, FiniteSets, SequencesExt, FiniteSetsExt, TLC

CONSTANTS
    Plan,           \* the policies that are tried: sequences of promises
    Tree,           \* the trees at the beginning
    Deeds,          \* what the user may do: a path and what is there then
    Garbage,        \* what an uninitialized struct stat may hold
    Store,          \* g_vrepository: a directory, or <<>>
    MaxRounds,      \* bound: runs of the agent
    MaxDeeds,       \* bound: deeds of the user
    MaxFailures     \* bound: calls of the system that fail, and kills

VARIABLES
    plan,           \* the policy
    tree,           \* what is at each path that exists
    sums,           \* the checksum database: texts of paths
    agenda,         \* the tasks of the promise at hand
    keeping, round, \* the promise at hand, and the run
    killold,        \* g_killoldlinks
    masked,         \* the umask is that of the agent, not 0
    backup,         \* g_imagebackup is not 'n'
    repos,          \* g_vreposlist
    tidied,         \* promises with tp->done
    said,           \* the classes that the promise has defined
    deeds, failures,
    start, clean    \* history: the tree when the promise at hand was begun,
                    \* and whether nothing came in between since

process == <<killold, masked, backup, repos, tidied>>
ghosts == <<start, clean>>
fixed == <<plan, keeping, round, deeds, start>>
treeVars == <<plan, tree, sums, agenda, keeping, round, process, said, deeds,
              failures, ghosts>>

---------------------------------------------------------------------------
(* The file system *)

Defaults == {"r", "w", "x", "o"}    \* g_defaultmode; "o" stands for others
NewDirectory == [kind |-> "dir", mode |-> Defaults, owner |-> "root", days |-> 0]
Absent == [kind |-> "none"]
Base(path) == Last(path)
Suffixed(path, suffix) == Front(path) \o <<Append(Last(path), suffix)>>
Ancestry(path) == {SubSeq(path, 1, n) : n \in 1..Len(path)}
Children(path) == {q \in DOMAIN tree : q # <<>> /\ Front(q) = path}

MaxLinks == 4
Nowhere == <<<<"nowhere">>>>
(* The path that is reached when links are followed. *)
RECURSIVE Resolve(_, _)
Resolve(path, links) ==
    IF path = <<>> \/ links = 0 THEN IF links = 0 THEN Nowhere ELSE path
    ELSE LET q == Append(Resolve(Front(path), links), Last(path))
         IN  IF q \in DOMAIN tree /\ tree[q].kind = "link"
             THEN Resolve(tree[q].to, links - 1) ELSE q
Real(path) == Resolve(path, MaxLinks)
Spot(path) == Append(Real(Front(path)), Last(path))

NodeAt(spot) == IF spot = <<>> THEN NewDirectory
                ELSE IF spot \in DOMAIN tree THEN tree[spot] ELSE Absent
lstat(path) == NodeAt(Spot(path))
stat(path) == NodeAt(Real(path))
Exists(path) == lstat(path).kind # "none"
IsDirectory(path) == stat(path).kind = "dir"

(* An entry of a directory that is made or removed makes it young. *)
Touching(t, spots) ==
    [q \in DOMAIN t |-> IF \E s \in spots : Front(s) = q
                        THEN [t[q] EXCEPT !.days = 0] ELSE t[q]]
With(spot, node) ==
    Touching([q \in DOMAIN tree \cup {spot} |-> IF q = spot THEN node ELSE tree[q]],
             {spot})
Less(spot) == Touching([q \in DOMAIN tree \ {spot} |-> tree[q]], {spot})
(* rename: everything below goes with it, and what was there is gone. *)
Moved(from, to) ==
    LET kept == {q \in DOMAIN tree : ~IsPrefix(from, q) /\ to # q}
        new(q) == to \o SubSeq(q, Len(from) + 1, Len(q))
        under == {q \in DOMAIN tree : IsPrefix(from, q)}
        old(q) == CHOOSE p \in under : new(p) = q
    IN  Touching([q \in kept \cup {new(p) : p \in under} |->
                    IF q \in kept THEN tree[q] ELSE tree[old(q)]], {from, to})

TextsIn(t) == {t[q].text : q \in {r \in DOMAIN t : t[r].kind = "file"}}

---------------------------------------------------------------------------
(* The promises.  Their fields are those of struct Link, Tidy, File and     *)
(* Disable, with sets of names for inclusions and exclusions.               *)

Promise == plan[keeping]
Task == Head(agenda)
Calls(op) == agenda # <<>> /\ Task.op = op
Then(tasks) == agenda' = tasks \o Tail(agenda)
Next1(op) == Then(<<[Task EXCEPT !.op = op]>>)
Return == Then(<<>>)
Say1(class) == said' = said \cup {class}
(* A call of the system works or not. *)
Works(ok) == /\ failures' = (IF ok THEN failures ELSE failures + 1)
             /\ failures' <= MaxFailures
             /\ clean' = (clean /\ ok)
Safely == UNCHANGED <<failures, clean>>

IgnoredOrExcluded(path) ==
    \/ Promise.only # {} /\ Base(path) \notin Promise.only
    \/ Base(path) \in Promise.but

TreeInit ==
    /\ plan \in Plan /\ tree \in Tree
    /\ sums = <<>> /\ agenda = <<>> /\ keeping = 0 /\ round = 0
    /\ killold = FALSE /\ masked = TRUE /\ backup = TRUE
    /\ repos = {} /\ tidied = {} /\ said = {}
    /\ deeds = 0 /\ failures = 0 /\ start = tree /\ clean = TRUE

(* A run of cfagent begins: a new process, which purges the checksums of    *)
(* what is no longer there.                                                 *)
ChecksumPurge == [q \in {p \in DOMAIN sums : stat(p).kind # "none"} |-> sums[q]]
StartRound ==
    /\ agenda = <<>> /\ keeping \in {0, Len(plan) + 1} /\ round < MaxRounds
    /\ round' = round + 1 /\ keeping' = 1
    /\ killold' = FALSE /\ masked' = TRUE /\ backup' = TRUE
    /\ repos' = {} /\ tidied' = {}
    /\ sums' = ChecksumPurge
    /\ agenda' = <<[op |-> plan[1].do, at |-> plan[1].at]>>
    /\ said' = {} /\ start' = tree /\ clean' = TRUE
    /\ UNCHANGED <<plan, tree, deeds, failures>>
NextPromise ==
    /\ agenda = <<>> /\ keeping \in 1..Len(plan)
    /\ keeping' = keeping + 1
    /\ agenda' = IF keeping = Len(plan) THEN <<>>
                 ELSE <<[op |-> plan[keeping + 1].do, at |-> plan[keeping + 1].at]>>
    /\ said' = {} /\ start' = tree /\ clean' = TRUE
    /\ UNCHANGED <<plan, tree, sums, round, process, deeds, failures>>

(* The promise has been kept. *)
Kept == agenda = <<>> /\ keeping \in 1..Len(plan)

(* ExpandWildCardsAndDo: what a wildcard in the path stands for. *)
Matches(path) == {q \in Children(Real(path)) :
                     Base(q) \in Promise.wild /\ stat(q).kind \in {"file", "dir"}}
ExpandWildCardsAndDo ==
    /\ Calls("expand")
    /\ Then([n \in 1..Cardinality(Matches(Task.at)) |->
                [op |-> Promise.wrapper, at |-> SetToSeq(Matches(Task.at))[n]]])
    /\ UNCHANGED <<fixed, tree, sums, process, said>> /\ Safely

(* A copy with an option for backups: image.c is module Copy, but the       *)
(* option stays for the promises that follow.                               *)
SetBackup ==
    /\ Calls("copy")
    /\ backup' = Promise.backup
    /\ Return
    /\ UNCHANGED <<fixed, tree, sums, killold, masked, repos, tidied, said>>
    /\ Safely

---------------------------------------------------------------------------
(* MakeDirectoriesFor: the directories in which the path lies.              *)
Blocked(path) == \E q \in Ancestry(Front(path)) : Exists(q) /\ ~IsDirectory(q)
Missing(path) == {Spot(q) : q \in {p \in Ancestry(Front(path)) : ~Exists(p)}}
WithDirectoriesFor(path) ==
    Touching([q \in DOMAIN tree \cup Missing(path) |->
                 IF q \in Missing(path) THEN NewDirectory ELSE tree[q]],
             Missing(path))

Stored(path) == Append(Store, FlattenSeq(path))
(* MUTANT: a copy that failed counts as one. *)
RepositoryUnchecked(path, ok) ==
    /\ repos' = repos \cup {path}
    /\ tree' = IF Store = <<>> \/ ~Exists(path) THEN tree
               ELSE [q \in DOMAIN Less(Spot(path)) \cup
                              {r \in {Stored(path)} : ok} |->
                        IF q = Stored(path) THEN stat(path) ELSE Less(Spot(path))[q]]
(* Repository: true if the file has been saved, or needs not be, and may    *)
(* then be removed.                                                         *)
Repository(path, ok) ==
    IF ~backup \/ path \in repos
    THEN /\ tree' = IF lstat(path).kind = "dir" THEN tree ELSE Less(Spot(path))
         /\ UNCHANGED repos
    ELSE /\ repos' = repos \cup {path}
         /\ tree' = IF Store = <<>> \/ (Exists(path) /\ ~ok) THEN tree
                    ELSE IF ~Exists(path) THEN tree
                    ELSE [q \in DOMAIN Less(Spot(path)) \cup {Stored(path)} |->
                             IF q = Stored(path) THEN stat(path)
                             ELSE Less(Spot(path))[q]]

---------------------------------------------------------------------------
(* Links *)

(* ExpandLinks, for an absolute link: where the target really is. *)
ExpandLinks(path) ==
    IF stat(path).kind = "none" THEN Nowhere ELSE Real(path)
Target == IF Promise.type = "a" /\ ~Promise.nofile THEN ExpandLinks(Task.to)
          ELSE Task.to
(* RelativeLink spells the target in another way. *)
Spelled == [kind |-> "link", to |-> Target, relative |-> Promise.type = "r",
            owner |-> "root", days |-> 0]
(* MUTANT: what the link says is compared with what the promise says. *)
SameLinkUnexpanded(node) == node.to = Task.to
SameLink(node) == /\ node.to = Spelled.to
                  /\ node.relative = Spelled.relative

LinkTask(from, to) == [op |-> "LinkFiles", at |-> from, to |-> to]
Saved(path) == Suffixed(Suffixed(path, ToString(round)), "cfsaved")
SavedDirectory(path) == Suffixed(Saved(path), "dir")

MakeLinks ==
    /\ Calls("links")
    /\ Then(<<LinkTask(Promise.at, Promise.to)>>)
    /\ UNCHANGED <<fixed, tree, sums, process, said>> /\ Safely

(* LinkFiles looks at what is at the place of the link; what is not a link  *)
(* has to go first, if the link is enforced.                                *)
LinkFiles ==
    LET kind == lstat(Task.at).kind
        goes == /\ ~IgnoredOrExcluded(Task.at)
                /\ Target # Nowhere
                /\ Promise.nofile \/ stat(Target).kind # "none"
                /\ Promise.force \/ kind \in {"none", "link"}
                /\ kind = "dir" => stat(SavedDirectory(Task.at)).kind = "none"
    IN  /\ Calls("LinkFiles")
        /\ IF ~goes THEN Return
           ELSE Next1([none |-> "ReadLink", link |-> "ReadLink",
                       file |-> "SaveFile", dir |-> "SaveDirectory"][kind])
        /\ UNCHANGED <<fixed, tree, sums, process, said>> /\ Safely

SaveFile(ok) ==
    LET works == ok /\ Exists(Task.at)
    IN  /\ Calls("SaveFile") /\ Works(ok)
        /\ IF works THEN Next1("StoreFile") ELSE Return
        /\ tree' = IF works THEN Moved(Spot(Task.at), Spot(Saved(Task.at)))
                   ELSE tree
        /\ UNCHANGED <<fixed, sums, process, said>>
StoreFile(ok) ==
    /\ Calls("StoreFile") /\ Works(ok)
    /\ Repository(Saved(Task.at), ok)
    /\ Next1("ReadLink")
    /\ UNCHANGED <<fixed, sums, killold, masked, backup, tidied, said>>
SaveDirectory(ok) ==
    LET works == ok /\ Exists(Task.at)
    IN  /\ Calls("SaveDirectory") /\ Works(ok)
        /\ IF works THEN Next1("ReadLink") ELSE Return
        /\ tree' = IF works THEN Moved(Spot(Task.at), Spot(SavedDirectory(Task.at)))
                   ELSE tree
        /\ UNCHANGED <<fixed, sums, process, said>>

(* KillOldLink: a link that leads nowhere is removed if the option says so. *)
KillsOldLink(path) == /\ lstat(path).kind = "link"
                      /\ stat(path).kind = "none" /\ killold

(* The rest of LinkFiles: a link that leads elsewhere is removed, if the    *)
(* link is enforced; without a link the directories are made.               *)
ReadLink(ok) ==
    LET node == lstat(Task.at)
    IN  /\ Calls("ReadLink") /\ Works(ok)
        /\ IF node.kind # "link"
           THEN IF Blocked(Task.at) \/ (~ok /\ Missing(Task.at) # {})
                THEN Return /\ UNCHANGED <<tree, said>>
                ELSE /\ Next1("DoLink") /\ UNCHANGED said
                     /\ tree' = WithDirectoriesFor(Task.at)
           ELSE IF ~SameLink(node)
           THEN IF Promise.force /\ ok
                THEN Next1("DoLink") /\ tree' = Less(Spot(Task.at)) /\ UNCHANGED said
                ELSE Return /\ UNCHANGED <<tree, said>>
           ELSE /\ Return
                /\ IF Promise.nofile THEN Say1("elsedef") /\ UNCHANGED tree
                   ELSE IF KillsOldLink(Task.at)
                   THEN /\ Say1("define")
                        /\ tree' = IF ok THEN Less(Spot(Task.at)) ELSE tree
                   ELSE UNCHANGED <<tree, said>>
        /\ UNCHANGED <<fixed, sums, process>>
DoLink(ok) ==
    LET works == ok /\ ~Exists(Task.at) /\ IsDirectory(Front(Task.at))
    IN  /\ Calls("DoLink") /\ Works(ok)
        /\ IF works THEN Say1("define") ELSE UNCHANGED said
        /\ tree' = IF works THEN With(Spot(Task.at), Spelled) ELSE tree
        /\ Return
        /\ UNCHANGED <<fixed, sums, process>>

(* LinkChildFiles and RecursiveLink: a link for each file of a directory.   *)
ChildOf(path, q) == Append(path, Base(q))
LinkChildFiles(from, to) ==
    [n \in 1..Cardinality(Children(Real(to))) |->
        LET q == SetToSeq(Children(Real(to)))[n]
        IN  LinkTask(ChildOf(from, q), ChildOf(to, q))]
RecursiveLink(from, to, left) ==
    IF left = 0 THEN <<>>
    ELSE [n \in 1..Cardinality(Children(Real(to))) |->
            LET q == SetToSeq(Children(Real(to)))[n]
            IN  IF NodeAt(q).kind = "dir"
                THEN [op |-> "RecursiveLink", at |-> ChildOf(from, q),
                      to |-> ChildOf(to, q), left |-> left - 1]
                ELSE LinkTask(ChildOf(from, q), ChildOf(to, q))]
MakeChildLinks ==
    /\ Calls("childlinks")
    /\ Then(IF Promise.recurse # 0
            THEN RecursiveLink(Promise.at, Promise.to, Promise.recurse)
            ELSE LinkChildFiles(Promise.at, Promise.to))
    /\ UNCHANGED <<fixed, tree, sums, process, said>> /\ Safely
LinkChildren ==
    /\ Calls("RecursiveLink")
    /\ Then(RecursiveLink(Task.at, Task.to, Task.left))
    /\ UNCHANGED <<fixed, tree, sums, process, said>> /\ Safely

Links ==
    \/ MakeLinks \/ LinkFiles \/ MakeChildLinks \/ LinkChildren
    \/ \E ok \in BOOLEAN : SaveFile(ok) \/ StoreFile(ok) \/ SaveDirectory(ok)
                           \/ ReadLink(ok) \/ DoLink(ok)

---------------------------------------------------------------------------
(* Modes, owners and checksums *)

Fixing == {"fixall", "fixplain", "fixdirs", "touch"}
CheckTask(path, seen, action) ==
    [op |-> "CheckExistingFile", at |-> path, seen |-> seen, act |-> action]

(* The mode a promise asks for: a directory that is read is searched too. *)
Wanted(p, node) ==
    LET mode == (node.mode \cup p.plus) \ p.minus
    IN  IF node.kind = "dir" /\ "r" \in mode THEN mode \cup {"x"} ELSE mode
OwnerOf(p, node) == IF p.owners = <<>> \/ node.owner \in ToSet(p.owners)
                    THEN node.owner ELSE p.owners[1]

(* CheckOwner: true if the owner has been changed. *)
CheckOwner(seen, action) ==
    /\ OwnerOf(Promise, seen) # seen.owner
    /\ action \in Fixing
    /\ ~(seen.kind = "link" /\ action \in {"fixdirs", "fixplain"})

(* ChecksumChanged: a text that is not the one in the database. *)
ChecksumChanged(path) ==
    /\ Promise.checksum /\ path \in DOMAIN sums
    /\ sums[path] # stat(path).text
(* A file that is not there yet is put into the database, a changed one if  *)
(* ChecksumUpdates says so.                                                 *)
Checksum(path) ==
    IF ~Promise.checksum \/ stat(path).kind # "file" THEN sums
    ELSE [q \in DOMAIN sums \cup {path} |->
            IF q = path /\ (path \notin DOMAIN sums \/ Promise.updates)
            THEN stat(path).text ELSE sums[q]]

(* CompressFile: the file is replaced by one with a suffix. *)
Compressed(t, path) ==
    LET to == Suffixed(path, "gz")
    IN  IF path \notin DOMAIN t \/ to \in DOMAIN t \/ t[path].kind # "file" THEN t
        ELSE Touching([q \in (DOMAIN t \ {path}) \cup {to} |->
                         IF q = to THEN t[path] ELSE t[q]], {path})

(* CheckExistingFile, of which the chown, the chmod or the unlink may fail.  *)
(* What was seen decides what the mode should be, what is there now whether *)
(* it has to be changed.                                                    *)
SkipsFile(seen, action) ==
    \/ IgnoredOrExcluded(Task.at)
    \/ action = "alert"
    \/ seen.kind = "file" /\ action \in {"fixdirs", "warndirs"}
    \/ seen.kind = "dir" /\ action \in {"fixplain", "warnplain"}
ChangesMode(action, now) ==
    \/ action \in {"fixall", "touch"}
    \/ action = "fixplain" /\ now.kind = "file"
    \/ action = "fixdirs" /\ now.kind = "dir"
(* A setuid bit of root that the promise does not want is announced even if *)
(* it cannot be taken away.                                                 *)
RemovesSetuid(seen, mode, action) ==
    /\ seen.owner = "root" /\ "s" \in seen.mode \ mode
    /\ action \in Fixing \ {"touch"}
CheckExistingFile(fault) ==
    LET seen == Task.seen
        compress == Task.act = "compress"
        action == IF compress THEN "fixall" ELSE Task.act
        spot == IF seen.kind = "link" THEN Spot(Task.at) ELSE Real(Task.at)
        now == NodeAt(spot)
        there == now.kind # "none"
        skips == SkipsFile(seen, action)
        chown == CheckOwner(seen, action) /\ fault # "chown" /\ there
        owned == IF chown THEN [tree EXCEPT ![spot].owner = OwnerOf(Promise, seen)]
                 ELSE tree
        mode == IF seen.kind = "link" THEN {} ELSE Wanted(Promise, seen)
        kills == seen.kind = "link" /\ KillsOldLink(Task.at)
        right == there /\ now.kind # "link" /\ mode = now.mode /\ action # "touch"
        chmod == /\ there /\ seen.kind # "link" /\ ~right /\ fault # "chmod"
                 /\ ChangesMode(action, now)
        suid == seen.kind # "link" /\ RemovesSetuid(seen, mode, action)
        alarm == ~skips /\ there /\ seen.kind = "file" /\ ChecksumChanged(Task.at)
    IN  /\ Calls("CheckExistingFile") /\ Works(fault = "none")
        /\ masked' = (masked /\ (action # "alert" \/ IgnoredOrExcluded(Task.at)))
        /\ said' = said
             \cup (IF compress \/ (~skips /\ (chown \/ chmod \/ suid \/ kills))
                   THEN {"define"} ELSE {})
             \cup (IF ~skips /\ seen.kind # "link" /\ right THEN {"elsedef"} ELSE {})
             \cup (IF alarm THEN {"alarm"} ELSE {})
        /\ sums' = IF skips \/ seen.kind # "file" THEN sums ELSE Checksum(Task.at)
        /\ tree' = IF skips THEN tree
                   ELSE IF kills
                   THEN IF fault = "unlink" THEN owned
                        ELSE Touching([q \in DOMAIN tree \ {spot} |-> tree[q]], {spot})
                   ELSE LET days == IF action = "touch" THEN 0 ELSE now.days
                            t == IF chmod
                                 THEN [owned EXCEPT ![spot].mode = mode, ![spot].days = days]
                                 ELSE owned
                        IN  IF compress /\ seen.kind # "link" /\ fault # "compress"
                            THEN Compressed(t, spot) ELSE t
        /\ Return
        /\ UNCHANGED <<fixed, killold, backup, repos, tidied>>

(* CheckFileWrapper: one place of a promise about files. *)
CheckFileWrapper ==
    LET node == stat(Task.at)
        passes == ~\/ Promise.action = "touch" /\ Promise.wild # {}
                   \/ /\ Promise.only # {} /\ Base(Task.at) \notin Promise.only
                      /\ node.kind \notin {"dir", "none"}
                   \/ Base(Task.at) \in Promise.but
    IN  /\ Calls("files")
        /\ CASE passes /\ node.kind = "none" /\ Promise.action \in {"create", "touch"} ->
                  Next1("CreateFile")
             [] passes /\ node.kind # "none" /\ Promise.action # "create" ->
                  IF node.kind = "dir" /\ Promise.recurse # 0
                  THEN Then(<<CheckTask(Task.at, node, Promise.action),
                              [op |-> "RecursiveCheck", at |-> Task.at,
                               left |-> Promise.recurse]>>)
                  ELSE Then(<<CheckTask(Task.at, lstat(Task.at), Promise.action)>>)
             [] OTHER -> Return
        /\ UNCHANGED <<fixed, tree, sums, process, said>> /\ Safely

(* A file is created: the struct stat with which it is then checked has     *)
(* never been filled in.                                                    *)
CreateFile(ok, garbage) ==
    LET t == IF Blocked(Task.at) THEN tree ELSE WithDirectoriesFor(Task.at)
        spot == Real(Task.at)
        old == NodeAt(spot)
        works == ok /\ old.kind # "dir" /\ Front(spot) \in DOMAIN t \cup {<<>>}
                 /\ (Front(spot) # <<>> => t[Front(spot)].kind = "dir")
        mode == ((Defaults \cup Promise.plus) \ Promise.minus)
                   \ (IF masked THEN {"o"} ELSE {})
        file == [kind |-> "file", text |-> "", mode |-> mode, owner |-> "root",
                 days |-> 0]
    IN  /\ Calls("CreateFile") /\ Works(ok)
        /\ tree' = IF ~works THEN t
                   ELSE Touching([q \in DOMAIN t \cup {spot} |->
                                    IF q # spot THEN t[q]
                                    ELSE IF old = Absent THEN file
                                    ELSE [old EXCEPT !.text = "", !.days = 0]], {spot})
        /\ IF works THEN /\ Say1("define")
                         /\ Then(<<CheckTask(Task.at, garbage, "fixall")>>)
           ELSE Say1("elsedef") /\ Return
        /\ UNCHANGED <<fixed, sums, process>>

RecursiveCheck ==
    LET children == SetToSeq(Children(Real(Task.at)))
    IN  /\ Calls("RecursiveCheck")
        /\ Then(IF Task.left = -1 \/ ~IsDirectory(Task.at) THEN <<>>
                ELSE [n \in DOMAIN children |->
                        [op |-> "CheckEntry", at |-> ChildOf(Task.at, children[n]),
                         left |-> Task.left]])
        /\ UNCHANGED <<fixed, tree, sums, process, said>> /\ Safely
CheckEntry ==
    LET node == lstat(Task.at)
        check == CheckTask(Task.at, node, Promise.action)
    IN  /\ Calls("CheckEntry")
        /\ Then(IF node.kind = "none" THEN <<>>
                ELSE IF node.kind = "dir" /\ Promise.recurse > 1
                THEN <<check, [op |-> "RecursiveCheck", at |-> Task.at,
                               left |-> Task.left - 1]>>
                ELSE <<check>>)
        /\ UNCHANGED <<fixed, tree, sums, process, said>> /\ Safely

(* DirectoriesWrapper: the directory is made; what is in its place gets     *)
(* another mode, and is then checked as if it were the directory.           *)
DirectoriesWrapper ==
    LET inside == Append(Task.at, <<".">>)
        spot == Real(Task.at)
        t == IF ~Blocked(inside) THEN WithDirectoriesFor(inside)
             ELSE IF Exists(Task.at) /\ spot \in DOMAIN tree /\ ~IsDirectory(Task.at)
             THEN [tree EXCEPT ![spot].mode = {"r", "x"}] ELSE tree
    IN  /\ Calls("directories")
        /\ tree' = t
        /\ Then(IF spot \in DOMAIN t
                THEN <<CheckTask(Task.at, t[spot], Promise.action)>> ELSE <<>>)
        /\ UNCHANGED <<fixed, sums, process, said>> /\ Safely

FileChecks ==
    \/ CheckFileWrapper \/ RecursiveCheck \/ CheckEntry \/ DirectoriesWrapper
    \/ \E ok \in BOOLEAN, garbage \in Garbage : CreateFile(ok, garbage)
    \/ \E fault \in {"none", "chown", "chmod", "unlink", "compress"} :
          CheckExistingFile(fault)

---------------------------------------------------------------------------
(* Tidying *)

Patterns == Promise.patterns
(* DoTidyFile: old and big enough, and not from the future. *)
SizeOf(node) == IF node.kind = "file" /\ node.text = "" THEN 0 ELSE 1
DoTidyFile(x, node) ==
    /\ node.days >= 0 /\ x.age <= node.days
    /\ IF x.size = -1 THEN SizeOf(node) = 0 ELSE x.size <= SizeOf(node)
(* MUTANT: one level less. *)
TidyMatchesAbove(x, path, node, level) ==
    /\ level < x.recurse /\ Base(path) \in x.names \ Promise.but
    /\ node.kind = "dir" => x.rmdirs # "n" /\ Children(Real(path)) = {}
    /\ DoTidyFile(x, node)
(* TidyParticularFile: what a pattern says of an object at some depth. *)
TidyMatches(x, path, node, level) ==
    /\ node.kind = "dir" => /\ x.rmdirs # "n"
                            /\ ~(level = Promise.maxrecurse /\ x.rmdirs = "s")
    /\ level <= x.recurse
    /\ Base(path) \in x.names
    /\ Base(path) \notin Promise.but
    /\ node.kind = "dir" => Children(Real(path)) = {}
    /\ DoTidyFile(x, node)

TidyWrapper ==
    /\ Calls("tidy")
    /\ IF keeping \in tidied \/ stat(Task.at).kind = "none" THEN Return
       ELSE Then(<<[op |-> "RecursiveTidy", at |-> Task.at,
                    left |-> Promise.maxrecurse]>>)
    /\ tidied' = tidied \cup {keeping}
    /\ UNCHANGED <<fixed, tree, sums, killold, masked, backup, repos, said>>
    /\ Safely
(* RecursiveTidySpecialArea: what is in the directory, then the top itself. *)
RecursiveTidySpecialArea ==
    LET children == SetToSeq(Children(Real(Task.at)))
        entries == [n \in DOMAIN children |->
                      [op |-> "TidyEntry", at |-> ChildOf(Task.at, children[n]),
                       left |-> Task.left]]
        top == [op |-> "TidyFile", at |-> Task.at, seen |-> lstat(Task.at),
                level |-> Promise.maxrecurse]
    IN  /\ Calls("RecursiveTidy")
        /\ Then(IF \/ Task.left = -1 \/ ~IsDirectory(Task.at)
                   \/ Base(Task.at) \in Promise.but THEN <<>>
                ELSE IF Task.left = Promise.maxrecurse THEN Append(entries, top)
                ELSE entries)
        /\ UNCHANGED <<fixed, tree, sums, process, said>> /\ Safely
(* An entry: not followed if it is the link of another user. *)
TidyEntry ==
    LET node == lstat(Task.at)
        tidy == [op |-> "TidyFile", at |-> Task.at, seen |-> node,
                 level |-> Promise.maxrecurse - Task.left]
    IN  /\ Calls("TidyEntry")
        /\ Then(IF node.kind = "none" \/ (node.kind = "link" /\ node.owner # "root")
                THEN <<>>
                ELSE IF node.kind = "dir"
                THEN <<[op |-> "RecursiveTidy", at |-> Task.at, left |-> Task.left - 1],
                       tidy>>
                ELSE <<tidy>>)
        /\ UNCHANGED <<fixed, tree, sums, process, said>> /\ Safely

(* What is removed, or compressed, by the first pattern that matches.  Those *)
(* that compress announce it in any case.                                   *)
Tidied(matching, ok) ==
    LET spot == Spot(Task.at)
        works == ok /\ spot \in DOMAIN tree
                 /\ (IF Task.seen.kind = "dir"
                     THEN tree[spot].kind = "dir" /\ Children(spot) = {}
                     ELSE tree[spot].kind # "dir")
        packs(x) == Task.seen.kind = "file" /\ x.compress
    IN  /\ tree' = IF matching = <<>> \/ ~works THEN tree
                   ELSE IF packs(matching[1]) THEN Compressed(tree, spot)
                   ELSE Less(spot)
        /\ IF \/ matching # <<>> /\ works /\ ~packs(matching[1])
              \/ \E n \in DOMAIN matching : packs(matching[n])
           THEN Say1("define") ELSE UNCHANGED said
(* TidyParticularFile.  The patterns look at a link only to see whether it  *)
(* is dead; the option to remove it stays for what comes later.             *)
TidyParticularFile(ok) ==
    LET kills == \E n \in DOMAIN Patterns : Patterns[n].kill
    IN  /\ Calls("TidyFile") /\ Works(ok)
        /\ IF Task.seen.kind = "link"
           THEN /\ killold' = (killold \/ kills)
                /\ IF /\ lstat(Task.at).kind = "link" /\ stat(Task.at).kind = "none"
                      /\ killold'
                   THEN /\ Say1("define")
                        /\ tree' = IF ok THEN Less(Spot(Task.at)) ELSE tree
                   ELSE UNCHANGED <<tree, said>>
           ELSE /\ UNCHANGED killold
                /\ Tidied(SelectSeq(Patterns, LAMBDA x :
                            TidyMatches(x, Task.at, Task.seen, Task.level)), ok)
        /\ Return
        /\ UNCHANGED <<fixed, sums, masked, backup, repos, tidied>>

(* RecursiveHomeTidy and TidyHomeFile: no directory is removed, and a link  *)
(* is tidied as a file.  The option of any pattern but the last stays.      *)
RecursiveHomeTidy ==
    LET children == SetToSeq(Children(Real(Task.at)))
    IN  /\ Calls("home")
        /\ Then(IF ~IsDirectory(Task.at) THEN <<>>
                ELSE [n \in DOMAIN children |->
                        IF NodeAt(children[n]).kind = "dir"
                        THEN [op |-> "home", at |-> ChildOf(Task.at, children[n])]
                        ELSE [op |-> "HomeFile", at |-> ChildOf(Task.at, children[n]),
                              seen |-> NodeAt(children[n]),
                              level |-> Len(Task.at) - Len(Promise.at) + 1]])
        /\ UNCHANGED <<fixed, tree, sums, process, said>> /\ Safely
TidyHomeFile(ok) ==
    LET considered == Task.level <= Promise.maxrecurse + 1
        matching == SelectSeq(Patterns, LAMBDA x :
                      /\ considered /\ Task.level <= x.recurse + 1
                      /\ Base(Task.at) \in x.names \ Promise.but
                      /\ DoTidyFile(x, Task.seen))
    IN  /\ Calls("HomeFile") /\ Works(ok)
        /\ Tidied(matching, ok)
        /\ killold' = (killold \/ (considered /\ \E n \in 1..Len(Patterns) - 1 :
                                      Patterns[n].kill))
        /\ Return
        /\ UNCHANGED <<fixed, sums, masked, backup, repos, tidied>>

TidyFiles ==
    \/ TidyWrapper \/ RecursiveTidySpecialArea \/ TidyEntry \/ RecursiveHomeTidy
    \/ \E ok \in BOOLEAN : TidyParticularFile(ok) \/ TidyHomeFile(ok)

---------------------------------------------------------------------------
(* Disabling *)

(* DisableFiles looks at the object and decides what is to be done with it.  *)
DisableFiles ==
    LET node == lstat(Promise.at)
        way == IF Promise.rotate = 0 THEN "ChangeMode"
               ELSE IF Promise.rotate = -1 THEN "Truncate" ELSE "Rotate"
        does == \/ /\ node.kind = "link" /\ Promise.type # "file"
                   /\ Promise.action = "d"
                \/ /\ node.kind = "file" /\ Promise.type # "link"
                   /\ Promise.size = -1 \/ SizeOf(node) > Promise.size
                   /\ Promise.action = "d" \/ way = "ChangeMode"
    IN  /\ Calls("disable")
        /\ IF ~does THEN Return
           ELSE Next1(IF node.kind = "link" THEN "DeleteLink" ELSE way)
        /\ IF node.kind = "none" THEN Say1("elsedef") ELSE UNCHANGED said
        /\ UNCHANGED <<fixed, tree, sums, process>> /\ Safely
DeleteLink(ok) ==
    LET works == ok /\ lstat(Task.at).kind \in {"link", "file"}
    IN  /\ Calls("DeleteLink") /\ Works(ok)
        /\ IF works THEN Say1("define") ELSE UNCHANGED said
        /\ tree' = IF works THEN Less(Spot(Task.at)) ELSE tree
        /\ Return
        /\ UNCHANGED <<fixed, sums, process>>

(* The mode is changed even if the promise is only to warn. *)
Disabled(path) == Suffixed(path, "cfdisabled")
ChangeMode(ok) ==
    LET spot == Real(Task.at)
    IN  /\ Calls("ChangeMode") /\ Works(ok)
        /\ tree' = IF ok /\ spot \in DOMAIN tree
                   THEN [tree EXCEPT ![spot].mode = {"r", "w"}] ELSE tree
        /\ IF Promise.action = "d" /\ Disabled(Task.at) \notin repos
           THEN Next1("Rename") ELSE Return
        /\ UNCHANGED <<fixed, sums, process, said>>
Rename(ok) ==
    LET works == ok /\ Exists(Task.at)
    IN  /\ Calls("Rename") /\ Works(ok)
        /\ tree' = IF works THEN Moved(Spot(Task.at), Spot(Disabled(Task.at)))
                   ELSE tree
        /\ IF works THEN Next1("StoreDisabled") ELSE Return
        /\ UNCHANGED <<fixed, sums, process, said>>
StoreDisabled(ok) ==
    /\ Calls("StoreDisabled") /\ Works(ok)
    /\ Repository(Disabled(Task.at), ok)
    /\ Say1("define")
    /\ Return
    /\ UNCHANGED <<fixed, sums, killold, masked, backup, tidied>>

(* The file is emptied, or not; the promise is done in both cases. *)
Emptied(t, spot) == IF spot \in DOMAIN t /\ t[spot].kind = "file"
                    THEN [t EXCEPT ![spot].text = "", ![spot].days = 0] ELSE t
Truncate(ok) ==
    /\ Calls("Truncate") /\ Works(ok)
    /\ tree' = IF ok THEN Emptied(tree, Real(Task.at)) ELSE tree
    /\ Say1("define")
    /\ Return
    /\ UNCHANGED <<fixed, sums, process>>

(* RotateFiles: the old ones are given the next number, the file is copied, *)
(* and whether or not that worked, it is emptied.                           *)
Numbered(path, n) == Suffixed(path, ToString(n))
Rotated(path) ==
    LET old == {n \in 1..Promise.rotate - 1 : Numbered(path, n) \in DOMAIN tree}
        kept == DOMAIN tree \ {Numbered(path, n) : n \in old \cup {m + 1 : m \in old}}
        new == {Numbered(path, n + 1) : n \in old}
    IN  [q \in kept \cup new |->
            IF q \in kept THEN tree[q]
            ELSE tree[Numbered(path, CHOOSE n \in old : Numbered(path, n + 1) = q)]]
Rotate ==
    LET node == stat(Task.at)
    IN  /\ Calls("Rotate")
        /\ IF node.kind = "file"
           THEN /\ tree' = Rotated(Spot(Task.at)) /\ UNCHANGED said
                /\ Then(<<[op |-> "RotateCopy", at |-> Task.at, mode |-> node.mode]>>)
           ELSE UNCHANGED tree /\ Say1("define") /\ Return
        /\ UNCHANGED <<fixed, sums, process>> /\ Safely
RotateCopy(ok) ==
    LET to == Numbered(Spot(Task.at), 1)
        works == ok /\ stat(Task.at).kind = "file"
        t == IF works THEN With(to, [stat(Task.at) EXCEPT !.days = 0]) ELSE Less(to)
    IN  /\ Calls("RotateCopy") /\ Works(ok)
        /\ tree' = t
        /\ Next1("RotateCreate")
        /\ UNCHANGED <<fixed, sums, process, said>>
RotateCreate(ok) ==
    LET spot == Real(Task.at)
        kind == NodeAt(spot).kind
        new == [kind |-> "file", text |-> "", mode |-> Task.mode, owner |-> "root",
                days |-> 0]
    IN  /\ Calls("RotateCreate") /\ Works(ok)
        /\ tree' = IF kind = "file"
                   THEN IF ok THEN [Emptied(tree, spot) EXCEPT ![spot].mode = Task.mode]
                        ELSE [tree EXCEPT ![spot].mode = {"r", "w"}]
                   ELSE IF kind = "none" /\ ok /\ IsDirectory(Front(Task.at))
                   THEN With(spot, new) ELSE tree
        /\ Say1("define")
        /\ Return
        /\ UNCHANGED <<fixed, sums, process>>

Disable ==
    \/ DisableFiles \/ Rotate
    \/ \E ok \in BOOLEAN : DeleteLink(ok) \/ ChangeMode(ok) \/ Rename(ok)
         \/ StoreDisabled(ok) \/ Truncate(ok) \/ RotateCopy(ok) \/ RotateCreate(ok)

---------------------------------------------------------------------------
(* What comes from outside *)

(* The agent is killed: the rest of the run does not take place. *)
Killed ==
    /\ agenda # <<>> /\ failures < MaxFailures
    /\ agenda' = <<>> /\ keeping' = Len(plan) + 1
    /\ failures' = failures + 1 /\ clean' = FALSE
    /\ UNCHANGED <<plan, tree, sums, round, process, said, deeds, start>>
(* The user writes, links or removes a file while a promise is being kept. *)
UserActs ==
    /\ deeds < MaxDeeds /\ agenda # <<>>
    /\ \E deed \in Deeds :
          /\ Front(deed.at) \in DOMAIN tree /\ tree[Front(deed.at)].kind = "dir"
          /\ NodeAt(deed.at) # deed.node /\ NodeAt(deed.at).kind # "dir"
          /\ tree' = IF deed.node = Absent THEN Less(deed.at)
                     ELSE With(deed.at, deed.node)
    /\ deeds' = deeds + 1 /\ clean' = FALSE
    /\ UNCHANGED <<plan, sums, agenda, keeping, round, process, said, failures, start>>

TreeNext ==
    \/ StartRound \/ NextPromise \/ ExpandWildCardsAndDo \/ SetBackup
    \/ Links \/ FileChecks \/ TidyFiles \/ Disable
    \/ Killed \/ UserActs
TreeSpec == TreeInit /\ [][TreeNext]_treeVars

---------------------------------------------------------------------------
(* Properties *)

What == IF Promise.do = "expand" THEN Promise.wrapper ELSE Promise.do
Places == IF Promise.do = "expand" THEN Matches(Promise.at) ELSE {Promise.at}
FirstPlaces ==
    IF Promise.do # "expand" THEN {Promise.at}
    ELSE {q \in DOMAIN start : /\ q # <<>> /\ Front(q) = Promise.at
                               /\ Base(q) \in Promise.wild}
Below(path, t) == {q \in DOMAIN t : IsPrefix(path, q) /\ q # path}
Depth(path, q) == Len(q) - Len(path)
Before(path) == IF path \in DOMAIN start THEN start[path] ELSE Absent
Did(what, path) == \E n \in 1..keeping - 1 : plan[n].do = what /\ plan[n].at = path

(* What a promise says of the tree when it has been kept. *)
IsLinked(from, to) ==
    LET node == lstat(from)
    IN  \/ IgnoredOrExcluded(from) \/ Blocked(from)
        \/ ~Promise.nofile /\ stat(to).kind = "none"
        \/ ~Promise.force /\ Before(Spot(from)).kind # "none"
        \/ /\ node.kind = "link" /\ node.relative = (Promise.type = "r")
           /\ node.to = IF Promise.type = "a" /\ ~Promise.nofile THEN Real(to) ELSE to
AreLinked ==
    \A q \in Below(Promise.to, tree) :
        (IF Promise.recurse = 0 THEN Depth(Promise.to, q) = 1
         ELSE NodeAt(q).kind # "dir" /\ Depth(Promise.to, q) <= Promise.recurse)
        => IsLinked(Promise.at \o SubSeq(q, Len(Promise.to) + 1, Len(q)), q)
(* A recursion over two or more levels goes one level deeper. *)
Covered(path) ==
    IF Promise.recurse = 0 \/ ~IsDirectory(path) THEN {Spot(path)}
    ELSE {Real(path)} \cup {q \in Below(Real(path), tree) :
            Depth(Real(path), q) <= (IF Promise.recurse = 1 THEN 1
                                     ELSE Promise.recurse + 1)}
Fixes(action, node) ==
    CASE action \in {"fixall", "touch", "compress"} -> node.kind # "link"
      [] action = "fixplain" -> node.kind = "file"
      [] action = "fixdirs" -> node.kind = "dir"
      [] OTHER -> FALSE
IsRight(path) ==
    \A q \in Covered(path) :
        LET node == NodeAt(q)
        IN  \/ IgnoredOrExcluded(q) \/ Before(q).kind = "none"
            \/ node.kind = "none" /\ Promise.action = "compress"
            \/ /\ Fixes(Promise.action, node) => /\ Wanted(Promise, node) = node.mode
                                                 /\ OwnerOf(Promise, node) = node.owner
               /\ Promise.checksum /\ node.kind = "file" /\ Promise.action # "alert" =>
                    /\ q \in DOMAIN sums
                    /\ sums[q] # node.text => "alarm" \in said /\ ~Promise.updates
IsTidy(path) ==
    \A q \in Below(path, tree), n \in DOMAIN Patterns :
        LET x == Patterns[n]
            level == Depth(path, q) - 1
        IN  ~ /\ level <= Min({x.recurse, Promise.maxrecurse})
              /\ \A m \in 1..Len(q) : m >= Len(path) => q[m] \notin Promise.but
              /\ Base(q) \in x.names
              /\ Before(q).kind = tree[q].kind /\ tree[q].kind # "link" /\ DoTidyFile(x, Before(q))
              /\ \/ tree[q].kind = "file" /\ (x.compress => Before(Suffixed(q, "gz")) = Absent)
                 \/ /\ What = "tidy" /\ tree[q].kind = "dir" /\ Children(q) = {}
                    /\ x.rmdirs # "n" /\ (level = Promise.maxrecurse => x.rmdirs # "s")
IsDisabled ==
    LET was == Before(Promise.at)
        now == lstat(Promise.at)
    IN  CASE \/ Promise.action # "d" \/ was.kind \in {"none", "dir"}
             \/ was.kind = "link" /\ Promise.type = "file"
             \/ was.kind = "file" /\ (Promise.type = "link"
                    \/ (Promise.size # -1 /\ SizeOf(was) <= Promise.size)) ->
               now.kind = was.kind /\ TextsIn(tree) = TextsIn(start)
          [] was.kind = "link" \/ Promise.rotate = 0 ->
               now.kind = "none" \/ Did("disable", Promise.at)
          [] Promise.rotate = -1 -> now.text = ""
          [] OTHER -> /\ now.text = "" /\ now.mode = was.mode
                      /\ Before(Numbered(Promise.at, 1)).kind # "dir" =>
                           stat(Numbered(Promise.at, 1)).text = was.text

(* When all functions of a promise have been called, none of the calls has   *)
(* failed and the user has kept still, the tree is as the promise says: each *)
(* file that has a source is linked, each file and directory within the      *)
(* recursion has its mode, its owner and a checksum, or an alarm was given,  *)
(* nothing that a pattern describes is left, a file that is disabled is gone *)
(* or empty.  Of the places of a wildcard only the first is tidied           *)
(* (wrapper.c:53), and the mode of a file that is created is not promised,   *)
(* since it is made from a struct that was never filled in (wrapper.c:206).  *)
PromiseFulfilled ==
    Kept /\ clean =>
        CASE What = "links" -> IsLinked(Promise.at, Promise.to)
          [] What = "childlinks" -> AreLinked
          [] What = "files" ->
               /\ \A path \in Places : IsRight(path)
               /\ \/ Promise.action \notin {"create", "touch"} \/ Promise.wild # {}
                  \/ Blocked(Promise.at) \/ IgnoredOrExcluded(Promise.at)
                  \/ Exists(Promise.at)
          [] What = "directories" ->
               \A path \in Places : Blocked(Append(path, <<".">>))
                                    \/ (IsDirectory(path) /\ IsRight(path))
          [] What = "tidy" \/ What = "home" ->
               FirstPlaces # {} => \E path \in FirstPlaces : IsTidy(path)
          [] What = "disable" -> IsDisabled
          [] OTHER -> tree = start

(* A class is defined by a promise that has been kept undisturbed exactly if *)
(* the tree has changed.  Directories are made, and the mode of a file that  *)
(* is only to be reported is changed, without a word; to touch, to compress, *)
(* to truncate and to rotate is announced even if nothing came of it.        *)
AnnouncesChanges ==
    Kept /\ clean =>
        /\ tree # start =>
             \/ "define" \in said \/ What = "directories"
             \/ What = "disable" /\ (Promise.action = "w" \/ Did("disable", Promise.at))
        /\ "define" \in said =>
             \/ tree # start
             \/ What \in {"files", "directories"} /\ Promise.action \in {"touch", "compress"}
             \/ What = "disable" /\ Promise.rotate # 0
             \/ What \in {"tidy", "home"} /\ \E n \in DOMAIN Patterns : Patterns[n].compress

(* The names of backups that a step writes over. *)
Overwritten ==
    CASE Task.op = "SaveFile" -> {Spot(Saved(Task.at))}
      [] Task.op = "Rename" -> {Spot(Disabled(Task.at))}
      [] Task.op \in {"Rotate", "RotateCopy"} ->
           {Numbered(Spot(Task.at), n) : n \in 1..Promise.rotate}
      [] Task.op = "StoreFile" -> {Stored(Saved(Task.at))}
      [] Task.op = "StoreDisabled" -> {Stored(Disabled(Task.at))}
      [] OTHER -> {}
(* What was in a file is lost only if the user did it, if it was in a backup *)
(* that gives way to the next one, if it was found old enough to be tidied,  *)
(* if it was to be truncated, if the copy of a rotation had failed or was    *)
(* out of date, or if backups were off or one had been made in this run:     *)
(* links and disabled files are kept although they are in the way.           *)
ContentsSurvive ==
    [][\A text \in TextsIn(tree) \ (TextsIn(tree') \cup {""}) :
         \/ deeds' # deeds
         \/ /\ agenda # <<>>
            /\ \/ \A q \in DOMAIN tree : tree[q].kind = "file" /\ tree[q].text = text
                                         => q \in Overwritten
               \/ /\ Task.op \in {"TidyFile", "HomeFile"}
                  /\ \E n \in DOMAIN Patterns :
                        Base(Task.at) \in Patterns[n].names /\ DoTidyFile(Patterns[n], Task.seen)
               \/ Task.op = "Truncate"
               \/ Task.op \in {"DeleteLink", "CreateFile", "RotateCreate"} /\ ~clean
               \/ /\ Task.op \in {"StoreFile", "StoreDisabled"}
                  /\ ~backup \/ Saved(Task.at) \in repos \/ Disabled(Task.at) \in repos]_treeVars
=============================================================================
