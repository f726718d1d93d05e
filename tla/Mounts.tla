------------------------------- MODULE Mounts -------------------------------
(* What cfagent does to the file systems of its host: it reads what is      *)
(* mounted, adds the promised servers to fstab, mounts what is there,       *)
(* unmounts, and looks whether required file systems make sense (do.c).     *)
(*                                                                          *)
(* The agent works on copies: g_vmounted is what `mount' said at the        *)
(* beginning of the run, Unmount holds the lines of fstab between reading   *)
(* and saving them, and meanwhile the administrator may edit the file.      *)
(* A line of fstab is a record; an entry that was commented out has live =  *)
(* FALSE.  Left out: the formats of fstab and mount of the other systems,   *)
(* the timer for RPC, the scan for arrivals, and locks but for refusals.    *)
EXTENDS Integers, Sequences, SequencesExt, FiniteSets, TLC

CONSTANTS
    Setups,         \* what is tried: promises, actionsequence and host
    Self,           \* g_vdefaultbinserver: this host
    Servers,        \* g_vhomeservers, g_vbinservers
    Protected,      \* the file systems that are never unmounted
    Within(_, _),   \* strstr: the first path contains the second
    UserLine,       \* what the administrator adds to fstab
    MaxMountRuns,   \* bound: runs of the agent
    MaxTroubles     \* bound: what goes wrong: refused locks, failing calls,
                    \* kills, edits of the administrator

VARIABLES
    setup,
    fstab, mounted, dirs,   \* the host: lines, mounts in their order, directories
    vmounted, gotinfo,      \* g_vmounted, g_gotmountinfo
    filelist, edits,        \* of Unmount; g_numberofedits > 0
    fulfilled,              \* the promises that have done = 'y'
    pending,                \* the functions that are still to be called
    classes,                \* the classes that required promises have defined
    mruns, troubles,
    wasBefore, quiet        \* history: the host when the run began, and whether
                            \* nothing has gone wrong in it

host == <<fstab, mounted, dirs>>
lists == <<filelist, edits>>
counts == <<setup, mruns, wasBefore>>
mountVars == <<host, vmounted, gotinfo, lists, fulfilled, pending, classes,
               troubles, quiet, counts>>

Call == Head(pending)
Due(op) == pending # <<>> /\ Call.op = op
Instead(more) == pending' = more \o Tail(pending)
Calmly == UNCHANGED <<troubles, quiet>>
Trouble == troubles < MaxTroubles /\ troubles' = troubles + 1 /\ quiet' = FALSE

MountsInit ==
    /\ setup \in Setups
    /\ fstab = setup.fstab /\ mounted = setup.mounted /\ dirs = setup.dirs
    /\ vmounted = <<>> /\ gotinfo = TRUE /\ filelist = <<>> /\ edits = FALSE
    /\ fulfilled = {} /\ pending = <<>> /\ classes = {}
    /\ mruns = 0 /\ troubles = 0 /\ quiet = TRUE
    /\ wasBefore = [fstab |-> fstab, mounted |-> mounted, dirs |-> dirs]

(* A run of cfagent: the actionsequence, and again as long as something is  *)
(* left to do (NothingLeftToDo looks at the unmount promises only).         *)
Tasks(seq) == [n \in DOMAIN seq |-> [op |-> seq[n], list |-> setup.unmounts]]
StartMounts ==
    /\ pending = <<>> /\ mruns < MaxMountRuns
    /\ mruns' = mruns + 1
    /\ pending' = Append(Tasks(setup.sequence), [op |-> "pass"])
    /\ vmounted' = <<>> /\ gotinfo' = TRUE /\ fulfilled' = {} /\ classes' = {}
    /\ quiet' = TRUE
    /\ wasBefore' = [fstab |-> fstab, mounted |-> mounted, dirs |-> dirs]
    /\ UNCHANGED <<host, lists, setup, troubles>>
SecondPass ==
    /\ Due("pass")
    /\ IF ToSet(setup.unmounts) \subseteq fulfilled THEN pending' = <<>>
       ELSE pending' = Tasks(SelectSeq(setup.sequence,
                                     LAMBDA a : a \notin {"mountinfo", "mountall"}))
    /\ UNCHANGED <<host, vmounted, gotinfo, lists, fulfilled, classes, counts>> /\ Calmly

---------------------------------------------------------------------------
(* GetMountInfo: the list is appended to g_vmounted; what was read before   *)
(* an error stays in it.                                                    *)
InstallMountedItem(n) == vmounted' = vmounted \o SubSeq(mounted, 1, n)
GetMountInfo ==
    /\ Due("mountinfo") /\ Instead(<<>>)
    /\ \/ InstallMountedItem(Len(mounted)) /\ UNCHANGED gotinfo /\ Calmly
       \/ UNCHANGED <<vmounted, gotinfo>> /\ Trouble         \* the lock is refused
       \/ /\ \E n \in 0..Len(mounted) : InstallMountedItem(n)
          /\ gotinfo' = FALSE /\ Trouble
    /\ UNCHANGED <<host, lists, fulfilled, classes, counts>>

---------------------------------------------------------------------------
(* mountresources *)

Promised(p) == [live |-> TRUE, host |-> p.host, from |-> p.from, at |-> p.at,
                opts |-> p.opts]
MountAt(m) == [host |-> m.host, at |-> m.at]
AddMounts ==
    /\ Due("addmounts")
    /\ Instead(IF gotinfo THEN [n \in DOMAIN setup.mountables |->
                                   [op |-> "mountable", p |-> setup.mountables[n]]]
               ELSE <<>>)
    /\ UNCHANGED <<host, vmounted, gotinfo, lists, fulfilled, classes, counts>> /\ Calmly
(* MountHomeBinServers and, for promises with misc set, MountMisc, which     *)
(* does not ask whether the host is one of the servers.                      *)
Wants(p) == p.host # Self /\ (p.misc \/ p.host \in Servers)
MountHomeBinServers ==
    /\ Due("mountable")
    /\ LET p == Call.p
           add == p \notin fulfilled /\ Wants(p)
       IN  /\ fulfilled' = fulfilled \cup {p}
           /\ dirs' = IF add /\ MountAt(p) \notin ToSet(vmounted) THEN dirs \cup {p.at} ELSE dirs
           /\ Instead(IF add THEN <<[op |-> "fstab", line |-> Promised(p)]>> ELSE <<>>)
    /\ UNCHANGED <<fstab, mounted, vmounted, gotinfo, lists, classes, counts>> /\ Calmly

MatchStringInFstab(path) ==
    \E n \in DOMAIN fstab : /\ fstab[n].live
                            /\ Within(fstab[n].at, path) \/ Within(fstab[n].from, path)
(* The entry that Unmount is given to remove the old line with.  Its host    *)
(* is taken from the first mount whose path begins with that of the promise. *)
Cleaner(path) ==
    LET known == SelectSeq(vmounted, LAMBDA m : Within(m.at, path))
    IN  [host |-> IF known = <<>> THEN "host" ELSE known[1].host, at |-> path,
         rmdir |-> FALSE, fstab |-> TRUE, cleaner |-> TRUE]
(* MUTANT: the old line is not removed. *)
AddUnchanged ==
    /\ Due("fstab")
    /\ Instead(IF Call.line \in ToSet(fstab) THEN <<>>
               ELSE <<[op |-> "append", line |-> Call.line]>>)
    /\ UNCHANGED <<host, vmounted, gotinfo, lists, fulfilled, classes, counts>> /\ Calmly
AddToFstab ==
    /\ Due("fstab")
    /\ \/ /\ Instead(LET last == [op |-> "append", line |-> Call.line]
                     IN  IF ~MatchStringInFstab(Call.line.at) THEN <<last>>
                         ELSE IF Call.line \in ToSet(fstab) THEN <<>>
                         ELSE <<[op |-> "unmount", list |-> <<Cleaner(Call.line.at)>>], last>>)
          /\ Calmly
       \/ Instead(<<>>) /\ Trouble                  \* fstab cannot be read
    /\ UNCHANGED <<host, vmounted, gotinfo, lists, fulfilled, classes, counts>>
AppendToFstab ==
    /\ Due("append") /\ Instead(<<>>)
    /\ \/ fstab' = Append(fstab, Call.line) /\ Calmly
       \/ UNCHANGED fstab /\ Trouble
    /\ UNCHANGED <<mounted, dirs, vmounted, gotinfo, lists, fulfilled, classes, counts>>

---------------------------------------------------------------------------
(* MountFileSystems: mount -a, of which some lines may fail.  A line whose   *)
(* server and mount point are mounted is passed over.                        *)
Mountable(n) == fstab[n].live /\ fstab[n].at \in dirs /\ MountAt(fstab[n]) \notin ToSet(mounted)
                /\ \A m \in 1..n - 1 : fstab[m].live => MountAt(fstab[m]) # MountAt(fstab[n])
MountFileSystems ==
    /\ Due("mountall") /\ Instead(<<>>)
    /\ LET todo == {n \in DOMAIN fstab : Mountable(n)}
           Mount(some) ==
               mounted' = mounted \o [n \in 1..Cardinality(some) |->
                   MountAt(fstab[SetToSortSeq(some, <)[n]])]
       IN  IF gotinfo
           THEN \/ Mount(todo) /\ UNCHANGED gotinfo /\ Calmly
                \/ /\ \E some \in SUBSET todo : some # todo /\ Mount(some)
                   /\ gotinfo' \in BOOLEAN /\ Trouble
                \/ UNCHANGED <<mounted, gotinfo>> /\ Trouble      \* the lock is refused
           ELSE UNCHANGED <<mounted, gotinfo>> /\ Calmly
    /\ UNCHANGED <<fstab, dirs, vmounted, lists, fulfilled, classes, counts>>

---------------------------------------------------------------------------
(* Unmount, of a list of promises or of the entry that AddToFstab makes.     *)

LoadFstab ==
    /\ Due("unmount")
    /\ \/ /\ filelist' = fstab /\ edits' = FALSE /\ Calmly
          /\ Instead(Append([n \in DOMAIN Call.list |->
                                [op |-> "umount", u |-> Call.list[n]]], [op |-> "save"]))
       \/ Instead(<<>>) /\ UNCHANGED lists /\ Trouble
    /\ UNCHANGED <<host, vmounted, gotinfo, fulfilled, classes, counts>>

Topmost(path) == SelectLastInSeq(mounted, LAMBDA m : m.at = path)
(* What is left of Unmount when the pipe from umount cannot be opened.       *)
AfterSave ==
    LET n == SelectInSeq(pending, LAMBDA c : c.op = "save")
    IN  SubSeq(pending, n + 1, Len(pending))

CleanerRefused == IF Call.u.cleaner THEN quiet' = FALSE /\ UNCHANGED troubles ELSE Trouble
Tried == fulfilled' = IF Call.u.cleaner THEN fulfilled ELSE fulfilled \cup {Call.u}
(* The promise is passed over if it was kept, if it speaks of a file system  *)
(* that is protected or if its lock is refused.  The ifelapsed of the entry  *)
(* made by AddToFstab is never set, so that its lock may be refused too.     *)
PassOver ==
    /\ Due("umount") /\ Instead(<<>>) /\ Tried
    /\ IF Call.u \in fulfilled \/ Call.u.at \in Protected THEN Calmly ELSE CleanerRefused
    /\ UNCHANGED <<host, vmounted, gotinfo, lists, classes, counts>>

(* umount says that the device is busy, or it says something else, which is  *)
(* taken for success.  The line goes from the list in either case.           *)
UnmountOne ==
    /\ Due("umount")
    /\ LET u == Call.u
           known == MountAt(u) \in ToSet(vmounted)
           there == Topmost(u.at) # 0
           Forget == vmounted' = RemoveFirstMatch(vmounted, LAMBDA m :
                                    m.host = u.host /\ Within(m.at, u.at))
       IN  /\ u \notin fulfilled /\ u.at \notin Protected
           /\ \/ ~known /\ UNCHANGED <<mounted, vmounted>> /\ Calmly
              \/ /\ known /\ there /\ Forget /\ Calmly
                 /\ mounted' = RemoveAt(mounted, Topmost(u.at))
              \/ known /\ UNCHANGED mounted /\ Trouble
                 /\ (Forget \/ UNCHANGED vmounted)
              \/ known /\ ~there /\ Forget /\ UNCHANGED mounted /\ Calmly
           /\ dirs' = IF /\ u.rmdir /\ \A m \in ToSet(mounted') : m.at # u.at
                         /\ known => vmounted' # vmounted
                      THEN dirs \ {u.at} ELSE dirs
           /\ filelist' = IF u.fstab THEN RemoveFirstMatch(filelist, LAMBDA l : l.at = u.at)
                          ELSE filelist
           /\ edits' = (edits \/ filelist' # filelist \/ vmounted' # vmounted)
    /\ Instead(<<>>) /\ Tried
    /\ UNCHANGED <<fstab, gotinfo, classes, counts>>
NoPipe ==
    /\ Due("umount") /\ Call.u \notin fulfilled /\ MountAt(Call.u) \in ToSet(vmounted)
    /\ Call.u.at \notin Protected
    /\ pending' = AfterSave /\ Trouble /\ Tried
    /\ UNCHANGED <<host, vmounted, gotinfo, lists, classes, counts>>
SaveFstab ==
    /\ Due("save") /\ Instead(<<>>)
    /\ \/ fstab' = (IF edits THEN filelist ELSE fstab) /\ Calmly
       \/ UNCHANGED fstab /\ Trouble
    /\ UNCHANGED <<mounted, dirs, vmounted, gotinfo, lists, fulfilled, classes, counts>>
Unmount == LoadFstab \/ PassOver \/ UnmountOne \/ NoPipe \/ SaveFstab

---------------------------------------------------------------------------
(* CheckRequired.  A directory with nothing mounted on it is suspiciously    *)
(* small.  A promise with $(binserver) in it has one path for each server.   *)

RequiredFileSystemOkay(path) == path \in dirs /\ Topmost(path) # 0
IsMountedFileSystem(path) ==
    /\ Topmost(path) # 0
    /\ \A n \in DOMAIN setup.mountables :
          ~(Within(setup.mountables[n].from, path) /\ setup.mountables[n].host = Self)
CheckFreeSpace(r, path) ==
    \/ path \notin dirs
    \/ ~r.force /\ IsMountedFileSystem(path)
    \/ path \notin setup.full
Verdict(r) ==
    LET okay == SelectInSeq(r.paths, RequiredFileSystemOkay)
        tried == IF okay # 0 /\ (r.var \/ okay = 1) THEN okay
                 ELSE IF r.var THEN Len(r.paths) ELSE 1
        matched == tried = okay
    IN  CASE r.freespace -> {IF CheckFreeSpace(r, r.paths[tried]) THEN "else" ELSE "define"}
          [] matched /\ ~r.freespace -> {"else"}
          [] OTHER -> IF r.var THEN {} ELSE {"define"}
CheckRequired ==
    /\ Due("required") /\ Instead(<<>>)
    /\ LET new == {r \in setup.required : r \notin fulfilled}
       IN  \E kept \in SUBSET new :
              /\ IF kept = new THEN Calmly ELSE Trouble      \* locks are refused
              /\ classes' = classes \cup UNION {{<<r, c>> : c \in Verdict(r)} : r \in kept}
              /\ fulfilled' = fulfilled \cup new
    /\ UNCHANGED <<host, vmounted, gotinfo, lists, counts>>

---------------------------------------------------------------------------
(* What comes from outside: the administrator adds a line, or the agent is   *)
(* killed.                                                                   *)
AdministratorEdits ==
    /\ pending # <<>> /\ UserLine \notin ToSet(fstab) /\ Trouble
    /\ fstab' = Append(fstab, UserLine)
    /\ UNCHANGED <<mounted, dirs, vmounted, gotinfo, lists, fulfilled, pending, classes, counts>>
MountsKilled ==
    /\ pending # <<>> /\ pending' = <<>> /\ Trouble
    /\ UNCHANGED <<host, vmounted, gotinfo, lists, fulfilled, classes, counts>>

MountsNext ==
    \/ StartMounts \/ SecondPass \/ GetMountInfo \/ AddMounts \/ MountHomeBinServers
    \/ AddToFstab \/ AppendToFstab \/ MountFileSystems \/ Unmount \/ CheckRequired
    \/ AdministratorEdits \/ MountsKilled
MountsSpec == MountsInit /\ [][MountsNext]_mountVars

---------------------------------------------------------------------------
(* Properties *)

LinesFor(path, lines) == SelectSeq(lines, LAMBDA l : l.at = path)
InForce(path) == SelectSeq(fstab, LAMBDA l : l.at = path /\ l.live)
Stack(path, mounts) == SelectSeq(mounts, LAMBDA m : m.at = path)
All == ToSet(setup.mountables) \cup ToSet(setup.unmounts)
Undisputed(p) == \A q \in All \ {p} : q.at # p.at
Place(op) == SelectInSeq(setup.sequence, LAMBDA a : a = op)
Follows(late, early) == Place(early) # 0 /\ Place(late) > Place(early)

(* A promise to mount: its line is the only one in force and it is mounted   *)
(* on top, unless there were several lines, commented out or not, of which   *)
(* only the first is removed.                                                *)
Served(p) ==
    /\ Promised(p) \in ToSet(fstab)
    /\ Len(LinesFor(p.at, wasBefore.fstab)) <= 1 =>
          /\ InForce(p.at) = <<Promised(p)>>
          /\ Follows("mountall", "addmounts") /\ Len(Stack(p.at, wasBefore.mounted)) <= 1 =>
                Last(Stack(p.at, mounted)).host = p.host
(* A promise to unmount, of a file system that was mounted, alone, when the  *)
(* run began (what mountall adds the agent does not know of), with no line   *)
(* of another server for it, and whose name does not begin with that of      *)
(* another promise, which would take it from g_vmounted in its place         *)
(* (do.c:1999).                                                              *)
Forgotten(u) == \E v \in All \ {u} : Within(u.at, v.at)
Gone(u) ==
    /\ /\ Follows("unmount", "mountinfo") /\ ~Forgotten(u)
       /\ Stack(u.at, wasBefore.mounted) = <<MountAt(u)>>
       /\ \A l \in ToSet(LinesFor(u.at, wasBefore.fstab)) : l.host = u.host
       => MountAt(u) \notin ToSet(mounted)
    /\ u.fstab => Len(LinesFor(u.at, fstab)) < Len(LinesFor(u.at, wasBefore.fstab))
                  \/ LinesFor(u.at, wasBefore.fstab) = <<>>
(* What no promise speaks of *)
Foreign(x) == x.at \notin {p.at : p \in All}
Undisturbed ==
    /\ SelectSeq(fstab, Foreign) = SelectSeq(wasBefore.fstab, Foreign)
    /\ \A m \in ToSet(wasBefore.mounted) : Foreign(m) => m \in ToSet(mounted)

(* When a run in which nothing went wrong has ended, fstab and the kernel    *)
(* are as the promises say, a required file system defines its elsedefine    *)
(* exactly if it makes sense, and what no promise speaks of is as before:    *)
(* although the list of mounts may be out of date, promises share the names  *)
(* of paths, and the old line of a promise that has changed is found by a    *)
(* search for a part of it.                                                  *)
MountsAsPromised ==
    pending = <<>> /\ mruns > 0 /\ quiet =>
        /\ Place("addmounts") # 0 =>
              \A p \in ToSet(setup.mountables) : Wants(p) /\ Undisputed(p) => Served(p)
        /\ Place("unmount") # 0 /\ ~Follows("mountall", "unmount") =>
              \A u \in ToSet(setup.unmounts) : u.at \notin Protected /\ Undisputed(u) => Gone(u)
        /\ Undisturbed
        /\ \A r \in setup.required : ~r.freespace /\ Last(setup.sequence) = "required" =>
              (<<r, "else">> \in classes) =
                  \E n \in DOMAIN r.paths : (r.var \/ n = 1) /\ RequiredFileSystemOkay(r.paths[n])
=============================================================================
