-------------------------------- MODULE Copy --------------------------------
(* A copy promise of cfagent for the files of a directory: client.c and     *)
(* image.c on this side, the part of cfservd.c that serves files on the     *)
(* other, and the connection between them; or copy.c, when the directory is *)
(* on this host.  The agent runs again and again; meanwhile the files of    *)
(* the source are edited, replaced and removed, the connection is lost, the *)
(* disk is full, and the agent is killed.                                   *)
(*                                                                          *)
(* A file is a sequence of blocks of the size the two sides agree on, and a *)
(* block says which version of the source it was read from.  Keys, modes    *)
(* and owners, links, subdirectories and patterns are left out.             *)
EXTENDS Integers, Sequences, FiniteSets, SequencesExt

CONSTANTS
    Name,           \* the files of the directory
    Version,        \* versions of a file of the source
    Size,           \* the blocks of each version
    Promise,        \* the promises that are tried
    Absent,         \* no file
    Garbage,        \* a block that was not read from the source
    MaxChanges,     \* bound: changes of the source
    MaxFaults       \* bound: lost connections, full disks, kills

ASSUME CopyAssumption ==
    /\ IsFiniteSet(Name) /\ Absent \notin Name
    /\ Version \subseteq Nat \ {0} /\ 1 \in Version
    /\ Size \in [Version -> {1, 2}]
    /\ Absent \notin Version
    /\ MaxChanges \in Nat /\ MaxFaults \in Nat
    /\ Promise \subseteq [remote : BOOLEAN, type : {"checksum", "time"},
                          backup : BOOLEAN, repository : BOOLEAN,
                          purge : BOOLEAN, verify : BOOLEAN]

(* A file of the destination.  outdated: the source is younger than the     *)
(* last write.  why: a history of what went on while it was copied.         *)
Block == {Garbage} \cup (({0} \cup Version) \X {1, 2})
FileRecord == [data : Seq(Block), outdated : BOOLEAN,
               why : SUBSET {"changed", "lost"}]
ASSUME AbsentAssumption == Absent \notin FileRecord

VARIABLES
    promise,        \* struct Image
    source,         \* the version of each file of the source, or Absent
    dest,           \* each file of the destination
    saved,          \* its .cfsaved
    new,            \* its .cfnew
    archive,        \* its copy in the repository
    agent,          \* what the agent does
    net,            \* the connection: what is asked, what is under way
    server,         \* the thread of cfservd, and the file it has open
    changes, faults,
    why,            \* what happened since the agent asked for its file
    there,          \* the files of the source when it was listed
    cut,            \* the listing came to an end before its last packet
    owed            \* files that were at the destination and must not be lost

files == <<dest, saved, new, archive>>
ghosts == <<changes, faults, why, there, cut, owed>>
vars == <<promise, source, files, agent, net, server, ghosts>>

Blocks(v) == [i \in 1..Size[v] |-> <<v, i>>]
(* What is at the destination before the agent runs for the first time. *)
Original == << <<0, 1>> >>
File(data, outdated) == [data |-> data, outdated |-> outdated, why |-> {}]

Idle == [pc |-> "idle", name |-> Absent, todo |-> {}, listing |-> {},
         size |-> 0, total |-> 0, error |-> FALSE]
Closed == [up |-> FALSE, asked |-> Absent, in |-> <<>>]
Waiting == [name |-> Absent, file |-> Absent, linked |-> TRUE, pos |-> 0, size |-> 0, count |-> 0]

Init ==
    /\ promise \in Promise
    /\ source = [n \in Name |-> 1]
    /\ dest \in [Name -> {Absent, File(Original, TRUE)}]
    /\ saved = [n \in Name |-> Absent]
    /\ new = saved /\ archive = saved
    /\ agent = Idle /\ net = Closed /\ server = Waiting
    /\ changes = 0 /\ faults = 0
    /\ why = {} /\ there = {} /\ cut = FALSE
    /\ owed = {n \in Name : dest[n] # Absent}

---------------------------------------------------------------------------
(* The connection *)

Goto(pc) == agent' = [agent EXCEPT !.pc = pc]
(* SendTransaction: on a connection that is lost it is the answer that is   *)
(* not found.                                                               *)
Ask(request) == net' = IF net.up THEN [net EXCEPT !.asked = request] ELSE net
Arrived == net.in # <<>>
Answer == Head(net.in)
Received == net' = [net EXCEPT !.in = Tail(@)]
Lost == ~net.up /\ ~Arrived
Answered(kind) == Arrived /\ Answer.kind = kind /\ Received
(* No answer: the connection is lost, the request is refused, or the rest   *)
(* of a file is still on the way, of which eight bytes are taken for the    *)
(* head of an answer.                                                       *)
Data == {"block", "part", "changed"}
Unanswered(kind) ==
    \/ Lost /\ UNCHANGED net
    \/ /\ Arrived /\ Answer.kind # kind
       /\ IF Answer.kind \in Data THEN UNCHANGED net ELSE Received

---------------------------------------------------------------------------
(* Opening and listing the source *)

(* OpenServerConnection, unless the source is on this host; then cf_ropendir *)
(* or opendir.                                                              *)
Opened == [up |-> promise.remote, in |-> <<>>,
           asked |-> IF promise.remote THEN [kind |-> "dir"] ELSE Absent]
Connect ==
    /\ agent.pc = "idle"
    /\ agent' = [Idle EXCEPT !.pc = "list"]
    /\ net' = Opened
    /\ cut' = FALSE
    /\ UNCHANGED <<promise, source, files, server, changes, faults, why, there,
                   owed>>

Finish ==
    /\ agent' = Idle /\ net' = Closed /\ server' = Waiting

(* cf_ropendir *)
\* MUTANT of ReceiveName: the first packet is taken for the whole listing.
ReceiveFirstName ==
    /\ agent.pc = "list" /\ Answered("name")
    /\ agent' = [agent EXCEPT !.listing = {Answer.name}, !.pc = "next",
                             !.todo = {Answer.name}]
    /\ UNCHANGED <<promise, source, files, server, ghosts>>
ReceiveName ==
    /\ agent.pc = "list" /\ Answered("name")
    /\ agent' = [agent EXCEPT !.listing = @ \cup {Answer.name}]
    /\ UNCHANGED <<promise, source, files, server, ghosts>>
ReceiveEnd ==
    /\ agent.pc = "list" /\ Answered("end")
    /\ agent' = [agent EXCEPT !.pc = "next", !.todo = agent.listing]
    /\ UNCHANGED <<promise, source, files, server, ghosts>>
(* At the end of the stream what has been received is the listing. *)
ReceiveNothing ==
    /\ agent.pc = "list" /\ promise.remote /\ Lost
    /\ agent' = [agent EXCEPT !.pc = "next", !.todo = agent.listing]
    /\ cut' = TRUE
    /\ UNCHANGED <<promise, source, files, net, server, changes, faults, why,
                   there, owed>>
ReceiveError ==
    /\ agent.pc = "list" /\ promise.remote /\ Lost
    /\ Finish
    /\ UNCHANGED <<promise, source, files, ghosts>>
cfreaddir ==
    /\ agent.pc = "list" /\ ~promise.remote
    /\ LET present == {n \in Name : source[n] # Absent}
       IN  /\ agent' = [agent EXCEPT !.pc = "next", !.listing = present,
                                     !.todo = present]
           /\ there' = present
    /\ UNCHANGED <<promise, source, files, net, server, changes, faults, why,
                   cut, owed>>

---------------------------------------------------------------------------
(* RecursiveImage and CheckImage: the next file *)

(* ImageCopy: whether the file has to be copied, or must be compared. *)
MustCopy(n, size) ==
    \/ dest[n] = Absent
    \/ promise.type = "time" /\ dest[n].outdated
    \/ promise.type = "checksum" /\ Len(dest[n].data) # size
\* MUTANT of MustCompare: files of the same size are taken to be the same.
NeverCompare(n, size) == FALSE
MustCompare(n, size) == promise.type = "checksum" /\ ~MustCopy(n, size)

RecursiveImage ==
    /\ agent.pc = "next"
    /\ \E n \in agent.todo :
          LET file == [agent EXCEPT !.name = n, !.todo = @ \ {n}]
              size == IF source[n] = Absent THEN 0 ELSE Size[source[n]]
          IN  IF promise.remote
              THEN /\ agent' = [file EXCEPT !.pc = "stat"]
                   /\ Ask([kind |-> "stat", name |-> n])
              ELSE /\ UNCHANGED net
                   /\ agent' =
                        IF source[n] = Absent THEN file
                        ELSE IF \/ MustCopy(n, size)
                                \/ /\ MustCompare(n, size)
                                   /\ dest[n].data # Blocks(source[n])
                        THEN [file EXCEPT !.pc = "copy", !.size = size]
                        ELSE file
    /\ why' = {}
    /\ UNCHANGED <<promise, source, files, server, changes, faults, there, cut,
                   owed>>

(* cf_rstat *)
ReceiveStat ==
    /\ agent.pc = "stat" /\ Answered("stat")
    /\ LET n == agent.name
           size == Answer.size
       IN  agent' = [agent EXCEPT !.size = size,
                        !.pc = CASE MustCopy(n, size) -> "copy"
                                 [] MustCompare(n, size) -> "compare"
                                 [] OTHER -> "next"]
    /\ UNCHANGED <<promise, source, files, server, ghosts>>
StatFails ==
    /\ agent.pc = "stat" /\ Unanswered("stat")
    /\ Goto("next")
    /\ UNCHANGED <<promise, source, files, server, ghosts>>

(* CompareMD5Net: without an answer the files are taken to be the same. *)
AskMD5 ==
    /\ agent.pc \in {"compare", "verify"} /\ promise.remote
    /\ Ask([kind |-> "md5", name |-> agent.name,
            data |-> IF agent.pc = "compare" THEN dest[agent.name].data
                     ELSE new[agent.name].data])
    /\ Goto(IF agent.pc = "compare" THEN "compared" ELSE "verified")
    /\ UNCHANGED <<promise, source, files, server, ghosts>>
ReceiveMD5 ==
    /\ agent.pc = "compared" /\ Answered("md5")
    /\ Goto(IF Answer.differs THEN "copy" ELSE "next")
    /\ UNCHANGED <<promise, source, files, server, ghosts>>
MD5Fails ==
    /\ agent.pc = "compared" /\ Unanswered("md5")
    /\ Goto("next")
    /\ UNCHANGED <<promise, source, files, server, ghosts>>

---------------------------------------------------------------------------
(* CopyRegNet and CopyRegDisk *)

(* A connection on which a write to the disk failed is not used again. *)
Refrain ==
    /\ agent.pc = "copy" /\ promise.remote /\ agent.error
    /\ Goto("next")
    /\ UNCHANGED <<promise, source, files, net, server, ghosts>>
AskFile ==
    /\ agent.pc = "copy" /\ promise.remote /\ ~agent.error
    /\ new' = [new EXCEPT ![agent.name] = File(<<>>, FALSE)]
    /\ Ask([kind |-> "get", name |-> agent.name])
    /\ agent' = [agent EXCEPT !.pc = "receive", !.total = 0]
    /\ UNCHANGED <<promise, source, dest, saved, archive, server, ghosts>>

Write(block) == new' = [new EXCEPT ![agent.name].data = Append(@, block),
                                     ![agent.name].outdated = FALSE]
ReceiveBlock ==
    /\ agent.pc = "receive" /\ Answered("block")
    /\ Write(Answer.block)
    /\ agent' = [agent EXCEPT !.total = @ + 1,
                    !.pc = IF agent.total + 1 >= agent.size THEN "back up" ELSE @]
    /\ UNCHANGED <<promise, source, dest, saved, archive, server, ghosts>>
(* The connection was lost inside a block: a block is written all the same. *)
ReceivePart ==
    /\ agent.pc = "receive" /\ Answered("part")
    /\ Write(Garbage)
    /\ agent' = [agent EXCEPT !.total = @ + 1,
                    !.pc = IF agent.total + 1 >= agent.size THEN "back up" ELSE @]
    /\ UNCHANGED <<promise, source, dest, saved, archive, server, ghosts>>
ReceiveChanged ==
    /\ agent.pc = "receive" /\ Answered("changed")
    /\ Goto("next")
    /\ UNCHANGED <<promise, source, files, server, ghosts>>
(* A refusal is shorter than a block and so does not end the wait. *)
ReceiveRefusal ==
    /\ agent.pc = "receive" /\ Answered("refused")
    /\ UNCHANGED <<promise, source, files, agent, server, ghosts>>
(* At the end of the stream the file is taken as it is; after an error of   *)
(* recv it is given up.                                                     *)
ReceiveNoMore ==
    /\ agent.pc = "receive" /\ Lost
    /\ Goto("back up") \/ Goto("next")
    /\ UNCHANGED <<promise, source, files, net, server, ghosts>>

(* EmbeddedWrite fails; FlushToEnd reads the blocks that are still due. *)
WriteFails ==
    /\ agent.pc = "receive" /\ Answered("block") /\ faults < MaxFaults
    /\ faults' = faults + 1
    /\ new' = [new EXCEPT ![agent.name] = Absent]
    /\ agent' = [agent EXCEPT !.total = @ + 1, !.error = TRUE, !.pc = "flush"]
    /\ UNCHANGED <<promise, source, dest, saved, archive, server, changes, why,
                   there, cut, owed>>
FlushToEnd ==
    /\ agent.pc = "flush"
    /\ \/ agent.total < agent.size /\ Arrived /\ Received
          /\ agent' = [agent EXCEPT !.total = @ + 1]
       \/ (agent.total >= agent.size \/ Lost) /\ Goto("next") /\ UNCHANGED net
    /\ UNCHANGED <<promise, source, files, server, ghosts>>

OpenSource ==
    /\ agent.pc = "copy" /\ ~promise.remote
    /\ LET n == agent.name
       IN  IF source[n] = Absent
           THEN /\ new' = [new EXCEPT ![n] = Absent]
                /\ Goto("next") /\ UNCHANGED server
           ELSE /\ new' = [new EXCEPT ![n] = File(<<>>, FALSE)]
                /\ server' = [Waiting EXCEPT !.name = n, !.file = source[n]]
                /\ Goto("read")
    /\ UNCHANGED <<promise, source, dest, saved, archive, net, ghosts>>
CopyRegDisk ==
    /\ agent.pc = "read"
    /\ IF server.pos < Size[server.file]
       THEN /\ Write(<<server.file, server.pos + 1>>)
            /\ server' = [server EXCEPT !.pos = @ + 1]
            /\ UNCHANGED agent
       ELSE Goto("back up") /\ server' = Waiting /\ UNCHANGED new
    /\ UNCHANGED <<promise, source, dest, saved, archive, net, ghosts>>
DiskFull ==
    /\ agent.pc = "read" /\ faults < MaxFaults
    /\ faults' = faults + 1
    /\ new' = [new EXCEPT ![agent.name] = Absent]
    /\ Goto("next") /\ server' = Waiting
    /\ UNCHANGED <<promise, source, dest, saved, archive, net, changes, why,
                   there, cut, owed>>

---------------------------------------------------------------------------
(* CopyReg: the new file takes the place of the old one *)

Unsave ==
    /\ agent.pc = "back up"
    /\ saved' = IF promise.backup THEN [saved EXCEPT ![agent.name] = Absent]
                ELSE saved
    /\ Goto(IF promise.backup THEN "save" ELSE "measure")
    /\ UNCHANGED <<promise, source, dest, new, archive, net, server, ghosts>>
Save ==
    /\ agent.pc = "save"
    /\ saved' = [saved EXCEPT ![agent.name] = dest[agent.name]]
    /\ dest' = [dest EXCEPT ![agent.name] = Absent]
    /\ Goto("measure")
    /\ UNCHANGED <<promise, source, new, archive, net, server, ghosts>>

(* The backup is put back, if there is one. *)
Restored(n) == promise.backup /\ saved[n] # Absent
\* MUTANT of GiveUp: the backup is left where it is.
GiveUpUnrestored(n) == Goto("next") /\ UNCHANGED <<dest, saved>>
GiveUp(n) ==
    /\ dest' = IF Restored(n) THEN [dest EXCEPT ![n] = saved[n]] ELSE dest
    /\ saved' = IF Restored(n) THEN [saved EXCEPT ![n] = Absent] ELSE saved
    /\ Goto("next")
\* MUTANT of Measure: the sizes are not compared.
MeasureNothing ==
    /\ agent.pc = "measure"
    /\ Goto(IF promise.verify THEN "verify" ELSE "install")
    /\ UNCHANGED <<promise, source, files, net, server, ghosts>>
Measure ==
    /\ agent.pc = "measure"
    /\ IF Len(new[agent.name].data) # agent.size THEN GiveUp(agent.name)
       ELSE Goto(IF promise.verify THEN "verify" ELSE "install")
            /\ UNCHANGED <<dest, saved>>
    /\ UNCHANGED <<promise, source, new, archive, net, server, ghosts>>

(* CompareCheckSums of the new file; without an answer it is taken as good. *)
VerifyNet ==
    /\ agent.pc = "verified"
    /\ \/ /\ Answered("md5")
          /\ IF Answer.differs THEN GiveUp(agent.name)
             ELSE Goto("install") /\ UNCHANGED <<dest, saved>>
       \/ Unanswered("md5") /\ Goto("install") /\ UNCHANGED <<dest, saved>>
    /\ UNCHANGED <<promise, source, new, archive, server, ghosts>>
(* The digest of a file that cannot be opened is that of the file before. *)
VerifyDisk ==
    /\ agent.pc = "verify" /\ ~promise.remote
    /\ LET n == agent.name
       IN  \E differs \in IF source[n] = Absent THEN BOOLEAN
                          ELSE {Blocks(source[n]) # new[n].data} :
              IF differs THEN GiveUp(n)
              ELSE Goto("install") /\ UNCHANGED <<dest, saved>>
    /\ UNCHANGED <<promise, source, new, archive, net, server, ghosts>>

Install ==
    /\ agent.pc = "install"
    /\ dest' = [dest EXCEPT ![agent.name] = [new[agent.name] EXCEPT !.why = why]]
    /\ new' = [new EXCEPT ![agent.name] = Absent]
    /\ Goto(IF promise.backup /\ promise.repository /\ saved[agent.name] # Absent
            THEN "archive" ELSE "next")
    /\ owed' = owed \cup {agent.name}
    /\ UNCHANGED <<promise, source, saved, archive, net, server, changes, faults,
                   why, there, cut>>
(* Repository, with a copy that does not fail. *)
Archive ==
    /\ agent.pc = "archive"
    /\ archive' = [archive EXCEPT ![agent.name] = saved[agent.name]]
    /\ saved' = [saved EXCEPT ![agent.name] = Absent]
    /\ Goto("next")
    /\ UNCHANGED <<promise, source, dest, new, net, server, ghosts>>

---------------------------------------------------------------------------
(* PurgeFiles *)

EndOfFiles ==
    /\ agent.pc = "next" /\ agent.todo = {}
    /\ IF promise.purge THEN Goto("purge") /\ UNCHANGED <<net, server>> ELSE Finish
    /\ UNCHANGED <<promise, source, files, ghosts>>
Unlisted == {n \in Name : dest[n] # Absent} \ agent.listing
PurgeFile ==
    /\ agent.pc = "purge"
    /\ \E n \in Unlisted : /\ dest' = [dest EXCEPT ![n] = Absent]
                           /\ owed' = owed \ {n}
    /\ UNCHANGED <<promise, source, saved, new, archive, agent, net, server,
                   changes, faults, why, there, cut>>
(* The source has no files of these names, so they are purged as well. *)
PurgeSaved ==
    /\ agent.pc = "purge"
    /\ \E n \in Name :
          \/ /\ saved[n] # Absent
             /\ saved' = [saved EXCEPT ![n] = Absent] /\ UNCHANGED new
          \/ /\ new[n] # Absent
             /\ new' = [new EXCEPT ![n] = Absent] /\ UNCHANGED saved
    /\ UNCHANGED <<promise, source, dest, archive, agent, net, server, ghosts>>
EndOfPurge ==
    /\ agent.pc = "purge" /\ Unlisted = {}
    /\ \A n \in Name : saved[n] = Absent /\ new[n] = Absent
    /\ Finish
    /\ UNCHANGED <<promise, source, files, ghosts>>

---------------------------------------------------------------------------
(* cfservd *)

(* The thread answers one request after the other. *)
Asked(kind) == /\ server.file = Absent
               /\ net.asked # Absent /\ net.asked.kind = kind
Reply(messages) == net' = [net EXCEPT !.asked = Absent, !.in = @ \o messages]

CfOpenDirectory ==
    /\ Asked("dir")
    /\ there' = {n \in Name : source[n] # Absent}
    /\ LET names == SetToSeq(there')
       IN  Reply([i \in DOMAIN names |-> [kind |-> "name", name |-> names[i]]]
                 \o <<[kind |-> "end"]>>)
    /\ UNCHANGED <<promise, source, files, agent, server, changes, faults, why,
                   cut, owed>>
StatFile ==
    /\ Asked("stat")
    /\ LET v == source[net.asked.name]
       IN  Reply(<<IF v = Absent THEN [kind |-> "refused"]
                   ELSE [kind |-> "stat", size |-> Size[v]]>>)
    /\ why' = why \ {"changed"}
    /\ UNCHANGED <<promise, source, files, agent, server, changes, faults, there,
                   cut, owed>>
CompareLocalChecksum ==
    /\ Asked("md5")
    /\ LET v == source[net.asked.name]
       IN  Reply(<<IF v = Absent THEN [kind |-> "refused"]
                   ELSE [kind |-> "md5", differs |-> Blocks(v) # net.asked.data]>>)
    /\ UNCHANGED <<promise, source, files, agent, server, ghosts>>
GetFile ==
    /\ Asked("get")
    /\ LET v == source[net.asked.name]
       IN  IF v = Absent
           THEN Reply(<<[kind |-> "refused"]>>) /\ UNCHANGED server
           ELSE /\ Reply(<<>>)
                /\ server' = [Waiting EXCEPT !.name = net.asked.name, !.file = v,
                                           !.size = Size[v]]
    /\ UNCHANGED <<promise, source, files, agent, ghosts>>
(* The size is looked at again before every third block.  Of a block behind *)
(* the size nothing is sent.                                                *)
CfGetFile ==
    /\ promise.remote /\ server.file # Absent
    /\ LET v == source[server.name]
           size == IF server.count % 3 = 0 /\ v # Absent THEN Size[v]
                   ELSE server.size
           left == server.size - server.pos
       IN  CASE server.pos >= Size[server.file] ->
                   server' = Waiting /\ UNCHANGED net
             [] server.pos < Size[server.file] /\ size # server.size ->
                   server' = Waiting /\ Reply(<<[kind |-> "changed"]>>)
             [] OTHER ->
                   /\ server' = [server EXCEPT !.pos = @ + 1, !.count = @ + 1]
                   /\ IF left > 0
                      THEN Reply(<<[kind |-> "block",
                                    block |-> <<server.file, server.pos + 1>>]>>)
                      ELSE UNCHANGED net
    /\ UNCHANGED <<promise, source, files, agent, ghosts>>

---------------------------------------------------------------------------
(* What goes on around the two programs *)

Outdated(file, n) ==
    [file EXCEPT ![n] = IF @ = Absent THEN @ ELSE [@ EXCEPT !.outdated = TRUE]]
(* The administrator writes into a file, replaces it by another one, or     *)
(* removes it.  A file that is open and replaced or removed is still read.  *)
Change ==
    /\ changes < MaxChanges
    /\ changes' = changes + 1
    /\ \E n \in Name, how \in {"write", "rename", "remove"}, v \in Version :
          /\ how = "write" => source[n] # Absent
          /\ source[n] # v
          /\ source' = [source EXCEPT ![n] = IF how = "remove" THEN Absent ELSE v]
          /\ dest' = Outdated(dest, n) /\ saved' = Outdated(saved, n)
          /\ new' = Outdated(new, n)
          /\ server' =
               IF server.name # n THEN server
               ELSE IF how # "write" THEN [server EXCEPT !.linked = FALSE]
               ELSE [server EXCEPT !.file = IF server.linked THEN v ELSE @]
          /\ why' = IF agent.name = n THEN why \cup {"changed"} ELSE why
    /\ UNCHANGED <<promise, archive, agent, net, faults, there, cut, owed>>

(* Of what is under way a part still arrives. *)
Lose ==
    /\ net.up /\ faults < MaxFaults
    /\ faults' = faults + 1
    /\ \E k \in 0..Len(net.in) :
          LET arrives == SubSeq(net.in, 1, k)
          IN  \/ net' = [Closed EXCEPT !.in = arrives]
             \/ /\ k < Len(net.in) /\ net.in[k + 1].kind = "block"
                /\ net' = [Closed EXCEPT !.in = Append(arrives, [kind |-> "part"])]
    /\ server' = Waiting
    /\ why' = why \cup {"lost"}
    /\ UNCHANGED <<promise, source, files, agent, changes, there, cut, owed>>

(* The agent is killed, or the host crashes. *)
Kill ==
    /\ agent.pc # "idle" /\ faults < MaxFaults
    /\ faults' = faults + 1
    /\ Finish
    /\ owed' = {n \in owed : dest[n] # Absent}
    /\ UNCHANGED <<promise, source, files, changes, why, there, cut>>
(* An agent that waits for ever is killed by a later one when its locks     *)
(* have expired (locks.c).                                                  *)
Stuck ==
    /\ agent.pc \in {"list", "stat", "compared", "verified", "receive", "flush"}
    /\ net.up /\ ~Arrived /\ net.asked = Absent /\ server.file = Absent
    /\ agent.pc = "flush" => agent.total < agent.size
Expire ==
    /\ Stuck
    /\ Finish
    /\ owed' = {n \in owed : dest[n] # Absent}
    /\ UNCHANGED <<promise, source, files, changes, faults, why, there, cut>>

---------------------------------------------------------------------------
Listing == ReceiveName \/ ReceiveEnd \/ ReceiveNothing \/ ReceiveError \/ cfreaddir
Checking == \/ RecursiveImage \/ ReceiveStat \/ StatFails
            \/ AskMD5 \/ ReceiveMD5 \/ MD5Fails
Copying == \/ Refrain \/ AskFile \/ ReceiveBlock \/ ReceivePart
           \/ ReceiveChanged \/ ReceiveRefusal \/ ReceiveNoMore
           \/ FlushToEnd \/ OpenSource \/ CopyRegDisk
Installing == \/ Unsave \/ Save \/ Measure \/ VerifyNet \/ VerifyDisk
              \/ Install \/ Archive
Purging == EndOfFiles \/ PurgeFile \/ PurgeSaved \/ EndOfPurge
Agent == Connect \/ Listing \/ Checking \/ Copying \/ Installing \/ Purging
Server == \/ CfOpenDirectory \/ StatFile \/ CompareLocalChecksum
          \/ GetFile \/ CfGetFile
Fault == WriteFails \/ DiskFull \/ Lose \/ Kill

Next == Agent \/ Server \/ Change \/ Fault \/ Expire

(* cfexecd starts agents for ever, and an agent and a thread that can go on *)
(* do so.                                                                   *)
Spec == /\ Init /\ [][Next]_vars
        /\ WF_vars(Agent) /\ WF_vars(Server) /\ WF_vars(Expire)

---------------------------------------------------------------------------
(* Properties *)

(* A file is whole when it is a version of the source, or the one that was  *)
(* there before.                                                            *)
Whole(data) == data = Original \/ \E v \in Version : data = Blocks(v)

(* What is installed is a version of the source.  Only when the source was  *)
(* changed between the answer to STAT and the last block may it be a        *)
(* mixture, and only when the connection was lost in the middle of the last *)
(* block may the end of that block be what the buffer held before: the      *)
(* comparison of the sizes (image.c:1639) does not see either.  In          *)
(* particular what is left of one file on the connection never comes to be  *)
(* the contents of another.                                                 *)
DamageBounded ==
    \A n \in Name :
        dest[n] # Absent /\ ~Whole(dest[n].data) =>
            /\ dest[n].data # <<>>
            /\ \/ "changed" \in dest[n].why
               \/ /\ "lost" \in dest[n].why
                  /\ Last(dest[n].data) = Garbage
                  /\ \E v \in Version :
                        /\ Size[v] = Len(dest[n].data)
                        /\ Front(dest[n].data) = Front(Blocks(v))

(* A file that was at the destination is there or next to it as .cfsaved,   *)
(* until it is purged or the agent is killed between the two renames: no    *)
(* lost connection, full disk or failed comparison leaves less than the old *)
(* file (image.c:1614-1748).                                                *)
NothingLost ==
    \A n \in owed : dest[n] # Absent \/ saved[n] # Absent

(* PurgeFiles removes a file that the source had when it was listed only if *)
(* the connection was lost during the listing: cf_ropendir returns what it  *)
(* has got as if it were all (client.c:360).                                *)
PurgesUnlisted ==
    [][\A n \in Name :
          agent.pc = "purge" /\ dest[n] # Absent /\ dest'[n] = Absent
              => cut \/ n \notin there]_vars

(* Once the source is left alone and nothing fails any more, a promise of   *)
(* type checksum makes the files equal to the source, whatever was damaged  *)
(* before, and one with purge removes what the source does not have.        *)
Agree ==
    \A n \in Name :
        IF source[n] # Absent
        THEN dest[n] # Absent /\ dest[n].data = Blocks(source[n])
        ELSE promise.purge => dest[n] = Absent
Converges == promise.type = "checksum" => <>[]Agree
=============================================================================
