----------------------------- MODULE CopyProofs -----------------------------
(* Proofs about Copy, for any files, versions and promises, and any number  *)
(* of changes of the source and of faults.                                  *)
EXTENDS Copy, FiniteSetTheorems, SequenceTheorems, TLAPS

Where == {"idle", "list", "next", "stat", "compare", "compared", "copy",
          "receive", "flush", "read", "back up", "save", "measure", "verify",
          "verified", "install", "archive", "purge"}
(* Where a .cfnew is being written, or waits to be installed. *)
WithNew == {"receive", "read", "back up", "save", "measure", "verify",
            "verified", "install"}
(* Where the agent is about a file. *)
WithName == WithNew \cup {"stat", "compare", "compared", "copy", "flush",
                          "archive"}
(* Where the old file may be away. *)
InTransit == {"measure", "verify", "verified", "install"}

Message ==
    [kind : {"name"}, name : Name] \cup [kind : {"end", "refused", "part", "changed"}]
    \cup [kind : {"stat"}, size : Nat \ {0}] \cup [kind : {"md5"}, differs : BOOLEAN]
    \cup [kind : {"block"}, block : Block]
Request ==
    [kind : {"dir"}] \cup [kind : {"stat", "get"}, name : Name]
    \cup [kind : {"md5"}, name : Name, data : Seq(Block)]

Slot == FileRecord \cup {Absent}
AgentState == [pc : Where, name : Name \cup {Absent}, todo : SUBSET Name,
               listing : SUBSET Name, size : Nat, total : Nat, error : BOOLEAN]
NetState == [up : BOOLEAN, asked : Request \cup {Absent}, in : Seq(Message)]
ServerState == [name : Name \cup {Absent}, file : Version \cup {Absent},
                linked : BOOLEAN, pos : Nat, size : Nat, count : Nat]

FilesTyped ==
    /\ dest \in [Name -> Slot] /\ saved \in [Name -> Slot]
    /\ new \in [Name -> Slot] /\ archive \in [Name -> Slot]
StateTyped ==
    /\ promise \in Promise /\ source \in [Name -> Version \cup {Absent}]
    /\ agent \in AgentState /\ net \in NetState /\ server \in ServerState
    /\ why \in SUBSET {"changed", "lost"} /\ there \in SUBSET Name
    /\ cut \in BOOLEAN /\ owed \in SUBSET Name
(* What a step takes for granted about the file it is about. *)
Named ==
    /\ agent.pc \in WithName => agent.name \in Name
    /\ agent.pc \in WithNew => new[agent.name] \in FileRecord
    /\ agent.pc = "compare" => dest[agent.name] \in FileRecord
    /\ agent.pc = "read" => ~promise.remote /\ server.file \in Version
    /\ server.file # Absent => server.name \in Name

Typed == FilesTyped /\ StateTyped /\ Named

(* Only what is on a server is asked for, over a connection that is up.     *)
Online ==
    /\ net.up => promise.remote
    /\ net.asked # Absent => net.up

-----------------------------------------------------------------------------
LEMMA Constants ==
  /\ IsFiniteSet(Name) /\ Absent \notin Name /\ Absent \notin Version
  /\ Version \subseteq Nat /\ 1 \in Version
  /\ \A v \in Version : Size[v] \in {1, 2}
  /\ \A p \in Promise : /\ p.remote \in BOOLEAN /\ p.backup \in BOOLEAN
                        /\ p.repository \in BOOLEAN /\ p.purge \in BOOLEAN
                        /\ p.verify \in BOOLEAN /\ p.type \in {"checksum", "time"}
BY CopyAssumption

LEMMA SizesTyped == \A v \in Version : Size[v] \in Nat \ {0} /\ Size[v] \in {1, 2}
BY CopyAssumption

LEMMA FileFields ==
  /\ Absent \notin FileRecord
  /\ \A f \in FileRecord : /\ f.data \in Seq(Block) /\ f.outdated \in BOOLEAN
                           /\ f.why \in SUBSET {"changed", "lost"}
  /\ \A data \in Seq(Block), outdated \in BOOLEAN, w \in SUBSET {"changed", "lost"} :
        [data |-> data, outdated |-> outdated, why |-> w] \in FileRecord
BY AbsentAssumption DEF FileRecord

LEMMA FileChanges ==
  ASSUME NEW f \in FileRecord
  PROVE  /\ \A b \in BOOLEAN : [f EXCEPT !.outdated = b] \in FileRecord
         /\ \A w \in SUBSET {"changed", "lost"} : [f EXCEPT !.why = w] \in FileRecord
         /\ \A b \in Block : [f EXCEPT !.data = Append(@, b), !.outdated = FALSE]
                                \in FileRecord
<1>1. \A b \in Block : Append(f.data, b) \in Seq(Block)
  BY FileFields, AppendProperties
<1>. QED
  BY <1>1 DEF FileRecord

LEMMA BlocksTyped ==
  /\ Original \in Seq(Block)
  /\ \A v \in Version, i \in {1, 2} : <<v, i>> \in Block
  /\ Garbage \in Block
BY DEF Original, Block

LEMMA MessageFields ==
  /\ \A m \in Message : /\ m.kind = "name" => m.name \in Name
                        /\ m.kind = "stat" => m.size \in Nat \ {0}
                        /\ m.kind = "block" => m.block \in Block
  /\ \A n \in Name : [kind |-> "name", name |-> n] \in Message
  /\ \A k \in {"end", "refused", "part", "changed"} : [kind |-> k] \in Message
  /\ \A s \in Nat \ {0} : [kind |-> "stat", size |-> s] \in Message
  /\ \A b \in BOOLEAN : [kind |-> "md5", differs |-> b] \in Message
  /\ \A b \in Block : [kind |-> "block", block |-> b] \in Message
BY DEF Message

LEMMA RequestFields ==
  /\ \A r \in Request : r.kind \in {"stat", "get", "md5"} => r.name \in Name
  /\ [kind |-> "dir"] \in Request
  /\ \A n \in Name : /\ [kind |-> "stat", name |-> n] \in Request
                     /\ [kind |-> "get", name |-> n] \in Request
                     /\ \A d \in Seq(Block) :
                           [kind |-> "md5", name |-> n, data |-> d] \in Request
BY DEF Request

(* What arrives, and what sending and receiving does to the connection. *)
LEMMA AnswerTyped ==
  ASSUME net \in NetState, Arrived
  PROVE  Answer \in Message /\ [net EXCEPT !.in = Tail(@)] \in NetState
<1>1. net.in \in Seq(Message) /\ net.in # <<>>
  BY DEF NetState, Arrived
<1>2. Head(net.in) \in Message /\ Tail(net.in) \in Seq(Message)
  BY <1>1, HeadTailProperties
<1>. QED
  BY <1>2 DEF Answer, NetState

LEMMA AskTyped ==
  ASSUME net \in NetState, NEW r \in Request, Ask(r)
  PROVE  net' \in NetState
BY DEF Ask, NetState

LEMMA ReplyTyped ==
  ASSUME net \in NetState, NEW ms \in Seq(Message), Reply(ms)
  PROVE  net' \in NetState
<1>1. net.in \o ms \in Seq(Message)
  BY ConcatProperties DEF NetState
<1>. QED
  BY <1>1 DEF Reply, NetState

LEMMA AskedTyped ==
  ASSUME net \in NetState, NEW k \in {"dir", "stat", "get", "md5"}, Asked(k)
  PROVE  /\ net.asked \in Request /\ net.asked.kind = k
         /\ k # "dir" => net.asked.name \in Name
BY RequestFields DEF Asked, NetState

(* The sequence in which a set of files is listed. *)
LEMMA ListedAll ==
  ASSUME NEW S \in SUBSET Name
  PROVE  /\ SetToSeq(S) \in Seq(S)
         /\ \A n \in S : \E i \in DOMAIN SetToSeq(S) : SetToSeq(S)[i] = n
<1>1. IsFiniteSet(S) /\ Cardinality(S) \in Nat
  BY Constants, FS_Subset, FS_CardinalityType
<1>2. IsFiniteSet(1..Cardinality(S)) /\ Cardinality(1..Cardinality(S)) = Cardinality(S)
  BY <1>1, FS_Interval
<1>3. ExistsBijection(1..Cardinality(S), S)
  BY <1>1, <1>2, FS_SameCardinalityBij
<1>4. \E f \in [1..Cardinality(S) -> S] : IsInjective(f)
  BY <1>3 DEF ExistsBijection, Bijection, Injection
<1>5. SetToSeq(S) \in [1..Cardinality(S) -> S] /\ IsInjective(SetToSeq(S))
  BY <1>4 DEF SetToSeq
<1>6. SetToSeq(S) \in Injection(1..Cardinality(S), S)
  BY <1>5 DEF Injection
<1>7. SetToSeq(S) \in Surjection(1..Cardinality(S), S)
  BY <1>1, <1>2, <1>6, FS_Injection
<1>. QED
  BY <1>1, <1>5, <1>7 DEF Surjection

-----------------------------------------------------------------------------
LEMMA RestTyped ==
  /\ Idle \in AgentState /\ Closed \in NetState /\ Waiting \in ServerState
  /\ \A b \in BOOLEAN, r \in Request \cup {Absent} :
        [up |-> b, asked |-> r, in |-> <<>>] \in NetState
<1>1. <<>> \in Seq(Message)
  BY EmptySeq
<1>. QED
  BY <1>1 DEF Idle, Closed, Waiting, AgentState, NetState, ServerState, Where

LEMMA OutdatedTyped ==
  ASSUME NEW f \in [Name -> Slot], NEW n \in Name
  PROVE  /\ Outdated(f, n) \in [Name -> Slot]
         /\ \A m \in Name : /\ f[m] \in FileRecord => Outdated(f, n)[m] \in FileRecord
                            /\ f[m] = Absent <=> Outdated(f, n)[m] = Absent
<1>1. \A g \in FileRecord : [g EXCEPT !.outdated = TRUE] \in FileRecord
  BY FileChanges
<1>. QED
  BY <1>1, FileFields DEF Outdated, Slot

(* The typing of the connection after an answer has been taken. *)
LEMMA ReceivedTyped ==
  ASSUME Typed, NEW k, Answered(k)
  PROVE  /\ net' \in NetState /\ Answer \in Message /\ Answer.kind = k
         /\ net'.up = net.up /\ net'.asked = net.asked
         /\ net'.in = Tail(net.in) /\ Arrived
<1>1. net \in NetState /\ Arrived /\ Received /\ Answer.kind = k
  BY DEF Typed, StateTyped, Answered
<1>. QED
  BY <1>1, AnswerTyped DEF Received, NetState

LEMMA UnansweredTyped ==
  ASSUME Typed, NEW k, Unanswered(k)
  PROVE  /\ net' \in NetState
         /\ net'.up = net.up /\ net'.asked = net.asked
         /\ \/ net'.in = net.in
            \/ Arrived /\ net'.in = Tail(net.in)
<1>1. net \in NetState
  BY DEF Typed, StateTyped
<1>2. CASE UNCHANGED net
  BY <1>1, <1>2
<1>3. CASE Arrived /\ Received
  BY <1>1, <1>3, AnswerTyped DEF Received, NetState
<1>. QED
  BY <1>2, <1>3 DEF Unanswered

(* Steps of the agent that leave the files alone. *)
LEMMA ListingTyped ==
  ASSUME Typed, Connect \/ Listing PROVE Typed'
<1>1. CASE Connect
  <2>1. net' \in NetState
    BY <1>1, RestTyped, RequestFields, Constants DEF Connect, Opened, Typed, StateTyped
  <2>. QED
    BY <1>1, <2>1, RestTyped DEF Connect, Typed, FilesTyped, StateTyped, Named, files,
       AgentState, Where, WithName, WithNew, Idle
<1>2. CASE ReceiveName
  <2>1. net' \in NetState /\ Answer.name \in Name
    BY <1>2, ReceivedTyped, MessageFields DEF ReceiveName
  <2>. QED
    BY <1>2, <2>1 DEF ReceiveName, Typed, FilesTyped, StateTyped, Named, files, ghosts,
       AgentState, Where, WithName, WithNew
<1>3. CASE ReceiveEnd
  <2>1. net' \in NetState
    BY <1>3, ReceivedTyped DEF ReceiveEnd
  <2>. QED
    BY <1>3, <2>1 DEF ReceiveEnd, Typed, FilesTyped, StateTyped, Named, files, ghosts,
       AgentState, Where, WithName, WithNew
<1>4. CASE ReceiveNothing
  BY <1>4 DEF ReceiveNothing, Typed, FilesTyped, StateTyped, Named, files, ghosts,
     AgentState, Where, WithName, WithNew
<1>5. CASE ReceiveError
  BY <1>5, RestTyped DEF ReceiveError, Finish, Typed, FilesTyped, StateTyped, Named,
     files, ghosts, AgentState, Where, WithName, WithNew, Idle, Waiting
<1>6. CASE cfreaddir
  BY <1>6 DEF cfreaddir, Typed, FilesTyped, StateTyped, Named, files, ghosts,
     AgentState, Where, WithName, WithNew
<1>. QED
  BY <1>1, <1>2, <1>3, <1>4, <1>5, <1>6 DEF Listing

LEMMA CheckingTyped ==
  ASSUME Typed, Checking PROVE Typed'
<1>1. CASE RecursiveImage
  <2>1. PICK n \in agent.todo, size \in Nat :
           LET file == [agent EXCEPT !.name = n, !.todo = @ \ {n}]
           IN  \/ /\ agent' = [file EXCEPT !.pc = "stat"]
                  /\ Ask([kind |-> "stat", name |-> n])
               \/ agent' = file /\ UNCHANGED net
               \/ agent' = [file EXCEPT !.pc = "copy", !.size = size] /\ UNCHANGED net
    <3>1. \A n \in agent.todo :
             (IF source[n] = Absent THEN 0 ELSE Size[source[n]]) \in Nat
      <4>1. agent.todo \subseteq Name /\ \A n \in Name : source[n] \in Version \cup {Absent}
        BY DEF Typed, StateTyped, AgentState
      <4>. QED
        BY <4>1, SizesTyped
    <3>. QED
      BY <1>1, <3>1 DEF RecursiveImage
  <2>2. n \in Name
    BY DEF Typed, StateTyped, AgentState
  <2>3. net' \in NetState
    BY <2>1, <2>2, AskTyped, RequestFields DEF Typed, StateTyped
  <2>4. agent.pc = "next" /\ why' = {}
        /\ UNCHANGED <<promise, source, files, server, changes, faults, there, cut, owed>>
    BY <1>1 DEF RecursiveImage
  <2>5. agent' \in AgentState /\ agent'.name = n /\ agent'.pc \in {"next", "stat", "copy"}
    <3>1. agent \in AgentState /\ agent.pc = "next"
      BY <2>4 DEF Typed, StateTyped
    <3>2. \/ agent' = [agent EXCEPT !.name = n, !.todo = @ \ {n}, !.pc = "stat"]
          \/ agent' = [agent EXCEPT !.name = n, !.todo = @ \ {n}]
          \/ agent' = [agent EXCEPT !.name = n, !.todo = @ \ {n}, !.pc = "copy",
                                    !.size = size]
      BY <2>1, <3>1 DEF AgentState
    <3>. QED
      BY ZenonT(120), <2>1, <2>2, <3>1, <3>2 DEF AgentState, Where
  <2>. QED
    BY <2>2, <2>3, <2>4, <2>5 DEF Typed, FilesTyped, StateTyped, Named, files, WithName,
       WithNew
<1>2. CASE ReceiveStat
  <2>1. net' \in NetState /\ Answer.size \in Nat
    BY <1>2, ReceivedTyped, MessageFields DEF ReceiveStat
  <2>. QED
    BY ZenonT(40), <1>2, <2>1, FileFields DEF ReceiveStat, MustCompare, MustCopy, Slot, Goto, Typed, FilesTyped, StateTyped, Named, files, ghosts, AgentState,
       Where, WithName, WithNew
<1>3. CASE StatFails
  <2>1. net' \in NetState
    BY <1>3, UnansweredTyped DEF StatFails
  <2>. QED
    BY <1>3, <2>1 DEF StatFails, Goto, Typed, FilesTyped, StateTyped, Named, files, ghosts, AgentState,
       Where, WithName, WithNew
<1>4. CASE AskMD5
  <2>1. agent.name \in Name
    BY <1>4 DEF AskMD5, Typed, Named, WithName, WithNew
  <2>2. PICK d \in Seq(Block) : Ask([kind |-> "md5", name |-> agent.name, data |-> d])
    <3>1. CASE agent.pc = "compare"
      <4>1. dest[agent.name].data \in Seq(Block)
        BY <3>1, FileFields DEF Typed, Named
      <4>. QED
        BY <1>4, <3>1, <4>1 DEF AskMD5
    <3>2. CASE agent.pc = "verify"
      <4>1. new[agent.name].data \in Seq(Block)
        BY <3>2, FileFields DEF Typed, Named, WithNew
      <4>. QED
        BY <1>4, <3>2, <4>1 DEF AskMD5
    <3>. QED
      BY <1>4, <3>1, <3>2 DEF AskMD5
  <2>3. net' \in NetState
    BY <2>1, <2>2, AskTyped, RequestFields DEF Typed, StateTyped
  <2>. QED
    BY <1>4, <2>1, <2>3 DEF AskMD5, Goto, Typed, FilesTyped, StateTyped, Named, files, ghosts, AgentState,
       Where, WithName, WithNew
<1>5. CASE ReceiveMD5
  <2>1. net' \in NetState
    BY <1>5, ReceivedTyped DEF ReceiveMD5
  <2>. QED
    BY <1>5, <2>1 DEF ReceiveMD5, Goto, Typed, FilesTyped, StateTyped, Named, files, ghosts, AgentState,
       Where, WithName, WithNew
<1>6. CASE MD5Fails
  <2>1. net' \in NetState
    BY <1>6, UnansweredTyped DEF MD5Fails
  <2>. QED
    BY <1>6, <2>1 DEF MD5Fails, Goto, Typed, FilesTyped, StateTyped, Named, files, ghosts, AgentState,
       Where, WithName, WithNew
<1>. QED
  BY <1>1, <1>2, <1>3, <1>4, <1>5, <1>6 DEF Checking

LEMMA WriteTyped ==
  ASSUME Typed, agent.pc \in WithNew, NEW b \in Block, Write(b)
  PROVE  new' \in [Name -> Slot] /\ new'[agent.name] \in FileRecord
<1>1. agent.name \in Name /\ new \in [Name -> Slot] /\ new[agent.name] \in FileRecord
  BY DEF Typed, FilesTyped, Named, WithName
<1>2. [new[agent.name] EXCEPT !.data = Append(@, b), !.outdated = FALSE] \in FileRecord
  BY <1>1, FileChanges
<1>3. new' = [new EXCEPT ![agent.name] =
                 [new[agent.name] EXCEPT !.data = Append(@, b), !.outdated = FALSE]]
  BY <1>1 DEF Write
<1>. QED
  BY <1>1, <1>2, <1>3 DEF Slot

(* A new file is begun, or given up. *)
LEMMA BeginTyped ==
  ASSUME Typed, agent.name \in Name, NEW f \in {Absent, File(<<>>, FALSE)},
         new' = [new EXCEPT ![agent.name] = f]
  PROVE  /\ new' \in [Name -> Slot]
         /\ f # Absent => new'[agent.name] \in FileRecord
<1>1. File(<<>>, FALSE) \in FileRecord
  BY FileFields, EmptySeq DEF File
<1>. QED
  BY <1>1 DEF Typed, FilesTyped, Slot

LEMMA CopyingTyped ==
  ASSUME Typed, Copying \/ WriteFails \/ DiskFull PROVE Typed'
<1>1. CASE Refrain
  BY <1>1 DEF Refrain, Goto, Typed, FilesTyped, StateTyped, Named, files, ghosts, AgentState,
     Where, WithName, WithNew
<1>2. CASE AskFile
  <2>1. agent.name \in Name
    BY <1>2 DEF AskFile, Typed, Named, WithName
  <2>2. net' \in NetState
    BY <1>2, <2>1, AskTyped, RequestFields DEF AskFile, Typed, StateTyped
  <2>3. new' \in [Name -> Slot] /\ new'[agent.name] \in FileRecord
    BY <1>2, <2>1, BeginTyped, FileFields, EmptySeq DEF AskFile, File
  <2>. QED
    BY <1>2, <2>1, <2>2, <2>3 DEF AskFile, Typed, FilesTyped, StateTyped, Named, files, ghosts, AgentState,
       Where, WithName, WithNew
<1>3. CASE ReceiveBlock
  <2>1. net' \in NetState /\ Answer.block \in Block
    BY <1>3, ReceivedTyped, MessageFields DEF ReceiveBlock
  <2>2. new' \in [Name -> Slot] /\ new'[agent.name] \in FileRecord
    BY <1>3, <2>1, WriteTyped DEF ReceiveBlock, WithNew
  <2>3. agent' \in AgentState /\ agent'.name = agent.name
        /\ agent'.pc \in {"receive", "back up"}
    <3>1. agent \in AgentState /\ agent.total \in Nat /\ agent.pc \in Where
      BY DEF Typed, StateTyped, AgentState
    <3>2. PICK t \in Nat : t = agent.total + 1
      BY <3>1
    <3>3. PICK p \in {"receive", "back up"} : agent' = [agent EXCEPT !.total = t, !.pc = p]
      BY <1>3, <3>2 DEF ReceiveBlock
    <3>. QED
      BY <3>1, <3>3 DEF AgentState, Where
  <2>4. /\ agent.pc \in {"receive", "flush"}
        /\ UNCHANGED <<promise, source, dest, saved, archive, server, why, there, cut, owed>>
    BY <1>3 DEF ReceiveBlock, files, ghosts
  <2>. QED
    BY <2>1, <2>2, <2>3, <2>4 DEF Typed, FilesTyped, StateTyped, Named, WithName, WithNew
<1>4. CASE ReceivePart
  <2>1. net' \in NetState /\ Garbage \in Block
    BY <1>4, ReceivedTyped, BlocksTyped DEF ReceivePart
  <2>2. new' \in [Name -> Slot] /\ new'[agent.name] \in FileRecord
    BY <1>4, <2>1, WriteTyped DEF ReceivePart, WithNew
  <2>3. agent' \in AgentState /\ agent'.name = agent.name
        /\ agent'.pc \in {"receive", "back up"}
    <3>1. agent \in AgentState /\ agent.total \in Nat /\ agent.pc \in Where
      BY DEF Typed, StateTyped, AgentState
    <3>2. PICK t \in Nat : t = agent.total + 1
      BY <3>1
    <3>3. PICK p \in {"receive", "back up"} : agent' = [agent EXCEPT !.total = t, !.pc = p]
      BY <1>4, <3>2 DEF ReceivePart
    <3>. QED
      BY <3>1, <3>3 DEF AgentState, Where
  <2>4. /\ agent.pc \in {"receive", "flush"}
        /\ UNCHANGED <<promise, source, dest, saved, archive, server, why, there, cut, owed>>
    BY <1>4 DEF ReceivePart, files, ghosts
  <2>. QED
    BY <2>1, <2>2, <2>3, <2>4 DEF Typed, FilesTyped, StateTyped, Named, WithName, WithNew
<1>5. CASE ReceiveChanged
  <2>1. net' \in NetState
    BY <1>5, ReceivedTyped DEF ReceiveChanged
  <2>. QED
    BY <1>5, <2>1 DEF ReceiveChanged, Goto, Typed, FilesTyped, StateTyped, Named, files, ghosts, AgentState,
       Where, WithName, WithNew
<1>6. CASE ReceiveRefusal
  <2>1. net' \in NetState
    BY <1>6, ReceivedTyped DEF ReceiveRefusal
  <2>. QED
    BY <1>6, <2>1 DEF ReceiveRefusal, Goto, Typed, FilesTyped, StateTyped, Named, files, ghosts, AgentState,
       Where, WithName, WithNew
<1>7. CASE ReceiveNoMore
  BY <1>7 DEF ReceiveNoMore, Goto, Typed, FilesTyped, StateTyped, Named, files, ghosts, AgentState,
     Where, WithName, WithNew
<1>8. CASE FlushToEnd
  <2>1. net' \in NetState
    BY <1>8, AnswerTyped DEF FlushToEnd, Received, Typed, StateTyped
  <2>2. agent' \in AgentState /\ agent'.name = agent.name
        /\ agent'.pc \in {"flush", "next"}
    <3>1. agent \in AgentState /\ agent.total \in Nat /\ agent.pc \in Where
      BY DEF Typed, StateTyped, AgentState
    <3>2. PICK t \in Nat : t = agent.total + 1
      BY <3>1
    <3>3. agent' = [agent EXCEPT !.total = t] \/ agent' = [agent EXCEPT !.pc = "next"]
      BY <1>8, <3>2 DEF FlushToEnd, Goto
    <3>4. agent.pc = "flush"
      BY <1>8 DEF FlushToEnd
    <3>. QED
      BY <3>1, <3>3, <3>4 DEF AgentState, Where
  <2>3. /\ agent.pc \in {"receive", "flush"}
        /\ UNCHANGED <<promise, source, dest, saved, new, archive, server, why, there, cut, owed>>
    BY <1>8 DEF FlushToEnd, files, ghosts
  <2>. QED
    BY <2>1, <2>2, <2>3 DEF Typed, FilesTyped, StateTyped, Named, WithName, WithNew
<1>9. CASE OpenSource
  <2>1. agent.name \in Name
    BY <1>9 DEF OpenSource, Typed, Named, WithName
  <2>2. CASE source[agent.name] = Absent
    <3>1. new' \in [Name -> Slot]
      BY <1>9, <2>1, <2>2, BeginTyped DEF OpenSource
    <3>. QED
      BY ZenonT(40), <1>9, <2>2, <3>1 DEF OpenSource, Goto, Typed, FilesTyped, StateTyped, Named, files, ghosts, AgentState,
         Where, WithName, WithNew
  <2>3. CASE source[agent.name] # Absent
    <3>1. new' \in [Name -> Slot] /\ new'[agent.name] \in FileRecord
      <4>1. File(<<>>, FALSE) \in FileRecord
        BY FileFields, EmptySeq DEF File
      <4>2. new' = [new EXCEPT ![agent.name] = File(<<>>, FALSE)]
        BY <1>9, <2>3 DEF OpenSource
      <4>. QED
        BY <2>1, <4>1, <4>2, BeginTyped, FileFields
    <3>2. server' \in ServerState /\ server'.name = agent.name /\ server'.file \in Version
      <4>1. source[agent.name] \in Version
        BY <2>1, <2>3 DEF Typed, StateTyped
      <4>2. server' = [Waiting EXCEPT !.name = agent.name, !.file = source[agent.name]]
        BY <1>9, <2>3 DEF OpenSource
      <4>. QED
        BY <2>1, <4>1, <4>2 DEF Waiting, ServerState
    <3>. QED
      BY ZenonT(40), <1>9, <2>1, <2>3, <3>1, <3>2 DEF OpenSource, Goto, Typed, FilesTyped, StateTyped, Named, files, ghosts, AgentState,
         Where, WithName, WithNew
  <2>. QED
    BY <2>2, <2>3
<1>10. CASE CopyRegDisk
  <2>1. server \in ServerState /\ server.file \in Version /\ ~promise.remote
    BY <1>10 DEF CopyRegDisk, Typed, StateTyped, Named
  <2>2. CASE server.pos < Size[server.file]
    <3>1. <<server.file, server.pos + 1>> \in Block
      <4>1. server.pos \in Nat /\ Size[server.file] \in {1, 2}
        BY <2>1, Constants DEF ServerState
      <4>2. server.pos + 1 \in {1, 2}
        BY <2>2, <4>1
      <4>. QED
        BY <2>1, <4>2, BlocksTyped
    <3>2. new' \in [Name -> Slot] /\ new'[agent.name] \in FileRecord
      BY <1>10, <2>2, <3>1, WriteTyped DEF CopyRegDisk, WithNew
    <3>3. server' \in ServerState /\ server'.name = server.name /\ server'.file = server.file
      BY <1>10, <2>1, <2>2 DEF CopyRegDisk, ServerState
    <3>. QED
      BY <1>10, <2>1, <2>2, <3>2, <3>3 DEF CopyRegDisk, Typed, FilesTyped, StateTyped, Named, files, ghosts, AgentState,
         Where, WithName, WithNew
  <2>3. CASE ~(server.pos < Size[server.file])
    <3>1. Goto("back up") /\ server' = Waiting /\ UNCHANGED new
      BY <1>10, <2>3 DEF CopyRegDisk
    <3>2. agent' \in AgentState /\ agent'.name = agent.name /\ agent'.pc = "back up"
      BY <3>1 DEF Goto, Typed, StateTyped, AgentState, Where
    <3>3. Waiting.file = Absent
      BY DEF Waiting
    <3>. QED
      BY <1>10, <3>1, <3>2, <3>3, RestTyped DEF CopyRegDisk, Typed, FilesTyped, StateTyped,
         Named, ghosts, WithName, WithNew
  <2>. QED
    BY <2>2, <2>3
<1>11. CASE WriteFails
  <2>1. net' \in NetState
    BY <1>11, ReceivedTyped DEF WriteFails
  <2>2. new' \in [Name -> Slot]
    BY <1>11, BeginTyped DEF WriteFails, Typed, Named, WithName, WithNew
  <2>3. agent' \in AgentState /\ agent'.name = agent.name
        /\ agent'.pc \in {"flush"}
    <3>1. agent \in AgentState /\ agent.total \in Nat /\ agent.pc \in Where
      BY DEF Typed, StateTyped, AgentState
    <3>2. PICK t \in Nat : t = agent.total + 1
      BY <3>1
    <3>3. agent' = [agent EXCEPT !.total = t, !.error = TRUE, !.pc = "flush"]
      BY <1>11, <3>2 DEF WriteFails
    <3>. QED
      BY <3>1, <3>3 DEF AgentState, Where
  <2>4. /\ agent.pc \in {"receive", "flush"}
        /\ UNCHANGED <<promise, source, dest, saved, archive, server, why, there, cut, owed>>
    BY <1>11 DEF WriteFails, files, ghosts
  <2>. QED
    BY <2>1, <2>2, <2>3, <2>4 DEF Typed, FilesTyped, StateTyped, Named, WithName, WithNew
<1>12. CASE DiskFull
  <2>1. new' \in [Name -> Slot]
    BY <1>12, BeginTyped DEF DiskFull, Typed, Named, WithName, WithNew
  <2>. QED
    BY <1>12, <2>1, RestTyped DEF DiskFull, Waiting, Goto, Typed, FilesTyped, StateTyped, Named, files, ghosts, AgentState,
       Where, WithName, WithNew
<1>. QED
  BY <1>1, <1>2, <1>3, <1>4, <1>5, <1>6, <1>7, <1>8,
     <1>9, <1>10, <1>11, <1>12 DEF Copying

(* GiveUp, once with the files. *)
LEMMA GiveUpTyped ==
  ASSUME Typed, agent.name \in Name, GiveUp(agent.name)
  PROVE  /\ dest' \in [Name -> Slot] /\ saved' \in [Name -> Slot]
         /\ agent' \in AgentState /\ agent'.name = agent.name /\ agent'.pc = "next"
<1>1. dest' \in [Name -> Slot] /\ saved' \in [Name -> Slot]
  BY DEF GiveUp, Restored, Typed, FilesTyped, Slot
<1>. QED
  BY <1>1 DEF GiveUp, Goto, Typed, StateTyped, AgentState, Where

LEMMA InstallingTyped ==
  ASSUME Typed, Installing PROVE Typed'
<1>1. CASE Unsave
  BY <1>1 DEF Unsave, Goto, Typed, FilesTyped, StateTyped, Named, ghosts, AgentState, Slot,
     Where, WithName, WithNew
<1>2. CASE Save
  BY <1>2 DEF Save, Goto, Typed, FilesTyped, StateTyped, Named, ghosts, AgentState, Slot,
     Where, WithName, WithNew
<1>3. CASE Measure
  <2>1. agent.name \in Name
    BY <1>3 DEF Measure, Typed, Named, WithName, WithNew
  <2>2. CASE GiveUp(agent.name)
    BY <1>3, <2>1, <2>2, GiveUpTyped DEF Measure, Typed, FilesTyped, StateTyped, Named,
       ghosts, WithName, WithNew
  <2>3. CASE UNCHANGED <<dest, saved>> /\ \E p \in {"verify", "install"} : Goto(p)
    BY <1>3, <2>1, <2>3 DEF Measure, Goto, Typed, FilesTyped, StateTyped, Named,
       ghosts, AgentState, Where, WithName, WithNew
  <2>. QED
    BY <1>3, <2>2, <2>3 DEF Measure
<1>4. CASE VerifyNet
  <2>1. agent.name \in Name
    BY <1>4 DEF VerifyNet, Typed, Named, WithName, WithNew
  <2>2. net' \in NetState
    BY <1>4, ReceivedTyped, UnansweredTyped DEF VerifyNet
  <2>3. CASE GiveUp(agent.name)
    BY <1>4, <2>1, <2>2, <2>3, GiveUpTyped DEF VerifyNet, Typed, FilesTyped, StateTyped, Named,
       ghosts, WithName, WithNew
  <2>4. CASE UNCHANGED <<dest, saved>> /\ Goto("install")
    BY <1>4, <2>1, <2>2, <2>4 DEF VerifyNet, Goto, Typed, FilesTyped, StateTyped, Named,
       ghosts, AgentState, Where, WithName, WithNew
  <2>. QED
    BY <1>4, <2>3, <2>4 DEF VerifyNet
<1>5. CASE VerifyDisk
  <2>1. agent.name \in Name
    BY <1>5 DEF VerifyDisk, Typed, Named, WithName, WithNew
  <2>2. CASE GiveUp(agent.name)
    BY <1>5, <2>1, <2>2, GiveUpTyped DEF VerifyDisk, Typed, FilesTyped, StateTyped, Named,
       ghosts, WithName, WithNew
  <2>3. CASE UNCHANGED <<dest, saved>> /\ Goto("install")
    BY <1>5, <2>1, <2>3 DEF VerifyDisk, Goto, Typed, FilesTyped, StateTyped, Named,
       ghosts, AgentState, Where, WithName, WithNew
  <2>. QED
    BY <1>5, <2>2, <2>3 DEF VerifyDisk
<1>6. CASE Install
  <2>1. agent.name \in Name /\ new[agent.name] \in FileRecord
        /\ why \in SUBSET {"changed", "lost"}
    BY <1>6 DEF Install, Typed, StateTyped, Named, WithName, WithNew
  <2>2. [new[agent.name] EXCEPT !.why = why] \in FileRecord
    BY <2>1, FileChanges
  <2>3. dest' \in [Name -> Slot] /\ new' \in [Name -> Slot]
    BY <1>6, <2>1, <2>2 DEF Install, Typed, FilesTyped, Slot
  <2>4. agent' \in AgentState /\ agent'.name = agent.name /\ agent'.pc \in {"archive", "next"}
    BY <1>6 DEF Install, Goto, Typed, StateTyped, AgentState, Where
  <2>. QED
    BY <1>6, <2>1, <2>3, <2>4 DEF Install, Typed, FilesTyped, StateTyped, Named, WithName, WithNew
<1>7. CASE Archive
  BY <1>7 DEF Archive, Goto, Typed, FilesTyped, StateTyped, Named, ghosts, AgentState, Slot,
     Where, WithName, WithNew
<1>. QED
  BY <1>1, <1>2, <1>3, <1>4, <1>5, <1>6, <1>7 DEF Installing

(* The end of a run, whatever brought it about. *)
LEMMA FinishTyped ==
  ASSUME Typed, Finish, UNCHANGED <<promise, source, files, there>>,
         why' \in SUBSET {"changed", "lost"}, cut' = cut, owed' \in SUBSET Name
  PROVE  Typed'
BY RestTyped DEF Finish, Typed, FilesTyped, StateTyped, Named, files, WithName, WithNew,
   Idle, Waiting

LEMMA PurgingTyped ==
  ASSUME Typed, Purging PROVE Typed'
<1>1. CASE EndOfFiles
  <2>1. CASE Finish
    BY <1>1, <2>1, FinishTyped DEF EndOfFiles, ghosts, Typed, StateTyped
  <2>2. CASE Goto("purge") /\ UNCHANGED <<net, server>>
    BY <1>1, <2>2 DEF EndOfFiles, Goto, Typed, FilesTyped, StateTyped, Named, files, ghosts,
       AgentState, Where, WithName, WithNew
  <2>. QED
    BY <1>1, <2>1, <2>2 DEF EndOfFiles
<1>2. CASE PurgeFile
  BY <1>2 DEF PurgeFile, Typed, FilesTyped, StateTyped, Named, Slot, WithName, WithNew
<1>3. CASE PurgeSaved
  BY <1>3 DEF PurgeSaved, Typed, FilesTyped, StateTyped, Named, ghosts, Slot, WithName, WithNew
<1>4. CASE EndOfPurge
  BY <1>4, FinishTyped DEF EndOfPurge, ghosts, Typed, StateTyped
<1>. QED
  BY <1>1, <1>2, <1>3, <1>4 DEF Purging


-----------------------------------------------------------------------------
(* The messages with which a listing is answered. *)
Names(S) == [i \in DOMAIN SetToSeq(S) |-> [kind |-> "name", name |-> SetToSeq(S)[i]]]
Packets(S) == Names(S) \o <<[kind |-> "end"]>>

LEMMA PacketsTyped ==
  ASSUME NEW S \in SUBSET Name
  PROVE  /\ Names(S) \in Seq(Message) /\ Packets(S) \in Seq(Message)
         /\ Len(Packets(S)) = Len(Names(S)) + 1
         /\ \A i \in 1..Len(Names(S)) : Packets(S)[i] = Names(S)[i]
<1>1. SetToSeq(S) \in Seq(S)
  BY ListedAll
<1>2. PICK k \in Nat : DOMAIN SetToSeq(S) = 1..k /\ \A i \in 1..k : SetToSeq(S)[i] \in Name
  BY <1>1
<1>3. Names(S) \in [1..k -> Message]
  BY <1>2, MessageFields DEF Names
<1>4. Names(S) \in Seq(Message) /\ <<[kind |-> "end"]>> \in Seq(Message)
  BY <1>3, MessageFields
<1>. QED
  BY <1>4, ConcatProperties DEF Packets

LEMMA SingleTyped ==
  ASSUME NEW m \in Message PROVE <<m>> \in Seq(Message)
OBVIOUS

LEMMA ServerTyped ==
  ASSUME Typed, Server PROVE Typed'
<1>0. net \in NetState
  BY DEF Typed, StateTyped
<1>1. CASE CfOpenDirectory
  <2>1. there' \in SUBSET Name /\ Reply(Packets(there'))
    BY <1>1 DEF CfOpenDirectory, Packets, Names
  <2>2. net' \in NetState
    BY <1>0, <2>1, PacketsTyped, ReplyTyped
  <2>. QED
    BY <1>1, <2>1, <2>2 DEF CfOpenDirectory, Typed, FilesTyped, StateTyped, Named, files
<1>2. CASE StatFile
  <2>1. net.asked.name \in Name
    BY <1>0, <1>2, AskedTyped DEF StatFile
  <2>2. PICK m \in Message : Reply(<<m>>)
    <3>1. source[net.asked.name] \in Version \cup {Absent}
      BY <2>1 DEF Typed, StateTyped
    <3>2. source[net.asked.name] # Absent => Size[source[net.asked.name]] \in Nat \ {0}
      BY <3>1, SizesTyped
    <3>. QED
      BY <1>2, <3>2, MessageFields DEF StatFile
  <2>3. net' \in NetState
    BY <1>0, <2>2, SingleTyped, ReplyTyped
  <2>. QED
    BY <1>2, <2>3 DEF StatFile, Typed, FilesTyped, StateTyped, Named, files
<1>3. CASE CompareLocalChecksum
  <2>1. PICK m \in Message : Reply(<<m>>)
    BY <1>3, MessageFields DEF CompareLocalChecksum
  <2>2. net' \in NetState
    BY <1>0, <2>1, SingleTyped, ReplyTyped
  <2>. QED
    BY <1>3, <2>2 DEF CompareLocalChecksum, Typed, FilesTyped, StateTyped, Named, files, ghosts
<1>4. CASE GetFile
  <2>1. net.asked.name \in Name /\ server.file = Absent
    BY <1>0, <1>4, AskedTyped DEF GetFile, Asked
  <2>2. source[net.asked.name] \in Version \cup {Absent}
    BY <2>1 DEF Typed, StateTyped
  <2>3. agent.pc # "read"
    BY <2>1, Constants DEF Typed, Named
  <2>4. CASE source[net.asked.name] = Absent
    <3>1. net' \in NetState
      BY <1>0, <1>4, <2>4, SingleTyped, ReplyTyped, MessageFields DEF GetFile
    <3>. QED
      BY <1>4, <2>4, <3>1 DEF GetFile, Typed, FilesTyped, StateTyped, Named, files, ghosts
  <2>5. CASE source[net.asked.name] # Absent
    <3>1. net' \in NetState
      BY <1>0, <1>4, <2>5, EmptySeq, ReplyTyped DEF GetFile
    <3>2. server' \in ServerState /\ server'.name \in Name
      <4>1. source[net.asked.name] \in Version /\ Size[source[net.asked.name]] \in Nat
        BY <2>2, <2>5, SizesTyped
      <4>2. PICK v \in Version, z \in Nat :
               server' = [Waiting EXCEPT !.name = net.asked.name, !.file = v, !.size = z]
        BY <1>4, <2>5, <4>1 DEF GetFile
      <4>. QED
        BY <2>1, <4>2 DEF Waiting, ServerState
    <3>. QED
      BY <1>4, <2>3, <3>1, <3>2 DEF GetFile, Typed, FilesTyped, StateTyped, Named, files, ghosts
  <2>. QED
    BY <2>4, <2>5
<1>5. CASE CfGetFile
  <2>1. server \in ServerState /\ server.name \in Name /\ server.file \in Version
        /\ server.pos \in Nat /\ server.count \in Nat
    BY <1>5 DEF CfGetFile, Typed, StateTyped, Named, ServerState
  <2>2. agent.pc # "read"
    BY <1>5 DEF CfGetFile, Typed, Named
  <2>3. server'.file # Absent => server'.name \in Name
    <3>1. PICK p \in Nat, c \in Nat : p = server.pos + 1 /\ c = server.count + 1
      BY <2>1
    <3>2. server' = Waiting \/ server' = [server EXCEPT !.pos = p, !.count = c]
      BY <1>5, <3>1 DEF CfGetFile
    <3>3. Waiting.file = Absent
      BY DEF Waiting
    <3>. QED
      BY <2>1, <3>2, <3>3 DEF ServerState
  <2>4. server' \in ServerState
    <3>1. PICK p \in Nat, c \in Nat : p = server.pos + 1 /\ c = server.count + 1
      BY <2>1
    <3>2. server' = Waiting \/ server' = [server EXCEPT !.pos = p, !.count = c]
      BY <1>5, <3>1 DEF CfGetFile
    <3>. QED
      BY <2>1, <3>1, <3>2, RestTyped DEF ServerState
  <2>5. net' \in NetState
    <3>1. UNCHANGED net \/ Reply(<<[kind |-> "changed"]>>)
          \/ /\ server.pos < Size[server.file]
             /\ Reply(<<[kind |-> "block", block |-> <<server.file, server.pos + 1>>]>>)
      BY <1>5, <2>1, SizesTyped DEF CfGetFile
    <3>2. CASE Reply(<<[kind |-> "changed"]>>)
      BY <1>0, <3>2, MessageFields, SingleTyped, ReplyTyped
    <3>3. CASE /\ server.pos < Size[server.file]
               /\ Reply(<<[kind |-> "block", block |-> <<server.file, server.pos + 1>>]>>)
      <4>1. server.pos + 1 \in {1, 2}
        BY <2>1, <3>3, SizesTyped
      <4>2. <<server.file, server.pos + 1>> \in Block
        BY <2>1, <4>1, BlocksTyped
      <4>. QED
        BY <1>0, <3>3, <4>2, MessageFields, SingleTyped, ReplyTyped
    <3>. QED
      BY <1>0, <3>1, <3>2, <3>3
  <2>. QED
    BY <1>5, <2>2, <2>3, <2>4, <2>5 DEF CfGetFile, Typed, FilesTyped, StateTyped, Named,
       files, ghosts
<1>. QED
  BY <1>1, <1>2, <1>3, <1>4, <1>5 DEF Server

LEMMA WorldTyped ==
  ASSUME Typed, Online, Change \/ Lose \/ Kill \/ Expire PROVE Typed'
<1>1. CASE Change
  <2>1. PICK n \in Name, v \in Version :
           /\ source' = [source EXCEPT ![n] = Absent] \/ source' = [source EXCEPT ![n] = v]
           /\ dest' = Outdated(dest, n) /\ saved' = Outdated(saved, n)
           /\ new' = Outdated(new, n)
           /\ \/ server' = server
              \/ server' = [server EXCEPT !.linked = FALSE]
              \/ server.name = n /\ server' = [server EXCEPT !.file = v]
           /\ why' = why \/ why' = why \cup {"changed"}
    <3>1. server \in ServerState
      BY DEF Typed, StateTyped
    <3>2. server = [server EXCEPT !.file = @]
      BY <3>1 DEF ServerState
    <3>. QED
      BY <1>1, <3>2 DEF Change
  <2>2. UNCHANGED <<promise, archive, agent, net, there, cut, owed>>
    BY <1>1 DEF Change
  <2>3. /\ dest' \in [Name -> Slot] /\ saved' \in [Name -> Slot] /\ new' \in [Name -> Slot]
        /\ \A m \in Name : /\ new[m] \in FileRecord => new'[m] \in FileRecord
                           /\ dest[m] \in FileRecord => dest'[m] \in FileRecord
    BY <2>1, OutdatedTyped DEF Typed, FilesTyped
  <2>4. /\ server' \in ServerState
        /\ server'.file # Absent => server'.name \in Name
        /\ server.file \in Version => server'.file \in Version
    BY ZenonT(120), <2>1 DEF Typed, StateTyped, Named, ServerState
  <2>5. source' \in [Name -> Version \cup {Absent}] /\ why' \in SUBSET {"changed", "lost"}
    BY <2>1 DEF Typed, StateTyped
  <2>. QED
    BY <2>2, <2>3, <2>4, <2>5 DEF Typed, FilesTyped, StateTyped, Named, WithName, WithNew
<1>2. CASE Lose
  <2>1. net \in NetState /\ net.in \in Seq(Message)
    BY DEF Typed, StateTyped, NetState
  <2>2. PICK k \in 0..Len(net.in) :
           \/ net' = [Closed EXCEPT !.in = SubSeq(net.in, 1, k)]
           \/ net' = [Closed EXCEPT !.in = Append(SubSeq(net.in, 1, k), [kind |-> "part"])]
    BY <1>2 DEF Lose
  <2>3. SubSeq(net.in, 1, k) \in Seq(Message)
    BY <2>1, SubSeqProperties
  <2>4. Append(SubSeq(net.in, 1, k), [kind |-> "part"]) \in Seq(Message)
    BY <2>3, AppendProperties, MessageFields
  <2>5. net' \in NetState
    BY <2>2, <2>3, <2>4 DEF Closed, NetState
  <2>6. agent.pc # "read"
    BY <1>2 DEF Lose, Online, Typed, Named
  <2>. QED
    BY <1>2, <2>5, <2>6, RestTyped DEF Lose, Typed, FilesTyped, StateTyped, Named, files, Waiting,
       WithName, WithNew
<1>3. CASE Kill
  BY <1>3, FinishTyped DEF Kill, Typed, StateTyped
<1>4. CASE Expire
  BY <1>4, FinishTyped DEF Expire, Typed, StateTyped
<1>. QED
  BY <1>1, <1>2, <1>3, <1>4

LEMMA TypedStep == Typed /\ Online /\ [Next]_vars => Typed'
<1>1. ASSUME Typed, Online, Next PROVE Typed'
  BY <1>1, ListingTyped, CheckingTyped, CopyingTyped, InstallingTyped, PurgingTyped,
     ServerTyped, WorldTyped DEF Next, Agent, Fault
<1>2. ASSUME Typed, UNCHANGED vars PROVE Typed'
  BY <1>2 DEF vars, files, ghosts, Typed, FilesTyped, StateTyped, Named
<1>. QED
  BY <1>1, <1>2

(* What a step does to the connection: something is received, asked or       *)
(* answered, it is given up, or another one is opened.                      *)
NetMove ==
    \/ net'.up = net.up /\ net'.asked = net.asked
    \/ net.up /\ net'.up
    \/ net'.up = net.up /\ net'.asked = Absent
    \/ net'.up = FALSE /\ net'.asked = Absent
    \/ net'.up = promise.remote /\ (net'.asked # Absent => promise.remote)

LEMMA NetMoves ==
  ASSUME Typed, Next PROVE NetMove /\ UNCHANGED promise
<1>1. \A r : Ask(r) => NetMove
  BY DEF Typed, StateTyped, NetState, Ask, NetMove
<1>2. Received => NetMove
  BY DEF Typed, StateTyped, NetState, Received, NetMove
<1>3. net' = net => NetMove
  BY DEF NetMove
<1>4. net'.asked = Absent /\ net'.up = net.up => NetMove
  BY DEF NetMove
<1>5. Finish => NetMove
  BY DEF Finish, Closed, NetMove
<1>6. CASE Agent
  <2>1. CASE Connect
    BY <2>1 DEF Connect, Opened, NetMove
  <2>2. CASE Listing
    BY <1>2, <1>3, <1>5, <2>2 DEF Listing, ReceiveName, ReceiveEnd, ReceiveNothing,
       ReceiveError, cfreaddir, Answered
  <2>3. CASE Checking
    BY <1>1, <1>2, <1>3, <2>3
       DEF Checking, RecursiveImage, AskMD5, ReceiveStat, StatFails, ReceiveMD5, MD5Fails, Answered, Unanswered
  <2>4. CASE Copying
    BY <1>1, <1>2, <1>3, <2>4 DEF Copying, AskFile, WriteFails, Refrain, ReceiveBlock, ReceivePart,
       ReceiveChanged, ReceiveRefusal, ReceiveNoMore, FlushToEnd, OpenSource, CopyRegDisk,
       Answered
  <2>5. CASE Installing
    BY <1>2, <1>3, <2>5 DEF Installing, Unsave, Save, Measure, VerifyNet, VerifyDisk,
       Install, Archive, Answered, Unanswered
  <2>6. CASE Purging
    BY <1>3, <1>5, <2>6 DEF Purging, EndOfFiles, PurgeFile, PurgeSaved, EndOfPurge
  <2>. QED
    BY <1>6, <2>1, <2>2, <2>3, <2>4, <2>5, <2>6 DEF Agent
<1>7. CASE Server
  <2>1. \A ms : Reply(ms) => NetMove
    BY DEF Typed, StateTyped, NetState, Reply, NetMove
  <2>. QED
    BY <1>3, <1>7, <2>1 DEF Server, CfOpenDirectory, StatFile, CompareLocalChecksum,
       GetFile, CfGetFile
<1>8. CASE Change
  BY <1>3, <1>8 DEF Change
<1>9. CASE WriteFails \/ DiskFull
  BY <1>2, <1>3, <1>9 DEF WriteFails, DiskFull, Answered
<1>10. CASE Lose
  BY <1>10 DEF Lose, Closed, NetMove
<1>11. CASE Kill \/ Expire
  BY <1>5, <1>11 DEF Kill, Expire
<1>. QED
  BY <1>6, <1>7, <1>8, <1>9, <1>10, <1>11 DEF Next, Fault

LEMMA OnlineStep == Typed /\ Online /\ [Next]_vars => Online'
<1>1. ASSUME Typed, Online, Next PROVE Online'
  BY <1>1, NetMoves DEF NetMove, Online
<1>2. ASSUME Online, UNCHANGED vars PROVE Online'
  BY <1>2 DEF vars, Online
<1>. QED
  BY <1>1, <1>2


-----------------------------------------------------------------------------
(* What the agent has listed, or is about to be told, is all the source had. *)
DirAsked ==
    net.asked # Absent /\ net.asked.kind = "dir" => agent.pc = "list" /\ net.in = <<>>
InList ==
    agent.pc = "list" =>
        \A i \in 1..Len(net.in) : net.in[i].kind = "end" =>
            \A n \in there :
                \/ n \in agent.listing
                \/ \E j \in 1..i-1 : net.in[j].kind = "name" /\ net.in[j].name = n
Listed ==
    agent.pc \notin {"idle", "list"} /\ ~cut => there \subseteq agent.listing

ListInv == DirAsked /\ InList /\ Listed

(* The agent's work on files does not touch the listing. *)
Work == Checking \/ Copying \/ Installing \/ WriteFails \/ DiskFull

LEMMA WorkMoves ==
  ASSUME Typed, Work
  PROVE  /\ agent.pc \notin {"idle", "list"} /\ agent'.pc \notin {"idle", "list"}
         /\ agent'.listing = agent.listing
         /\ UNCHANGED <<promise, there, cut>>
<1>1. \A p \in Where \ {"idle", "list"} :
         Goto(p) => agent'.pc \notin {"idle", "list"} /\ agent'.listing = agent.listing
  BY DEF Goto, Typed, StateTyped, AgentState
<1>2. \A n : GiveUp(n) => Goto("next")
  BY DEF GiveUp
<1>3. CASE Checking
  BY ZenonT(40), <1>1, <1>3 DEF Checking, RecursiveImage, ReceiveStat, StatFails, AskMD5, ReceiveMD5,
     MD5Fails, ghosts, Where, Typed, StateTyped, AgentState
<1>4. CASE Copying
  <2>1. agent \in AgentState
    BY DEF Typed, StateTyped
  <2>2. CASE ReceiveBlock \/ ReceivePart
    <3>1. agent.pc = "receive" /\ UNCHANGED <<promise, there, cut>>
      BY <2>2 DEF ReceiveBlock, ReceivePart, ghosts
    <3>2. PICK p \in {"back up", "receive"} :
             agent' = [agent EXCEPT !.total = agent.total + 1, !.pc = p]
      BY <2>2, <3>1 DEF ReceiveBlock, ReceivePart
    <3>. QED
      BY <2>1, <3>1, <3>2 DEF AgentState
  <2>3. CASE FlushToEnd
    <3>1. agent.pc = "flush" /\ UNCHANGED <<promise, there, cut>>
      BY <2>3 DEF FlushToEnd, ghosts
    <3>2. (\E t : agent' = [agent EXCEPT !.total = t]) \/ Goto("next")
      BY <2>3 DEF FlushToEnd
    <3>. QED
      BY <1>1, <2>1, <3>1, <3>2 DEF AgentState, Where
  <2>4. CASE CopyRegDisk
    BY <1>1, <2>4 DEF CopyRegDisk, ghosts, Where
  <2>5. CASE AskFile
    BY <2>1, <2>5 DEF AskFile, ghosts, AgentState
  <2>6. CASE Refrain \/ ReceiveChanged \/ ReceiveRefusal \/ ReceiveNoMore \/ OpenSource
    BY <1>1, <2>6 DEF Refrain, ReceiveChanged, ReceiveRefusal, ReceiveNoMore, OpenSource,
       ghosts, Where
  <2>. QED
    BY <1>4, <2>2, <2>3, <2>4, <2>5, <2>6 DEF Copying
<1>5. CASE Installing
  BY <1>1, <1>2, <1>5 DEF Installing, Unsave, Save, Measure, VerifyNet, VerifyDisk, Install,
     Archive, ghosts, Where
<1>6. CASE WriteFails \/ DiskFull
  BY <1>1, <1>6 DEF WriteFails, DiskFull, Where, Typed, StateTyped, AgentState
<1>. QED
  BY <1>3, <1>4, <1>5, <1>6 DEF Work

LEMMA WorkAsks ==
  ASSUME Typed, Work
  PROVE  net'.asked = net.asked \/ net'.asked.kind # "dir"
<1>1. \A r : r.kind # "dir" /\ Ask(r) => net'.asked = net.asked \/ net'.asked.kind # "dir"
  BY DEF Ask, Typed, StateTyped, NetState
<1>2. Received => net'.asked = net.asked
  BY DEF Received, Typed, StateTyped, NetState
<1>3. CASE Checking
  BY <1>1, <1>2, <1>3 DEF Checking, RecursiveImage, ReceiveStat, StatFails, AskMD5,
     ReceiveMD5, MD5Fails, Answered, Unanswered
<1>4. CASE Copying
  BY <1>1, <1>2, <1>4 DEF Copying, Refrain, AskFile, ReceiveBlock, ReceivePart,
     ReceiveChanged, ReceiveRefusal, ReceiveNoMore, FlushToEnd, OpenSource, CopyRegDisk,
     Answered
<1>5. CASE Installing
  BY <1>2, <1>5 DEF Installing, Unsave, Save, Measure, VerifyNet, VerifyDisk, Install,
     Archive, Answered, Unanswered
<1>6. CASE WriteFails \/ DiskFull
  BY <1>2, <1>6 DEF WriteFails, DiskFull, Answered
<1>. QED
  BY <1>3, <1>4, <1>5, <1>6 DEF Work

LEMMA ListedStep ==
  ASSUME Typed, Online, ListInv, Connect \/ Listing PROVE ListInv'
<1>0. agent \in AgentState /\ net \in NetState /\ net.in \in Seq(Message)
  BY DEF Typed, StateTyped, NetState
<1>1. CASE Connect
  <2>1. net'.in = <<>> /\ agent'.pc = "list"
    BY <1>1 DEF Connect, Opened, Idle
  <2>. QED
    BY <2>1, EmptySeq DEF ListInv, DirAsked, InList, Listed
<1>2. CASE ReceiveName
  <2>1. Answer \in Message /\ Answer.kind = "name" /\ Arrived
        /\ net'.in = Tail(net.in) /\ net'.asked = net.asked
    BY <1>2, ReceivedTyped DEF ReceiveName
  <2>2. /\ agent.pc = "list" /\ agent'.pc = "list"
        /\ agent'.listing = agent.listing \cup {Answer.name}
        /\ UNCHANGED <<there, cut>>
    BY <1>0, <1>2 DEF ReceiveName, AgentState, ghosts
  <2>3. net.in # <<>> /\ Answer = net.in[1]
    BY <1>0, <2>1 DEF Arrived, Answer
  <2>4. Len(net'.in) = Len(net.in) - 1 /\ \A i \in 1..Len(net'.in) : net'.in[i] = net.in[i+1]
    BY <1>0, <2>1, <2>3, HeadTailProperties
  <2>5. DirAsked'
    BY <2>1, <2>2, <2>3 DEF ListInv, DirAsked
  <2>6. ASSUME NEW i \in 1..Len(net'.in), net'.in[i].kind = "end", NEW n \in there
        PROVE  \/ n \in agent'.listing
               \/ \E j \in 1..i-1 : net'.in[j].kind = "name" /\ net'.in[j].name = n
    <3>1. i + 1 \in 1..Len(net.in) /\ net.in[i+1].kind = "end" /\ Len(net.in) \in Nat
      BY <1>0, <2>4, <2>6, LenProperties
    <3>2. \/ n \in agent.listing
          \/ \E j \in 1..i : net.in[j].kind = "name" /\ net.in[j].name = n
      BY <2>2, <3>1 DEF ListInv, InList
    <3>3. ASSUME NEW j \in 1..i, net.in[j].kind = "name", net.in[j].name = n
          PROVE  \/ n \in agent'.listing
                 \/ \E k \in 1..i-1 : net'.in[k].kind = "name" /\ net'.in[k].name = n
      <4>1. CASE j = 1
        BY <2>2, <2>3, <3>3, <4>1
      <4>2. CASE j # 1
        <5>1. j - 1 \in 1..i-1 /\ j - 1 \in 1..Len(net'.in) /\ (j - 1) + 1 = j
          BY <3>1, <4>2, <2>4
        <5>2. net'.in[j-1] = net.in[j]
          BY <2>4, <5>1
        <5>. QED
          BY <3>3, <5>1, <5>2
      <4>. QED
        BY <4>1, <4>2
    <3>. QED
      BY <2>2, <3>2, <3>3
  <2>. QED
    BY <2>2, <2>5, <2>6 DEF ListInv, InList, Listed
<1>3. CASE ReceiveEnd
  <2>1. Answer \in Message /\ Answer.kind = "end" /\ Arrived
        /\ net'.asked = net.asked /\ net'.in = Tail(net.in)
    BY <1>3, ReceivedTyped DEF ReceiveEnd
  <2>2. /\ agent.pc = "list" /\ agent'.pc = "next" /\ agent'.listing = agent.listing
        /\ UNCHANGED <<there, cut>>
    BY <1>0, <1>3 DEF ReceiveEnd, AgentState, ghosts
  <2>3. net.in # <<>> /\ Answer = net.in[1] /\ 1 \in 1..Len(net.in)
    BY <1>0, <2>1 DEF Arrived, Answer
  <2>4. there \subseteq agent.listing
    BY <2>1, <2>2, <2>3 DEF ListInv, InList
  <2>. QED
    BY <2>1, <2>2, <2>3, <2>4 DEF ListInv, DirAsked, InList, Listed
<1>4. CASE ReceiveNothing
  <2>1. net.asked = Absent /\ net' = net /\ cut' = TRUE
    BY <1>4 DEF ReceiveNothing, Lost, Online
  <2>2. agent'.pc = "next"
    BY <1>0, <1>4 DEF ReceiveNothing, AgentState
  <2>. QED
    BY <2>1, <2>2 DEF ListInv, DirAsked, InList, Listed
<1>5. CASE ReceiveError
  BY <1>5 DEF ReceiveError, Finish, Idle, Closed, ListInv, DirAsked, InList, Listed
<1>6. CASE cfreaddir
  <2>1. net.asked = Absent /\ net' = net
    BY <1>6 DEF cfreaddir, Online
  <2>2. agent'.pc = "next" /\ agent'.listing = there'
    BY <1>0, <1>6 DEF cfreaddir, AgentState
  <2>. QED
    BY <2>1, <2>2 DEF ListInv, DirAsked, InList, Listed
<1>. QED
  BY <1>1, <1>2, <1>3, <1>4, <1>5, <1>6 DEF Listing

(* What the server sends besides a listing does not end one. *)
LEMMA ReplyKeepsList ==
  ASSUME Typed, ListInv, UNCHANGED <<agent, there, cut>>,
         NEW ms \in Seq(Message), Reply(ms),
         \A i \in 1..Len(ms) : ms[i].kind # "end"
  PROVE  ListInv'
<1>1. net'.asked = Absent /\ net'.in = net.in \o ms
      /\ net.in \in Seq(Message)
  BY DEF Typed, StateTyped, NetState, Reply
<1>2. /\ Len(net'.in) = Len(net.in) + Len(ms) /\ Len(net.in) \in Nat /\ Len(ms) \in Nat
      /\ \A i \in 1..Len(net.in) + Len(ms) :
            net'.in[i] = IF i <= Len(net.in) THEN net.in[i] ELSE ms[i - Len(net.in)]
  BY <1>1, ConcatProperties, LenProperties
<1>3. ASSUME NEW i \in 1..Len(net'.in), net'.in[i].kind = "end"
      PROVE  i \in 1..Len(net.in) /\ \A j \in 1..i : net'.in[j] = net.in[j]
  <2>1. CASE i <= Len(net.in)
    <3>1. i \in 1..Len(net.in)
      BY <1>2, <2>1
    <3>2. ASSUME NEW j \in 1..i PROVE net'.in[j] = net.in[j]
      <4>1. j \in 1..Len(net.in) + Len(ms) /\ j <= Len(net.in)
        BY <1>2, <3>1
      <4>. QED
        BY <1>2, <4>1
    <3>. QED
      BY <3>1, <3>2
  <2>2. CASE ~(i <= Len(net.in))
    <3>1. i - Len(net.in) \in 1..Len(ms) /\ net'.in[i] = ms[i - Len(net.in)]
      BY <1>2, <2>2
    <3>. QED
      BY <1>3, <3>1
  <2>. QED
    BY <2>1, <2>2
<1>4. InList'
  <2>1. ASSUME agent.pc = "list", NEW i \in 1..Len(net'.in), net'.in[i].kind = "end",
               NEW n \in there
        PROVE  \/ n \in agent.listing
               \/ \E j \in 1..i-1 : net'.in[j].kind = "name" /\ net'.in[j].name = n
    <3>1. i \in 1..Len(net.in) /\ net.in[i].kind = "end"
          /\ \A j \in 1..i-1 : net'.in[j] = net.in[j]
      BY <1>2, <1>3, <2>1
    <3>. QED
      BY <2>1, <3>1 DEF ListInv, InList
  <2>. QED
    BY <2>1 DEF InList
<1>. QED
  BY <1>1, <1>4 DEF ListInv, DirAsked, Listed

LEMMA SingleKeepsList ==
  ASSUME Typed, ListInv, UNCHANGED <<agent, there, cut>>,
         NEW m \in Message, m.kind # "end", Reply(<<m>>)
  PROVE  ListInv'
<1>1. <<m>> \in Seq(Message) /\ Len(<<m>>) = 1 /\ <<m>>[1] = m
  OBVIOUS
<1>2. \A i \in 1..Len(<<m>>) : <<m>>[i].kind # "end"
  <2>1. \A i \in 1..1 : i = 1
    OBVIOUS
  <2>. QED
    BY <1>1, <2>1
<1>. QED
  BY <1>1, <1>2, ReplyKeepsList

LEMMA ServerList ==
  ASSUME Typed, ListInv, Server PROVE ListInv'
<1>0. net \in NetState
  BY DEF Typed, StateTyped
<1>1. CASE CfOpenDirectory
  <2>1. net.asked \in Request /\ net.asked # Absent /\ net.asked.kind = "dir"
    BY <1>0, <1>1, AskedTyped DEF CfOpenDirectory, Asked
  <2>2. agent.pc = "list" /\ net.in = <<>>
    BY <2>1 DEF ListInv, DirAsked
  <2>3. there' \in SUBSET Name /\ Reply(Packets(there')) /\ UNCHANGED <<agent, cut>>
    BY <1>1 DEF CfOpenDirectory, Packets, Names
  <2>4. net'.asked = Absent /\ net'.in = Packets(there')
    <3>1. net'.asked = Absent /\ net'.in = <<>> \o Packets(there')
      BY <1>0, <2>2, <2>3 DEF Reply, NetState
    <3>2. Packets(there') \in Seq(Message)
      BY <2>3, PacketsTyped
    <3>. QED
      BY <3>1, <3>2, ConcatEmptySeq
  <2>5. PICK S \in SUBSET Name : S = there'
    BY <2>3
  <2>6. /\ SetToSeq(S) \in Seq(S)
        /\ \A n \in S : \E i \in DOMAIN SetToSeq(S) : SetToSeq(S)[i] = n
    BY ListedAll
  <2>7. /\ Names(S) \in Seq(Message) /\ Len(Packets(S)) = Len(Names(S)) + 1
        /\ \A i \in 1..Len(Names(S)) : Packets(S)[i] = Names(S)[i]
    BY PacketsTyped
  <2>8. /\ DOMAIN Names(S) = DOMAIN SetToSeq(S) /\ DOMAIN Names(S) = 1..Len(Names(S))
        /\ Len(Names(S)) \in Nat
        /\ \A i \in DOMAIN Names(S) : /\ Names(S)[i].kind = "name"
                                      /\ Names(S)[i].name = SetToSeq(S)[i]
    BY <2>7, LenProperties DEF Names
  <2>9. ASSUME NEW i \in 1..Len(Packets(S)), Packets(S)[i].kind = "end", NEW n \in S
        PROVE  \E j \in 1..i-1 : Packets(S)[j].kind = "name" /\ Packets(S)[j].name = n
    <3>1. i = Len(Names(S)) + 1
      BY <2>7, <2>8, <2>9
    <3>2. PICK j \in 1..Len(Names(S)) : SetToSeq(S)[j] = n
      BY <2>6, <2>8
    <3>. QED
      BY <2>7, <2>8, <3>1, <3>2
  <2>. QED
    BY <2>2, <2>3, <2>4, <2>5, <2>9 DEF ListInv, DirAsked, InList, Listed
<1>2. CASE StatFile
  <2>1. PICK m \in Message : Reply(<<m>>) /\ m.kind # "end"
    <3>1. net.asked.name \in Name
      BY <1>0, <1>2, AskedTyped DEF StatFile
    <3>2. source[net.asked.name] \in Version \cup {Absent}
      BY <3>1 DEF Typed, StateTyped
    <3>3. source[net.asked.name] # Absent => Size[source[net.asked.name]] \in Nat \ {0}
      BY <3>2, SizesTyped
    <3>. QED
      BY <1>2, <3>3, MessageFields DEF StatFile
  <2>. QED
    BY <1>2, <2>1, SingleKeepsList DEF StatFile
<1>3. CASE CompareLocalChecksum
  <2>1. PICK m \in Message : Reply(<<m>>) /\ m.kind # "end"
    BY <1>3, MessageFields DEF CompareLocalChecksum
  <2>. QED
    BY <1>3, <2>1, SingleKeepsList DEF CompareLocalChecksum, ghosts
<1>4. CASE GetFile
  <2>1. \/ Reply(<<[kind |-> "refused"]>>)
        \/ Reply(<<>>)
    BY <1>4 DEF GetFile
  <2>2. <<>> \in Seq(Message) /\ Len(<<>>) = 0
    BY EmptySeq
  <2>3. UNCHANGED <<agent, there, cut>>
    BY <1>4 DEF GetFile, ghosts
  <2>4. CASE Reply(<<[kind |-> "refused"]>>)
    <3>1. [kind |-> "refused"] \in Message
      BY MessageFields
    <3>. QED
      BY <2>3, <2>4, <3>1, SingleKeepsList
  <2>5. CASE Reply(<<>>)
    <3>1. \A i \in 1..Len(<<>>) : <<>>[i].kind # "end"
      BY <2>2
    <3>. QED
      BY <2>2, <2>3, <2>5, <3>1, ReplyKeepsList
  <2>. QED
    BY <2>1, <2>4, <2>5
<1>5. CASE CfGetFile
  <2>1. UNCHANGED <<agent, there, cut>>
    BY <1>5 DEF CfGetFile, ghosts
  <2>2. CASE net' = net
    BY <2>1, <2>2 DEF ListInv, DirAsked, InList, Listed
  <2>3. CASE net' # net
    <3>1. server.file \in Version /\ server.pos \in Nat
      BY <1>5 DEF CfGetFile, Typed, StateTyped, ServerState
    <3>2. PICK m \in Message : Reply(<<m>>) /\ m.kind # "end"
      <4>1. \/ Reply(<<[kind |-> "changed"]>>)
            \/ /\ server.pos < Size[server.file]
               /\ Reply(<<[kind |-> "block", block |-> <<server.file, server.pos + 1>>]>>)
        BY <1>5, <2>3, <3>1, SizesTyped DEF CfGetFile
      <4>2. server.pos < Size[server.file] => <<server.file, server.pos + 1>> \in Block
        <5>1. server.pos < Size[server.file] => server.pos + 1 \in {1, 2}
          BY <3>1, SizesTyped
        <5>. QED
          BY <3>1, <5>1, BlocksTyped
      <4>. QED
        BY <4>1, <4>2, MessageFields
    <3>. QED
      BY <2>1, <3>2, SingleKeepsList
  <2>. QED
    BY <2>2, <2>3
<1>. QED
  BY <1>1, <1>2, <1>3, <1>4, <1>5 DEF Server

LEMMA ListInvStep == Typed /\ Online /\ ListInv /\ [Next]_vars => ListInv'
<1>1. ASSUME Typed, ListInv, Work PROVE ListInv'
  BY <1>1, WorkMoves, WorkAsks DEF ListInv, DirAsked, InList, Listed
<1>2. ASSUME Typed, ListInv, Finish, UNCHANGED <<there, cut>> PROVE ListInv'
  BY <1>2 DEF Finish, Idle, Closed, ListInv, DirAsked, InList, Listed
<1>3. ASSUME Typed, ListInv, Purging PROVE ListInv'
  <2>1. CASE Finish /\ UNCHANGED <<there, cut>>
    BY <1>2, <1>3, <2>1
  <2>2. CASE /\ agent.pc \in {"next", "purge"} /\ agent'.pc = "purge"
             /\ agent'.listing = agent.listing
             /\ UNCHANGED <<net, there, cut>>
    BY <1>3, <2>2 DEF ListInv, DirAsked, InList, Listed
  <2>. QED
    BY <1>3, <2>1, <2>2 DEF Purging, EndOfFiles, PurgeFile, PurgeSaved, EndOfPurge, Goto,
       ghosts, Typed, StateTyped, AgentState
<1>4. ASSUME Typed, ListInv, Change PROVE ListInv'
  BY <1>4 DEF Change, ListInv, DirAsked, InList, Listed
<1>5. ASSUME Typed, ListInv, Lose PROVE ListInv'
  <2>1. PICK k \in 0..Len(net.in) :
           \/ net' = [Closed EXCEPT !.in = SubSeq(net.in, 1, k)]
           \/ net' = [Closed EXCEPT !.in = Append(SubSeq(net.in, 1, k), [kind |-> "part"])]
    BY <1>5 DEF Lose
  <2>2. net.in \in Seq(Message) /\ UNCHANGED <<agent, there, cut>>
    BY <1>5 DEF Lose, Typed, StateTyped, NetState
  <2>3. /\ SubSeq(net.in, 1, k) \in Seq(Message) /\ Len(SubSeq(net.in, 1, k)) = k
        /\ \A i \in 1..k : SubSeq(net.in, 1, k)[i] = net.in[i]
    <3>1. \A i \in 1..k : net.in[i] \in Message
      BY <2>2
    <3>2. k \in Nat /\ k - 1 + 1 = k
      OBVIOUS
    <3>. QED
      BY <3>1, <3>2, SubSeqProperties
  <2>4. net'.asked = Absent
    BY <2>1 DEF Closed
  <2>5. ASSUME NEW i \in 1..Len(net'.in), net'.in[i].kind = "end"
        PROVE  i \in 1..k /\ \A j \in 1..i : net'.in[j] = net.in[j]
    <3>1. CASE net'.in = SubSeq(net.in, 1, k)
      BY <2>3, <2>5, <3>1
    <3>2. CASE net'.in = Append(SubSeq(net.in, 1, k), [kind |-> "part"])
      <4>1. /\ Len(net'.in) = k + 1
            /\ \A j \in 1..k : net'.in[j] = net.in[j]
            /\ net'.in[k + 1] = [kind |-> "part"]
        BY <2>3, <3>2, AppendProperties, MessageFields
      <4>2. i # k + 1
        BY <2>5, <4>1
      <4>. QED
        BY <4>1, <4>2
    <3>. QED
      BY <2>1, <3>1, <3>2 DEF Closed
  <2>6. InList'
    <3>1. ASSUME agent.pc = "list", NEW i \in 1..Len(net'.in), net'.in[i].kind = "end",
                 NEW n \in there
          PROVE  \/ n \in agent.listing
                 \/ \E j \in 1..i-1 : net'.in[j].kind = "name" /\ net'.in[j].name = n
      <4>1. i \in 1..Len(net.in) /\ net.in[i].kind = "end"
            /\ \A j \in 1..i-1 : net'.in[j] = net.in[j]
        BY <2>5, <3>1
      <4>. QED
        BY <1>5, <2>2, <3>1, <4>1 DEF ListInv, InList
    <3>. QED
      BY <2>2, <3>1 DEF InList
  <2>. QED
    BY <1>5, <2>2, <2>4, <2>6 DEF ListInv, DirAsked, Listed
<1>6. ASSUME Typed, ListInv, Kill \/ Expire PROVE ListInv'
  BY <1>2, <1>6 DEF Kill, Expire
<1>7. ASSUME Typed, Online, ListInv, Next PROVE ListInv'
  BY <1>1, <1>3, <1>4, <1>5, <1>6, <1>7, ListedStep, ServerList DEF Next, Agent, Fault, Work
<1>8. ASSUME ListInv, UNCHANGED vars PROVE ListInv'
  BY <1>8 DEF vars, ghosts, ListInv, DirAsked, InList, Listed
<1>. QED
  BY <1>7, <1>8

-----------------------------------------------------------------------------
(* The old file is away only while the new one is measured and verified, and *)
(* then its backup is there.                                                 *)
Kept ==
    \A n \in owed :
        dest[n] = Absent =>
            /\ saved[n] # Absent /\ promise.backup
            /\ agent.name = n /\ agent.pc \in InTransit
Backing == agent.pc = "save" => promise.backup

(* Outside of these steps all that is owed is there. *)
LEMMA AllThere ==
  ASSUME Kept, agent.pc \notin InTransit
  PROVE  \A n \in owed : dest[n] # Absent
BY DEF Kept

LEMMA GiveUpKeeps ==
  ASSUME Typed, Kept, agent.name \in Name, GiveUp(agent.name), owed' = owed
  PROVE  \A n \in owed' : dest'[n] # Absent
<1>1. ASSUME NEW n \in owed PROVE dest'[n] # Absent
  <2>1. n \in Name
    BY DEF Typed, StateTyped
  <2>2. CASE Restored(agent.name)
    BY <2>1, <2>2 DEF GiveUp, Restored, Kept, Typed, FilesTyped
  <2>3. CASE ~Restored(agent.name)
    BY <2>3 DEF GiveUp, Restored, Kept
  <2>. QED
    BY <2>2, <2>3
<1>. QED
  BY <1>1

LEMMA InstallingKeeps ==
  ASSUME Typed, Kept, Backing, Installing PROVE Kept' /\ Backing'
<1>0. owed \subseteq Name /\ agent \in AgentState
  BY DEF Typed, StateTyped
<1>1. CASE Unsave
  <2>1. \A n \in owed : dest[n] # Absent
    BY <1>1, AllThere DEF Unsave, InTransit
  <2>2. /\ UNCHANGED <<promise, dest, owed>>
        /\ agent'.pc = IF promise.backup THEN "save" ELSE "measure"
    BY <1>0, <1>1 DEF Unsave, ghosts, Goto, AgentState
  <2>. QED
    BY <2>1, <2>2 DEF Kept, Backing
<1>2. CASE Save
  <2>1. \A n \in owed : dest[n] # Absent
    BY <1>2, AllThere DEF Save, InTransit
  <2>2. /\ UNCHANGED <<promise, owed>> /\ promise.backup
        /\ agent'.pc = "measure" /\ agent'.name = agent.name /\ agent.name \in Name
        /\ dest' = [dest EXCEPT ![agent.name] = Absent]
        /\ saved' = [saved EXCEPT ![agent.name] = dest[agent.name]]
    BY <1>0, <1>2 DEF Save, ghosts, Goto, AgentState, Backing, Typed, Named, WithName, WithNew
  <2>. QED
    BY <1>0, <2>1, <2>2 DEF Kept, Backing, InTransit, Typed, FilesTyped
<1>3. CASE \E n \in Name : n = agent.name /\ GiveUp(n) /\ owed' = owed
  <2>1. \A n \in owed' : dest'[n] # Absent
    BY <1>3, GiveUpKeeps
  <2>2. agent'.pc = "next"
    BY <1>0, <1>3 DEF GiveUp, Goto, AgentState
  <2>. QED
    BY <2>1, <2>2 DEF Kept, Backing
<1>4. CASE /\ agent.pc \in InTransit
           /\ \E p \in {"verify", "install"} : Goto(p)
           /\ UNCHANGED <<promise, dest, saved, owed>>
  <2>1. agent'.pc \in {"verify", "install"} /\ agent'.name = agent.name
    BY <1>0, <1>4 DEF Goto, AgentState
  <2>. QED
    BY <1>4, <2>1 DEF Kept, Backing, InTransit
<1>5. CASE Measure \/ VerifyNet \/ VerifyDisk
  <2>1. agent.name \in Name /\ agent.pc \in InTransit
    BY <1>5 DEF Measure, VerifyNet, VerifyDisk, Typed, Named, WithName, WithNew, InTransit
  <2>. QED
    BY <1>3, <1>4, <1>5, <2>1 DEF Measure, VerifyNet, VerifyDisk, ghosts
<1>6. CASE Install
  <2>1. agent.name \in Name /\ new[agent.name] \in FileRecord
        /\ why \in SUBSET {"changed", "lost"}
    BY <1>6 DEF Install, Typed, StateTyped, Named, WithName, WithNew
  <2>2. [new[agent.name] EXCEPT !.why = why] # Absent
    BY ZenonT(40), <2>1, FileChanges, FileFields
  <2>3. /\ dest' = [dest EXCEPT ![agent.name] = [new[agent.name] EXCEPT !.why = why]]
        /\ owed' = owed \cup {agent.name}
        /\ agent'.pc \in {"archive", "next"}
    BY <1>0, <1>6 DEF Install, Goto, AgentState
  <2>4. \A n \in owed' : dest'[n] # Absent
    BY <1>0, <2>1, <2>2, <2>3 DEF Kept, Typed, FilesTyped
  <2>. QED
    BY <2>3, <2>4 DEF Kept, Backing
<1>7. CASE Archive
  <2>1. \A n \in owed : dest[n] # Absent
    BY <1>7, AllThere DEF Archive, InTransit
  <2>2. UNCHANGED <<dest, owed>> /\ agent'.pc = "next"
    BY <1>0, <1>7 DEF Archive, ghosts, Goto, AgentState
  <2>. QED
    BY <2>1, <2>2 DEF Kept, Backing
<1>. QED
  BY <1>1, <1>2, <1>5, <1>6, <1>7 DEF Installing

(* Reading and asking leaves the files as they are. *)
LEMMA ReadingKeeps ==
  ASSUME Typed, Kept, Backing, Checking \/ Copying \/ WriteFails \/ DiskFull
  PROVE  Kept' /\ Backing'
<1>0. agent \in AgentState
  BY DEF Typed, StateTyped
<1>1. UNCHANGED <<promise, dest, saved, owed>>
  BY DEF Checking, RecursiveImage, ReceiveStat, StatFails, AskMD5, ReceiveMD5, MD5Fails,
     Copying, Refrain, AskFile, ReceiveBlock, ReceivePart, ReceiveChanged, ReceiveRefusal,
     ReceiveNoMore, FlushToEnd, OpenSource, CopyRegDisk, WriteFails, DiskFull, files, ghosts
<1>2. CASE AskMD5 /\ agent.pc = "verify"
  <2>1. agent'.pc = "verified" /\ agent'.name = agent.name
    BY <1>0, <1>2 DEF AskMD5, Goto, AgentState
  <2>. QED
    BY <1>1, <1>2, <2>1 DEF Kept, Backing, InTransit
<1>3. CASE agent.pc \notin InTransit
  <2>1. \A n \in owed : dest[n] # Absent
    BY <1>3, AllThere
  <2>2. agent'.pc # "save"
    <3>1. \A p : Goto(p) => agent'.pc = p
      BY <1>0 DEF Goto, AgentState
    <3>. QED
      BY <1>0, <3>1 DEF Checking, RecursiveImage, ReceiveStat, StatFails, AskMD5, ReceiveMD5,
         MD5Fails, Copying, Refrain, AskFile, ReceiveBlock, ReceivePart, ReceiveChanged,
         ReceiveRefusal, ReceiveNoMore, FlushToEnd, OpenSource, CopyRegDisk, WriteFails,
         DiskFull, AgentState
  <2>. QED
    BY <1>1, <2>1, <2>2 DEF Kept, Backing
<1>. QED
  BY <1>2, <1>3 DEF Checking, RecursiveImage, ReceiveStat, StatFails, AskMD5, ReceiveMD5,
     MD5Fails, Copying, Refrain, AskFile, ReceiveBlock, ReceivePart, ReceiveChanged,
     ReceiveRefusal, ReceiveNoMore, FlushToEnd, OpenSource, CopyRegDisk, WriteFails,
     DiskFull, InTransit

LEMMA KeptStep == Typed /\ Kept /\ Backing /\ [Next]_vars => Kept' /\ Backing'
<1>0. ASSUME Typed PROVE agent \in AgentState /\ owed \subseteq Name
  BY <1>0 DEF Typed, StateTyped
<1>1. ASSUME Typed, Kept, Connect \/ Listing PROVE Kept' /\ Backing'
  <2>1. agent.pc \notin InTransit /\ UNCHANGED <<dest, owed>>
    <3>1. CASE Connect
      BY <3>1 DEF Connect, files, InTransit
    <3>2. CASE Listing
      BY <3>2 DEF Listing, ReceiveName, ReceiveEnd, ReceiveNothing, ReceiveError, cfreaddir,
         files, ghosts, InTransit
    <3>. QED
      BY <1>1, <3>1, <3>2
  <2>2. agent'.pc # "save"
    <3>1. agent \in AgentState
      BY <1>0, <1>1
    <3>2. CASE Connect \/ ReceiveError
      BY <3>2 DEF Connect, ReceiveError, Finish, Idle
    <3>3. CASE ReceiveName
      BY <3>1, <3>3 DEF ReceiveName, AgentState
    <3>4. CASE ReceiveEnd \/ ReceiveNothing \/ cfreaddir
      BY <3>1, <3>4 DEF ReceiveEnd, ReceiveNothing, cfreaddir, AgentState
    <3>. QED
      BY <1>1, <3>2, <3>3, <3>4 DEF Listing
  <2>. QED
    BY <1>1, <2>1, <2>2, AllThere DEF Kept, Backing
<1>2. ASSUME Typed, Kept, Purging PROVE Kept' /\ Backing'
  <2>1. agent.pc \notin InTransit /\ \A n \in owed' : n \in owed /\ n \in Name
    BY <1>0, <1>2 DEF Purging, EndOfFiles, PurgeFile, PurgeSaved, EndOfPurge, ghosts, InTransit
  <2>2. \A n \in owed' : dest'[n] # Absent
    <3>1. CASE UNCHANGED dest
      BY <1>2, <2>1, <3>1, AllThere
    <3>2. CASE PurgeFile
      BY <1>0, <1>2, <2>1, <3>2, AllThere DEF PurgeFile, Typed, FilesTyped
    <3>. QED
      BY <1>2, <3>1, <3>2 DEF Purging, EndOfFiles, PurgeSaved, EndOfPurge, files
  <2>3. agent'.pc # "save"
    BY <1>0, <1>2 DEF Purging, EndOfFiles, PurgeFile, PurgeSaved, EndOfPurge, Finish, Idle,
       Goto, AgentState
  <2>. QED
    BY <2>2, <2>3 DEF Kept, Backing
<1>3. ASSUME Kept, Backing, Server \/ Lose PROVE Kept' /\ Backing'
  <2>1. UNCHANGED <<promise, dest, saved, agent, owed>>
    BY <1>3 DEF Server, CfOpenDirectory, StatFile, CompareLocalChecksum, GetFile, CfGetFile,
       Lose, files, ghosts
  <2>. QED
    BY <1>3, <2>1 DEF Kept, Backing
<1>4. ASSUME Typed, Kept, Backing, Change PROVE Kept' /\ Backing'
  <2>1. PICK n \in Name : dest' = Outdated(dest, n) /\ saved' = Outdated(saved, n)
    BY <1>4 DEF Change
  <2>2. \A m \in Name : /\ dest'[m] = Absent <=> dest[m] = Absent
                        /\ saved'[m] = Absent <=> saved[m] = Absent
    BY <1>4, <2>1, OutdatedTyped DEF Typed, FilesTyped
  <2>3. UNCHANGED <<promise, agent, owed>>
    BY <1>4 DEF Change
  <2>. QED
    BY <1>0, <1>4, <2>2, <2>3 DEF Kept, Backing
<1>5. ASSUME Kill \/ Expire PROVE Kept' /\ Backing'
  BY <1>5 DEF Kill, Expire, Finish, Idle, files, Kept, Backing
<1>6. ASSUME Typed, Kept, Backing, Next PROVE Kept' /\ Backing'
  BY <1>1, <1>2, <1>3, <1>4, <1>5, <1>6, InstallingKeeps, ReadingKeeps
     DEF Next, Agent, Fault
<1>7. ASSUME Kept, Backing, UNCHANGED vars PROVE Kept' /\ Backing'
  BY <1>7 DEF vars, files, ghosts, Kept, Backing
<1>. QED
  BY <1>6, <1>7

-----------------------------------------------------------------------------
(* What is on the connection, and what the thread of cfservd is doing, when  *)
(* the agent is somewhere: answers of one request are never taken for those  *)
(* of another, because what is left of a file on the connection stays there  *)
(* and is no answer to anything.                                             *)
DataOnly == \A i \in 1..Len(net.in) : net.in[i].kind \in Data
Single(kinds) == Len(net.in) = 1 /\ net.in[1].kind \in kinds
(* The rest of a file is in front of everything else. *)
Dirty == net.in # <<>> /\ net.in[1].kind \in Data

(* Nothing is under way when no agent runs, nor when the source is local.   *)
AtRest ==
    /\ agent.pc = "idle" => net.in = <<>> /\ net.asked = Absent /\ server.file = Absent
    /\ ~promise.remote => net.in = <<>>
    /\ server.file = Absent => server.name = Absent
ListQueue ==
    agent.pc = "list" /\ promise.remote =>
        /\ server.file = Absent
        /\ net.asked # Absent => net.asked.kind = "dir"
        /\ \A i \in 1..Len(net.in) :
              /\ net.in[i].kind \in {"name", "end"}
              /\ net.in[i].kind = "end" => i = Len(net.in)
Stream ==
    agent.pc \in {"receive", "flush"} =>
        /\ net.asked # Absent =>
              /\ net.asked.kind = "get" /\ net.asked.name = agent.name
              /\ agent.pc = "receive" /\ agent.total = 0
              /\ net.in = <<>> /\ server.file = Absent
        /\ \/ DataOnly
           \/ /\ Single({"refused"}) /\ agent.pc = "receive"
              /\ net.asked = Absent /\ server.file = Absent
Clean ==
    agent.pc \in {"compare", "compared", "copy"} /\ promise.remote =>
        /\ server.file = Absent
        /\ net.asked # Absent =>
              agent.pc = "compared" /\ net.asked.kind = "md5" /\ net.in = <<>>
        /\ \/ net.in = <<>>
           \/ agent.pc = "compared" /\ net.asked = Absent /\ Single({"md5", "refused"})
Elsewhere == {"next", "stat", "back up", "save", "measure", "verify", "verified",
              "install", "archive", "purge"}
Queue ==
    agent.pc \in Elsewhere =>
        \/ Dirty
        \/ net.in = <<>> /\ (net.asked = Absent \/ agent.pc \in {"stat", "verified"})
        \/ /\ net.asked = Absent /\ server.file = Absent
           /\ \/ agent.pc = "stat" /\ Single({"stat", "refused"})
              \/ agent.pc = "verified" /\ Single({"md5", "refused"})
AskedKinds ==
    net.asked # Absent =>
        /\ net.asked.kind = "stat" => agent.pc \in {"next", "stat", "purge"}
        /\ net.asked.kind = "get" => agent.pc = "receive"
        /\ net.asked.kind = "md5" =>
              agent.pc \in (Elsewhere \ {"stat"}) \cup {"compared"}
        /\ agent.pc = "stat" => net.asked.kind = "stat" /\ net.asked.name = agent.name
Conversation == AtRest /\ ListQueue /\ Stream /\ Clean /\ Queue /\ AskedKinds

(* The new file holds the first blocks of a version, or these and a block    *)
(* of which only a part has arrived.                                         *)
Prefix(d, v) == Len(d) <= Size[v] /\ \A i \in 1..Len(d) : d[i] = <<v, i>>
Torn(d, v) == /\ Len(d) \in 1..Size[v] /\ d[Len(d)] = Garbage
              /\ \A i \in 1..Len(d)-1 : d[i] = <<v, i>>
(* The file has been left alone since the answer to STAT. *)
Unchanged == "changed" \notin why

Positive ==
    agent.pc \in {"compare", "compared", "copy"} \cup WithNew => agent.size >= 1
StatSized ==
    agent.pc = "stat" /\ Unchanged /\ net.in # <<>> /\ net.in[1].kind = "stat" =>
        source[agent.name] \in Version /\ net.in[1].size = Size[source[agent.name]]
Sized ==
    agent.pc \in {"compare", "compared", "copy"} /\ Unchanged =>
        source[agent.name] \in Version /\ agent.size = Size[source[agent.name]]
(* What is written, what is on the connection and what the thread has yet to *)
(* read follow one another without a gap.                                    *)
InFlight(v) ==
    /\ agent.total + Len(net.in) <= Size[v]
    /\ \A i \in 1..Len(net.in) :
          \/ net.in[i].kind = "block" /\ net.in[i].block = <<v, agent.total + i>>
          \/ /\ i = Len(net.in) /\ net.in[i].kind = "part"
             /\ "lost" \in why /\ ~net.up /\ server.file = Absent
    /\ server.file # Absent =>
          /\ server.name = agent.name /\ server.file = v /\ server.size = Size[v]
          /\ server.pos = agent.total + Len(net.in)
Transfer ==
    agent.pc = "receive" /\ Unchanged =>
        LET v == source[agent.name]
            d == new[agent.name].data
        IN  /\ v \in Version /\ agent.size = Size[v] /\ Len(d) = agent.total
            /\ \/ Prefix(d, v) /\ InFlight(v)
               \/ /\ Torn(d, v) /\ "lost" \in why /\ ~net.up
                  /\ net.in = <<>> /\ server.file = Absent
Reading ==
    agent.pc = "read" =>
        /\ server.name = agent.name
        /\ Unchanged => /\ agent.size = Size[server.file]
                        /\ Len(new[agent.name].data) = server.pos
                        /\ Prefix(new[agent.name].data, server.file)
Finished == {"back up", "save", "measure", "verify", "verified", "install"}
Ready ==
    agent.pc \in Finished /\ Unchanged =>
        \E v \in Version :
            /\ agent.size = Size[v]
            /\ \/ Prefix(new[agent.name].data, v)
               \/ Torn(new[agent.name].data, v) /\ "lost" \in why
Measured ==
    agent.pc \in {"verify", "verified", "install"} =>
        Len(new[agent.name].data) = agent.size
(* What DamageBounded says of a file, wherever it is kept. *)
Bounded(f) ==
    ~Whole(f.data) =>
        /\ f.data # <<>>
        /\ \/ "changed" \in f.why
           \/ /\ "lost" \in f.why
              /\ Last(f.data) = Garbage
              /\ \E v \in Version : /\ Size[v] = Len(f.data)
                                    /\ Front(f.data) = Front(Blocks(v))
AllBounded ==
    \A n \in Name : /\ dest[n] # Absent => Bounded(dest[n])
                    /\ saved[n] # Absent => Bounded(saved[n])
Contents == /\ Positive /\ StatSized /\ Sized /\ Transfer /\ Reading /\ Ready
            /\ Measured /\ AllBounded

-----------------------------------------------------------------------------
(* The steps of the connection in terms of what is on it. *)
LEMMA QueueTyped ==
  ASSUME Typed
  PROVE  /\ net.in \in Seq(Message) /\ Len(net.in) \in Nat
         /\ net.in = <<>> <=> Len(net.in) = 0
BY LenProperties, EmptySeq DEF Typed, StateTyped, NetState

LEMMA ReceiveStep ==
  ASSUME Typed, Arrived, Received
  PROVE  /\ net.in # <<>> /\ Len(net.in) >= 1 /\ 1 \in 1..Len(net.in)
         /\ Answer = net.in[1] /\ Answer \in Message
         /\ Len(net'.in) = Len(net.in) - 1
         /\ net'.in = <<>> <=> Len(net.in) = 1
         /\ \A i \in 1..Len(net'.in) : i + 1 \in 1..Len(net.in) /\ net'.in[i] = net.in[i+1]
         /\ net'.up = net.up /\ net'.asked = net.asked
<1>1. net \in NetState /\ net.in \in Seq(Message) /\ net.in # <<>>
  BY DEF Typed, StateTyped, NetState, Arrived
<1>2. net'.in = Tail(net.in) /\ net'.up = net.up /\ net'.asked = net.asked
  BY <1>1 DEF Received, NetState
<1>3. /\ Len(net.in) \in Nat /\ Len(net.in) >= 1 /\ Tail(net.in) \in Seq(Message)
      /\ Len(Tail(net.in)) = Len(net.in) - 1
      /\ \A i \in 1..Len(Tail(net.in)) : Tail(net.in)[i] = net.in[i+1]
  BY <1>1, HeadTailProperties, LenProperties, EmptySeq
<1>4. Tail(net.in) = <<>> <=> Len(Tail(net.in)) = 0
  BY <1>3, EmptySeq
<1>5. Answer = net.in[1] /\ Answer \in Message
  BY <1>1, <1>3 DEF Answer
<1>. QED
  BY <1>1, <1>2, <1>3, <1>4, <1>5

LEMMA AskStep ==
  ASSUME Typed, Online, NEW r, Ask(r)
  PROVE  /\ net'.in = net.in /\ net'.up = net.up
         /\ net'.asked = r \/ net'.asked = Absent
BY DEF Ask, Online, Typed, StateTyped, NetState

LEMMA ReplyStep ==
  ASSUME Typed, NEW m \in Message, Reply(<<m>>)
  PROVE  /\ net'.asked = Absent /\ net'.up = net.up
         /\ Len(net'.in) = Len(net.in) + 1 /\ net'.in # <<>>
         /\ \A i \in 1..Len(net.in) : net'.in[i] = net.in[i]
         /\ net'.in[Len(net.in) + 1] = m
<1>1. net \in NetState /\ net.in \in Seq(Message) /\ <<m>> \in Seq(Message)
      /\ Len(<<m>>) = 1 /\ <<m>>[1] = m /\ Len(net.in) \in Nat
  BY DEF Typed, StateTyped, NetState
<1>2. net'.asked = Absent /\ net'.up = net.up /\ net'.in = net.in \o <<m>>
  BY <1>1 DEF Reply, NetState
<1>3. /\ Len(net'.in) = Len(net.in) + 1
      /\ \A i \in 1..Len(net.in) + 1 :
            net'.in[i] = IF i <= Len(net.in) THEN net.in[i] ELSE <<m>>[i - Len(net.in)]
  BY <1>1, <1>2, ConcatProperties
<1>4. net'.in # <<>>
  BY <1>1, <1>3, EmptySeq
<1>. QED
  BY <1>1, <1>2, <1>3, <1>4

LEMMA ReplyNothing ==
  ASSUME Typed, Reply(<<>>)
  PROVE  net'.asked = Absent /\ net'.up = net.up /\ net'.in = net.in
BY ConcatEmptySeq DEF Reply, Typed, StateTyped, NetState

LEMMA LoseStep ==
  ASSUME Typed, Lose
  PROVE  /\ net.up /\ net'.up = FALSE /\ net'.asked = Absent /\ server' = Waiting
         /\ server'.file = Absent /\ server'.name = Absent
         /\ why' = why \cup {"lost"}
         /\ UNCHANGED <<promise, source, files, agent>>
         /\ \/ /\ Len(net'.in) <= Len(net.in)
               /\ \A i \in 1..Len(net'.in) : net'.in[i] = net.in[i]
            \/ /\ Len(net'.in) \in 1..Len(net.in)
               /\ net.in[Len(net'.in)].kind = "block"
               /\ \A i \in 1..Len(net'.in) - 1 : net'.in[i] = net.in[i]
               /\ net'.in[Len(net'.in)].kind = "part"
<1>1. PICK k \in 0..Len(net.in) :
         \/ net' = [Closed EXCEPT !.in = SubSeq(net.in, 1, k)]
         \/ /\ k < Len(net.in) /\ net.in[k + 1].kind = "block"
            /\ net' = [Closed EXCEPT !.in = Append(SubSeq(net.in, 1, k), [kind |-> "part"])]
  BY DEF Lose
<1>2. net.in \in Seq(Message) /\ Len(net.in) \in Nat
  BY QueueTyped
<1>3. /\ SubSeq(net.in, 1, k) \in Seq(Message) /\ Len(SubSeq(net.in, 1, k)) = k
      /\ \A i \in 1..k : SubSeq(net.in, 1, k)[i] = net.in[i]
  <2>1. \A i \in 1..k : net.in[i] \in Message
    BY <1>2
  <2>2. k \in Nat /\ k - 1 + 1 = k
    OBVIOUS
  <2>. QED
    BY <2>1, <2>2, SubSeqProperties
<1>4. CASE net' = [Closed EXCEPT !.in = SubSeq(net.in, 1, k)]
  BY <1>2, <1>3, <1>4 DEF Lose, Closed, Waiting
<1>5. CASE /\ k < Len(net.in) /\ net.in[k + 1].kind = "block"
           /\ net' = [Closed EXCEPT !.in = Append(SubSeq(net.in, 1, k), [kind |-> "part"])]
  <2>1. net'.in = Append(SubSeq(net.in, 1, k), [kind |-> "part"])
        /\ net'.up = FALSE /\ net'.asked = Absent
    BY <1>5 DEF Closed
  <2>2. /\ Len(net'.in) = k + 1
        /\ \A j \in 1..k : net'.in[j] = net.in[j]
        /\ net'.in[k + 1] = [kind |-> "part"]
    BY <1>3, <2>1, AppendProperties, MessageFields
  <2>3. k + 1 \in 1..Len(net.in) /\ (k + 1) - 1 = k
    BY <1>2, <1>5
  <2>4. /\ Len(net'.in) \in 1..Len(net.in) /\ Len(net'.in) - 1 = k
        /\ net.in[Len(net'.in)].kind = "block" /\ net'.in[Len(net'.in)].kind = "part"
    BY <1>5, <2>2, <2>3
  <2>5. \A i \in 1..Len(net'.in) - 1 : net'.in[i] = net.in[i]
    BY <2>2, <2>4
  <2>6. net.up /\ UNCHANGED <<promise, source, files, agent>>
        /\ server' = Waiting /\ why' = why \cup {"lost"}
    BY DEF Lose
  <2>. QED
    BY <2>1, <2>4, <2>5, <2>6 DEF Waiting
<1>. QED
  BY <1>1, <1>4, <1>5

(* Where a step of the agent goes. *)
LEMMA GotoStep ==
  ASSUME Typed, NEW p, Goto(p)
  PROVE  /\ agent'.pc = p /\ agent'.name = agent.name /\ agent'.size = agent.size
         /\ agent'.total = agent.total
BY DEF Goto, Typed, StateTyped, AgentState

-----------------------------------------------------------------------------
(* The conversation, step by step. *)

(* Steps with files that neither ask nor receive. *)
LEMMA QuietStep ==
  ASSUME Typed, Online, Conversation, UNCHANGED <<promise, net, server>>,
         agent.pc \in Elsewhere \ {"stat", "verified"},
         agent'.pc \in Elsewhere \ {"stat", "verified"},
         agent.pc \in {"next", "purge"} => agent'.pc \in {"next", "purge"}
  PROVE  Conversation'
BY DEF Conversation, AtRest, ListQueue, Stream, Clean, Queue, AskedKinds, Elsewhere,
   DataOnly, Single, Dirty

(* The agent goes on to a step at which it waits for nothing. *)
LEMMA SettledStep ==
  ASSUME agent'.pc \in Elsewhere \ {"stat", "verified"}, AtRest', AskedKinds',
         Dirty' \/ (net'.in = <<>> /\ net'.asked = Absent)
  PROVE  Conversation'
BY DEF Conversation, ListQueue, Stream, Clean, Queue, Elsewhere

LEMMA FinishConverses ==
  ASSUME Finish PROVE Conversation'
BY DEF Finish, Idle, Closed, Waiting, Conversation, AtRest, ListQueue, Stream, Clean, Queue,
   AskedKinds, Elsewhere

LEMMA ListingConverses ==
  ASSUME Typed, Online, DirAsked, Conversation, Connect \/ Listing
  PROVE  Conversation'
<1>0. agent \in AgentState
  BY DEF Typed, StateTyped
<1>1. CASE Connect
  <2>1. /\ agent.pc = "idle" /\ agent'.pc = "list" /\ net'.in = <<>>
        /\ net'.asked = Absent \/ net'.asked.kind = "dir"
        /\ UNCHANGED <<promise, server>>
    BY <1>1 DEF Connect, Idle, Opened
  <2>2. Len(net'.in) = 0
    BY <2>1, EmptySeq
  <2>. QED
    BY <2>1, <2>2 DEF Conversation, AtRest, ListQueue, Stream, Clean, Queue, AskedKinds,
       Elsewhere
<1>2. CASE ReceiveName
  <2>1. /\ agent.pc = "list" /\ agent'.pc = "list" /\ UNCHANGED <<promise, server>>
        /\ Arrived /\ Received
    BY <1>0, <1>2 DEF ReceiveName, AgentState, Answered
  <2>2. promise.remote
    BY <2>1 DEF Conversation, AtRest, Arrived
  <2>3. net.asked # Absent => net.asked.kind = "dir"
    BY <2>1, <2>2 DEF Conversation, ListQueue
  <2>. QED
    BY <2>1, <2>2, <2>3, ReceiveStep, QueueTyped DEF Conversation, AtRest, ListQueue, Stream, Clean,
       Queue, AskedKinds, Elsewhere
<1>3. CASE ReceiveEnd
  <2>1. /\ agent.pc = "list" /\ agent'.pc = "next" /\ UNCHANGED <<promise, server>>
        /\ Arrived /\ Received /\ Answer.kind = "end"
    BY <1>0, <1>3 DEF ReceiveEnd, AgentState, Answered
  <2>2. net.asked = Absent /\ Len(net.in) = 1
    BY <2>1, ReceiveStep DEF Conversation, AtRest, ListQueue, DirAsked
  <2>. QED
    BY <2>1, <2>2, ReceiveStep, SettledStep DEF Conversation, AtRest, AskedKinds, Elsewhere
<1>4. CASE ReceiveNothing
  <2>1. /\ agent.pc = "list" /\ agent'.pc = "next" /\ UNCHANGED <<promise, net, server>>
        /\ net.in = <<>> /\ net.asked = Absent
    BY <1>0, <1>4 DEF ReceiveNothing, AgentState, Lost, Arrived, Online
  <2>. QED
    BY <2>1, SettledStep DEF Conversation, AtRest, AskedKinds, Elsewhere
<1>5. CASE ReceiveError
  BY <1>5, FinishConverses DEF ReceiveError
<1>6. CASE cfreaddir
  <2>1. /\ agent.pc = "list" /\ agent'.pc = "next" /\ UNCHANGED <<promise, net, server>>
        /\ net.in = <<>> /\ net.asked = Absent
    BY <1>0, <1>6 DEF cfreaddir, AgentState, Conversation, AtRest, Online
  <2>. QED
    BY <2>1, SettledStep DEF Conversation, AtRest, AskedKinds, Elsewhere
<1>. QED
  BY <1>1, <1>2, <1>3, <1>4, <1>5, <1>6 DEF Listing

(* What the agent finds when it waits for an answer and there is none. *)
LEMMA UnansweredStep ==
  ASSUME Typed, Online, Conversation, NEW k \in {"stat", "md5"}, Unanswered(k),
         agent.pc \in {"stat", "compared", "verified"},
         k = IF agent.pc = "stat" THEN "stat" ELSE "md5"
  PROVE  /\ (Dirty' /\ net' = net) \/ (net'.in = <<>> /\ net'.asked = Absent)
         /\ net'.asked = net.asked
<1>1. CASE Lost /\ UNCHANGED net
  BY <1>1 DEF Lost, Arrived, Online
<1>2. CASE Arrived /\ Answer.kind \in Data /\ UNCHANGED net
  <2>1. net.in \in Seq(Message) /\ net.in # <<>> /\ net.in[1] = Answer
    BY <1>2, QueueTyped DEF Arrived, Answer
  <2>. QED
    BY <1>2, <2>1 DEF Dirty
<1>3. CASE Arrived /\ Answer.kind \notin Data /\ Received
  <2>1. net.in # <<>> /\ ~Dirty
    BY <1>3, ReceiveStep DEF Dirty
  <2>2. net.asked = Absent /\ Len(net.in) = 1
    BY <2>1, ReceiveStep, <1>3 DEF Conversation, AtRest, Clean, Queue, Single, Elsewhere
  <2>. QED
    BY <1>3, <2>2, ReceiveStep
<1>. QED
  BY <1>1, <1>2, <1>3 DEF Unanswered

LEMMA CheckingConverses ==
  ASSUME Typed, Online, Conversation, Checking
  PROVE  Conversation'
<1>0. agent \in AgentState
  BY DEF Typed, StateTyped
<1>1. CASE RecursiveImage /\ promise.remote
  <2>1. PICK n \in agent.todo :
           /\ agent' = [agent EXCEPT !.name = n, !.todo = @ \ {n}, !.pc = "stat"]
           /\ Ask([kind |-> "stat", name |-> n])
    BY <1>0, <1>1 DEF RecursiveImage, AgentState
  <2>2. agent.pc = "next" /\ agent'.pc = "stat" /\ agent'.name = n
        /\ UNCHANGED <<promise, server>>
    BY <1>0, <1>1, <2>1 DEF RecursiveImage, AgentState
  <2>3. /\ net'.in = net.in
        /\ net'.asked # Absent => net'.asked.kind = "stat" /\ net'.asked.name = n
    BY <2>1, AskStep
  <2>. QED
    BY <1>1, <2>2, <2>3 DEF Conversation, AtRest, ListQueue, Stream, Clean, Queue, AskedKinds,
       Elsewhere, Dirty
<1>2. CASE RecursiveImage /\ ~promise.remote
  <2>1. agent.pc = "next" /\ agent'.pc \in {"next", "copy"} /\ UNCHANGED <<promise, net, server>>
    BY <1>0, <1>2 DEF RecursiveImage, AgentState
  <2>2. net.in = <<>> /\ net.asked = Absent
    BY <1>2 DEF Conversation, AtRest, Online
  <2>. QED
    BY <1>2, <2>1, <2>2 DEF Conversation, AtRest, ListQueue, Stream, Clean, Queue, AskedKinds,
       Elsewhere, Dirty
<1>3. CASE ReceiveStat
  <2>1. /\ agent.pc = "stat" /\ agent'.pc \in {"copy", "compare", "next"}
        /\ UNCHANGED <<promise, server>> /\ Arrived /\ Received /\ Answer.kind = "stat"
    BY <1>0, <1>3 DEF ReceiveStat, AgentState, Answered
  <2>2. net.asked = Absent /\ Len(net.in) = 1 /\ server.file = Absent
    BY <2>1, ReceiveStep DEF Conversation, Queue, Dirty, Single, Elsewhere, Data
  <2>3. net'.in = <<>> /\ net'.asked = Absent
    BY <2>1, <2>2, ReceiveStep
  <2>. QED
    BY <2>1, <2>2, <2>3 DEF Conversation, AtRest, ListQueue, Stream, Clean, Queue, AskedKinds,
       Elsewhere
<1>4. CASE StatFails
  <2>1. agent.pc = "stat" /\ agent'.pc = "next" /\ UNCHANGED <<promise, server>>
    BY <1>4, GotoStep DEF StatFails
  <2>2. /\ (Dirty' /\ net' = net) \/ (net'.in = <<>> /\ net'.asked = Absent)
        /\ net'.asked = net.asked
    BY <1>4, <2>1, UnansweredStep DEF StatFails
  <2>3. AtRest' /\ AskedKinds'
    BY <2>1, <2>2 DEF Conversation, AtRest, AskedKinds, Elsewhere
  <2>. QED
    BY <2>1, <2>2, <2>3, SettledStep DEF Elsewhere
<1>5. CASE AskMD5
  <2>1. /\ \/ agent.pc = "compare" /\ agent'.pc = "compared"
           \/ agent.pc = "verify" /\ agent'.pc = "verified"
        /\ UNCHANGED <<promise, server>> /\ promise.remote
    BY <1>5, GotoStep DEF AskMD5
  <2>2. net'.in = net.in /\ (net'.asked # Absent => net'.asked.kind = "md5")
    BY <1>5, AskStep DEF AskMD5
  <2>. QED
    BY <2>1, <2>2 DEF Conversation, AtRest, ListQueue, Stream, Clean, Queue, AskedKinds,
       Elsewhere, Dirty
<1>6. CASE ReceiveMD5
  <2>1. /\ agent.pc = "compared" /\ agent'.pc \in {"copy", "next"}
        /\ UNCHANGED <<promise, server>> /\ Arrived /\ Received
    BY <1>6, GotoStep DEF ReceiveMD5, Answered
  <2>2. promise.remote
    BY <2>1 DEF Conversation, AtRest, Arrived
  <2>3. net.asked = Absent /\ Len(net.in) = 1 /\ server.file = Absent
    BY <2>1, <2>2, ReceiveStep DEF Conversation, Clean, Single
  <2>4. net'.in = <<>> /\ net'.asked = Absent
    BY <2>1, <2>3, ReceiveStep
  <2>. QED
    BY <2>1, <2>3, <2>4 DEF Conversation, AtRest, ListQueue, Stream, Clean, Queue, AskedKinds,
       Elsewhere
<1>7. CASE MD5Fails
  <2>1. agent.pc = "compared" /\ agent'.pc = "next" /\ UNCHANGED <<promise, server>>
    BY <1>7, GotoStep DEF MD5Fails
  <2>2. /\ (Dirty' /\ net' = net) \/ (net'.in = <<>> /\ net'.asked = Absent)
        /\ net'.asked = net.asked
    BY <1>7, <2>1, UnansweredStep DEF MD5Fails
  <2>3. AtRest' /\ AskedKinds'
    BY <2>1, <2>2 DEF Conversation, AtRest, AskedKinds, Elsewhere
  <2>. QED
    BY <2>1, <2>2, <2>3, SettledStep DEF Elsewhere
<1>. QED
  BY <1>1, <1>2, <1>3, <1>4, <1>5, <1>6, <1>7 DEF Checking

(* A block, or the notice that the file has changed, is taken. *)
LEMMA TakeStep ==
  ASSUME Typed, Online, Conversation, agent.pc \in {"receive", "flush"},
         Arrived, Received, Answer.kind \in Data
  PROVE  /\ net'.asked = Absent /\ net.asked = Absent
         /\ Dirty' \/ net'.in = <<>>
         /\ \A i \in 1..Len(net'.in) : net'.in[i].kind \in Data
<1>1. net.asked = Absent
  BY DEF Conversation, Stream, Arrived
<1>2. DataOnly
  BY ReceiveStep DEF Conversation, Stream, Single, Data
<1>3. \A i \in 1..Len(net'.in) : net'.in[i].kind \in Data
  BY <1>2, ReceiveStep DEF DataOnly
<1>4. Dirty' \/ net'.in = <<>>
  <2>1. net'.in # <<>> => 1 \in 1..Len(net'.in)
    BY QueueTyped, ReceiveStep
  <2>. QED
    BY <1>3, <2>1 DEF Dirty
<1>. QED
  BY <1>1, <1>3, <1>4, ReceiveStep

LEMMA CopyingConverses ==
  ASSUME Typed, Online, Conversation, Copying \/ WriteFails \/ DiskFull
  PROVE  Conversation'
<1>0. agent \in AgentState
  BY DEF Typed, StateTyped
<1>1. CASE Refrain
  <2>1. agent.pc = "copy" /\ agent'.pc = "next" /\ promise.remote
        /\ UNCHANGED <<promise, net, server>>
    BY <1>1, GotoStep DEF Refrain
  <2>2. net.in = <<>> /\ net.asked = Absent
    BY <2>1 DEF Conversation, Clean
  <2>. QED
    BY <2>1, <2>2, SettledStep DEF Conversation, AtRest, AskedKinds, Elsewhere
<1>2. CASE AskFile
  <2>1. /\ agent.pc = "copy" /\ agent'.pc = "receive" /\ agent'.name = agent.name
        /\ agent'.total = 0 /\ promise.remote /\ UNCHANGED <<promise, server>>
    BY <1>0, <1>2 DEF AskFile, AgentState
  <2>2. net.in = <<>> /\ net.asked = Absent /\ server.file = Absent
    BY <2>1 DEF Conversation, Clean
  <2>3. /\ net'.in = <<>> /\ Len(net'.in) = 0
        /\ net'.asked # Absent => net'.asked.kind = "get" /\ net'.asked.name = agent.name
    BY <1>2, <2>2, AskStep, EmptySeq DEF AskFile
  <2>. QED
    BY <2>1, <2>2, <2>3 DEF Conversation, AtRest, ListQueue, Stream, Clean, Queue, AskedKinds,
       Elsewhere, DataOnly
<1>3. CASE ReceiveBlock \/ ReceivePart
  <2>1. /\ agent.pc = "receive" /\ agent'.pc \in {"receive", "back up"}
        /\ UNCHANGED <<promise, server>> /\ Arrived /\ Received /\ Answer.kind \in Data
    BY <1>0, <1>3 DEF ReceiveBlock, ReceivePart, AgentState, Answered, Data
  <2>2. /\ net'.asked = Absent /\ (Dirty' \/ net'.in = <<>>)
        /\ \A i \in 1..Len(net'.in) : net'.in[i].kind \in Data
    BY <2>1, TakeStep
  <2>3. AtRest' /\ AskedKinds'
    BY <2>1, <2>2, ReceiveStep DEF Conversation, AtRest, AskedKinds, Arrived
  <2>4. CASE agent'.pc = "back up"
    BY <2>2, <2>3, <2>4, SettledStep DEF Elsewhere
  <2>5. CASE agent'.pc = "receive"
    BY <2>2, <2>3, <2>5 DEF Conversation, ListQueue, Stream, Clean, Queue, Elsewhere, DataOnly
  <2>. QED
    BY <2>1, <2>4, <2>5
<1>4. CASE ReceiveChanged
  <2>1. /\ agent.pc = "receive" /\ agent'.pc = "next"
        /\ UNCHANGED <<promise, server>> /\ Arrived /\ Received /\ Answer.kind \in Data
    BY <1>4, GotoStep DEF ReceiveChanged, Answered, Data
  <2>2. net'.asked = Absent /\ (Dirty' \/ net'.in = <<>>)
    BY <2>1, TakeStep
  <2>3. AtRest' /\ AskedKinds'
    BY <2>1, <2>2, ReceiveStep DEF Conversation, AtRest, AskedKinds, Arrived
  <2>. QED
    BY <2>1, <2>2, <2>3, SettledStep DEF Elsewhere
<1>5. CASE ReceiveRefusal
  <2>1. /\ agent.pc = "receive" /\ UNCHANGED <<promise, agent, server>>
        /\ Arrived /\ Received /\ Answer.kind = "refused"
    BY <1>5 DEF ReceiveRefusal, Answered
  <2>2. net.asked = Absent /\ server.file = Absent /\ Len(net.in) = 1
    BY <2>1, ReceiveStep DEF Conversation, Stream, DataOnly, Single, Data
  <2>3. net'.in = <<>> /\ Len(net'.in) = 0 /\ net'.asked = Absent
    BY <2>1, <2>2, ReceiveStep, EmptySeq
  <2>. QED
    BY <2>1, <2>2, <2>3 DEF Conversation, AtRest, ListQueue, Stream, Clean, Queue, AskedKinds,
       Elsewhere, DataOnly
<1>6. CASE ReceiveNoMore
  <2>1. /\ agent.pc = "receive" /\ agent'.pc \in {"back up", "next"}
        /\ UNCHANGED <<promise, net, server>>
        /\ net.in = <<>> /\ net.asked = Absent
    BY <1>6, GotoStep DEF ReceiveNoMore, Lost, Arrived, Online
  <2>. QED
    BY <2>1, SettledStep DEF Conversation, AtRest, AskedKinds, Elsewhere
<1>7. CASE WriteFails
  <2>1. /\ agent.pc = "receive" /\ agent'.pc = "flush"
        /\ UNCHANGED <<promise, server>> /\ Arrived /\ Received /\ Answer.kind \in Data
    BY <1>0, <1>7 DEF WriteFails, AgentState, Answered, Data
  <2>2. /\ net'.asked = Absent /\ \A i \in 1..Len(net'.in) : net'.in[i].kind \in Data
    BY <2>1, TakeStep
  <2>3. AtRest' /\ AskedKinds'
    BY <2>1, <2>2, ReceiveStep DEF Conversation, AtRest, AskedKinds, Arrived
  <2>. QED
    BY <2>1, <2>2, <2>3 DEF Conversation, ListQueue, Stream, Clean, Queue, Elsewhere, DataOnly
<1>8. CASE FlushToEnd
  <2>1. agent.pc = "flush" /\ UNCHANGED <<promise, server>>
    BY <1>8 DEF FlushToEnd
  <2>2. DataOnly /\ net.asked = Absent
    BY <2>1 DEF Conversation, Stream
  <2>3. CASE Arrived /\ Received /\ agent' = [agent EXCEPT !.total = @ + 1]
    <3>1. agent'.pc = "flush"
      BY <1>0, <2>1, <2>3 DEF AgentState
    <3>2. Answer.kind \in Data
      BY <2>2, <2>3, ReceiveStep DEF DataOnly
    <3>3. /\ net'.asked = Absent /\ \A i \in 1..Len(net'.in) : net'.in[i].kind \in Data
      BY <2>1, <2>3, <3>2, TakeStep
    <3>4. AtRest' /\ AskedKinds'
      BY <2>1, <2>3, <3>1, <3>3, ReceiveStep DEF Conversation, AtRest, AskedKinds, Arrived
    <3>. QED
      BY <3>1, <3>3, <3>4 DEF Conversation, ListQueue, Stream, Clean, Queue, Elsewhere, DataOnly
  <2>4. CASE Goto("next") /\ UNCHANGED net
    <3>1. agent'.pc = "next"
      BY <2>4, GotoStep
    <3>2. Dirty \/ net.in = <<>>
      BY <2>2, QueueTyped DEF Dirty, DataOnly
    <3>. QED
      BY <2>1, <2>2, <2>4, <3>1, <3>2, SettledStep
         DEF Conversation, AtRest, AskedKinds, Elsewhere, Dirty
  <2>. QED
    BY <1>8, <2>3, <2>4 DEF FlushToEnd
<1>9. CASE OpenSource \/ CopyRegDisk \/ DiskFull
  <2>1. /\ agent.pc \in {"copy", "read"} /\ agent'.pc \in {"next", "read", "back up"}
        /\ ~promise.remote /\ UNCHANGED <<promise, net>>
    BY <1>9, GotoStep DEF OpenSource, CopyRegDisk, DiskFull, Typed, Named
  <2>2. net.in = <<>> /\ net.asked = Absent
    BY <2>1 DEF Conversation, AtRest, Online
  <2>3. server'.file = Absent => server'.name = Absent
    <3>1. CASE UNCHANGED server \/ server' = Waiting
      BY <3>1 DEF Waiting, Conversation, AtRest
    <3>2. CASE OpenSource /\ source[agent.name] # Absent
      BY <3>2 DEF OpenSource, Waiting
    <3>3. CASE CopyRegDisk /\ server' = [server EXCEPT !.pos = @ + 1]
      BY <3>3 DEF Typed, StateTyped, ServerState, Conversation, AtRest
    <3>. QED
      BY <1>9, <3>1, <3>2, <3>3 DEF OpenSource, CopyRegDisk, DiskFull
  <2>4. AtRest' /\ AskedKinds'
    BY <2>1, <2>2, <2>3 DEF AtRest, AskedKinds
  <2>. QED
    BY <2>1, <2>2, <2>4 DEF Conversation, ListQueue, Stream, Clean, Queue, Elsewhere
<1>. QED
  BY <1>1, <1>2, <1>3, <1>4, <1>5, <1>6, <1>7, <1>8, <1>9 DEF Copying

LEMMA InstallingConverses ==
  ASSUME Typed, Online, Conversation, Installing
  PROVE  Conversation'
<1>1. CASE Unsave \/ Save \/ Measure \/ VerifyDisk \/ Install \/ Archive
  <2>1. \A n : GiveUp(n) => Goto("next")
    BY DEF GiveUp
  <2>2. agent.pc \in {"back up", "save", "measure", "verify", "install", "archive"}
        /\ agent'.pc \in {"save", "measure", "verify", "install", "archive", "next"}
        /\ UNCHANGED <<promise, net, server>>
    BY <1>1, <2>1, GotoStep DEF Unsave, Save, Measure, VerifyDisk, Install, Archive
  <2>. QED
    BY <2>2, QuietStep DEF Elsewhere
<1>2. CASE VerifyNet
  <2>1. agent.pc = "verified" /\ agent'.pc \in {"next", "install"} /\ UNCHANGED <<promise, server>>
    BY <1>2, GotoStep DEF VerifyNet, GiveUp
  <2>2. CASE Answered("md5")
    <3>1. Arrived /\ Received /\ Answer.kind = "md5"
      BY <2>2 DEF Answered
    <3>2. net.asked = Absent /\ Len(net.in) = 1
      BY <2>1, <3>1, ReceiveStep DEF Conversation, Queue, Dirty, Single, Elsewhere, Data
    <3>3. net'.in = <<>> /\ net'.asked = Absent
      BY <3>1, <3>2, ReceiveStep
    <3>. QED
      BY <2>1, <3>3, SettledStep DEF Conversation, AtRest, AskedKinds, Elsewhere
  <2>3. CASE Unanswered("md5")
    <3>1. /\ (Dirty' /\ net' = net) \/ (net'.in = <<>> /\ net'.asked = Absent)
          /\ net'.asked = net.asked
      BY <2>1, <2>3, UnansweredStep
    <3>2. AtRest' /\ AskedKinds'
      BY <2>1, <3>1 DEF Conversation, AtRest, AskedKinds, Elsewhere
    <3>. QED
      BY <2>1, <3>1, <3>2, SettledStep DEF Elsewhere
  <2>. QED
    BY <1>2, <2>2, <2>3 DEF VerifyNet
<1>. QED
  BY <1>1, <1>2 DEF Installing

LEMMA PurgingConverses ==
  ASSUME Typed, Online, Conversation, Purging
  PROVE  Conversation'
<1>1. CASE Finish
  BY <1>1, FinishConverses
<1>2. CASE /\ agent.pc \in {"next", "purge"} /\ agent'.pc = "purge"
           /\ UNCHANGED <<promise, net, server>>
  BY <1>2, QuietStep DEF Elsewhere
<1>. QED
  BY <1>1, <1>2, GotoStep DEF Purging, EndOfFiles, PurgeFile, PurgeSaved, EndOfPurge

(* What a request finds: only the one that the agent is waiting for is        *)
(* answered with nothing in front of the answer.                             *)
LEMMA AnswerStep ==
  ASSUME Typed, Online, Conversation, NEW k \in {"stat", "md5"}, Asked(k),
         NEW m \in Message, m.kind \in {k, "refused"}, Reply(<<m>>),
         UNCHANGED <<promise, agent, server>>
  PROVE  Conversation'
<1>1. /\ net.asked # Absent /\ net.asked.kind = k /\ server.file = Absent /\ promise.remote
      /\ agent.pc \notin {"idle", "list", "receive", "flush"}
  BY DEF Asked, Online, Conversation, AtRest, ListQueue, Stream, AskedKinds, Elsewhere
<1>2. net'.asked = Absent /\ AtRest' /\ AskedKinds'
  BY <1>1, ReplyStep DEF Conversation, AtRest, AskedKinds
<1>3. CASE Dirty
  <2>1. agent.pc \in Elsewhere
    BY <1>1, <1>3 DEF Conversation, Clean, AskedKinds, Dirty, Elsewhere
  <2>2. Dirty'
    <3>1. 1 \in 1..Len(net.in)
      BY <1>3, QueueTyped DEF Dirty
    <3>. QED
      BY <1>3, <3>1, ReplyStep DEF Dirty
  <2>. QED
    BY <1>2, <2>1, <2>2 DEF Conversation, ListQueue, Stream, Clean, Queue, Elsewhere
<1>4. CASE ~Dirty
  <2>1. /\ net.in = <<>>
        /\ agent.pc = IF k = "stat" THEN "stat" ELSE agent.pc
        /\ k = "md5" => agent.pc \in {"compared", "verified"}
    BY <1>1, <1>4 DEF Conversation, Clean, Queue, AskedKinds, Elsewhere
  <2>2. Len(net'.in) = 1 /\ net'.in[1] = m
    BY <2>1, QueueTyped, ReplyStep
  <2>. QED
    BY <1>1, <1>2, <2>1, <2>2 DEF Conversation, ListQueue, Stream, Clean, Queue, Elsewhere, Single
<1>. QED
  BY <1>3, <1>4

LEMMA ServerConverses ==
  ASSUME Typed, Online, DirAsked, Conversation, Server
  PROVE  Conversation'
<1>0. net \in NetState /\ server \in ServerState
  BY DEF Typed, StateTyped
<1>1. CASE CfOpenDirectory
  <2>1. /\ net.asked # Absent /\ net.asked.kind = "dir" /\ server.file = Absent
        /\ UNCHANGED <<promise, agent, server>>
    BY <1>1 DEF CfOpenDirectory, Asked
  <2>2. agent.pc = "list" /\ net.in = <<>> /\ promise.remote
    BY <2>1 DEF DirAsked, Online
  <2>3. PICK S \in SUBSET Name : Reply(Packets(S))
    BY <1>1 DEF CfOpenDirectory, Packets, Names
  <2>4. /\ net'.asked = Absent /\ net'.in = Packets(S)
    <3>1. net'.asked = Absent /\ net'.in = <<>> \o Packets(S)
      BY <1>0, <2>2, <2>3 DEF Reply, NetState
    <3>. QED
      BY <3>1, PacketsTyped, ConcatEmptySeq
  <2>5. /\ Names(S) \in Seq(Message) /\ Len(Packets(S)) = Len(Names(S)) + 1
        /\ Len(Names(S)) \in Nat
        /\ \A i \in 1..Len(Names(S)) : Packets(S)[i] = Names(S)[i]
        /\ Packets(S)[Len(Names(S)) + 1] = [kind |-> "end"]
    <3>1. <<[kind |-> "end"]>> \in Seq(Message)
      BY MessageFields
    <3>. QED
      BY <3>1, PacketsTyped, LenProperties, ConcatProperties DEF Packets
  <2>6. \A i \in 1..Len(Names(S)) : Names(S)[i].kind = "name"
    BY <2>5, LenProperties DEF Names
  <2>7. ASSUME NEW i \in 1..Len(net'.in)
        PROVE  /\ net'.in[i].kind \in {"name", "end"}
               /\ net'.in[i].kind = "end" => i = Len(net'.in)
    <3>1. CASE i = Len(Names(S)) + 1
      BY <2>4, <2>5, <3>1
    <3>2. CASE i \in 1..Len(Names(S))
      BY <2>4, <2>5, <2>6, <3>2
    <3>. QED
      BY <2>4, <2>5, <2>7, <3>1, <3>2
  <2>. QED
    BY <2>1, <2>2, <2>4, <2>7 DEF Conversation, AtRest, ListQueue, Stream, Clean, Queue,
       AskedKinds, Elsewhere
<1>2. CASE StatFile
  <2>1. PICK m \in Message : Reply(<<m>>) /\ m.kind \in {"stat", "refused"}
    <3>1. net.asked.name \in Name
      BY <1>0, <1>2, AskedTyped DEF StatFile
    <3>2. source[net.asked.name] \in Version \cup {Absent}
      BY <3>1 DEF Typed, StateTyped
    <3>3. source[net.asked.name] # Absent => Size[source[net.asked.name]] \in Nat \ {0}
      BY <3>2, SizesTyped
    <3>. QED
      BY <1>2, <3>3, MessageFields DEF StatFile
  <2>. QED
    BY <1>2, <2>1, AnswerStep DEF StatFile
<1>3. CASE CompareLocalChecksum
  <2>1. PICK m \in Message : Reply(<<m>>) /\ m.kind \in {"md5", "refused"}
    BY <1>3, MessageFields DEF CompareLocalChecksum
  <2>. QED
    BY <1>3, <2>1, AnswerStep DEF CompareLocalChecksum
<1>4. CASE GetFile
  <2>1. /\ net.asked # Absent /\ net.asked.kind = "get" /\ server.file = Absent
        /\ UNCHANGED <<promise, agent>>
    BY <1>4 DEF GetFile, Asked
  <2>2. agent.pc = "receive" /\ net.in = <<>> /\ promise.remote
    BY <2>1 DEF Conversation, Stream, AskedKinds, Online
  <2>3. CASE UNCHANGED server /\ Reply(<<[kind |-> "refused"]>>)
    <3>1. net'.asked = Absent /\ Len(net'.in) = 1 /\ net'.in[1] = [kind |-> "refused"]
      BY <2>2, <2>3, ReplyStep, QueueTyped, MessageFields
    <3>. QED
      BY <2>1, <2>2, <2>3, <3>1 DEF Conversation, AtRest, ListQueue, Stream, Clean, Queue,
         AskedKinds, Elsewhere, Single
  <2>4. CASE source[net.asked.name] # Absent
    <3>1. net'.asked = Absent /\ net'.in = <<>> /\ Len(net'.in) = 0
      BY <1>4, <2>2, <2>4, ReplyNothing, EmptySeq DEF GetFile
    <3>2. server'.file # Absent
      BY <1>4, <2>4 DEF GetFile, Waiting
    <3>. QED
      BY <2>1, <2>2, <3>1, <3>2 DEF Conversation, AtRest, ListQueue, Stream, Clean, Queue,
         AskedKinds, Elsewhere, DataOnly
  <2>. QED
    BY <1>4, <2>3, <2>4 DEF GetFile
<1>5. CASE CfGetFile
  <2>1. server.file # Absent /\ promise.remote /\ UNCHANGED <<promise, agent>>
    BY <1>5 DEF CfGetFile
  <2>2. /\ agent.pc \notin {"idle", "list", "compare", "compared", "copy"}
        /\ agent.pc \in {"receive", "flush"} => net.asked = Absent /\ DataOnly
        /\ agent.pc \in Elsewhere =>
              Dirty \/ (net.in = <<>> /\ (net.asked = Absent \/ agent.pc \in {"stat", "verified"}))
    BY <2>1 DEF Conversation, AtRest, ListQueue, Stream, Clean, Queue
  <2>3. server'.file = Absent => server'.name = Absent
    <3>1. PICK p \in Nat, c \in Nat : p = server.pos + 1 /\ c = server.count + 1
      BY <1>0 DEF ServerState
    <3>2. server' = Waiting \/ server' = [server EXCEPT !.pos = p, !.count = c]
      BY <1>5, <3>1 DEF CfGetFile
    <3>3. server' = [server EXCEPT !.pos = p, !.count = c] => server'.file = server.file
      BY <1>0 DEF ServerState
    <3>4. server' = Waiting => server'.name = Absent
      BY DEF Waiting
    <3>. QED
      BY <2>1, <3>2, <3>3, <3>4
  <2>4. CASE net' = net
    BY <2>1, <2>2, <2>3, <2>4 DEF Conversation, AtRest, ListQueue, Stream, Clean, Queue,
       AskedKinds, Elsewhere, DataOnly, Dirty
  <2>5. CASE net' # net
    <3>1. PICK m \in Message : Reply(<<m>>) /\ m.kind \in Data
      <4>1. server.file \in Version /\ server.pos \in Nat
        BY <1>0, <2>1 DEF ServerState
      <4>2. \/ Reply(<<[kind |-> "changed"]>>)
            \/ /\ server.pos < Size[server.file]
               /\ Reply(<<[kind |-> "block", block |-> <<server.file, server.pos + 1>>]>>)
        BY <1>5, <2>5, <4>1, SizesTyped DEF CfGetFile
      <4>3. server.pos < Size[server.file] => <<server.file, server.pos + 1>> \in Block
        <5>1. server.pos < Size[server.file] => server.pos + 1 \in {1, 2}
          BY <4>1, SizesTyped
        <5>. QED
          BY <4>1, <5>1, BlocksTyped
      <4>. QED
        BY <4>2, <4>3, MessageFields DEF Data
    <3>2. net'.asked = Absent /\ net'.in # <<>>
      BY <3>1, ReplyStep
    <3>3. Dirty \/ net.in = <<>> => Dirty'
      <4>1. Dirty => 1 \in 1..Len(net.in)
        BY QueueTyped DEF Dirty
      <4>2. net.in = <<>> => Len(net.in) + 1 = 1
        BY QueueTyped
      <4>. QED
        BY <3>1, <3>2, <4>1, <4>2, ReplyStep DEF Dirty
    <3>4. DataOnly => DataOnly'
      <4>1. ASSUME DataOnly, NEW i \in 1..Len(net'.in) PROVE net'.in[i].kind \in Data
        <5>1. i \in 1..Len(net.in) \/ i = Len(net.in) + 1
          BY <3>1, QueueTyped, ReplyStep
        <5>. QED
          BY <3>1, <4>1, <5>1, ReplyStep DEF DataOnly
      <4>. QED
        BY <4>1 DEF DataOnly
    <3>. QED
      BY <2>1, <2>2, <2>3, <3>2, <3>3, <3>4 DEF Conversation, AtRest, ListQueue, Stream, Clean,
         Queue, AskedKinds, Elsewhere
  <2>. QED
    BY <2>4, <2>5
<1>. QED
  BY <1>1, <1>2, <1>3, <1>4, <1>5 DEF Server

LEMMA WorldConverses ==
  ASSUME Typed, Online, Conversation, Change \/ Lose \/ Kill \/ Expire
  PROVE  Conversation'
<1>1. CASE Change
  <2>1. UNCHANGED <<promise, agent, net>>
    BY <1>1 DEF Change
  <2>2. /\ server'.file = Absent <=> server.file = Absent
        /\ server'.name = server.name
    <3>1. server \in ServerState /\ (server.file = Absent => server.name = Absent)
      BY DEF Typed, StateTyped, Conversation, AtRest
    <3>2. PICK n \in Name, v \in Version :
             \/ server' = server
             \/ server' = [server EXCEPT !.linked = FALSE]
             \/ server.name = n /\ server' = [server EXCEPT !.file = v]
      <4>1. server = [server EXCEPT !.file = @]
        BY <3>1 DEF ServerState
      <4>. QED
        BY <1>1, <4>1 DEF Change
    <3>. QED
      BY <3>1, <3>2, Constants DEF ServerState
  <2>. QED
    BY <2>1, <2>2 DEF Conversation, AtRest, ListQueue, Stream, Clean, Queue, AskedKinds,
       DataOnly, Single, Dirty
<1>2. CASE Lose
  <2>1. /\ net'.asked = Absent /\ server'.file = Absent /\ server'.name = Absent
        /\ UNCHANGED <<promise, agent>> /\ promise.remote
    BY <1>2, LoseStep DEF Online
  <2>2. Len(net'.in) \in Nat /\ Len(net'.in) <= Len(net.in)
        /\ (net'.in = <<>> <=> Len(net'.in) = 0)
        /\ Len(net.in) \in Nat /\ (net.in = <<>> <=> Len(net.in) = 0)
    <3>1. Typed'
      BY <1>2, WorldTyped
    <3>. QED
      <4>1. net'.in \in Seq(Message)
        BY <3>1 DEF Typed, StateTyped, NetState
      <4>2. Len(net'.in) \in Nat /\ (net'.in = <<>> <=> Len(net'.in) = 0)
        BY <4>1, LenProperties, EmptySeq
      <4>3. Len(net.in) \in Nat /\ (net.in = <<>> <=> Len(net.in) = 0)
        BY QueueTyped
      <4>4. Len(net'.in) <= Len(net.in)
        BY <1>2, <4>2, <4>3, LoseStep
      <4>. QED
        BY <4>2, <4>3, <4>4
  <2>3. \A i \in 1..Len(net'.in) :
           /\ i \in 1..Len(net.in)
           /\ \/ net'.in[i] = net.in[i]
              \/ net.in[i].kind = "block" /\ net'.in[i].kind = "part" /\ i = Len(net'.in)
    BY <1>2, <2>2, LoseStep
  <2>4. ListQueue'
    <3>1. ASSUME agent.pc = "list", NEW i \in 1..Len(net'.in)
          PROVE  /\ net'.in[i].kind \in {"name", "end"}
                 /\ net'.in[i].kind = "end" => i = Len(net'.in)
      BY <2>1, <2>2, <2>3, <3>1 DEF Conversation, ListQueue
    <3>. QED
      BY <2>1, <3>1 DEF ListQueue
  <2>5. \A kinds : Single(kinds) /\ kinds \cap Data = {} => net'.in = <<>> \/ Single(kinds)'
    <3> SUFFICES ASSUME NEW kinds, Single(kinds), kinds \cap Data = {}, net'.in # <<>>
                 PROVE  Len(net'.in) = 1 /\ net'.in[1].kind \in kinds
      BY DEF Single
    <3>0. Len(net.in) = 1
      BY DEF Single
    <3>1. Len(net'.in) = 1 /\ 1 \in 1..Len(net'.in)
      <4>1. Len(net'.in) \in Nat /\ Len(net'.in) # 0 /\ Len(net'.in) <= 1
        BY <2>2, <3>0
      <4>2. \A l \in Nat : l # 0 /\ l <= 1 => l = 1 /\ 1 \in 1..l
        OBVIOUS
      <4>. QED
        BY <4>1, <4>2
    <3>2. net.in[1].kind # "block"
      BY DEF Single, Data
    <3>. QED
      BY <2>3, <3>1, <3>2 DEF Single
  <2>6. DataOnly => DataOnly'
    BY <2>3 DEF DataOnly, Data
  <2>7. Dirty => Dirty' \/ net'.in = <<>>
    <3>1. net'.in # <<>> => 1 \in 1..Len(net'.in)
      BY <2>2
    <3>. QED
      BY <2>3, <3>1 DEF Dirty, Data
  <2>8. Stream'
    <3>1. agent.pc = "receive" => DataOnly \/ Single({"refused"})
      BY DEF Conversation, Stream
    <3>2. net'.in = <<>> => DataOnly'
      BY <2>2 DEF DataOnly
    <3>3. Single({"refused"}) => net'.in = <<>> \/ Single({"refused"})'
      BY <2>5 DEF Data
    <3>. QED
      BY <2>1, <2>6, <3>1, <3>2, <3>3 DEF Conversation, Stream
  <2>9. Clean' /\ Queue'
    <3>1. /\ Single({"stat", "refused"}) => net'.in = <<>> \/ Single({"stat", "refused"})'
          /\ Single({"md5", "refused"}) => net'.in = <<>> \/ Single({"md5", "refused"})'
      BY <2>5 DEF Data
    <3>2. net.in = <<>> => net'.in = <<>>
      BY <2>2
    <3>. QED
      BY <2>1, <2>7, <3>1, <3>2 DEF Conversation, Clean, Queue
  <2>10. AtRest' /\ AskedKinds'
    BY <2>1, <2>2 DEF Conversation, AtRest, AskedKinds
  <2>. QED
    BY <2>4, <2>8, <2>9, <2>10 DEF Conversation
<1>3. CASE Kill \/ Expire
  BY <1>3, FinishConverses DEF Kill, Expire
<1>. QED
  BY <1>1, <1>2, <1>3

LEMMA ConversationStep ==
  Typed /\ Online /\ DirAsked /\ Conversation /\ [Next]_vars => Conversation'
<1>1. ASSUME Typed, Online, DirAsked, Conversation, Next PROVE Conversation'
  BY <1>1, ListingConverses, CheckingConverses, CopyingConverses, InstallingConverses,
     PurgingConverses, ServerConverses, WorldConverses DEF Next, Agent, Fault
<1>2. ASSUME Conversation, UNCHANGED vars PROVE Conversation'
  BY <1>2 DEF vars, Conversation, AtRest, ListQueue, Stream, Clean, Queue, AskedKinds,
     DataOnly, Single, Dirty
<1>. QED
  BY <1>1, <1>2

-----------------------------------------------------------------------------
(* What becomes of the blocks. *)
LEMMA Grown ==
  ASSUME NEW d \in Seq(Block), NEW b \in Block
  PROVE  /\ Len(d) \in Nat /\ Len(Append(d, b)) = Len(d) + 1
         /\ \A i \in 1..Len(d) : Append(d, b)[i] = d[i]
         /\ Append(d, b)[Len(d) + 1] = b
BY AppendProperties, LenProperties

LEMMA PrefixGrows ==
  ASSUME NEW v \in Version, NEW d \in Seq(Block), Prefix(d, v), Len(d) < Size[v]
  PROVE  /\ <<v, Len(d) + 1>> \in Block
         /\ Prefix(Append(d, <<v, Len(d) + 1>>), v)
         /\ Torn(Append(d, Garbage), v)
<1>1. Len(d) \in Nat /\ Size[v] \in {1, 2}
  BY SizesTyped, LenProperties
<1>2. <<v, Len(d) + 1>> \in Block
  <2>1. Len(d) + 1 \in {1, 2}
    BY <1>1
  <2>. QED
    BY <2>1, BlocksTyped
<1>3. Prefix(Append(d, <<v, Len(d) + 1>>), v)
  <2>1. PICK e \in Seq(Block) : e = Append(d, <<v, Len(d) + 1>>)
    BY <1>2, AppendProperties
  <2>2. /\ Len(e) = Len(d) + 1 /\ e[Len(d) + 1] = <<v, Len(d) + 1>>
        /\ \A i \in 1..Len(d) : e[i] = d[i]
    BY <1>2, <2>1, Grown
  <2>3. ASSUME NEW i \in 1..Len(e) PROVE e[i] = <<v, i>>
    <3>1. CASE i = Len(d) + 1
      BY <2>2, <3>1
    <3>2. CASE i # Len(d) + 1
      <4>1. i \in 1..Len(d)
        BY <1>1, <2>2, <3>2
      <4>. QED
        BY <2>2, <4>1 DEF Prefix
    <3>. QED
      BY <3>1, <3>2
  <2>4. Len(e) <= Size[v]
    BY <1>1, <2>2
  <2>. QED
    BY <2>1, <2>3, <2>4 DEF Prefix
<1>4. Torn(Append(d, Garbage), v)
  <2>1. PICK e \in Seq(Block) : e = Append(d, Garbage)
    BY BlocksTyped, AppendProperties
  <2>2. /\ Len(e) = Len(d) + 1 /\ e[Len(d) + 1] = Garbage
        /\ \A i \in 1..Len(d) : e[i] = d[i]
    BY <2>1, Grown, BlocksTyped
  <2>3. Len(e) \in 1..Size[v] /\ Len(e) - 1 = Len(d)
    BY <1>1, <2>2
  <2>4. \A i \in 1..Len(e) - 1 : e[i] = <<v, i>>
    BY <2>2, <2>3 DEF Prefix
  <2>. QED
    BY <2>1, <2>2, <2>3, <2>4 DEF Torn
<1>. QED
  BY <1>2, <1>3, <1>4

LEMMA EmptyPrefix ==
  ASSUME NEW v \in Version PROVE Prefix(<<>>, v) /\ Len(<<>>) = 0
BY SizesTyped, EmptySeq DEF Prefix

(* A file of the right length is whole, or torn in its last block. *)
LEMMA PrefixWhole ==
  ASSUME NEW v \in Version, NEW d \in Seq(Block), Prefix(d, v), Len(d) = Size[v]
  PROVE  d = Blocks(v)
<1>1. Len(d) \in Nat /\ d = [i \in 1..Len(d) |-> d[i]]
  BY LenProperties
<1>. QED
  BY <1>1 DEF Prefix, Blocks

LEMMA BlocksOf ==
  ASSUME NEW v \in Version
  PROVE  /\ Blocks(v) \in Seq(Block) /\ Len(Blocks(v)) = Size[v]
         /\ \A i \in 1..Size[v] : Blocks(v)[i] = <<v, i>>
<1>1. PICK k \in {1, 2} : k = Size[v]
  BY SizesTyped
<1>2. \A i \in 1..k : <<v, i>> \in Block
  <2>1. \A i \in 1..k : i \in {1, 2}
    OBVIOUS
  <2>. QED
    BY <2>1, BlocksTyped
<1>3. Blocks(v) \in [1..k -> Block]
  BY <1>1, <1>2 DEF Blocks
<1>4. Blocks(v) \in Seq(Block) /\ Len(Blocks(v)) = k
  BY <1>3
<1>. QED
  BY <1>1, <1>4 DEF Blocks

LEMMA FrontOfOne ==
  ASSUME NEW d \in Seq(Block), Len(d) = 1 PROVE Front(d) = <<>>
BY SubSeqEmpty DEF Front

LEMMA FrontOfTwo ==
  ASSUME NEW d \in Seq(Block), NEW e \in Seq(Block), Len(d) = 2, Len(e) = 2, d[1] = e[1]
  PROVE  Front(d) = Front(e)
<1>1. \A s \in Seq(Block) : Len(s) = 2 =>
         /\ Front(s) \in Seq(Block) /\ Len(Front(s)) = 1 /\ Front(s)[1] = s[1]
  <2> SUFFICES ASSUME NEW s \in Seq(Block), Len(s) = 2
               PROVE  /\ Front(s) \in Seq(Block) /\ Len(Front(s)) = 1
                      /\ Front(s)[1] = s[1]
    OBVIOUS
  <2>1. \A i \in 1..1 : s[i] \in Block
    OBVIOUS
  <2>2. Front(s) = SubSeq(s, 1, 1)
    BY DEF Front
  <2>. QED
    BY <2>1, <2>2, SubSeqProperties
<1>2. Len(Front(d)) = Len(Front(e)) /\ \A i \in 1..Len(Front(d)) : Front(d)[i] = Front(e)[i]
  BY <1>1
<1>. QED
  BY <1>1, <1>2, SeqEqual

LEMMA TornBounded ==
  ASSUME NEW v \in Version, NEW d \in Seq(Block), Torn(d, v), Len(d) = Size[v]
  PROVE  d # <<>> /\ Last(d) = Garbage /\ Front(d) = Front(Blocks(v))
<1>1. Len(d) \in 1..Size[v] /\ Len(d) \in Nat /\ Size[v] \in {1, 2}
  BY LenProperties, SizesTyped DEF Torn
<1>2. d # <<>> /\ Last(d) = Garbage
  BY <1>1, EmptySeq DEF Torn, Last
<1>3. Blocks(v) \in Seq(Block) /\ Len(Blocks(v)) = Size[v]
  BY BlocksOf
<1>4. CASE Size[v] = 1
  <2>1. Len(d) = 1 /\ Len(Blocks(v)) = 1
    BY <1>3, <1>4
  <2>2. Front(d) = <<>> /\ Front(Blocks(v)) = <<>>
    BY <1>3, <2>1, FrontOfOne
  <2>. QED
    BY <1>2, <2>2
<1>5. CASE Size[v] = 2
  <2>1. d[1] = <<v, 1>> /\ Blocks(v)[1] = <<v, 1>>
    BY <1>1, <1>5, BlocksOf DEF Torn
  <2>2. Len(d) = 2 /\ Len(Blocks(v)) = 2
    BY <1>3, <1>5
  <2>3. Front(d) = Front(Blocks(v))
    BY <1>3, <2>1, <2>2, FrontOfTwo
  <2>. QED
    BY <1>2, <2>3
<1>. QED
  BY <1>1, <1>2, <1>4, <1>5

LEMMA OutdatedKeeps ==
  ASSUME NEW f \in [Name -> Slot], NEW n \in Name, NEW m \in Name, f[m] # Absent
  PROVE  /\ Outdated(f, n)[m] # Absent
         /\ Outdated(f, n)[m].data = f[m].data /\ Outdated(f, n)[m].why = f[m].why
<1>1. f[m] \in FileRecord
  BY DEF Slot
<1>2. Outdated(f, n)[m] = f[m] \/ Outdated(f, n)[m] = [f[m] EXCEPT !.outdated = TRUE]
  BY DEF Outdated
<1>3. /\ [f[m] EXCEPT !.outdated = TRUE] # Absent
      /\ [f[m] EXCEPT !.outdated = TRUE].data = f[m].data
      /\ [f[m] EXCEPT !.outdated = TRUE].why = f[m].why
  <2>1. [f[m] EXCEPT !.outdated = TRUE] \in FileRecord
    BY <1>1, FileChanges
  <2>. QED
    BY <1>1, <2>1, FileFields DEF FileRecord
<1>. QED
  BY <1>2, <1>3

LEMMA WriteStep ==
  ASSUME Typed, agent.pc \in WithNew, NEW b \in Block, Write(b)
  PROVE  /\ agent.name \in Name /\ new[agent.name].data \in Seq(Block)
         /\ new'[agent.name].data = Append(new[agent.name].data, b)
<1>1. agent.name \in Name /\ new \in [Name -> Slot] /\ new[agent.name] \in FileRecord
  BY DEF Typed, FilesTyped, Named, WithName
<1>2. new'[agent.name] =
         [new[agent.name] EXCEPT !.data = Append(@, b), !.outdated = FALSE]
  BY <1>1 DEF Write
<1>3. [new[agent.name] EXCEPT !.data = Append(@, b), !.outdated = FALSE].data
         = Append(new[agent.name].data, b)
  BY <1>1 DEF FileRecord
<1>. QED
  BY <1>1, <1>2, <1>3, FileFields

-----------------------------------------------------------------------------
(* The contents, step by step. *)

(* The agent is about no file: only what is installed matters. *)
LEMMA IdleContents ==
  ASSUME agent'.pc \in {"idle", "list", "next", "flush", "archive", "purge"}, AllBounded'
  PROVE  Contents'
BY DEF Contents, Positive, StatSized, Sized, Transfer, Reading, Ready, Measured, WithNew, Finished

LEMMA KeptBounded ==
  ASSUME AllBounded, UNCHANGED <<dest, saved>> PROVE AllBounded'
BY DEF AllBounded

LEMMA ListingContents ==
  ASSUME Typed, Contents, Connect \/ Listing PROVE Contents'
<1>0. agent \in AgentState
  BY DEF Typed, StateTyped
<1>1. UNCHANGED <<dest, saved>>
  BY DEF Connect, Listing, ReceiveName, ReceiveEnd, ReceiveNothing, ReceiveError, cfreaddir, files
<1>2. agent'.pc \in {"idle", "list", "next"}
  <2>1. CASE Connect
    BY <2>1 DEF Connect, Idle
  <2>2. CASE ReceiveName
    BY <1>0, <2>2 DEF ReceiveName, AgentState
  <2>3. CASE ReceiveEnd
    BY <1>0, <2>3 DEF ReceiveEnd, AgentState
  <2>4. CASE ReceiveNothing
    BY <1>0, <2>4 DEF ReceiveNothing, AgentState
  <2>5. CASE ReceiveError
    BY <2>5 DEF ReceiveError, Finish, Idle
  <2>6. CASE cfreaddir
    BY <1>0, <2>6 DEF cfreaddir, AgentState
  <2>. QED
    BY <2>1, <2>2, <2>3, <2>4, <2>5, <2>6 DEF Listing
<1>. QED
  BY <1>1, <1>2, IdleContents, KeptBounded DEF Contents

LEMMA CheckingContents ==
  ASSUME Typed, Conversation, Contents, Checking PROVE Contents'
<1>0. agent \in AgentState /\ UNCHANGED <<dest, saved>>
  BY DEF Typed, StateTyped, Checking, RecursiveImage, ReceiveStat, StatFails, AskMD5,
     ReceiveMD5, MD5Fails, files
<1>1. AllBounded'
  BY <1>0, KeptBounded DEF Contents
<1>2. CASE RecursiveImage /\ promise.remote
  <2>1. agent.pc = "next" /\ agent'.pc = "stat" /\ \E r : Ask(r)
    BY <1>0, <1>2 DEF RecursiveImage, AgentState
  <2>2. net'.in = net.in
    BY <2>1 DEF Ask, Typed, StateTyped, NetState
  <2>3. net.in = <<>> \/ net.in[1].kind # "stat"
    BY <2>1 DEF Conversation, Queue, Elsewhere, Dirty, Data
  <2>. QED
    BY <1>1, <2>1, <2>2, <2>3 DEF Contents, Positive, StatSized, Sized, Transfer, Reading,
       Ready, Measured, WithNew, Finished
<1>3. CASE RecursiveImage /\ ~promise.remote
  <2>1. PICK n \in agent.todo :
           \/ agent' = [agent EXCEPT !.name = n, !.todo = @ \ {n}]
           \/ /\ source[n] # Absent
              /\ agent' = [agent EXCEPT !.name = n, !.todo = @ \ {n}, !.pc = "copy",
                                        !.size = Size[source[n]]]
    BY <1>0, <1>3 DEF RecursiveImage, AgentState
  <2>2. agent.pc = "next" /\ source' = source
    BY <1>3 DEF RecursiveImage
  <2>3. n \in Name /\ (source[n] # Absent => source[n] \in Version /\ Size[source[n]] >= 1)
    <3>1. n \in Name /\ source[n] \in Version \cup {Absent}
      BY DEF Typed, StateTyped, AgentState
    <3>2. \A v \in Version : Size[v] >= 1
      BY SizesTyped
    <3>. QED
      BY <3>1, <3>2
  <2>4. CASE agent'.pc = "next"
    BY <1>1, <2>4, IdleContents
  <2>5. CASE agent'.pc # "next"
    <3>1. agent'.pc = "copy" /\ agent'.name = n /\ agent'.size = Size[source[n]]
          /\ source[n] # Absent
      BY <1>0, <2>1, <2>2, <2>5 DEF AgentState
    <3>. QED
      BY <1>1, <2>2, <2>3, <3>1 DEF Contents, Positive, StatSized, Sized, Transfer, Reading,
         Ready, Measured, WithNew, Finished
  <2>. QED
    BY <2>4, <2>5
<1>4. CASE ReceiveStat
  <2>1. /\ agent.pc = "stat" /\ agent'.pc \in {"copy", "compare", "next"}
        /\ agent'.name = agent.name /\ agent'.size = Answer.size
        /\ UNCHANGED <<source, why>> /\ Arrived /\ Received /\ Answer.kind = "stat"
    BY <1>0, <1>4 DEF ReceiveStat, AgentState, Answered, ghosts
  <2>2. Answer \in Message /\ net.in # <<>> /\ Answer = net.in[1]
    BY <2>1, ReceiveStep
  <2>3. Answer.size \in Nat /\ Answer.size >= 1
    <3>1. Answer.size \in Nat \ {0}
      BY <2>1, <2>2, MessageFields
    <3>. QED
      BY <3>1
  <2>4. Unchanged => source[agent.name] \in Version /\ Answer.size = Size[source[agent.name]]
    BY <2>1, <2>2 DEF Contents, StatSized
  <2>. QED
    BY <1>1, <2>1, <2>3, <2>4 DEF Contents, Positive, StatSized, Sized, Transfer, Reading,
       Ready, Measured, WithNew, Finished, Unchanged
<1>5. CASE AskMD5
  <2>1. /\ \/ agent.pc = "compare" /\ agent'.pc = "compared"
           \/ agent.pc = "verify" /\ agent'.pc = "verified"
        /\ agent'.name = agent.name /\ agent'.size = agent.size
        /\ UNCHANGED <<source, new, why>>
    BY <1>5, GotoStep DEF AskMD5, files, ghosts
  <2>. QED
    BY <1>1, <2>1 DEF Contents, Positive, StatSized, Sized, Transfer, Reading,
       Ready, Measured, WithNew, Finished, Unchanged
<1>6. CASE ReceiveMD5
  <2>1. /\ agent.pc = "compared" /\ agent'.pc \in {"copy", "next"}
        /\ agent'.name = agent.name /\ agent'.size = agent.size
        /\ UNCHANGED <<source, new, why>>
    BY <1>6, GotoStep DEF ReceiveMD5, files, ghosts
  <2>. QED
    BY <1>1, <2>1 DEF Contents, Positive, StatSized, Sized, Transfer, Reading,
       Ready, Measured, WithNew, Finished, Unchanged
<1>7. CASE StatFails \/ MD5Fails
  <2>1. agent'.pc = "next"
    BY <1>7, GotoStep DEF StatFails, MD5Fails
  <2>. QED
    BY <1>1, <2>1, IdleContents
<1>. QED
  BY <1>2, <1>3, <1>4, <1>5, <1>6, <1>7 DEF Checking

(* A transfer in which the next thing to arrive is written. *)
LEMMA ArrivalOfBlock ==
  ASSUME Typed, Contents, ReceiveBlock, Unchanged
  PROVE  LET v == source[agent.name]
             d == new'[agent.name].data
         IN  /\ v \in Version /\ agent.size = Size[v] /\ Len(d) = agent.total + 1
             /\ Prefix(d, v) /\ agent.total + 1 + Len(net'.in) <= Size[v]
             /\ \A i \in 1..Len(net'.in) :
                   \/ /\ net'.in[i].kind = "block"
                      /\ net'.in[i].block = <<v, (agent.total + 1) + i>>
                   \/ /\ i = Len(net'.in) /\ net'.in[i].kind = "part"
                      /\ "lost" \in why /\ ~net.up /\ server.file = Absent
             /\ server.file # Absent =>
                   /\ server.name = agent.name /\ server.file = v
                   /\ server.size = Size[v]
                   /\ server.pos = (agent.total + 1) + Len(net'.in)
<1> DEFINE v == source[agent.name]
           d == new[agent.name].data
<1>1. agent.pc = "receive" /\ Arrived /\ Received /\ Answer.kind = "block"
      /\ Write(Answer.block)
  BY DEF ReceiveBlock, Answered
<1>2. /\ net.in # <<>> /\ Len(net.in) \in Nat /\ Len(net.in) >= 1 /\ 1 \in 1..Len(net.in)
      /\ Answer = net.in[1] /\ Answer \in Message
      /\ Len(net'.in) = Len(net.in) - 1
      /\ \A i \in 1..Len(net'.in) : i + 1 \in 1..Len(net.in) /\ net'.in[i] = net.in[i+1]
  BY <1>1, ReceiveStep, QueueTyped
<1>3. /\ v \in Version /\ agent.size = Size[v] /\ Len(d) = agent.total
      /\ Prefix(d, v) /\ InFlight(v)
  BY <1>1, <1>2 DEF Contents, Transfer
<1>4. /\ agent.total \in Nat /\ Size[v] \in Nat
  BY <1>3, SizesTyped DEF Typed, StateTyped, AgentState
<1>5. Answer.block = <<v, agent.total + 1>> /\ Answer.block \in Block
  BY <1>1, <1>2, <1>3, MessageFields DEF InFlight
<1>6. /\ d \in Seq(Block)
      /\ new'[agent.name].data = Append(d, Answer.block)
  BY <1>1, <1>5, WriteStep DEF WithNew
<1>7. Len(d) < Size[v]
  BY <1>2, <1>3, <1>4 DEF InFlight
<1>8. Prefix(new'[agent.name].data, v) /\ Len(new'[agent.name].data) = agent.total + 1
  <2>1. Prefix(Append(d, Answer.block), v)
    <3>1. Answer.block = <<v, Len(d) + 1>>
      BY <1>3, <1>5
    <3>2. Prefix(Append(d, <<v, Len(d) + 1>>), v)
      BY <1>3, <1>6, <1>7, PrefixGrows
    <3>. QED
      BY <3>1, <3>2
  <2>2. Len(Append(d, Answer.block)) = agent.total + 1
    <3>1. Len(Append(d, Answer.block)) = Len(d) + 1
      BY <1>5, <1>6, Grown
    <3>. QED
      BY <1>3, <3>1
  <2>. QED
    BY <1>6, <2>1, <2>2
<1>9. agent.total + 1 + Len(net'.in) <= Size[v]
  BY <1>2, <1>3, <1>4 DEF InFlight
<1>10. ASSUME NEW i \in 1..Len(net'.in)
       PROVE  \/ /\ net'.in[i].kind = "block"
                 /\ net'.in[i].block = <<v, (agent.total + 1) + i>>
              \/ /\ i = Len(net'.in) /\ net'.in[i].kind = "part"
                 /\ "lost" \in why /\ ~net.up /\ server.file = Absent
  <2>1. i + 1 \in 1..Len(net.in) /\ net'.in[i] = net.in[i+1]
        /\ agent.total + (i + 1) = (agent.total + 1) + i
        /\ (i + 1 = Len(net.in) => i = Len(net'.in))
    <3>1. PICK t \in Nat, l \in Nat : t = agent.total /\ l = Len(net.in) /\ l >= 1
      BY <1>2, <1>4
    <3>2. Len(net'.in) = l - 1 /\ i \in 1..l - 1
      BY <1>2, <3>1
    <3>3. t + (i + 1) = (t + 1) + i /\ (i + 1 = l => i = l - 1)
      BY <3>1, <3>2
    <3>. QED
      BY <1>2, <3>1, <3>2, <3>3
  <2>2. \/ net.in[i+1].kind = "block" /\ net.in[i+1].block = <<v, agent.total + (i + 1)>>
        \/ /\ i + 1 = Len(net.in) /\ net.in[i+1].kind = "part"
           /\ "lost" \in why /\ ~net.up /\ server.file = Absent
    BY <1>3, <2>1 DEF InFlight
  <2>. QED
    BY <2>1, <2>2
<1>11. server.file # Absent =>
          /\ server.name = agent.name /\ server.file = v
          /\ server.size = Size[v]
          /\ server.pos = (agent.total + 1) + Len(net'.in)
  <2>1. agent.total + Len(net.in) = (agent.total + 1) + Len(net'.in)
    <3>1. PICK t \in Nat, l \in Nat : t = agent.total /\ l = Len(net.in)
      BY <1>2, <1>4
    <3>2. Len(net'.in) = l - 1
      BY <1>2, <3>1
    <3>3. t + l = (t + 1) + (l - 1)
      OBVIOUS
    <3>. QED
      BY <3>1, <3>2, <3>3
  <2>. QED
    BY <1>3, <2>1 DEF InFlight
<1>. QED
  BY <1>3, <1>8, <1>9, <1>10, <1>11

LEMMA ArrivalOfPart ==
  ASSUME Typed, Contents, ReceivePart, Unchanged
  PROVE  LET v == source[agent.name]
             d == new'[agent.name].data
         IN  /\ v \in Version /\ agent.size = Size[v] /\ Len(d) = agent.total + 1
             /\ Torn(d, v) /\ "lost" \in why /\ ~net.up
             /\ net'.in = <<>> /\ server.file = Absent
<1> DEFINE v == source[agent.name]
           d == new[agent.name].data
<1>1. agent.pc = "receive" /\ Arrived /\ Received /\ Answer.kind = "part"
      /\ Write(Garbage)
  BY DEF ReceivePart, Answered
<1>2. /\ net.in # <<>> /\ Len(net.in) \in Nat /\ Len(net.in) >= 1 /\ 1 \in 1..Len(net.in)
      /\ Answer = net.in[1] /\ (net'.in = <<>> <=> Len(net.in) = 1)
  BY <1>1, ReceiveStep, QueueTyped
<1>3. /\ v \in Version /\ agent.size = Size[v] /\ Len(d) = agent.total
      /\ Prefix(d, v) /\ InFlight(v)
  BY <1>1, <1>2 DEF Contents, Transfer
<1>4. /\ agent.total \in Nat /\ Size[v] \in Nat
  BY <1>3, SizesTyped DEF Typed, StateTyped, AgentState
<1>5. Len(net.in) = 1 /\ "lost" \in why /\ ~net.up /\ server.file = Absent
  BY <1>1, <1>2, <1>3 DEF InFlight
<1>6. d \in Seq(Block) /\ new'[agent.name].data = Append(d, Garbage)
  BY <1>1, BlocksTyped, WriteStep DEF WithNew
<1>7. Len(d) < Size[v]
  BY <1>2, <1>3, <1>4 DEF InFlight
<1>8. Torn(new'[agent.name].data, v) /\ Len(new'[agent.name].data) = agent.total + 1
  <2>1. Torn(Append(d, Garbage), v)
    BY <1>3, <1>6, <1>7, PrefixGrows
  <2>2. Len(Append(d, Garbage)) = Len(d) + 1
    BY <1>6, Grown, BlocksTyped
  <2>. QED
    BY <1>3, <1>6, <2>1, <2>2
<1>. QED
  BY <1>2, <1>3, <1>5, <1>8

LEMMA CopyingContents ==
  ASSUME Typed, Online, Conversation, Contents, Copying \/ WriteFails \/ DiskFull
  PROVE  Contents'
<1>0. agent \in AgentState /\ agent.total \in Nat /\ UNCHANGED <<dest, saved>>
  BY DEF Typed, StateTyped, AgentState, Copying, Refrain, AskFile, ReceiveBlock, ReceivePart,
     ReceiveChanged, ReceiveRefusal, ReceiveNoMore, FlushToEnd, OpenSource, CopyRegDisk,
     WriteFails, DiskFull, files
<1>1. AllBounded'
  BY <1>0, KeptBounded DEF Contents
<1>2. CASE Refrain \/ ReceiveChanged \/ WriteFails \/ FlushToEnd \/ DiskFull
  <2>1. CASE Refrain \/ ReceiveChanged \/ DiskFull
    BY <1>1, <2>1, GotoStep, IdleContents DEF Refrain, ReceiveChanged, DiskFull
  <2>2. CASE WriteFails
    <3>1. agent'.pc = "flush"
      BY <1>0, <2>2 DEF WriteFails, AgentState
    <3>. QED
      BY <1>1, <3>1, IdleContents
  <2>3. CASE FlushToEnd
    <3>1. agent.pc = "flush" /\ (Goto("next") \/ \E t : agent' = [agent EXCEPT !.total = t])
      BY <2>3 DEF FlushToEnd
    <3>2. agent'.pc \in {"flush", "next"}
      BY <1>0, <3>1, GotoStep DEF AgentState
    <3>. QED
      BY <1>1, <3>2, IdleContents
  <2>. QED
    BY <1>2, <2>1, <2>2, <2>3
<1>3. CASE AskFile
  <2>1. /\ agent.pc = "copy" /\ agent'.pc = "receive" /\ agent'.name = agent.name
        /\ agent'.size = agent.size /\ agent'.total = 0 /\ promise.remote
        /\ UNCHANGED <<source, server, why>>
    BY <1>0, <1>3 DEF AskFile, AgentState, ghosts
  <2>2. net'.in = <<>> /\ server.file = Absent /\ Len(net'.in) = 0
    BY <1>3, <2>1, AskStep, EmptySeq DEF AskFile, Conversation, Clean
  <2>3. new'[agent.name].data = <<>>
    BY <1>3 DEF AskFile, File, Typed, FilesTyped, Named, WithName
  <2>4. Transfer'
    <3>1. SUFFICES ASSUME Unchanged, NEW v \in Version, v = source[agent.name],
                          agent.size = Size[v]
                   PROVE  Transfer'
      BY <2>1 DEF Contents, Sized, Transfer, Unchanged
    <3>2. Prefix(<<>>, v) /\ Len(<<>>) = 0 /\ Size[v] \in Nat
      BY EmptyPrefix, SizesTyped
    <3>3. InFlight(v)'
      BY <2>1, <2>2, <3>2 DEF InFlight
    <3>. QED
      BY <2>1, <2>3, <3>1, <3>2, <3>3 DEF Transfer
  <2>. QED
    BY <1>1, <2>1, <2>4 DEF Contents, Positive, StatSized, Sized, Reading, Ready, Measured,
       WithNew, Finished
<1>4. CASE ReceiveBlock \/ ReceivePart
  <2>1. /\ agent.pc = "receive" /\ agent'.pc \in {"receive", "back up"}
        /\ agent'.name = agent.name /\ agent'.size = agent.size
        /\ agent'.total = agent.total + 1
        /\ UNCHANGED <<source, server, why>> /\ Arrived /\ Received
    BY <1>0, <1>4 DEF ReceiveBlock, ReceivePart, AgentState, ghosts, Answered
  <2>2. net'.up = net.up
    BY <2>1, ReceiveStep
  <2>3. Positive' /\ Measured'
    BY <2>1 DEF Contents, Positive, Measured, WithNew
  <2>4. CASE agent'.pc = "receive"
    <3>1. Transfer'
      <4>1. CASE ReceiveBlock /\ Unchanged
        BY <2>1, <2>2, <4>1, ArrivalOfBlock DEF Transfer, InFlight
      <4>2. CASE ReceivePart /\ Unchanged
        BY <2>1, <2>2, <4>2, ArrivalOfPart DEF Transfer
      <4>. QED
        BY <1>4, <2>1, <4>1, <4>2 DEF Transfer, Unchanged
    <3>. QED
      BY <1>1, <2>3, <2>4, <3>1 DEF Contents, StatSized, Sized, Reading, Ready, Finished
  <2>5. CASE agent'.pc = "back up"
    <3>1. Ready'
      <4>1. CASE ReceiveBlock /\ Unchanged
        BY <2>1, <4>1, ArrivalOfBlock DEF Ready
      <4>2. CASE ReceivePart /\ Unchanged
        BY <2>1, <4>2, ArrivalOfPart DEF Ready
      <4>. QED
        BY <1>4, <2>1, <4>1, <4>2 DEF Ready, Unchanged
    <3>. QED
      BY <1>1, <2>3, <2>5, <3>1 DEF Contents, StatSized, Sized, Reading, Transfer
  <2>. QED
    BY <2>1, <2>4, <2>5
<1>5. CASE ReceiveRefusal
  <2>1. /\ agent.pc = "receive" /\ UNCHANGED <<agent, source, new, server, why>>
        /\ Arrived /\ Received /\ Answer.kind = "refused"
    BY <1>5 DEF ReceiveRefusal, Answered, files, ghosts
  <2>2. net.in # <<>> /\ 1 \in 1..Len(net.in) /\ net.in[1].kind = "refused"
    BY <2>1, ReceiveStep
  <2>3. ~Unchanged
    BY <2>1, <2>2 DEF Contents, Transfer, InFlight
  <2>. QED
    BY <1>1, <2>1, <2>3 DEF Contents, Positive, StatSized, Sized, Transfer, Reading, Ready,
       Measured, WithNew, Finished, Unchanged
<1>6. CASE ReceiveNoMore
  <2>1. /\ agent.pc = "receive" /\ agent'.pc \in {"back up", "next"}
        /\ agent'.name = agent.name /\ agent'.size = agent.size
        /\ UNCHANGED <<new, why>>
    BY <1>6, GotoStep DEF ReceiveNoMore, files, ghosts
  <2>. QED
    BY <1>1, <2>1 DEF Contents, Positive, StatSized, Sized, Transfer, Reading, Ready,
       Measured, WithNew, Finished, Unchanged
<1>7. CASE OpenSource
  <2>1. agent.pc = "copy" /\ ~promise.remote /\ agent.name \in Name /\ UNCHANGED <<source, why>>
    BY <1>7 DEF OpenSource, Typed, Named, WithName, ghosts
  <2>2. CASE source[agent.name] = Absent
    BY <1>1, <1>7, <2>2, GotoStep, IdleContents DEF OpenSource
  <2>3. CASE source[agent.name] # Absent
    <3>1. /\ agent'.pc = "read" /\ agent'.name = agent.name /\ agent'.size = agent.size
          /\ server'.name = agent.name /\ server'.file = source[agent.name]
          /\ server'.pos = 0
          /\ new'[agent.name].data = <<>>
      <4>1. /\ Goto("read") /\ new' = [new EXCEPT ![agent.name] = File(<<>>, FALSE)]
            /\ server' = [Waiting EXCEPT !.name = agent.name, !.file = source[agent.name]]
        BY <1>7, <2>3 DEF OpenSource
      <4>2. new'[agent.name].data = <<>>
        BY <2>1, <4>1 DEF File, Typed, FilesTyped
      <4>3. /\ server'.name = agent.name /\ server'.file = source[agent.name]
            /\ server'.pos = 0
        BY <4>1 DEF Waiting
      <4>. QED
        BY <4>1, <4>2, <4>3, GotoStep
    <3>2. Reading'
      <4>1. Unchanged => agent.size = Size[source[agent.name]]
                         /\ source[agent.name] \in Version
        BY <2>1 DEF Contents, Sized
      <4>. QED
        BY <2>1, <3>1, <4>1, EmptyPrefix DEF Reading, Unchanged
    <3>. QED
      BY <1>1, <2>1, <3>1, <3>2 DEF Contents, Positive, StatSized, Sized, Transfer, Ready,
         Measured, WithNew, Finished
  <2>. QED
    BY <2>2, <2>3
<1>8. CASE CopyRegDisk
  <2>1. agent.pc = "read" /\ agent.name \in Name /\ server.file \in Version
        /\ server \in ServerState /\ server.pos \in Nat /\ UNCHANGED <<source, why>>
    BY <1>8 DEF CopyRegDisk, Typed, Named, StateTyped, ServerState, WithName, WithNew, ghosts
  <2>2. CASE server.pos < Size[server.file]
    <3>1. PICK p \in Nat : p = server.pos + 1
      BY <2>1
    <3>2. /\ UNCHANGED agent /\ Write(<<server.file, p>>)
          /\ server' = [server EXCEPT !.pos = p]
      BY <1>8, <2>2, <3>1 DEF CopyRegDisk
    <3>3. server'.name = server.name /\ server'.file = server.file /\ server'.pos = p
      BY <2>1, <3>2 DEF ServerState
    <3>4. <<server.file, p>> \in Block
      <4>1. p \in {1, 2}
        BY <2>1, <2>2, <3>1, SizesTyped
      <4>. QED
        BY <2>1, <4>1, BlocksTyped
    <3>5. new[agent.name].data \in Seq(Block)
          /\ new'[agent.name].data = Append(new[agent.name].data, <<server.file, p>>)
      BY <2>1, <3>2, <3>4, WriteStep DEF WithNew
    <3>6. Reading'
      <4>1. SUFFICES ASSUME Unchanged
                     PROVE  /\ Len(new'[agent.name].data) = p
                            /\ Prefix(new'[agent.name].data, server.file)
        BY <2>1, <3>2, <3>3 DEF Reading, Contents, Unchanged
      <4>2. /\ Len(new[agent.name].data) = server.pos
            /\ Prefix(new[agent.name].data, server.file)
        BY <2>1, <4>1 DEF Contents, Reading
      <4>3. Prefix(Append(new[agent.name].data, <<server.file, p>>), server.file)
        <5> DEFINE d == new[agent.name].data
        <5>1. p = Len(d) + 1 /\ Len(d) < Size[server.file]
          BY <2>2, <3>1, <4>2
        <5>2. Prefix(Append(d, <<server.file, Len(d) + 1>>), server.file)
          BY <2>1, <3>5, <4>2, <5>1, PrefixGrows
        <5>. QED
          BY <5>1, <5>2
      <4>4. Len(Append(new[agent.name].data, <<server.file, p>>)) = p
        <5> DEFINE d == new[agent.name].data
        <5>1. Len(Append(d, <<server.file, p>>)) = Len(d) + 1
          BY <3>4, <3>5, Grown
        <5>. QED
          BY <3>1, <4>2, <5>1
      <4>. QED
        BY <3>5, <4>3, <4>4
    <3>. QED
      BY <1>1, <2>1, <3>2, <3>6 DEF Contents, Positive, StatSized, Sized, Transfer, Ready,
         Measured, Finished
  <2>3. CASE ~(server.pos < Size[server.file])
    <3>1. agent'.pc = "back up" /\ agent'.name = agent.name /\ agent'.size = agent.size
          /\ new' = new
      BY <1>8, <2>3, GotoStep DEF CopyRegDisk
    <3>2. Ready'
      BY <2>1, <3>1 DEF Contents, Reading, Ready, Unchanged
    <3>. QED
      BY <1>1, <2>1, <3>1, <3>2 DEF Contents, Positive, StatSized, Sized, Transfer, Reading,
         Measured, WithNew
  <2>. QED
    BY <2>2, <2>3
<1>. QED
  BY <1>2, <1>3, <1>4, <1>5, <1>6, <1>7, <1>8 DEF Copying

LEMMA GiveUpContents ==
  ASSUME Typed, AllBounded, agent.name \in Name, GiveUp(agent.name) PROVE Contents'
<1>1. agent'.pc = "next"
  BY GotoStep DEF GiveUp
<1>2. \A n \in Name : /\ dest'[n] # Absent => dest'[n] \in {dest[n], saved[n]}
                      /\ saved'[n] # Absent => saved'[n] = saved[n]
  BY DEF GiveUp, Typed, FilesTyped
<1>3. AllBounded'
  <2>1. ASSUME NEW n \in Name
        PROVE  /\ dest'[n] # Absent => Bounded(dest'[n])
               /\ saved'[n] # Absent => Bounded(saved'[n])
    BY <1>2 DEF AllBounded
  <2>. QED
    BY <2>1 DEF AllBounded
<1>. QED
  BY <1>1, <1>3, IdleContents

(* The steps between the transfer and the installation. *)
LEMMA FinishedContents ==
  ASSUME Typed, Contents, agent.pc \in Finished, agent'.pc \in Finished,
         agent'.name = agent.name, agent'.size = agent.size,
         UNCHANGED <<new, why>>, AllBounded', Measured'
  PROVE  Contents'
BY DEF Contents, Positive, StatSized, Sized, Transfer, Reading, Ready, WithNew, Finished, Unchanged

(* What is installed is a version of the source, or damaged in one of the    *)
(* two ways.                                                                 *)
LEMMA NewBounded ==
  ASSUME Typed, Contents, agent.pc = "install", NEW f, f = [new[agent.name] EXCEPT !.why = why]
  PROVE  Bounded(f)
<1>1. /\ new[agent.name] \in FileRecord /\ agent.size >= 1 /\ agent.size \in Nat
      /\ Len(new[agent.name].data) = agent.size
  BY DEF Typed, StateTyped, AgentState, Named, WithNew, Contents, Positive, Measured
<1>2. PICK d \in Seq(Block) : d = new[agent.name].data /\ f.data = d /\ f.why = why
  BY <1>1, FileFields DEF FileRecord
<1>3. d # <<>> /\ Len(d) = agent.size
  BY <1>1, <1>2, EmptySeq
<1>4. CASE "changed" \in why
  BY <1>2, <1>3, <1>4 DEF Bounded
<1>5. CASE Unchanged
  <2>1. PICK v \in Version : /\ agent.size = Size[v]
                             /\ Prefix(d, v) \/ (Torn(d, v) /\ "lost" \in why)
    BY <1>2, <1>5 DEF Contents, Ready, Finished
  <2>2. CASE Prefix(d, v)
    <3>1. d = Blocks(v)
      BY <1>3, <2>1, <2>2, PrefixWhole
    <3>. QED
      BY <1>2, <3>1 DEF Bounded, Whole
  <2>3. CASE Torn(d, v) /\ "lost" \in why
    <3>1. d # <<>> /\ Last(d) = Garbage /\ Front(d) = Front(Blocks(v)) /\ Size[v] = Len(d)
      BY <1>3, <2>1, <2>3, TornBounded
    <3>. QED
      BY <1>2, <2>3, <3>1 DEF Bounded
  <2>. QED
    BY <2>1, <2>2, <2>3
<1>. QED
  BY <1>4, <1>5 DEF Unchanged

LEMMA InstallingContents ==
  ASSUME Typed, Contents, Installing PROVE Contents'
<1>0. AllBounded /\ dest \in [Name -> Slot] /\ saved \in [Name -> Slot]
  BY DEF Contents, Typed, FilesTyped
<1>1. CASE Unsave
  <2>1. /\ agent.pc = "back up" /\ agent'.pc \in {"save", "measure"}
        /\ agent'.name = agent.name /\ agent'.size = agent.size
        /\ UNCHANGED <<new, dest, why>>
        /\ \A n \in Name : saved'[n] # Absent => saved'[n] = saved[n]
    BY <1>0, <1>1, GotoStep DEF Unsave, ghosts
  <2>2. AllBounded'
    BY <1>0, <2>1 DEF AllBounded
  <2>. QED
    BY <2>1, <2>2, FinishedContents DEF Finished, Measured
<1>2. CASE Save
  <2>1. /\ agent.pc = "save" /\ agent'.pc = "measure"
        /\ agent'.name = agent.name /\ agent'.size = agent.size
        /\ UNCHANGED <<new, why>>
        /\ \A n \in Name : /\ dest'[n] # Absent => dest'[n] = dest[n]
                           /\ saved'[n] # Absent => saved'[n] \in {saved[n], dest[n]}
    BY <1>0, <1>2, GotoStep DEF Save, ghosts
  <2>2. AllBounded'
    <3>1. ASSUME NEW n \in Name
          PROVE  /\ dest'[n] # Absent => Bounded(dest'[n])
                 /\ saved'[n] # Absent => Bounded(saved'[n])
      BY <1>0, <2>1 DEF AllBounded
    <3>. QED
      BY <3>1 DEF AllBounded
  <2>. QED
    BY <2>1, <2>2, FinishedContents DEF Finished, Measured
<1>3. CASE (Measure \/ VerifyNet \/ VerifyDisk) /\ GiveUp(agent.name)
  <2>1. agent.name \in Name
    BY <1>3 DEF Measure, VerifyNet, VerifyDisk, Typed, Named, WithName, WithNew
  <2>. QED
    BY <1>0, <1>3, <2>1, GiveUpContents
<1>4. CASE (Measure \/ VerifyNet \/ VerifyDisk) /\ UNCHANGED <<dest, saved>>
           /\ ~GiveUp(agent.name)
  <2>1. /\ agent.pc \in Finished /\ agent'.pc \in {"verify", "install"}
        /\ agent'.name = agent.name /\ agent'.size = agent.size
        /\ UNCHANGED <<new, why>>
    BY <1>4, GotoStep DEF Measure, VerifyNet, VerifyDisk, ghosts, Finished
  <2>2. Len(new[agent.name].data) = agent.size
    BY <1>4 DEF Measure, VerifyNet, VerifyDisk, Contents, Measured
  <2>3. AllBounded'
    BY <1>0, <1>4, KeptBounded
  <2>. QED
    BY <2>1, <2>2, <2>3, FinishedContents DEF Finished, Measured
<1>5. CASE Install
  <2>1. /\ agent.pc = "install" /\ agent'.pc \in {"archive", "next"} /\ agent.name \in Name
        /\ saved' = saved
        /\ dest' = [dest EXCEPT ![agent.name] = [new[agent.name] EXCEPT !.why = why]]
    BY <1>5, GotoStep DEF Install, Typed, Named, WithName, WithNew
  <2>2. PICK f : f = [new[agent.name] EXCEPT !.why = why]
    OBVIOUS
  <2>3. Bounded(f)
    BY <2>1, <2>2, NewBounded
  <2>4. AllBounded'
    <3>1. ASSUME NEW n \in Name PROVE dest'[n] = dest[n] \/ dest'[n] = f
      BY <1>0, <2>1, <2>2
    <3>2. ASSUME NEW n \in Name PROVE dest'[n] # Absent => Bounded(dest'[n])
      BY <1>0, <2>3, <3>1 DEF AllBounded
    <3>. QED
      BY <1>0, <2>1, <3>2 DEF AllBounded
  <2>. QED
    BY <2>1, <2>4, IdleContents
<1>6. CASE Archive
  <2>1. /\ agent'.pc = "next" /\ dest' = dest
        /\ \A n \in Name : saved'[n] # Absent => saved'[n] = saved[n]
    BY <1>0, <1>6, GotoStep DEF Archive
  <2>2. AllBounded'
    BY <1>0, <2>1 DEF AllBounded
  <2>. QED
    BY <2>1, <2>2, IdleContents
<1>7. Measure \/ VerifyNet \/ VerifyDisk => GiveUp(agent.name) \/ UNCHANGED <<dest, saved>>
  BY DEF Measure, VerifyNet, VerifyDisk
<1>. QED
  BY <1>1, <1>2, <1>3, <1>4, <1>5, <1>6, <1>7 DEF Installing

LEMMA PurgingContents ==
  ASSUME Typed, Contents, Purging PROVE Contents'
<1>1. agent'.pc \in {"idle", "purge"}
  BY GotoStep DEF Purging, EndOfFiles, PurgeFile, PurgeSaved, EndOfPurge, Finish, Idle
<1>2. \A n \in Name : /\ dest'[n] # Absent => dest'[n] = dest[n]
                      /\ saved'[n] # Absent => saved'[n] = saved[n]
  BY DEF Purging, EndOfFiles, PurgeFile, PurgeSaved, EndOfPurge, files, Typed, FilesTyped
<1>3. AllBounded'
  BY <1>2 DEF Contents, AllBounded
<1>. QED
  BY <1>1, <1>3, IdleContents

(* The thread sends the next block of the version the agent has begun. *)
LEMMA NextBlock ==
  ASSUME Typed, Contents, CfGetFile, agent.pc = "receive", Unchanged
  PROVE  Transfer'
<1> DEFINE v == source[agent.name]
           d == new[agent.name].data
<1>1. /\ server.file # Absent /\ UNCHANGED <<source, new, agent, why>>
      /\ server \in ServerState /\ net \in NetState
  BY DEF CfGetFile, files, ghosts, Typed, StateTyped
<1>2. /\ v \in Version /\ agent.size = Size[v] /\ Len(d) = agent.total
      /\ Prefix(d, v) /\ InFlight(v)
  BY <1>1 DEF Contents, Transfer
<1>3. /\ server.name = agent.name /\ server.file = v /\ server.size = Size[v]
      /\ server.pos = agent.total + Len(net.in)
  BY <1>1, <1>2 DEF InFlight
<1>4. PICK t \in Nat, l \in Nat, z \in Nat, c \in Nat :
         /\ t = agent.total /\ l = Len(net.in) /\ z = Size[v] /\ c = server.count
         /\ t + l <= z
  BY <1>1, <1>2, SizesTyped, QueueTyped DEF InFlight, Typed, StateTyped, AgentState, ServerState
<1>5. v # Absent /\ server.pos = t + l /\ server.size = z /\ Size[server.file] = z
  BY <1>2, <1>3, <1>4, Constants
<1>6. /\ server.pos >= z => server' = Waiting /\ UNCHANGED net
      /\ server.pos < z =>
            /\ server' = [server EXCEPT !.pos = t + l + 1, !.count = c + 1]
            /\ Reply(<<[kind |-> "block", block |-> <<v, t + l + 1>>]>>)
  BY <1>3, <1>4, <1>5 DEF CfGetFile
<1>7. CASE server.pos >= z
  <2>1. server'.file = Absent /\ net' = net
    BY <1>6, <1>7 DEF Waiting
  <2>2. InFlight(v)'
    BY <1>1, <1>2, <1>5, <2>1 DEF InFlight
  <2>. QED
    BY <1>1, <1>2, <2>2 DEF Transfer
<1>8. CASE server.pos < z
  <2>1. t + l < z
    BY <1>5, <1>8
  <2>2. t + l + 1 \in {1, 2}
    <3>1. z \in {1, 2}
      BY <1>2, <1>4, SizesTyped
    <3>. QED
      BY <2>1, <3>1
  <2>3. PICK m \in Message : m = [kind |-> "block", block |-> <<v, t + l + 1>>]
    BY <1>2, <2>2, BlocksTyped, MessageFields
  <2>4. /\ Len(net'.in) = l + 1 /\ net'.up = net.up
        /\ \A i \in 1..l : net'.in[i] = net.in[i]
        /\ net'.in[l + 1] = m
    BY <1>4, <1>6, <1>8, <2>3, ReplyStep
  <2>5. /\ server'.name = server.name /\ server'.file = server.file
        /\ server'.size = server.size /\ server'.pos = t + l + 1
    BY <1>1, <1>6, <1>8 DEF ServerState
  <2>6. ASSUME NEW i \in 1..Len(net'.in)
        PROVE  net'.in[i].kind = "block" /\ net'.in[i].block = <<v, agent.total + i>>
    <3>1. CASE i = l + 1
      <4>1. agent.total + i = t + l + 1
        BY <1>4, <3>1
      <4>. QED
        BY <2>3, <2>4, <3>1, <4>1
    <3>2. CASE i # l + 1
      <4>1. i \in 1..l
        BY <2>4, <3>2
      <4>. QED
        BY <1>1, <1>2, <1>4, <2>4, <4>1 DEF InFlight
    <3>. QED
      BY <3>1, <3>2
  <2>7. agent.total + Len(net'.in) = t + l + 1
    <3>1. t + (l + 1) = t + l + 1
      OBVIOUS
    <3>. QED
      BY <1>4, <2>4, <3>1
  <2>8. InFlight(v)'
    <3>1. t + l + 1 <= z
      BY <2>1
    <3>. QED
      BY <1>1, <1>3, <1>4, <2>5, <2>6, <2>7, <3>1 DEF InFlight
  <2>. QED
    BY <1>1, <1>2, <2>8 DEF Transfer
<1>. QED
  BY <1>4, <1>5, <1>7, <1>8

LEMMA ServerContents ==
  ASSUME Typed, Online, Conversation, Contents, Server PROVE Contents'
<1>0. /\ UNCHANGED <<promise, source, dest, saved, new, agent>>
      /\ net \in NetState /\ AllBounded
  BY DEF Server, CfOpenDirectory, StatFile, CompareLocalChecksum, GetFile, CfGetFile, files,
     Typed, StateTyped, Contents
<1>1. Positive' /\ Measured' /\ AllBounded'
  BY <1>0 DEF Contents, Positive, Measured, AllBounded
<1>2. CASE StatFile
  <2>1. /\ net.asked # Absent /\ net.asked.kind = "stat" /\ agent.pc \in {"next", "stat", "purge"}
        /\ agent.pc = "stat" => net.asked.name = agent.name
    BY <1>2 DEF StatFile, Asked, Conversation, AskedKinds
  <2>2. PICK m \in Message :
           /\ Reply(<<m>>)
           /\ m.kind = "stat" => /\ source[net.asked.name] \in Version
                                 /\ m.size = Size[source[net.asked.name]]
    <3>1. source[net.asked.name] \in Version \cup {Absent}
      BY <1>0, <1>2, AskedTyped DEF StatFile, Typed, StateTyped
    <3>2. source[net.asked.name] # Absent => Size[source[net.asked.name]] \in Nat \ {0}
      BY <3>1, SizesTyped
    <3>. QED
      BY <1>2, <3>1, <3>2, MessageFields DEF StatFile
  <2>3. StatSized'
    <3>1. SUFFICES ASSUME agent.pc = "stat", net'.in[1].kind = "stat"
                   PROVE  /\ source[agent.name] \in Version
                          /\ net'.in[1].size = Size[source[agent.name]]
      BY <1>0 DEF StatSized
    <3>2. Dirty \/ net.in = <<>>
      BY <2>1, <3>1, <1>2 DEF Conversation, Queue, Elsewhere, StatFile, Asked
    <3>3. ~Dirty
      <4>1. Dirty => 1 \in 1..Len(net.in)
        BY QueueTyped DEF Dirty
      <4>2. Dirty => net'.in[1] = net.in[1]
        BY <2>2, <4>1, ReplyStep
      <4>. QED
        BY <3>1, <4>2 DEF Dirty, Data
    <3>4. net'.in[1] = m
      <4>1. Len(net.in) + 1 = 1
        BY <3>2, <3>3, QueueTyped
      <4>. QED
        BY <2>2, <4>1, ReplyStep
    <3>. QED
      BY <2>1, <2>2, <3>1, <3>4
  <2>. QED
    BY <1>0, <1>1, <2>1, <2>3 DEF Contents, Sized, Transfer, Reading, Ready, Finished
<1>3. CASE agent.pc = "receive" /\ GetFile
  <2>1. /\ net.asked # Absent /\ net.asked.name = agent.name /\ agent.total = 0
        /\ net.in = <<>> /\ server.file = Absent /\ why' = why
    BY <1>3 DEF GetFile, Asked, Conversation, Stream, ghosts
  <2>2. Transfer'
    <3>1. SUFFICES ASSUME Unchanged PROVE Transfer'
      BY <2>1 DEF Transfer, Unchanged
    <3>2. PICK v \in Version : v = source[agent.name]
      BY <1>3, <3>1 DEF Contents, Transfer
    <3>3. /\ agent.size = Size[v] /\ Len(new[agent.name].data) = 0
          /\ net.up
      BY <1>3, <2>1, <3>1, <3>2 DEF Contents, Transfer, Online
    <3>4. Prefix(new[agent.name].data, v)
      BY <1>3, <3>1, <3>2, <3>3 DEF Contents, Transfer
    <3>5. /\ net'.in = <<>> /\ Len(net'.in) = 0
          /\ server'.name = agent.name /\ server'.file = v /\ server'.size = Size[v]
          /\ server'.pos = 0
      <4>1. Reply(<<>>) /\ server' = [Waiting EXCEPT !.name = agent.name, !.file = v,
                                                   !.size = Size[v]]
        BY <1>3, <2>1, <3>2, Constants DEF GetFile
      <4>2. net'.in = <<>> /\ Len(net'.in) = 0
        BY <2>1, <4>1, ReplyNothing, EmptySeq
      <4>. QED
        BY <4>1, <4>2 DEF Waiting
    <3>6. InFlight(v)'
      <4>1. Size[v] \in Nat
        BY SizesTyped
      <4>. QED
        BY <1>0, <2>1, <3>5, <4>1 DEF InFlight
    <3>. QED
      BY <1>0, <2>1, <3>2, <3>3, <3>4, <3>6 DEF Transfer
  <2>. QED
    BY <1>0, <1>1, <1>3, <2>2 DEF Contents, StatSized, Sized, Reading, Ready, Finished
<1>4. CASE agent.pc = "receive" /\ CfGetFile
  <2>1. why' = why
    BY <1>4 DEF CfGetFile, ghosts
  <2>2. Transfer'
    BY <1>0, <1>4, <2>1, NextBlock DEF Transfer, Unchanged
  <2>. QED
    BY <1>0, <1>1, <1>4, <2>2 DEF Contents, StatSized, Sized, Reading, Ready, Finished
<1>5. CASE agent.pc = "receive" /\ (CfOpenDirectory \/ CompareLocalChecksum)
  BY <1>5 DEF CfOpenDirectory, CompareLocalChecksum, Asked, Conversation, Stream
<1>6. CASE agent.pc = "read"
  <2>1. ~promise.remote /\ net.asked = Absent
    BY <1>6 DEF Typed, Named, Online
  <2>. QED
    BY <2>1 DEF Server, CfOpenDirectory, StatFile, CompareLocalChecksum, GetFile, CfGetFile, Asked
<1>7. CASE agent.pc \notin {"receive", "read"} /\ ~StatFile
  <2>1. why' = why
    BY <1>7 DEF Server, CfOpenDirectory, CompareLocalChecksum, GetFile, CfGetFile, ghosts
  <2>2. StatSized'
    <3>1. SUFFICES ASSUME agent.pc = "stat", Unchanged, net'.in # <<>>, net'.in[1].kind = "stat"
                   PROVE  net.in # <<>> /\ net'.in[1] = net.in[1]
      BY <1>0, <2>1 DEF StatSized, Contents, Unchanged
    <3>2. CASE net' = net
      BY <3>1, <3>2
    <3>3. CASE net' # net
      <4>1. CfGetFile
        <5>1. net.asked # Absent => net.asked.kind = "stat"
          BY <3>1 DEF Conversation, AskedKinds
        <5>. QED
          BY <1>7, <5>1 DEF Server, CfOpenDirectory, CompareLocalChecksum, GetFile, Asked
      <4>2. PICK m \in Message : Reply(<<m>>) /\ m.kind \in Data
        <5>1. server.file \in Version /\ server.pos \in Nat
          BY <4>1 DEF CfGetFile, Typed, StateTyped, ServerState
        <5>2. \/ Reply(<<[kind |-> "changed"]>>)
              \/ /\ server.pos < Size[server.file]
                 /\ Reply(<<[kind |-> "block", block |-> <<server.file, server.pos + 1>>]>>)
          BY <3>3, <4>1, <5>1, SizesTyped DEF CfGetFile
        <5>3. server.pos < Size[server.file] => <<server.file, server.pos + 1>> \in Block
          <6>1. server.pos < Size[server.file] => server.pos + 1 \in {1, 2}
            BY <5>1, SizesTyped
          <6>. QED
            BY <5>1, <6>1, BlocksTyped
        <5>. QED
          BY <5>2, <5>3, MessageFields DEF Data
      <4>3. net.in = <<>> => net'.in[1] = m
        <5>1. net.in = <<>> => Len(net.in) + 1 = 1
          BY QueueTyped
        <5>. QED
          BY <4>2, <5>1, ReplyStep
      <4>4. net.in # <<>> => net'.in[1] = net.in[1]
        <5>1. net.in # <<>> => 1 \in 1..Len(net.in)
          BY QueueTyped
        <5>. QED
          BY <4>2, <5>1, ReplyStep
      <4>. QED
        BY <3>1, <4>2, <4>3, <4>4 DEF Data
    <3>. QED
      BY <3>2, <3>3
  <2>. QED
    BY <1>0, <1>1, <1>7, <2>1, <2>2 DEF Contents, Sized, Transfer, Reading, Ready, Unchanged
<1>. QED
  BY <1>2, <1>3, <1>4, <1>5, <1>6, <1>7 DEF Server

LEMMA ChangeContents ==
  ASSUME Typed, Conversation, Contents, Change PROVE Contents'
<1>1. PICK n \in Name :
         /\ \A m \in Name \ {n} : source'[m] = source[m]
         /\ dest' = Outdated(dest, n) /\ saved' = Outdated(saved, n)
         /\ new' = Outdated(new, n)
         /\ server.name # n => server' = server
         /\ server'.name = server.name
         /\ why' = IF agent.name = n THEN why \cup {"changed"} ELSE why
         /\ UNCHANGED <<agent, net>>
  <2>1. server \in ServerState /\ source \in [Name -> Version \cup {Absent}]
    BY DEF Typed, StateTyped
  <2>2. server = [server EXCEPT !.file = @]
    BY <2>1 DEF ServerState
  <2>3. PICK n \in Name, x \in Version \cup {Absent}, v \in Version :
           /\ source' = [source EXCEPT ![n] = x]
           /\ dest' = Outdated(dest, n) /\ saved' = Outdated(saved, n)
           /\ new' = Outdated(new, n)
           /\ \/ server' = server
              \/ server.name = n /\ server' = [server EXCEPT !.linked = FALSE]
              \/ server.name = n /\ server' = [server EXCEPT !.file = v]
           /\ why' = IF agent.name = n THEN why \cup {"changed"} ELSE why
           /\ UNCHANGED <<agent, net>>
    BY <2>2 DEF Change
  <2>. QED
    BY <2>1, <2>3 DEF ServerState
<1>2. /\ dest \in [Name -> Slot] /\ saved \in [Name -> Slot] /\ new \in [Name -> Slot]
      /\ server.file = Absent => server.name = Absent
  BY DEF Typed, FilesTyped, Conversation, AtRest
<1>3. AllBounded'
  <2>1. \A m \in Name :
           /\ dest'[m] # Absent =>
                 dest[m] # Absent /\ dest'[m].data = dest[m].data /\ dest'[m].why = dest[m].why
           /\ saved'[m] # Absent =>
                 /\ saved[m] # Absent /\ saved'[m].data = saved[m].data
                 /\ saved'[m].why = saved[m].why
    <3>1. ASSUME NEW f \in [Name -> Slot], NEW m \in Name, Outdated(f, n)[m] # Absent
          PROVE  f[m] # Absent
      BY <3>1, OutdatedTyped
    <3>. QED
      BY <1>1, <1>2, <3>1, OutdatedKeeps
  <2>. QED
    BY <2>1 DEF Contents, AllBounded, Bounded
<1>4. \A m \in Name : new[m] \in FileRecord => new'[m].data = new[m].data
  BY <1>1, <1>2, OutdatedKeeps, FileFields
<1>5. Measured'
  <2>1. agent.pc \in WithNew => agent.name \in Name /\ new'[agent.name].data = new[agent.name].data
    BY <1>4 DEF Typed, Named, WithName
  <2>. QED
    BY <1>1, <2>1 DEF Contents, Measured, WithNew
<1>6. Positive'
  BY <1>1 DEF Contents, Positive
<1>7. agent.pc = "read" => server'.name = agent.name
  BY <1>1 DEF Contents, Reading
<1>8. CASE agent.name = n
  <2>1. "changed" \in why'
    BY <1>1, <1>8
  <2>. QED
    BY <1>1, <1>3, <1>5, <1>6, <1>7, <2>1 DEF Contents, StatSized, Sized, Transfer, Reading, Ready, Unchanged
<1>9. CASE agent.name # n
  <2>1. why' = why
    BY <1>1, <1>9
  <2>2. agent.pc \in WithName =>
           agent.name \in Name /\ source'[agent.name] = source[agent.name]
    BY <1>1, <1>9 DEF Typed, Named
  <2>3. agent.pc \in WithNew => new'[agent.name].data = new[agent.name].data
    BY <1>4 DEF Typed, Named, WithName
  <2>4. StatSized' /\ Sized'
    BY <1>1, <2>1, <2>2 DEF Contents, StatSized, Sized, Unchanged, WithName
  <2>5. Ready'
    BY <1>1, <2>1, <2>3 DEF Contents, Ready, Unchanged, WithNew, Finished
  <2>6. Reading'
    BY <1>1, <1>9, <2>1, <2>3 DEF Contents, Reading, Unchanged, WithNew
  <2>7. Transfer'
    <3>1. SUFFICES ASSUME agent.pc = "receive", Unchanged PROVE Transfer'
      BY <1>1, <2>1 DEF Transfer, Unchanged
    <3>2. server' = server
      <4>1. server.file # Absent => server.name = agent.name
        BY <3>1 DEF Contents, Transfer, InFlight
      <4>. QED
        BY <1>1, <1>2, <1>9, <4>1, Constants
    <3>3. source'[agent.name] = source[agent.name]
          /\ new'[agent.name].data = new[agent.name].data
      BY <2>2, <2>3, <3>1 DEF WithName, WithNew
    <3>. QED
      BY <1>1, <2>1, <3>1, <3>2, <3>3 DEF Contents, Transfer, InFlight
  <2>. QED
    BY <1>3, <1>5, <1>6, <2>4, <2>5, <2>6, <2>7 DEF Contents
<1>. QED
  BY <1>8, <1>9

LEMMA LoseContents ==
  ASSUME Typed, Online, Contents, Lose PROVE Contents'
<1>1. /\ net.up /\ net'.up = FALSE /\ server'.file = Absent
      /\ why' = why \cup {"lost"} /\ UNCHANGED <<source, dest, saved, new, agent>>
  BY LoseStep DEF files
<1>2. Len(net'.in) \in Nat /\ (net'.in = <<>> <=> Len(net'.in) = 0)
      /\ Len(net.in) \in Nat /\ (net.in = <<>> <=> Len(net.in) = 0)
  <2>1. Typed'
    BY WorldTyped
  <2>2. net'.in \in Seq(Message)
    BY <2>1 DEF Typed, StateTyped, NetState
  <2>. QED
    BY <2>2, QueueTyped, LenProperties, EmptySeq
<1>3. Len(net'.in) <= Len(net.in)
  BY <1>2, LoseStep
<1>4. \A i \in 1..Len(net'.in) :
         /\ i \in 1..Len(net.in)
         /\ \/ net'.in[i] = net.in[i]
            \/ net.in[i].kind = "block" /\ net'.in[i].kind = "part" /\ i = Len(net'.in)
  BY <1>2, LoseStep
<1>5. StatSized'
  <2>1. net'.in # <<>> => 1 \in 1..Len(net'.in)
    BY <1>2
  <2>2. net'.in # <<>> => net.in # <<>>
    BY <1>2, <1>3
  <2>. QED
    BY <1>1, <1>4, <2>1, <2>2 DEF Contents, StatSized, Unchanged
<1>6. Transfer'
  <2>1. SUFFICES ASSUME agent.pc = "receive", Unchanged PROVE Transfer'
    BY <1>1 DEF Transfer, Unchanged
  <2>2. PICK v \in Version : v = source[agent.name]
    BY <2>1 DEF Contents, Transfer
  <2>3. /\ agent.size = Size[v] /\ Len(new[agent.name].data) = agent.total
        /\ Prefix(new[agent.name].data, v) /\ InFlight(v)
    BY <1>1, <2>1, <2>2 DEF Contents, Transfer
  <2>4. ASSUME NEW i \in 1..Len(net'.in)
        PROVE  \/ net'.in[i].kind = "block" /\ net'.in[i].block = <<v, agent.total + i>>
               \/ i = Len(net'.in) /\ net'.in[i].kind = "part"
    BY <1>1, <1>4, <2>3 DEF InFlight
  <2>5. agent.total + Len(net'.in) <= Size[v]
    <3>1. agent.total \in Nat /\ Size[v] \in Nat
      BY SizesTyped DEF Typed, StateTyped, AgentState
    <3>. QED
      BY <1>2, <1>3, <2>3, <3>1 DEF InFlight
  <2>6. InFlight(v)'
    BY <1>1, <2>4, <2>5 DEF InFlight
  <2>. QED
    BY <1>1, <2>2, <2>3, <2>6 DEF Transfer
<1>7. agent.pc # "read"
  BY <1>1 DEF Online, Typed, Named
<1>. QED
  BY <1>1, <1>5, <1>6, <1>7 DEF Contents, Positive, Sized, Reading, Ready, Measured,
     AllBounded, Unchanged

LEMMA ContentsStep ==
  Typed /\ Online /\ Conversation /\ Contents /\ [Next]_vars => Contents'
<1>1. ASSUME Contents, Kill \/ Expire PROVE Contents'
  <2>1. agent'.pc = "idle" /\ UNCHANGED <<dest, saved>>
    BY <1>1 DEF Kill, Expire, Finish, Idle, files
  <2>. QED
    BY <1>1, <2>1, IdleContents, KeptBounded DEF Contents
<1>2. ASSUME Typed, Online, Conversation, Contents, Next PROVE Contents'
  BY <1>1, <1>2, ListingContents, CheckingContents, CopyingContents, InstallingContents,
     PurgingContents, ServerContents, ChangeContents, LoseContents DEF Next, Agent, Fault
<1>3. ASSUME Contents, UNCHANGED vars PROVE Contents'
  BY <1>3 DEF vars, files, ghosts, Contents, Positive, StatSized, Sized, Transfer, InFlight,
     Reading, Ready, Measured, AllBounded, Unchanged
<1>. QED
  BY <1>2, <1>3

-----------------------------------------------------------------------------
(* The inductive invariant. Typing and Online hold the rest up; the listing  *)
(* and the backups need nothing else; the contents need the conversation.    *)
IInv == Typed /\ Online /\ ListInv /\ Kept /\ Backing /\ Conversation /\ Contents

LEMMA InitIInv == Init => IInv
<1> SUFFICES ASSUME Init PROVE IInv
  OBVIOUS
<1>1. FilesTyped
  <2>1. File(Original, TRUE) \in FileRecord
    BY BlocksTyped, FileFields DEF File
  <2>. QED
    BY <2>1 DEF Init, FilesTyped, Slot
<1>2. StateTyped
  BY RestTyped, Constants DEF Init, StateTyped
<1>3. agent.pc = "idle" /\ server.file = Absent /\ net.asked = Absent /\ net.up = FALSE
  BY DEF Init, Idle, Waiting, Closed
<1>4. Named /\ Online /\ ListInv /\ Backing
  BY <1>3 DEF Named, WithName, WithNew, Online, ListInv, DirAsked, InList, Listed, Backing
<1>5. Kept
  BY DEF Init, Kept
<1>6. Conversation
  BY <1>3 DEF Init, Idle, Waiting, Closed, Conversation, AtRest, ListQueue, Stream, Clean, Queue,
     AskedKinds, Elsewhere
<1>7. AllBounded
  BY AbsentAssumption DEF Init, AllBounded, Bounded, Whole, Original, File, Slot
<1>8. Contents
  BY <1>3, <1>7 DEF Contents, Positive, StatSized, Sized, Transfer, Reading, Ready, Measured,
     WithNew, Finished
<1>. QED
  BY <1>1, <1>2, <1>4, <1>5, <1>6, <1>8 DEF IInv, Typed

LEMMA StepIInv == IInv /\ [Next]_vars => IInv'
BY TypedStep, OnlineStep, ListInvStep, KeptStep, ConversationStep, ContentsStep DEF IInv, ListInv

(* The state of both programs and of the connection is typed, the connection *)
(* carries only what was asked for, and listing and backups are kept.        *)
THEOREM CopyInvariant == Spec => []IInv
BY InitIInv, StepIInv, PTL DEF Spec

(* A file that was at the destination is there or next to it as .cfsaved,    *)
(* whatever fails, until it is purged or the agent is killed between the two *)
(* renames (image.c:1614-1748).                                              *)
THEOREM FilesAreKept == Spec => []NothingLost
<1>1. IInv => NothingLost
  BY DEF IInv, Kept, NothingLost
<1>. QED
  BY <1>1, CopyInvariant, PTL

(* What is installed is a version of the file, unless it was edited while it *)
(* was copied, or the connection was lost in the middle of its last block:   *)
(* the size is all the agent compares before the renames (image.c:1639).     *)
THEOREM DamageIsBounded == Spec => []DamageBounded
<1>1. IInv => DamageBounded
  BY DEF IInv, Contents, AllBounded, Bounded, DamageBounded
<1>. QED
  BY <1>1, CopyInvariant, PTL

(* PurgeFiles removes a file the source had when it was listed only if the   *)
(* connection was lost during the listing (client.c:360).                    *)
THEOREM PurgesOnlyUnlisted == Spec => PurgesUnlisted
<1>1. IInv /\ [Next]_vars =>
         [\A n \in Name :
            agent.pc = "purge" /\ dest[n] # Absent /\ dest'[n] = Absent
                => cut \/ n \notin there]_vars
  <2> SUFFICES ASSUME IInv, Next, NEW n \in Name, agent.pc = "purge",
                      dest[n] # Absent, dest'[n] = Absent, ~cut
               PROVE  n \notin there
    BY DEF vars
  <2>1. there \subseteq agent.listing
    BY DEF IInv, ListInv, Listed
  <2>2. CASE PurgeFile
    BY <2>1, <2>2 DEF PurgeFile, Unlisted, IInv, Typed, FilesTyped
  <2>3. CASE Change
    BY <2>3, OutdatedTyped DEF Change, IInv, Typed, FilesTyped
  <2>4. UNCHANGED dest \/ PurgeFile \/ Change
    <3>1. ~Connect /\ ~Listing /\ ~Work
      BY DEF Connect, Listing, ReceiveName, ReceiveEnd, ReceiveNothing, ReceiveError, cfreaddir,
         Work, Checking, RecursiveImage, ReceiveStat, StatFails, AskMD5, ReceiveMD5, MD5Fails,
         Copying, Refrain, AskFile, ReceiveBlock, ReceivePart, ReceiveChanged, ReceiveRefusal,
         ReceiveNoMore, FlushToEnd, OpenSource, CopyRegDisk, Installing, Unsave, Save, Measure,
         VerifyNet, VerifyDisk, Install, Archive, WriteFails, DiskFull
    <3>2. Purging \/ Server \/ Lose \/ Kill \/ Expire => UNCHANGED dest \/ PurgeFile
      BY DEF Purging, EndOfFiles, PurgeSaved, EndOfPurge, Server, CfOpenDirectory, StatFile,
         CompareLocalChecksum, GetFile, CfGetFile, Lose, Kill, Expire, files
    <3>. QED
      BY <3>1, <3>2 DEF Next, Agent, Fault, Work
  <2>. QED
    BY <2>2, <2>3, <2>4
<1>. QED
  BY <1>1, CopyInvariant, PTL DEF Spec, PurgesUnlisted

=============================================================================
