---------------------------- MODULE TunnelProofs ----------------------------
(***************************************************************************)
(* Proofs about the tunnel and the LAN server beside it, for any number of *)
(* connections, requests and LAN reads, and any tree of files.             *)
(*                                                                         *)
(* The agent lets go of a connection only when it is down, so that at most *)
(* one is up, the hub holds it as its newest socket, and commands wait on  *)
(* no other.  What has run, followed by what waits, is therefore in the    *)
(* order it was sent; and as a request is sent once, what waits has not    *)
(* run, which is what carrying a call out at most once needs.              *)
(***************************************************************************)
EXTENDS LanServer, TLAPS

Entry   == [kind : {"dir", "file"}, data : Seq(Cells)]
Message == [id : Requests, answer : Answers]
Wire    == [up : BOOLEAN, toAgent : Seq(Requests), toHub : Seq(Message)]
Sent    == {"open", "returned", "givenup"}
States  == Sent \union {"idle", "refused"}
Req     == [st : States, cmd : Commands \union {None}, answer : Answers \union {None}]

DiskOK(files) == DOMAIN files \subseteq Paths /\ files \in [DOMAIN files -> Entry]

Types ==
  /\ wire \in [Conns -> Wire]
  /\ sockets \in Seq(Conns)
  /\ cur \in Conns \union {None}
  /\ req \in [Requests -> Req]
  /\ DiskOK(disk)
  /\ outcome \in [Requests -> Answers \union {None}]
  /\ sent \in Seq(Requests)
  /\ ran \in Seq(Requests)

(* Only the connection the agent reads is up, and only it holds commands. *)
OneConnection ==
  \A c \in Conns : c # cur => ~wire[c].up /\ wire[c].toAgent = <<>>

(* The answers that travel are those the agent gave. *)
TrueAnswers ==
  \A c \in Conns : \A k \in 1 .. Len(wire[c].toHub) :
    wire[c].toHub[k].answer = outcome[wire[c].toHub[k].id]

(* What callers know. *)
Told ==
  \A r \in Requests :
    /\ req[r].answer \in {None, outcome[r]}
    /\ req[r].st = "returned" => outcome[r] # None
    /\ outcome[r] # None => IsMember(ran, r)

(* A request is sent once, with a command. *)
SentOnce ==
  /\ \A k \in 1 .. Len(sent) : req[sent[k]].st \in Sent /\ req[sent[k]].cmd \in Commands
  /\ \A k, l \in 1 .. Len(sent) : sent[k] = sent[l] => k = l

(* The commands that wait for the agent. *)
Queue == IF cur = None THEN <<>> ELSE wire[cur].toAgent

Before(x, y) == \E k, l \in 1 .. Len(sent) : k < l /\ sent[k] = x /\ sent[l] = y

(* What has run and what waits was sent, in this order. *)
InLine ==
  /\ \A i \in 1 .. Len(ran) : IsMember(sent, ran[i])
  /\ \A i \in 1 .. Len(Queue) : IsMember(sent, Queue[i])
  /\ \A i, j \in 1 .. Len(ran) : i < j => Before(ran[i], ran[j])
  /\ \A i \in 1 .. Len(ran), j \in 1 .. Len(Queue) : Before(ran[i], Queue[j])
  /\ \A i, j \in 1 .. Len(Queue) : i < j => Before(Queue[i], Queue[j])

(* The inductive invariant of the tunnel. *)
Inv ==
  /\ Types
  /\ TreeOf(disk)
  /\ OneConnection
  /\ LiveTunnelChosen
  /\ TrueAnswers
  /\ Told
  /\ SentOnce
  /\ InLine

-----------------------------------------------------------------------------
(* The agent's files. *)

LEMMA WrittenCells ==
  ASSUME NEW data \in Seq(Cells), NEW o \in Nat, NEW x \in Requests
  PROVE  Written(data, o, x) \in Seq(Cells) /\ Len(Written(data, o, x)) \in Nat
<1> DEFINE n == IF Len(data) > o THEN Len(data) ELSE o + 1
           W == [k \in 1 .. n |->
                   IF k = o + 1 THEN x ELSE IF k <= Len(data) THEN data[k] ELSE Zero]
<1>1. n \in Nat /\ W \in [1 .. n -> Cells]
  BY DEF Cells
<1>2. W \in Seq(Cells)
  BY <1>1
<1>3. Written(data, o, x) = W
  BY DEF Written
<1> QED
  BY <1>2, <1>3

(* The answer a of a command keeps the tree. *)
Sound(a) == DiskOK(a.disk) /\ TreeOf(a.disk) /\ [ok |-> a.ok, val |-> a.val] \in Answers

LEMMA AnswerSound ==
  ASSUME NEW files, DiskOK(files), TreeOf(files), NEW ok \in BOOLEAN, NEW val \in Seq(Values)
  PROVE  Sound(Answer(files, ok, val))
BY DEF Sound, Answer, Answers

LEMMA RefusedSound ==
  ASSUME NEW files, DiskOK(files), TreeOf(files)
  PROVE  Sound(Refused(files))
<1>1. <<>> \in Seq(Values)
  OBVIOUS
<1> QED
  BY <1>1, AnswerSound DEF Refused

LEMMA OneValue == \A x \in Values : <<x>> \in Seq(Values)
OBVIOUS

(* The folders above a path are made with it. *)
LEMMA WithFoldersTree ==
  ASSUME NEW files, DiskOK(files), TreeOf(files), NEW p \in Paths, Reachable(files, p)
  PROVE  LET base == WithFolders(files, Folders(p) \union {p})
         IN  /\ DiskOK(base) /\ TreeOf(base)
             /\ DOMAIN base = DOMAIN files \union Folders(p) \union {p}
             /\ \A q \in Folders(p) : IsDir(base, q)
             /\ p \notin DOMAIN files => IsDir(base, p)
             /\ \A q \in DOMAIN files : base[q] = files[q]
<1> DEFINE base == WithFolders(files, Folders(p) \union {p})
<1>1. /\ DOMAIN base = DOMAIN files \union Folders(p) \union {p}
      /\ \A q \in DOMAIN files : base[q] = files[q]
      /\ \A q \in DOMAIN base : q \notin DOMAIN files => base[q] = Dir
  BY DEF WithFolders
<1>2. Dir \in Entry /\ Dir.kind = "dir"
  BY DEF Dir, Entry
<1>3. base = [q \in DOMAIN base |-> base[q]]
  BY DEF WithFolders
<1> HIDE DEF base
<1>4. Folders(p) \subseteq Paths
  BY PathsAssumption DEF Folders
<1>5. DiskOK(base)
  BY <1>1, <1>2, <1>3, <1>4 DEF DiskOK
<1>6. /\ \A q \in Folders(p) : IsDir(base, q)
      /\ p \notin DOMAIN files => IsDir(base, p)
      /\ \A q \in Paths : IsDir(files, q) => IsDir(base, q)
  BY <1>1, <1>2 DEF Reachable, IsDir
<1>7. TreeOf(base)
  <2> SUFFICES ASSUME NEW q \in DOMAIN base, NEW g \in Folders(q) PROVE IsDir(base, g)
    BY DEF TreeOf
  <2>1. q \in Paths /\ g \in Paths
    BY <1>5, PathsAssumption DEF DiskOK, Folders
  <2>2. CASE q \in DOMAIN files
    BY <1>6, <2>1, <2>2 DEF TreeOf
  <2>3. CASE q = p
    BY <1>6, <2>3
  <2>4. CASE q \in Folders(p)
    BY <2>1, <2>4, PathsAssumption DEF Folders
  <2> QED
    BY <1>1, <2>2, <2>3, <2>4
<1> QED
  BY <1>1, <1>5, <1>6, <1>7 DEF base

LEMMA WriteChunkSound ==
  ASSUME NEW files, DiskOK(files), TreeOf(files), NEW p \in Paths, NEW o \in Nat,
         NEW r \in Requests
  PROVE  Sound(WriteChunk(files, p, o, r))
<1>1. CASE ~Reachable(files, p) \/ IsDir(files, p)
  BY <1>1, RefusedSound DEF WriteChunk
<1>2. CASE Reachable(files, p) /\ ~IsDir(files, p)
  <2> DEFINE old  == IF p \in DOMAIN files THEN files[p].data ELSE <<>>
             file == [kind |-> "file", data |-> Written(old, o, r)]
             base == WithFolders(files, Folders(p) \union {p})
             after == [base EXCEPT ![p] = file]
  <2>1. old \in Seq(Cells)
    BY DEF DiskOK, Entry
  <2>2. file \in Entry /\ Len(file.data) \in Nat
    BY <2>1, WrittenCells DEF Entry
  <2>3. /\ DiskOK(base) /\ TreeOf(base)
        /\ DOMAIN base = DOMAIN files \union Folders(p) \union {p}
        /\ \A q \in DOMAIN files : base[q] = files[q]
    BY <1>2, WithFoldersTree
  <2> HIDE DEF base, file
  <2>4. /\ DOMAIN after = DOMAIN base /\ \A q \in DOMAIN base : q # p => after[q] = base[q]
        /\ DiskOK(after)
    BY <2>2, <2>3 DEF DiskOK
  <2> HIDE DEF after
  <2>5. ASSUME NEW q \in DOMAIN base PROVE p \notin Folders(q)
    <3>1. q \in DOMAIN files => p \notin Folders(q)
      BY <1>2 DEF TreeOf
    <3>2. q = p => p \notin Folders(q)
      BY PathsAssumption DEF Folders
    <3>3. q \in Folders(p) => p \notin Folders(q)
      BY PathsAssumption DEF Folders
    <3> QED
      BY <2>3, <3>1, <3>2, <3>3
  <2>6. TreeOf(after)
    BY <2>3, <2>4, <2>5 DEF TreeOf, IsDir
  <2>7. <<Len(file.data)>> \in Seq(Values)
    BY <2>2, OneValue DEF Values
  <2>8. WriteChunk(files, p, o, r) = Answer(after, TRUE, <<Len(file.data)>>)
    BY <1>2 DEF WriteChunk, after, base, file
  <2> QED
    BY <2>4, <2>6, <2>7, <2>8, AnswerSound
<1> QED
  BY <1>1, <1>2

LEMMA ReadChunkSound ==
  ASSUME NEW files, DiskOK(files), TreeOf(files), NEW p \in Paths, NEW o \in Nat
  PROVE  Sound(ReadChunk(files, p, o))
<1>1. CASE ~IsFile(files, p)
  BY <1>1, RefusedSound DEF ReadChunk
<1>2. CASE IsFile(files, p)
  <2> DEFINE data == files[p].data
             val == IF o >= Len(data) THEN <<>> ELSE <<data[o + 1]>>
  <2>1. data \in Seq(Cells)
    BY <1>2 DEF IsFile, DiskOK, Entry
  <2> HIDE DEF data
  <2>2. ~(o >= Len(data)) => data[o + 1] \in Values
    BY <2>1 DEF Values
  <2>3. val \in Seq(Values)
    BY <2>2
  <2>4. ReadChunk(files, p, o) = Answer(files, TRUE, val)
    BY <1>2 DEF ReadChunk, data
  <2> HIDE DEF val
  <2> QED
    BY <2>3, <2>4, AnswerSound
<1> QED
  BY <1>1, <1>2

LEMMA DeleteSound ==
  ASSUME NEW files, DiskOK(files), TreeOf(files), NEW p \in Paths, NEW rec \in BOOLEAN
  PROVE  Sound(Delete(files, p, rec))
<1> DEFINE inside == Below(p) \intersect DOMAIN files
           after == [q \in DOMAIN files \ ({p} \union inside) |-> files[q]]
<1>1. <<0>> \in Seq(Values) /\ <<1>> \in Seq(Values)
  BY DEF Values
<1>2. DiskOK(after)
  BY DEF DiskOK
<1>3. TreeOf(after)
  <2> SUFFICES ASSUME NEW q \in DOMAIN after, NEW g \in Folders(q) PROVE IsDir(after, g)
    BY DEF TreeOf
  <2>1. q \in DOMAIN files /\ q # p /\ q \notin inside /\ IsDir(files, g)
    BY DEF TreeOf
  <2>2. q \in Paths /\ g \in Paths /\ g = ParentOf[q] /\ g # Top
    BY <2>1, PathsAssumption DEF DiskOK, Folders
  <2>3. g # p
    BY <2>1, <2>2 DEF Below
  <2>4. g \notin Below(p)
    BY <2>2, PathsAssumption DEF Below
  <2> QED
    BY <2>1, <2>3, <2>4 DEF IsDir
<1>4. Delete(files, p, rec) \in {Answer(files, TRUE, <<0>>), Refused(files), Answer(after, TRUE, <<1>>)}
  BY DEF Delete
<1> HIDE DEF after
<1> QED
  BY <1>1, <1>2, <1>3, <1>4, AnswerSound, RefusedSound

LEMMA MkdirSound ==
  ASSUME NEW files, DiskOK(files), TreeOf(files), NEW p \in Paths
  PROVE  Sound(Mkdir(files, p))
<1> DEFINE base == WithFolders(files, Folders(p) \union {p})
<1>1. <<0>> \in Seq(Values) /\ <<1>> \in Seq(Values)
  BY DEF Values
<1>2. Reachable(files, p) => DiskOK(base) /\ TreeOf(base)
  BY WithFoldersTree
<1> HIDE DEF base
<1>3. \/ Mkdir(files, p) = Answer(files, TRUE, <<0>>)
      \/ Mkdir(files, p) = Refused(files)
      \/ Reachable(files, p) /\ Mkdir(files, p) = Answer(base, TRUE, <<1>>)
  BY DEF Mkdir, base
<1> QED
  BY <1>1, <1>2, <1>3, AnswerSound, RefusedSound

LEMMA LookSound ==
  ASSUME NEW files, DiskOK(files), TreeOf(files), NEW p \in Paths
  PROVE  Sound(Stat(files, p)) /\ Sound(ListDir(files, p)) /\ Sound(Checksum(files, p))
<1>1. Sound(Stat(files, p))
  <2>1. <<0>> \in Seq(Values) /\ <<1>> \in Seq(Values)
    BY DEF Values
  <2>2. Stat(files, p) \in {Answer(files, TRUE, <<0>>), Answer(files, TRUE, <<1>>)}
    BY DEF Stat
  <2> QED
    BY <2>1, <2>2, AnswerSound
<1>2. Sound(ListDir(files, p))
  <2> DEFINE n == Cardinality(Below(p) \intersect DOMAIN files)
  <2>1. Below(p) \intersect DOMAIN files \in SUBSET Paths
    BY DEF Below
  <2>2. n \in Values
    BY <2>1 DEF Values
  <2> HIDE DEF n
  <2>3. <<n>> \in Seq(Values)
    BY <2>2, OneValue
  <2>4. ListDir(files, p) \in {Refused(files), Answer(files, TRUE, <<n>>)}
    BY DEF ListDir, n
  <2> QED
    BY <2>3, <2>4, AnswerSound, RefusedSound
<1>3. Sound(Checksum(files, p))
  <2>1. CASE ~IsFile(files, p)
    BY <2>1, RefusedSound DEF Checksum
  <2>2. CASE IsFile(files, p)
    <3>1. files[p].data \in Seq(Cells) /\ Len(files[p].data) \in Nat
      BY <2>2 DEF IsFile, DiskOK, Entry
    <3>2. files[p].data \in Seq(Values) /\ <<Len(files[p].data)>> \in Seq(Values)
      BY <3>1 DEF Values
    <3>3. FileHash(files[p].data) \in Seq(Values)
      BY <3>2 DEF FileHash
    <3>4. Checksum(files, p) = Answer(files, TRUE, FileHash(files[p].data))
      BY <2>2 DEF Checksum
    <3> QED
      BY <3>3, <3>4, AnswerSound
  <2> QED
    BY <2>1, <2>2
<1> QED
  BY <1>1, <1>2, <1>3

LEMMA HandleSound ==
  ASSUME NEW files, DiskOK(files), TreeOf(files), NEW cmd \in Commands, NEW r \in Requests
  PROVE  Sound(HandleFsCommand(files, cmd, r))
<1> DEFINE a == HandleFsCommand(files, cmd, r)
<1>1. cmd \in Command
  BY CommandsAssumption
<1>2. cmd.path \in Paths
  BY <1>1 DEF Command
<1>3. CASE cmd.op = "write"
  <2>1. cmd.offset \in Nat
    BY <1>1, <1>3, CellsAssumption DEF Command
  <2>2. a = WriteChunk(files, cmd.path, cmd.offset, r)
    BY <1>3 DEF HandleFsCommand
  <2> QED
    BY <1>2, <2>1, <2>2, WriteChunkSound
<1>4. CASE cmd.op = "read"
  <2>1. cmd.offset \in Nat
    BY <1>1, <1>4, CellsAssumption DEF Command
  <2>2. a = ReadChunk(files, cmd.path, cmd.offset)
    BY <1>4 DEF HandleFsCommand
  <2> QED
    BY <1>2, <2>1, <2>2, ReadChunkSound
<1>5. CASE cmd.op = "delete"
  <2>1. cmd.recursive \in BOOLEAN
    BY <1>1, <1>5 DEF Command
  <2>2. a = Delete(files, cmd.path, cmd.recursive)
    BY <1>5 DEF HandleFsCommand
  <2> QED
    BY <1>2, <2>1, <2>2, DeleteSound
<1>6. CASE cmd.op = "mkdir"
  BY <1>2, <1>6, MkdirSound DEF HandleFsCommand
<1>7. CASE cmd.op \in {"stat", "list", "checksum"}
  <2>1. a \in {Stat(files, cmd.path), ListDir(files, cmd.path), Checksum(files, cmd.path)}
    BY <1>7 DEF HandleFsCommand
  <2> QED
    BY <1>2, <2>1, LookSound
<1>8. CASE cmd.op = "barred"
  BY <1>8, RefusedSound DEF HandleFsCommand
<1>9. cmd.op \in {"write", "read", "delete", "mkdir", "stat", "list", "checksum", "barred"}
  BY <1>1 DEF Command
<1> QED
  BY <1>3, <1>4, <1>5, <1>6, <1>7, <1>8, <1>9

-----------------------------------------------------------------------------
(* The tunnel. *)

LEMMA QueueType ==
  ASSUME Types
  PROVE  Queue \in Seq(Requests) /\ (cur # None => cur \in Conns /\ Queue = wire[cur].toAgent)
<1>1. CASE cur = None
  BY <1>1 DEF Queue
<1>2. CASE cur # None
  BY <1>2 DEF Queue, Types, Wire
<1> QED
  BY <1>1, <1>2

LEMMA NoWireType ==
  NoWire \in Wire /\ ~NoWire.up /\ NoWire.toAgent = <<>> /\ NoWire.toHub = <<>>
<1>1. <<>> \in Seq(Requests) /\ <<>> \in Seq(Message)
  OBVIOUS
<1> QED
  BY <1>1 DEF NoWire, Wire

LEMMA PrefixOf ==
  ASSUME NEW S, NEW q \in Seq(S), NEW s \in Prefixes(q)
  PROVE  s \in Seq(S) /\ Len(s) <= Len(q) /\ \A k \in 1 .. Len(s) : s[k] = q[k]
BY DEF Prefixes

(* Steps that send and handle nothing: messages are lost or arrive, callers
   are answered or give up. *)
LEMMA QuietStep ==
  ASSUME Inv, Types', OneConnection', LiveTunnelChosen', UNCHANGED <<disk, outcome, sent, ran>>,
         \A c \in Conns : \A k \in 1 .. Len(wire'[c].toHub) :
           \E j \in 1 .. Len(wire[c].toHub) : wire'[c].toHub[k] = wire[c].toHub[j],
         Len(Queue') <= Len(Queue), \A k \in 1 .. Len(Queue') : Queue'[k] = Queue[k],
         \A r \in Requests :
           /\ req'[r].answer \in {None, outcome[r]}
           /\ req'[r].st = "returned" => outcome[r] # None
           /\ req[r].st \in Sent => req'[r].st \in Sent /\ req'[r].cmd = req[r].cmd
  PROVE  Inv'
<1>1. /\ Queue \in Seq(Requests) /\ Queue' \in Seq(Requests)
      /\ sent \in Seq(Requests) /\ ran \in Seq(Requests)
  <2>1. Queue' \in Seq(Requests)
    <3>1. CASE cur' = None
      BY <3>1 DEF Queue
    <3>2. CASE cur' # None
      BY <3>2 DEF Queue, Types, Wire
    <3> QED
      BY <3>1, <3>2
  <2> QED
    BY <2>1, QueueType DEF Inv, Types
<1>2. TreeOf(disk)' /\ TrueAnswers' /\ Told'
  <2>1. TreeOf(disk)'
    BY DEF Inv
  <2>2. TrueAnswers'
    <3> SUFFICES ASSUME NEW c \in Conns, NEW k \in 1 .. Len(wire'[c].toHub)
                 PROVE  wire'[c].toHub[k].answer = outcome'[wire'[c].toHub[k].id]
      BY DEF TrueAnswers
    <3>1. PICK j \in 1 .. Len(wire[c].toHub) : wire'[c].toHub[k] = wire[c].toHub[j]
      OBVIOUS
    <3> QED
      BY <3>1 DEF Inv, TrueAnswers
  <2>3. Told'
    BY DEF Inv, Told
  <2> QED
    BY <2>1, <2>2, <2>3
<1>3. SentOnce'
  <2>1. \A k \in 1 .. Len(sent) : sent[k] \in Requests
    BY <1>1
  <2> QED
    BY <2>1 DEF Inv, SentOnce
<1>4. InLine'
  <2>1. \A x, y : Before(x, y)' <=> Before(x, y)
    BY DEF Before
  <2>2. \A x : IsMember(sent, x)' <=> IsMember(sent, x)
    BY DEF IsMember
  <2>3. Len(Queue) \in Nat /\ Len(Queue') \in Nat
    BY <1>1
  <2>4. InLine
    BY DEF Inv
  <2> QED
    BY <2>1, <2>2, <2>3, <2>4 DEF InLine
<1> QED
  BY <1>2, <1>3, <1>4 DEF Inv

LEMMA ConnectStep ==
  ASSUME Inv, NEW c \in Conns, Connect(c)
  PROVE  Inv'
<1> DEFINE W == [NoWire EXCEPT !.up = TRUE]
<1>1. /\ UNCHANGED <<req, disk, outcome, sent, ran>> /\ cur = None /\ cur' = c
      /\ sockets' = Append(sockets, c) /\ wire' = [wire EXCEPT ![c] = W]
  BY DEF Connect
<1>2. W \in Wire /\ W.toAgent = <<>> /\ W.toHub = <<>>
  BY NoWireType DEF Wire
<1> HIDE DEF W
<1>3. Types'
  BY <1>1, <1>2 DEF Inv, Types
<1>4. wire'[c] = W /\ \A d \in Conns : d # c => wire'[d] = wire[d]
  BY <1>1 DEF Inv, Types
<1>5. OneConnection'
  BY <1>1, <1>4, ConnsAssumption DEF Inv, OneConnection
<1>6. LiveTunnelChosen'
  <2>1. sockets \in Seq(Conns)
    BY DEF Inv, Types
  <2> QED
    BY <1>1, <2>1 DEF LiveTunnelChosen, Chosen
<1>7. Queue' = <<>>
  BY <1>1, <1>2, <1>4, ConnsAssumption DEF Queue
<1>8. \A d \in Conns : \A k \in 1 .. Len(wire'[d].toHub) :
        \E j \in 1 .. Len(wire[d].toHub) : wire'[d].toHub[k] = wire[d].toHub[j]
  BY <1>2, <1>4
<1>9. Queue \in Seq(Requests) /\ Len(Queue') = 0
  BY <1>7, QueueType DEF Inv
<1> QED
  BY <1>1, <1>3, <1>5, <1>6, <1>8, <1>9, QuietStep DEF Inv, Told

(* The agent lets a connection go. *)
LEMMA LetGoStep ==
  ASSUME Inv, NEW c \in Conns, cur = c, cur' = None, NEW W \in Wire,
         wire' = [wire EXCEPT ![c] = W], ~W.up, W.toAgent = <<>>, W.toHub \in Prefixes(wire[c].toHub),
         UNCHANGED <<sockets, req, disk, outcome, sent, ran>>
  PROVE  Inv'
<1>1. wire'[c] = W /\ \A d \in Conns : d # c => wire'[d] = wire[d]
  BY DEF Inv, Types
<1>2. Types'
  BY DEF Inv, Types
<1>3. OneConnection' /\ LiveTunnelChosen'
  BY <1>1 DEF Inv, OneConnection, LiveTunnelChosen
<1>4. Queue' = <<>> /\ Len(Queue') = 0
  BY DEF Queue
<1>5. wire[c].toHub \in Seq(Message)
  BY DEF Inv, Types, Wire
<1>6. ASSUME NEW d \in Conns, NEW k \in 1 .. Len(wire'[d].toHub)
      PROVE  \E j \in 1 .. Len(wire[d].toHub) : wire'[d].toHub[k] = wire[d].toHub[j]
  <2>1. CASE d = c
    <3>1. /\ W.toHub \in Seq(Message) /\ Len(W.toHub) <= Len(wire[c].toHub)
          /\ \A j \in 1 .. Len(W.toHub) : W.toHub[j] = wire[c].toHub[j]
      BY <1>5, PrefixOf
    <3> QED
      BY <1>1, <1>5, <1>6, <2>1, <3>1
  <2>2. CASE d # c
    BY <1>1, <2>2
  <2> QED
    BY <2>1, <2>2
<1>7. Queue \in Seq(Requests)
  BY QueueType DEF Inv
<1> QED
  BY <1>2, <1>3, <1>4, <1>6, <1>7, QuietStep DEF Inv, Told

LEMMA AgentSeesCloseStep ==
  ASSUME Inv, AgentSeesClose
  PROVE  Inv'
<1>1. /\ cur \in Conns /\ wire[cur] \in Wire /\ cur' = None /\ ~wire[cur].up
      /\ wire[cur].toAgent = <<>> /\ UNCHANGED <<wire, sockets, req, disk, outcome, sent, ran>>
  BY DEF AgentSeesClose, Inv, Types
<1>2. wire[cur].toHub \in Prefixes(wire[cur].toHub)
  <2>1. wire[cur].toHub \in Seq(Message)
    BY <1>1 DEF Wire
  <2>2. wire[cur].toHub = SubSeq(wire[cur].toHub, 1, Len(wire[cur].toHub))
    BY <2>1
  <2> QED
    BY <2>1, <2>2 DEF Prefixes
<1>3. wire' = [wire EXCEPT ![cur] = wire[cur]]
  BY <1>1 DEF Inv, Types
<1> QED
  BY <1>1, <1>2, <1>3, LetGoStep

LEMMA AgentCrashStep ==
  ASSUME Inv, AgentCrash
  PROVE  Inv'
<1>1. /\ cur \in Conns /\ cur' = None /\ UNCHANGED <<sockets, req, disk, outcome, sent, ran>>
  BY DEF AgentCrash, Inv, Types
<1>2. PICK s \in Prefixes(wire[cur].toHub) :
        wire' = [wire EXCEPT ![cur] = [NoWire EXCEPT !.toHub = s]]
  BY DEF AgentCrash
<1> DEFINE W == [NoWire EXCEPT !.toHub = s]
<1>3. wire[cur].toHub \in Seq(Message)
  BY <1>1 DEF Inv, Types, Wire
<1>4. s \in Seq(Message)
  BY <1>3, PrefixOf
<1>5. W \in Wire /\ ~W.up /\ W.toAgent = <<>> /\ W.toHub = s
  BY <1>4, NoWireType DEF Wire
<1> HIDE DEF W
<1>6. wire' = [wire EXCEPT ![cur] = W]
  BY <1>2 DEF W
<1> QED
  BY <1>1, <1>2, <1>5, <1>6, LetGoStep

LEMMA BreakStep ==
  ASSUME Inv, NEW c \in Conns, Break(c)
  PROVE  Inv'
<1>1. PICK s \in Prefixes(wire[c].toAgent), t \in Prefixes(wire[c].toHub) :
        wire' = [wire EXCEPT ![c] = [up |-> FALSE, toAgent |-> s, toHub |-> t]]
  BY DEF Break
<1>2. UNCHANGED <<sockets, cur, req, disk, outcome, sent, ran>> /\ wire[c].up
  BY DEF Break
<1>3. c = cur /\ cur # None
  BY <1>2, ConnsAssumption DEF Inv, OneConnection
<1>4. wire[c].toHub \in Seq(Message) /\ wire[c].toAgent \in Seq(Requests)
  BY DEF Inv, Types, Wire
<1>5. /\ s \in Seq(Requests) /\ Len(s) <= Len(wire[c].toAgent)
      /\ \A k \in 1 .. Len(s) : s[k] = wire[c].toAgent[k]
      /\ t \in Seq(Message) /\ Len(t) <= Len(wire[c].toHub)
      /\ \A k \in 1 .. Len(t) : t[k] = wire[c].toHub[k]
  BY <1>4, PrefixOf
<1> DEFINE W == [up |-> FALSE, toAgent |-> s, toHub |-> t]
<1>6. W \in Wire /\ ~W.up /\ W.toAgent = s /\ W.toHub = t
  BY <1>5 DEF Wire
<1> HIDE DEF W
<1>7. wire' = [wire EXCEPT ![c] = W]
  BY <1>1 DEF W
<1>8. wire'[c] = W /\ \A d \in Conns : d # c => wire'[d] = wire[d]
  BY <1>7 DEF Inv, Types
<1>9. Types'
  BY <1>2, <1>6, <1>7 DEF Inv, Types
<1>10. OneConnection' /\ LiveTunnelChosen'
  BY <1>2, <1>3, <1>6, <1>8 DEF Inv, OneConnection, LiveTunnelChosen
<1>11. Queue = wire[c].toAgent /\ Queue' = s
  BY <1>2, <1>3, <1>6, <1>8 DEF Queue
<1>12. ASSUME NEW d \in Conns, NEW k \in 1 .. Len(wire'[d].toHub)
      PROVE  \E j \in 1 .. Len(wire[d].toHub) : wire'[d].toHub[k] = wire[d].toHub[j]
  <2>1. CASE d = c
    <3>1. k \in 1 .. Len(t) /\ wire'[d].toHub[k] = t[k]
      BY <1>6, <1>8, <1>12, <2>1
    <3>2. k \in 1 .. Len(wire[c].toHub)
      BY <1>4, <1>5, <3>1
    <3> QED
      BY <1>5, <2>1, <3>1, <3>2
  <2>2. CASE d # c
    BY <1>8, <2>2
  <2> QED
    BY <2>1, <2>2
<1> QED
  BY <1>2, <1>5, <1>9, <1>10, <1>11, <1>12, QuietStep DEF Inv, Told

LEMMA HubSeesCloseStep ==
  ASSUME Inv, NEW c \in Conns, HubSeesClose(c)
  PROVE  Inv'
<1>1. UNCHANGED <<wire, cur, req, disk, outcome, sent, ran>> /\ ~wire[c].up
  BY DEF HubSeesClose
<1>2. PICK k \in 1 .. Len(sockets) :
        /\ sockets[k] = c
        /\ sockets' = [j \in 1 .. Len(sockets) - 1 |->
                         IF j < k THEN sockets[j] ELSE sockets[j + 1]]
  BY DEF HubSeesClose, Without
<1>3. sockets \in Seq(Conns)
  BY DEF Inv, Types
<1>4. Len(sockets) - 1 \in Nat /\ sockets' \in [1 .. Len(sockets) - 1 -> Conns]
  BY <1>2, <1>3
<1>5. sockets' \in Seq(Conns) /\ Len(sockets') = Len(sockets) - 1
  BY <1>4
<1>6. Types' /\ OneConnection'
  BY <1>1, <1>5 DEF Inv, Types, OneConnection
<1>7. LiveTunnelChosen'
  <2> SUFFICES ASSUME cur # None, wire[cur].up PROVE sockets' # <<>> /\ sockets'[Len(sockets')] = cur
    BY <1>1 DEF LiveTunnelChosen, Chosen
  <2>1. sockets # <<>> /\ sockets[Len(sockets)] = cur
    BY DEF Inv, LiveTunnelChosen, Chosen
  <2>2. k < Len(sockets) /\ Len(sockets) \in Nat
    BY <1>1, <1>2, <1>3, <2>1
  <2>3. Len(sockets) - 1 \in 1 .. Len(sockets) - 1
    BY <1>2, <2>2
  <2>4. sockets'[Len(sockets) - 1] = sockets[Len(sockets)]
    BY <1>2, <2>2, <2>3
  <2> QED
    BY <1>5, <2>1, <2>2, <2>3, <2>4
<1>8. Queue' = Queue /\ Queue \in Seq(Requests)
  BY <1>1, QueueType DEF Queue, Inv
<1> QED
  BY <1>1, <1>6, <1>7, <1>8, QuietStep DEF Inv, Told

(* The hub closes every connection. *)
LEMMA HubClosesStep ==
  ASSUME Inv, sockets' = <<>>, UNCHANGED <<cur, disk, outcome, sent, ran>>,
         wire' \in [Conns -> Wire], req' \in [Requests -> Req],
         \A c \in Conns : /\ ~wire'[c].up /\ wire'[c].toAgent = wire[c].toAgent
                          /\ wire'[c].toHub \in {wire[c].toHub, <<>>},
         \A r \in Requests :
           /\ req'[r].answer = req[r].answer /\ req'[r].cmd = req[r].cmd
           /\ req'[r].st # req[r].st => req'[r].st = "givenup"
  PROVE  Inv'
<1>1. sockets' \in Seq(Conns)
  OBVIOUS
<1>2. Types' /\ OneConnection'
  BY <1>1 DEF Inv, Types, OneConnection
<1>3. LiveTunnelChosen'
  BY DEF Inv, Types, LiveTunnelChosen
<1>4. Queue' = Queue /\ Queue \in Seq(Requests)
  BY QueueType DEF Queue, Inv, Types
<1>5. \A r \in Requests :
        /\ req'[r].answer \in {None, outcome[r]}
        /\ req'[r].st = "returned" => outcome[r] # None
        /\ req[r].st \in Sent => req'[r].st \in Sent /\ req'[r].cmd = req[r].cmd
  BY DEF Inv, Told, Sent
<1>6. \A c \in Conns : \A k \in 1 .. Len(wire'[c].toHub) :
        \E j \in 1 .. Len(wire[c].toHub) : wire'[c].toHub[k] = wire[c].toHub[j]
  OBVIOUS
<1> QED
  BY <1>2, <1>3, <1>4, <1>5, <1>6, QuietStep

LEMMA DisconnectStep ==
  ASSUME Inv, Disconnect
  PROVE  Inv'
<1>1. sockets' = <<>> /\ UNCHANGED <<cur, req, disk, outcome, sent, ran>>
  BY DEF Disconnect
<1>2. ASSUME NEW c \in Conns
      PROVE  /\ wire'[c] \in Wire /\ ~wire'[c].up /\ wire'[c].toAgent = wire[c].toAgent
             /\ wire'[c].toHub = wire[c].toHub
  <2>1. wire[c] \in Wire /\ wire'[c] = [wire[c] EXCEPT !.up = FALSE]
    BY DEF Disconnect, Inv, Types
  <2> QED
    BY <2>1 DEF Wire
<1>3. wire' \in [Conns -> Wire] /\ req' \in [Requests -> Req]
  BY <1>1, <1>2 DEF Disconnect, Inv, Types
<1> QED
  BY <1>1, <1>2, <1>3, HubClosesStep

LEMMA HubRestartStep ==
  ASSUME Inv, HubRestart
  PROVE  Inv'
<1>1. sockets' = <<>> /\ UNCHANGED <<cur, disk, outcome, sent, ran>>
  BY DEF HubRestart
<1>2. ASSUME NEW c \in Conns
      PROVE  /\ wire'[c] \in Wire /\ ~wire'[c].up /\ wire'[c].toAgent = wire[c].toAgent
             /\ wire'[c].toHub = <<>>
  <2>1. wire[c] \in Wire /\ wire'[c] = [wire[c] EXCEPT !.up = FALSE, !.toHub = <<>>]
    BY DEF HubRestart, Inv, Types
  <2>2. <<>> \in Seq(Message)
    OBVIOUS
  <2> QED
    BY <2>1, <2>2 DEF Wire
<1>3. ASSUME NEW r \in Requests
      PROVE  /\ req'[r] \in Req /\ req'[r].answer = req[r].answer /\ req'[r].cmd = req[r].cmd
             /\ req'[r].st # req[r].st => req'[r].st = "givenup"
  <2>1. req[r] \in Req
    BY DEF Inv, Types
  <2>2. req'[r] = IF req[r].st = "open" THEN [req[r] EXCEPT !.st = "givenup"] ELSE req[r]
    BY DEF HubRestart
  <2> QED
    BY <2>1, <2>2 DEF Req, States, Sent
<1>4. wire' \in [Conns -> Wire] /\ req' \in [Requests -> Req]
  BY <1>2, <1>3 DEF HubRestart
<1> QED
  BY <1>1, <1>2, <1>3, <1>4, HubClosesStep

(* Only a request and what travels to the hub change. *)
LEMMA ReqStep ==
  ASSUME Inv, UNCHANGED <<sockets, cur, disk, outcome, sent, ran>>, NEW r \in Requests,
         wire' \in [Conns -> Wire],
         \A c \in Conns : /\ wire'[c].up = wire[c].up /\ wire'[c].toAgent = wire[c].toAgent
                          /\ \A k \in 1 .. Len(wire'[c].toHub) :
                               \E j \in 1 .. Len(wire[c].toHub) :
                                 wire'[c].toHub[k] = wire[c].toHub[j],
         NEW Q \in Req, req' = [req EXCEPT ![r] = Q],
         Q.answer \in {None, outcome[r]}, Q.st = "returned" => outcome[r] # None,
         req[r].st \in Sent => Q.st \in Sent /\ Q.cmd = req[r].cmd
  PROVE  Inv'
<1>1. req'[r] = Q /\ \A x \in Requests : x # r => req'[x] = req[x]
  BY DEF Inv, Types
<1>2. Types'
  BY DEF Inv, Types
<1>3. OneConnection' /\ LiveTunnelChosen'
  BY DEF Inv, Types, OneConnection, LiveTunnelChosen, Chosen
<1>4. Queue' = Queue /\ Queue \in Seq(Requests)
  BY QueueType DEF Queue, Inv, Types
<1>5. \A x \in Requests :
        /\ req'[x].answer \in {None, outcome[x]}
        /\ req'[x].st = "returned" => outcome[x] # None
        /\ req[x].st \in Sent => req'[x].st \in Sent /\ req'[x].cmd = req[x].cmd
  BY <1>1 DEF Inv, Told
<1> QED
  BY <1>2, <1>3, <1>4, <1>5, QuietStep

LEMMA TimeoutStep ==
  ASSUME Inv, NEW r \in Requests, Timeout(r)
  PROVE  Inv'
<1> DEFINE Q == [req[r] EXCEPT !.st = "givenup"]
<1>1. /\ UNCHANGED <<wire, sockets, cur, disk, outcome, sent, ran>> /\ req[r].st = "open"
      /\ req[r] \in Req /\ wire \in [Conns -> Wire]
  BY DEF Timeout, Inv, Types
<1>2. req' = [req EXCEPT ![r] = Q]
  BY DEF Timeout
<1>3. Q \in Req /\ Q.st = "givenup" /\ Q.answer = req[r].answer /\ Q.cmd = req[r].cmd
  BY <1>1 DEF Req, States, Sent
<1> HIDE DEF Q
<1>4. Q.answer \in {None, outcome[r]}
  BY <1>3 DEF Inv, Told
<1> QED
  BY <1>1, <1>2, <1>3, <1>4, ReqStep DEF Sent

LEMMA RefusedStep ==
  ASSUME Inv, NEW r \in Requests, NEW cmd \in Commands, ProxyOffline(r, cmd) \/ ProxyFails(r, cmd)
  PROVE  Inv'
<1> DEFINE Q == [req[r] EXCEPT !.st = "refused", !.cmd = cmd]
<1>1. /\ UNCHANGED <<wire, sockets, cur, disk, outcome, sent, ran>> /\ req[r].st = "idle"
      /\ req[r] \in Req /\ req \in [Requests -> Req] /\ wire \in [Conns -> Wire]
      /\ Asked(r, cmd, "refused")
  BY DEF ProxyOffline, ProxyFails, Inv, Types
<1>2. req' = [req EXCEPT ![r] = Q]
  BY <1>1 DEF Asked, Req
<1>3. Q \in Req /\ Q.st = "refused" /\ Q.answer = req[r].answer
  BY <1>1 DEF Req, States
<1> HIDE DEF Q
<1>4. Q.answer \in {None, outcome[r]}
  BY <1>3 DEF Inv, Told
<1> QED
  BY <1>1, <1>2, <1>3, <1>4, ReqStep DEF Sent

(* The answer that arrives first. *)
LEMMA FirstAnswer ==
  ASSUME Inv, NEW c \in Conns, wire[c].toHub # <<>>
  PROVE  /\ Head(wire[c].toHub) \in Message
         /\ Head(wire[c].toHub).answer = outcome[Head(wire[c].toHub).id]
         /\ outcome[Head(wire[c].toHub).id] # None
<1>1. wire[c].toHub \in Seq(Message)
  BY DEF Inv, Types, Wire
<1>2. /\ Head(wire[c].toHub) \in Message /\ 1 \in 1 .. Len(wire[c].toHub)
      /\ Head(wire[c].toHub) = wire[c].toHub[1]
  BY <1>1
<1>3. Head(wire[c].toHub).answer = outcome[Head(wire[c].toHub).id]
  BY <1>2 DEF Inv, TrueAnswers
<1>4. Head(wire[c].toHub).answer \in Answers
  BY <1>2 DEF Message
<1> QED
  BY <1>2, <1>3, <1>4, AnswersAssumption

LEMMA HubReceiveStep ==
  ASSUME Inv, NEW c \in Conns, HubReceive(c)
  PROVE  Inv'
<1> DEFINE msg == Head(wire[c].toHub)
           W == [wire[c] EXCEPT !.toHub = Tail(@)]
<1>1. /\ UNCHANGED <<sockets, cur, disk, outcome, sent, ran>> /\ wire[c].toHub # <<>>
      /\ wire[c] \in Wire /\ wire \in [Conns -> Wire] /\ req' = Resolved(msg)
  BY DEF HubReceive, Inv, Types
<1>2. /\ msg \in Message /\ msg.answer = outcome[msg.id] /\ outcome[msg.id] # None
  BY <1>1, FirstAnswer
<1> HIDE DEF msg
<1>3. /\ W \in Wire /\ W.up = wire[c].up /\ W.toAgent = wire[c].toAgent
      /\ W.toHub = Tail(wire[c].toHub)
  <2>1. wire[c].toHub \in Seq(Message)
    BY <1>1 DEF Wire
  <2>2. Tail(wire[c].toHub) \in Seq(Message)
    BY <1>1, <2>1
  <2> QED
    BY <1>1, <2>2 DEF Wire
<1>4. wire' = [wire EXCEPT ![c] = W]
  BY DEF HubReceive
<1> HIDE DEF W
<1>5. wire'[c] = W /\ \A d \in Conns : d # c => wire'[d] = wire[d]
  BY <1>1, <1>4
<1>6. ASSUME NEW d \in Conns
      PROVE  /\ wire'[d].up = wire[d].up /\ wire'[d].toAgent = wire[d].toAgent
             /\ \A k \in 1 .. Len(wire'[d].toHub) :
                  \E j \in 1 .. Len(wire[d].toHub) : wire'[d].toHub[k] = wire[d].toHub[j]
  <2>1. CASE d # c
    BY <1>5, <2>1
  <2>2. CASE d = c
    <3>1. wire[c].toHub \in Seq(Message)
      BY <1>1 DEF Wire
    <3>2. ASSUME NEW k \in 1 .. Len(Tail(wire[c].toHub))
          PROVE  k + 1 \in 1 .. Len(wire[c].toHub) /\ Tail(wire[c].toHub)[k] = wire[c].toHub[k + 1]
      BY <1>1, <3>1
    <3> QED
      BY <1>3, <1>5, <2>2, <3>2
  <2> QED
    BY <2>1, <2>2
<1>7. wire' \in [Conns -> Wire]
  BY <1>1, <1>3, <1>4
<1>8. msg.id \in Requests /\ msg.answer \in Answers /\ req[msg.id] \in Req /\ req \in [Requests -> Req]
  BY <1>2 DEF Message, Inv, Types
<1>9. CASE req[msg.id].st = "open"
  <2> DEFINE Q == [req[msg.id] EXCEPT !.st = "returned", !.answer = msg.answer]
  <2>1. req' = [req EXCEPT ![msg.id] = Q]
    BY <1>1, <1>8, <1>9 DEF Resolved, Req
  <2>2. Q \in Req /\ Q.st = "returned" /\ Q.answer = msg.answer /\ Q.cmd = req[msg.id].cmd
    BY <1>8 DEF Req, States, Sent
  <2> HIDE DEF Q
  <2>3. /\ Q.answer \in {None, outcome[msg.id]} /\ outcome[msg.id] # None
        /\ Q.st \in Sent
    BY <1>2, <2>2 DEF Sent
  <2> QED
    BY <1>1, <1>6, <1>7, <1>8, <2>1, <2>2, <2>3, ReqStep
<1>10. CASE req[msg.id].st # "open"
  <2>1. req' = [req EXCEPT ![msg.id] = req[msg.id]]
    BY <1>1, <1>8, <1>10 DEF Resolved
  <2> QED
    BY <1>1, <1>2, <1>6, <1>7, <1>8, <2>1, ReqStep DEF Inv, Told
<1> QED
  BY <1>9, <1>10

LEMMA ProxySendStep ==
  ASSUME Inv, NEW r \in Requests, NEW cmd \in Commands, ProxySend(r, cmd)
  PROVE  Inv'
<1> DEFINE Q == [req[r] EXCEPT !.st = "open", !.cmd = cmd]
<1>1. /\ UNCHANGED <<sockets, cur, disk, outcome, ran>> /\ req[r].st = "idle"
      /\ req[r] \in Req /\ req \in [Requests -> Req] /\ wire \in [Conns -> Wire]
      /\ sent \in Seq(Requests) /\ ran \in Seq(Requests)
      /\ sent' = Append(sent, r) /\ Asked(r, cmd, "open") /\ sockets # <<>>
  BY DEF ProxySend, Inv, Types
<1>2. req' = [req EXCEPT ![r] = Q]
  BY <1>1 DEF Asked, Req
<1>3. Q \in Req /\ Q.st = "open" /\ Q.answer = req[r].answer /\ Q.cmd = cmd
  BY <1>1 DEF Req, States, Sent
<1> HIDE DEF Q
<1>4. req'[r] = Q /\ \A x \in Requests : x # r => req'[x] = req[x]
  BY <1>1, <1>2
<1>5. /\ wire' \in [Conns -> Wire]
      /\ \A c \in Conns : wire'[c].up = wire[c].up /\ wire'[c].toHub = wire[c].toHub
      /\ \A c \in Conns : c # cur => wire'[c].toAgent = wire[c].toAgent
      /\ cur # None => wire'[cur].toAgent \in {wire[cur].toAgent, Append(wire[cur].toAgent, r)}
  <2>1. CASE ~wire[Chosen].up
    <3>1. wire' = wire
      BY <2>1 DEF ProxySend
    <3> QED
      BY <1>1, <3>1
  <2>2. CASE wire[Chosen].up
    <3> DEFINE W == [wire[cur] EXCEPT !.toAgent = Append(@, r)]
    <3>1. sockets \in Seq(Conns)
      BY DEF Inv, Types
    <3>2. Chosen \in Conns
      BY <1>1, <3>1 DEF Chosen
    <3>3. Chosen = cur /\ cur \in Conns /\ wire[cur] \in Wire
      BY <1>1, <2>2, <3>2 DEF Inv, OneConnection
    <3>4. wire' = [wire EXCEPT ![cur] = W]
      BY <2>2, <3>3 DEF ProxySend
    <3>5. /\ W \in Wire /\ W.up = wire[cur].up /\ W.toHub = wire[cur].toHub
          /\ W.toAgent = Append(wire[cur].toAgent, r)
      <4>1. Append(wire[cur].toAgent, r) \in Seq(Requests)
        BY <3>3 DEF Wire
      <4> QED
        BY <3>3, <4>1 DEF Wire
    <3> HIDE DEF W
    <3>6. /\ wire'[cur] = W /\ \A c \in Conns : c # cur => wire'[c] = wire[c]
          /\ wire' \in [Conns -> Wire]
      BY <1>1, <3>3, <3>4, <3>5
    <3> QED
      BY <3>5, <3>6
  <2> QED
    BY <2>1, <2>2
<1>6. Types'
  BY <1>1, <1>2, <1>3, <1>5 DEF Inv, Types
<1>7. OneConnection' /\ LiveTunnelChosen'
  BY <1>1, <1>5 DEF Inv, Types, OneConnection, LiveTunnelChosen, Chosen
<1>8. TreeOf(disk)'
  BY <1>1 DEF Inv
<1>9. TrueAnswers'
  BY <1>1, <1>5 DEF Inv, TrueAnswers
<1>10. Told'
  BY <1>1, <1>3, <1>4 DEF Inv, Told
<1>11. /\ Len(sent') = Len(sent) + 1 /\ Len(sent) \in Nat /\ sent'[Len(sent) + 1] = r
       /\ \A k \in 1 .. Len(sent) : sent'[k] = sent[k] /\ sent[k] \in Requests /\ sent[k] # r
  <2>1. \A k \in 1 .. Len(sent) : sent[k] # r
    BY <1>1 DEF Inv, SentOnce, Sent
  <2> QED
    BY <1>1, <2>1
<1>12. SentOnce'
  <2>1. ASSUME NEW k \in 1 .. Len(sent')
        PROVE  req'[sent'[k]].st \in Sent /\ req'[sent'[k]].cmd \in Commands
    <3>1. CASE k \in 1 .. Len(sent)
      BY <1>4, <1>11, <3>1 DEF Inv, SentOnce
    <3>2. CASE k = Len(sent) + 1
      BY <1>3, <1>4, <1>11, <3>2 DEF Sent
    <3> QED
      BY <1>11, <3>1, <3>2
  <2>2. ASSUME NEW k \in 1 .. Len(sent'), NEW l \in 1 .. Len(sent'), sent'[k] = sent'[l]
        PROVE  k = l
    <3>1. \A j \in 1 .. Len(sent') : j \in 1 .. Len(sent) \/ j = Len(sent')
      BY <1>11
    <3> QED
      BY <1>11, <2>2, <3>1 DEF Inv, SentOnce
  <2> QED
    BY <2>1, <2>2 DEF SentOnce
<1>13. InLine'
  <2>1. ASSUME NEW x, IsMember(sent, x) PROVE IsMember(sent', x) /\ Before(x, r)'
    <3>1. PICK k \in 1 .. Len(sent) : sent[k] = x
      BY <2>1 DEF IsMember
    <3>2. k \in 1 .. Len(sent') /\ Len(sent') \in 1 .. Len(sent') /\ k < Len(sent')
      BY <1>11
    <3>3. sent'[k] = x /\ sent'[Len(sent')] = r
      BY <1>11, <3>1
    <3> QED
      BY <3>2, <3>3 DEF IsMember, Before
  <2>2. IsMember(sent', r)
    <3>1. Len(sent') \in 1 .. Len(sent') /\ sent'[Len(sent')] = r
      BY <1>11
    <3> QED
      BY <3>1 DEF IsMember
  <2>3. ASSUME NEW x, NEW y, Before(x, y) PROVE Before(x, y)'
    <3>1. PICK k, l \in 1 .. Len(sent) : k < l /\ sent[k] = x /\ sent[l] = y
      BY <2>3 DEF Before
    <3>2. k \in 1 .. Len(sent') /\ l \in 1 .. Len(sent') /\ sent'[k] = x /\ sent'[l] = y
      BY <1>11, <3>1
    <3> QED
      BY <3>1, <3>2 DEF Before
  <2>4. Queue \in Seq(Requests) /\ Queue' \in {Queue, Append(Queue, r)}
    BY <1>1, <1>5, QueueType DEF Queue, Inv
  <2>5. \A j \in 1 .. Len(Queue') :
          \/ j \in 1 .. Len(Queue) /\ Queue'[j] = Queue[j]
          \/ j = Len(Queue) + 1 /\ Queue'[j] = r
    BY <2>4
  <2>6. InLine /\ Len(Queue) \in Nat
    BY <2>4 DEF Inv
  <2>7. \A i \in 1 .. Len(ran) : IsMember(sent', ran[i])
    BY <2>1, <2>6 DEF InLine
  <2>8. \A i \in 1 .. Len(Queue') : IsMember(sent', Queue'[i])
    BY <2>1, <2>2, <2>5, <2>6 DEF InLine
  <2>9. \A i, j \in 1 .. Len(ran) : i < j => Before(ran[i], ran[j])'
    BY <1>1, <2>3, <2>6 DEF InLine
  <2>10. \A i \in 1 .. Len(ran), j \in 1 .. Len(Queue') : Before(ran[i], Queue[j])'
    BY <1>1, <2>1, <2>3, <2>5, <2>6 DEF InLine
  <2>11. ASSUME NEW i \in 1 .. Len(Queue'), NEW j \in 1 .. Len(Queue'), i < j
         PROVE  Before(Queue[i], Queue[j])'
    <3>1. i \in 1 .. Len(Queue) /\ Queue'[i] = Queue[i]
      BY <2>4, <2>5, <2>6, <2>11
    <3>2. CASE j \in 1 .. Len(Queue) /\ Queue'[j] = Queue[j]
      BY <2>3, <2>6, <2>11, <3>1, <3>2 DEF InLine
    <3>3. CASE Queue'[j] = r
      BY <2>1, <2>6, <3>1, <3>3 DEF InLine
    <3> QED
      BY <2>5, <3>2, <3>3
  <2> QED
    BY <1>1, <2>7, <2>8, <2>9, <2>10, <2>11 DEF InLine
<1> QED
  BY <1>6, <1>7, <1>8, <1>9, <1>10, <1>12, <1>13 DEF Inv

(* The command the agent takes next was sent, and has not run. *)
LEMMA NextCommand ==
  ASSUME Inv, cur # None, wire[cur].toAgent # <<>>, NEW r, r = Head(wire[cur].toAgent)
  PROVE  /\ r \in Requests /\ req[r].cmd \in Commands /\ req[r].st \in {"open", "givenup"}
         /\ outcome[r] = None
<1>1. Queue \in Seq(Requests) /\ Queue = wire[cur].toAgent /\ cur \in Conns
  BY QueueType DEF Inv
<1>2. r \in Requests /\ r = Queue[1] /\ 1 \in 1 .. Len(Queue)
  BY <1>1
<1>3. PICK k \in 1 .. Len(sent) : sent[k] = r
  BY <1>2 DEF Inv, InLine, IsMember
<1>4. req[r].st \in Sent /\ req[r].cmd \in Commands
  BY <1>3 DEF Inv, SentOnce
<1>5. ~IsMember(ran, r)
  <2> SUFFICES ASSUME NEW i \in 1 .. Len(ran), ran[i] = r PROVE FALSE
    BY DEF IsMember
  <2>1. Before(r, r)
    BY <1>2 DEF Inv, InLine
  <2>2. PICK m, n \in 1 .. Len(sent) : m < n /\ sent[m] = r /\ sent[n] = r
    BY <2>1 DEF Before
  <2>3. m = n /\ Len(sent) \in Nat
    BY <2>2 DEF Inv, SentOnce, Types
  <2> QED
    BY <2>2, <2>3
<1>6. outcome[r] = None /\ req[r].st # "returned"
  BY <1>2, <1>5 DEF Inv, Told
<1> QED
  BY <1>2, <1>4, <1>6 DEF Sent

LEMMA AgentHandleStep ==
  ASSUME Inv, AgentHandle
  PROVE  Inv'
<1> PICK r : r = Head(wire[cur].toAgent)
  OBVIOUS
<1> PICK a : a = HandleFsCommand(disk, req[r].cmd, r)
  OBVIOUS
<1> PICK c : c = cur
  OBVIOUS
<1> DEFINE answer == [ok |-> a.ok, val |-> a.val]
           msg == [id |-> r, answer |-> answer]
           W == [wire[c] EXCEPT !.toAgent = Tail(wire[c].toAgent),
                                !.toHub = IF wire[c].up THEN Append(@, msg) ELSE @]
<1>1. /\ cur # None /\ wire[cur].toAgent # <<>>
      /\ Handle(cur, Head(wire[cur].toAgent), Tail(wire[cur].toAgent))
  BY DEF AgentHandle
<1>2. /\ r \in Requests /\ req[r].cmd \in Commands /\ outcome[r] = None
  BY <1>1, NextCommand
<1>3. /\ UNCHANGED <<sockets, cur, req, sent>> /\ disk' = a.disk /\ ran' = Append(ran, r)
      /\ outcome' = [outcome EXCEPT ![r] = answer]
  BY <1>1 DEF Handle
<1>4. DiskOK(a.disk) /\ TreeOf(a.disk) /\ answer \in Answers
  BY <1>2, HandleSound DEF Sound, Inv, Types
<1> HIDE DEF answer
<1>5. msg \in Message /\ msg.id = r /\ msg.answer = answer
  BY <1>2, <1>4 DEF Message
<1>6. /\ c \in Conns /\ wire[c] \in Wire /\ wire \in [Conns -> Wire]
      /\ wire[c].toAgent \in Seq(Requests) /\ wire[c].toHub \in Seq(Message)
      /\ wire[c].toAgent # <<>> /\ Head(wire[c].toAgent) = r
  BY <1>1 DEF Inv, Types, Wire
<1>7. wire' = [wire EXCEPT ![c] = W]
  <2>1. wire' = [wire EXCEPT ![c].toAgent = Tail(wire[c].toAgent),
                             ![c].toHub = IF wire[c].up THEN Append(@, msg) ELSE @]
    BY <1>1 DEF Handle, answer
  <2> HIDE DEF msg
  <2> QED
    BY <1>6, <2>1 DEF Wire
<1> HIDE DEF msg
<1>8. /\ W \in Wire /\ W.up = wire[c].up /\ W.toAgent = Tail(wire[c].toAgent)
      /\ W.toHub \in {wire[c].toHub, Append(wire[c].toHub, msg)}
  <2>1. /\ Tail(wire[c].toAgent) \in Seq(Requests)
        /\ Append(wire[c].toHub, msg) \in Seq(Message)
    BY <1>5, <1>6
  <2> QED
    BY <1>6, <2>1 DEF Wire
<1> HIDE DEF W
<1>9. wire'[c] = W /\ wire' \in [Conns -> Wire] /\ \A d \in Conns : d # c => wire'[d] = wire[d]
  BY <1>6, <1>7, <1>8
<1>10. outcome'[r] = answer /\ \A x \in Requests : x # r => outcome'[x] = outcome[x]
  BY <1>2, <1>3 DEF Inv, Types
<1>11. Types'
  <2>1. outcome' \in [Requests -> Answers \union {None}]
    BY <1>2, <1>3, <1>4 DEF Inv, Types
  <2>2. ran' \in Seq(Requests)
    BY <1>2, <1>3 DEF Inv, Types
  <2> QED
    BY <1>3, <1>4, <1>9, <2>1, <2>2 DEF Inv, Types
<1>12. TreeOf(disk)' /\ OneConnection' /\ LiveTunnelChosen'
  BY <1>3, <1>4, <1>8, <1>9 DEF Inv, OneConnection, LiveTunnelChosen, Chosen
<1>13. TrueAnswers'
  <2> SUFFICES ASSUME NEW d \in Conns, NEW k \in 1 .. Len(wire'[d].toHub)
               PROVE  wire'[d].toHub[k].answer = outcome'[wire'[d].toHub[k].id]
    BY DEF TrueAnswers
  <2>1. \/ k \in 1 .. Len(wire[d].toHub) /\ wire'[d].toHub[k] = wire[d].toHub[k]
        \/ wire'[d].toHub[k] = msg
    <3>1. CASE d # c
      BY <1>9, <3>1
    <3>2. CASE d = c
      <4>1. wire'[d].toHub = W.toHub
        BY <1>9, <3>2
      <4>2. CASE W.toHub = wire[c].toHub
        BY <3>2, <4>1, <4>2
      <4>3. CASE W.toHub = Append(wire[c].toHub, msg)
        <5>1. k \in 1 .. Len(wire[c].toHub) + 1 /\ Len(wire[c].toHub) \in Nat
          BY <1>5, <1>6, <4>1, <4>3
        <5> QED
          BY <1>5, <1>6, <3>2, <4>1, <4>3, <5>1
      <4> QED
        BY <1>8, <4>2, <4>3
    <3> QED
      BY <3>1, <3>2
  <2>2. CASE wire'[d].toHub[k] = msg
    BY <1>5, <1>10, <2>2
  <2>3. CASE k \in 1 .. Len(wire[d].toHub) /\ wire'[d].toHub[k] = wire[d].toHub[k]
    <3>1. wire[d].toHub[k].answer = outcome[wire[d].toHub[k].id]
      BY <2>3 DEF Inv, TrueAnswers
    <3>2. wire[d].toHub \in Seq(Message)
      BY DEF Inv, Types, Wire
    <3>3. wire[d].toHub[k] \in Message
      BY <2>3, <3>2
    <3>4. wire[d].toHub[k].id # r
      BY <1>2, <3>1, <3>3, AnswersAssumption DEF Message
    <3> QED
      BY <1>10, <2>3, <3>1, <3>3, <3>4 DEF Message
  <2> QED
    BY <2>1, <2>2, <2>3
<1>14. /\ ran \in Seq(Requests) /\ Len(ran) \in Nat /\ Len(ran') = Len(ran) + 1
       /\ ran'[Len(ran) + 1] = r /\ \A k \in 1 .. Len(ran) : ran'[k] = ran[k]
  <2>1. ran \in Seq(Requests)
    BY DEF Inv, Types
  <2> QED
    BY <1>2, <1>3, <2>1
<1>15. Told'
  <2>1. ASSUME NEW x \in Requests, outcome'[x] # None PROVE IsMember(ran', x)
    <3>1. CASE x = r
      <4>1. Len(ran') \in 1 .. Len(ran') /\ ran'[Len(ran')] = r
        BY <1>14
      <4> QED
        BY <3>1, <4>1 DEF IsMember
    <3>2. CASE x # r
      <4>1. PICK k \in 1 .. Len(ran) : ran[k] = x
        BY <1>10, <2>1, <3>2 DEF Inv, Told, IsMember
      <4>2. k \in 1 .. Len(ran') /\ ran'[k] = x
        BY <1>14, <4>1
      <4> QED
        BY <4>2 DEF IsMember
    <3> QED
      BY <3>1, <3>2
  <2>2. answer # None
    BY <1>4, AnswersAssumption
  <2> QED
    BY <1>2, <1>3, <1>10, <2>1, <2>2 DEF Inv, Told
<1>16. SentOnce'
  BY <1>3 DEF Inv, SentOnce
<1>17. InLine'
  <2>1. /\ Queue = wire[c].toAgent /\ Queue \in Seq(Requests)
        /\ Queue' = Tail(Queue) /\ Queue[1] = r /\ Queue # <<>>
    BY <1>1, <1>3, <1>6, <1>8, <1>9 DEF Queue
  <2>2. /\ Len(Queue') = Len(Queue) - 1 /\ Len(Queue) \in Nat /\ 1 \in 1 .. Len(Queue)
        /\ \A j \in 1 .. Len(Queue') : j + 1 \in 1 .. Len(Queue) /\ 1 < j + 1 /\ Queue'[j] = Queue[j + 1]
    BY <2>1
  <2>3. \A x, y : Before(x, y)' <=> Before(x, y)
    BY <1>3 DEF Before
  <2>4. \A x : IsMember(sent', x) <=> IsMember(sent, x)
    BY <1>3
  <2>5. \A i \in 1 .. Len(ran') :
          \/ i \in 1 .. Len(ran) /\ ran'[i] = ran[i]
          \/ i = Len(ran) + 1 /\ ran'[i] = Queue[1]
    BY <1>14, <2>1
  <2>6. InLine
    BY DEF Inv
  <2>7. \A i \in 1 .. Len(ran') : IsMember(sent', ran'[i])
    BY <2>2, <2>4, <2>5, <2>6 DEF InLine
  <2>8. \A i \in 1 .. Len(Queue') : IsMember(sent', Queue'[i])
    BY <2>2, <2>4, <2>6 DEF InLine
  <2>9. ASSUME NEW i \in 1 .. Len(ran'), NEW j \in 1 .. Len(ran'), i < j
        PROVE  Before(ran'[i], ran'[j])
    <3>1. i \in 1 .. Len(ran) /\ ran'[i] = ran[i]
      BY <1>14, <2>5, <2>9
    <3> QED
      BY <2>2, <2>5, <2>6, <2>9, <3>1 DEF InLine
  <2>10. ASSUME NEW i \in 1 .. Len(ran'), NEW j \in 1 .. Len(Queue')
         PROVE  Before(ran'[i], Queue'[j])
    BY <2>2, <2>5, <2>6 DEF InLine
  <2>11. ASSUME NEW i \in 1 .. Len(Queue'), NEW j \in 1 .. Len(Queue'), i < j
         PROVE  Before(Queue'[i], Queue'[j])
    BY <2>2, <2>6, <2>11 DEF InLine
  <2> QED
    BY <2>3, <2>7, <2>8, <2>9, <2>10, <2>11 DEF InLine
<1> QED
  BY <1>11, <1>12, <1>13, <1>15, <1>16, <1>17 DEF Inv

LEMMA InvInit == Init => Inv
<1> SUFFICES ASSUME Init PROVE Inv
  OBVIOUS
<1>1. wire \in [Conns -> Wire] /\ \A c \in Conns : wire[c] = NoWire
  BY NoWireType DEF Init
<1>2. req \in [Requests -> Req] /\ \A r \in Requests : req[r].st = "idle" /\ req[r].answer = None
  BY DEF Init, Req, States
<1>3. <<>> \in Seq(Requests) /\ <<>> \in Seq(Conns) /\ Len(<<>>) = 0
  OBVIOUS
<1>4. DOMAIN disk = {}
  BY DEF Init
<1>5. DiskOK(disk) /\ TreeOf(disk)
  BY <1>4 DEF Init, DiskOK, TreeOf
<1>6. Types
  BY <1>1, <1>2, <1>3, <1>5 DEF Init, Types
<1>7. Queue = <<>> /\ sent = <<>> /\ ran = <<>> /\ cur = None /\ \A r \in Requests : outcome[r] = None
  BY DEF Init, Queue
<1>8. OneConnection /\ LiveTunnelChosen /\ TrueAnswers
  BY <1>1, <1>3, <1>7, NoWireType DEF OneConnection, LiveTunnelChosen, TrueAnswers
<1>9. Told /\ SentOnce /\ InLine
  BY <1>2, <1>3, <1>7 DEF Told, SentOnce, InLine
<1> QED
  BY <1>5, <1>6, <1>8, <1>9 DEF Inv

LEMMA InvNext == Inv /\ [Next]_vars => Inv'
<1> SUFFICES ASSUME Inv, [Next]_vars PROVE Inv'
  OBVIOUS
<1>1. CASE AgentHandle \/ AgentSeesClose \/ AgentCrash \/ Disconnect \/ HubRestart
  BY <1>1, AgentHandleStep, AgentSeesCloseStep, AgentCrashStep, DisconnectStep, HubRestartStep
<1>2. ASSUME NEW c \in Conns, Connect(c) \/ HubReceive(c) \/ HubSeesClose(c) \/ Break(c)
      PROVE  Inv'
  BY <1>2, ConnectStep, HubReceiveStep, HubSeesCloseStep, BreakStep
<1>3. ASSUME NEW r \in Requests, Timeout(r) PROVE Inv'
  BY <1>3, TimeoutStep
<1>4. ASSUME NEW r \in Requests, NEW cmd \in Commands,
             ProxyOffline(r, cmd) \/ ProxySend(r, cmd) \/ ProxyFails(r, cmd)
      PROVE  Inv'
  BY <1>4, RefusedStep, ProxySendStep
<1>5. CASE UNCHANGED vars
  BY <1>5 DEF vars, Inv, Types, OneConnection, LiveTunnelChosen, Chosen, TrueAnswers, Told, SentOnce,
     InLine, Queue, Before, IsMember
<1> QED
  BY <1>1, <1>2, <1>3, <1>4, <1>5 DEF Next

(* Every reachable state of the tunnel satisfies the inductive invariant: one
   connection is up, the hub's newest, and what ran and waits is in the order
   it was sent. *)
THEOREM TunnelInvariant == Spec => []Inv
BY InvInit, InvNext, PTL DEF Spec

-----------------------------------------------------------------------------
(* The LAN server only adds readers: it changes nothing of the tunnel. *)
LEMMA LanImplementsTunnel == LanSpec => Spec
<1>1. LanInit => Init
  BY DEF LanInit
<1>2. [LanNext]_lanVars => [Next]_vars
  BY DEF LanNext, LanStep, LanOpen, LanCopy, LanCut, LanEnds, LanHeader, LanLook, LanChecksum,
     LanAnswer, lanVars
<1> QED
  BY <1>1, <1>2, PTL DEF LanSpec, Spec

LEMMA InvTypeOK == Inv => TypeOK
<1> SUFFICES ASSUME Inv PROVE TypeOK
  OBVIOUS
<1>1. ASSUME NEW c \in Conns PROVE wire[c].up \in BOOLEAN /\ wire[c].toAgent \in Seq(Requests)
  BY DEF Inv, Types, Wire
<1>2. ASSUME NEW r \in Requests
      PROVE  /\ req[r].st \in {"idle", "open", "returned", "refused", "givenup"}
             /\ req[r].cmd \in Commands \union {None}
             /\ req[r].answer \in {None, outcome[r]}
  BY DEF Inv, Types, Told, Req, States, Sent
<1> QED
  BY <1>1, <1>2 DEF Inv, Types, TypeOK, TrueAnswers, DiskOK

(* The answers that travel are the agent's own, and its files make a tree after
   any sequence of commands of handle_fs_command, for any paths in two levels. *)
THEOREM TunnelTypeOK == LanSpec => []TypeOK
BY InvTypeOK, TunnelInvariant, LanImplementsTunnel, PTL

(* Commands take effect in the order the hub sent them, however often the agent
   reconnects. *)
THEOREM TunnelInOrder == LanSpec => []InOrder
<1>1. Inv => InOrder
  BY DEF Inv, InLine, Before, InOrder
<1> QED
  BY <1>1, TunnelInvariant, LanImplementsTunnel, PTL

(* The hub's choice, the socket added last, is the agent's connection while that
   is up. *)
THEOREM TunnelLiveTunnelChosen == LanSpec => []LiveTunnelChosen
<1>1. Inv => LiveTunnelChosen
  BY DEF Inv
<1> QED
  BY <1>1, TunnelInvariant, LanImplementsTunnel, PTL

-----------------------------------------------------------------------------
(* The tunnel implements the remote call. *)

Call(r) == [st |-> req[r].st, cmd |-> req[r].cmd, outcome |-> outcome[r], answer |-> req[r].answer]

Calls == [r \in Requests |-> Call(r)]

LEMMA RefinedInit == Init => R!AbstractInit
BY DEF Init, R!AbstractInit, R!NoCall

(* A step that changes no request and no file is no step of the abstraction. *)
LEMMA RefinedStutter ==
  ASSUME UNCHANGED <<req, outcome, disk>>
  PROVE  UNCHANGED R!abstractVars
BY DEF R!abstractVars

LEMMA RefinedInvoke ==
  ASSUME Inv, NEW r \in Requests, NEW cmd \in Commands, NEW st \in {"open", "refused"},
         req[r].st = "idle", Asked(r, cmd, st), UNCHANGED <<outcome, disk>>
  PROVE  R!AbstractNext
<1>1. req \in [Requests -> Req] /\ req' = [req EXCEPT ![r].st = st, ![r].cmd = cmd]
  BY DEF Inv, Types, Asked
<1>2. Calls[r].st = "idle"
  BY DEF Calls, Call
<1>3. ASSUME NEW x \in Requests
      PROVE  Calls'[x] = [Calls EXCEPT ![r].st = st, ![r].cmd = cmd][x]
  <2>1. CASE x = r
    <3>1. req[r] \in Req /\ req'[r].st = st /\ req'[r].cmd = cmd /\ req'[r].answer = req[r].answer
      BY <1>1 DEF Req
    <3> QED
      BY <2>1, <3>1 DEF Calls, Call
  <2>2. CASE x # r
    BY <1>1, <2>2 DEF Calls, Call
  <2> QED
    BY <2>1, <2>2
<1>4. Calls' = [Calls EXCEPT ![r].st = st, ![r].cmd = cmd]
  BY <1>3 DEF Calls
<1>5. R!Invoke(r)
  BY <1>2, <1>4 DEF R!Invoke, Calls, Call
<1> QED
  BY <1>5 DEF R!AbstractNext

(* The abstraction's commands do what the agent's do. *)
LEMMA SameCommands ==
  ASSUME NEW files, NEW cmd, NEW r
  PROVE  R!HandleFsCommand(files, cmd, r) = HandleFsCommand(files, cmd, r)
BY DEF HandleFsCommand, WriteChunk, ReadChunk, Delete, Mkdir, Stat, ListDir, Checksum,
  Refused, Answer, IsDir, IsFile, Folders, Below, Reachable, WithFolders, Written,
  FileHash, Dir, R!HandleFsCommand, R!WriteChunk, R!ReadChunk, R!Delete, R!Mkdir,
  R!Stat, R!ListDir, R!Checksum, R!Refused, R!Answer, R!IsDir, R!IsFile, R!Folders,
  R!Below, R!Reachable, R!WithFolders, R!Written, R!FileHash, R!Dir

(* The moment a command takes effect. *)
LEMMA RefinedCarryOut ==
  ASSUME Inv, AgentHandle
  PROVE  R!AbstractNext
<1> PICK r : r = Head(wire[cur].toAgent)
  OBVIOUS
<1> PICK a : a = HandleFsCommand(disk, req[r].cmd, r)
  OBVIOUS
<1> DEFINE answer == [ok |-> a.ok, val |-> a.val]
<1>1. r \in Requests /\ req[r].st \in {"open", "givenup"} /\ outcome[r] = None
  BY NextCommand DEF AgentHandle
<1>2. UNCHANGED req /\ disk' = a.disk /\ outcome' = [outcome EXCEPT ![r] = answer]
  BY DEF AgentHandle, Handle
<1> HIDE DEF answer
<1>3. /\ Calls[r].st \in {"open", "givenup"} /\ Calls[r].outcome = None
      /\ Calls[r].cmd = req[r].cmd
  BY <1>1 DEF Calls, Call
<1>4. ASSUME NEW x \in Requests PROVE Calls'[x] = [Calls EXCEPT ![r].outcome = answer][x]
  <2>1. outcome \in [Requests -> Answers \union {None}]
    BY DEF Inv, Types
  <2>2. CASE x = r
    BY <1>2, <2>1, <2>2 DEF Calls, Call
  <2>3. CASE x # r
    BY <1>1, <1>2, <2>1, <2>3 DEF Calls, Call
  <2> QED
    BY <2>2, <2>3
<1>5. Calls' = [Calls EXCEPT ![r].outcome = answer]
  BY <1>4 DEF Calls
<1>6. R!HandleFsCommand(disk, Calls[r].cmd, r) = a
  BY <1>3, SameCommands
<1>7. R!CarryOut(r)
  BY <1>2, <1>3, <1>5, <1>6 DEF R!CarryOut, Calls, Call, answer
<1> QED
  BY <1>1, <1>7 DEF R!AbstractNext

(* A call that has returned is determined by its command and its answer. *)
Returned(c, o) == [st : {"returned"}, cmd : {c}, outcome : {o}, answer : {o}]

LEMMA SameReturned ==
  ASSUME NEW c, NEW o, NEW x \in Returned(c, o), NEW y \in Returned(c, o)
  PROVE  x = y
BY DEF Returned

(* An answer arrives: the caller gets what his own command produced, or has
   given up and it is ignored. *)
LEMMA RefinedReceive ==
  ASSUME Inv, NEW c \in Conns, HubReceive(c)
  PROVE  R!AbstractNext \/ UNCHANGED R!abstractVars
<1> PICK msg : msg = Head(wire[c].toHub)
  OBVIOUS
<1> PICK r : r = msg.id
  OBVIOUS
<1>1. /\ UNCHANGED <<outcome, disk>> /\ req' = Resolved(msg)
      /\ r \in Requests /\ msg.answer = outcome[r] /\ outcome[r] # None
      /\ req \in [Requests -> Req] /\ req[r] \in Req
  BY FirstAnswer DEF HubReceive, Message, Inv, Types
<1>2. CASE req[r].st # "open"
  BY <1>1, <1>2, RefinedStutter DEF Resolved
<1>3. CASE req[r].st = "open"
  <2>1. req' = [req EXCEPT ![r].st = "returned", ![r].answer = outcome[r]]
    BY <1>1, <1>3 DEF Resolved
  <2>2. Calls[r].st = "open" /\ Calls[r].outcome # None /\ Calls[r].outcome = outcome[r]
    BY <1>1, <1>3 DEF Calls, Call
  <2>3. ASSUME NEW x \in Requests
        PROVE  Calls'[x] = [Calls EXCEPT ![r].st = "returned", ![r].answer = outcome[r]][x]
    <3>1. CASE x = r
      <4>1. /\ req'[r].st = "returned" /\ req'[r].cmd = req[r].cmd
            /\ req'[r].answer = outcome[r]
        BY <1>1, <2>1 DEF Req
      <4>2. PICK k : k = [st |-> req[r].st, cmd |-> req[r].cmd, outcome |-> outcome[r],
                         answer |-> req[r].answer]
        OBVIOUS
      <4>3. Calls[r] = k /\ r \in DOMAIN Calls
        BY <1>1, <4>2 DEF Calls, Call
      <4>4. Calls'[r] \in Returned(req[r].cmd, outcome[r])
        BY <1>1, <4>1 DEF Calls, Call, Returned
      <4>5. [k EXCEPT !.st = "returned", !.answer = outcome[r]] \in Returned(req[r].cmd, outcome[r])
        BY <4>2 DEF Returned
      <4>6. [Calls EXCEPT ![r].st = "returned", ![r].answer = outcome[r]][r]
              = [k EXCEPT !.st = "returned", !.answer = outcome[r]]
        BY <4>3
      <4> QED
        BY <3>1, <4>4, <4>5, <4>6, SameReturned
    <3>2. CASE x # r
      BY <1>1, <2>1, <3>2 DEF Calls, Call
    <3> QED
      BY <3>1, <3>2
  <2>4. Calls' = [Calls EXCEPT ![r].st = "returned", ![r].answer = outcome[r]]
    BY <2>3 DEF Calls
  <2>5. R!Return(r)
    BY <1>1, <2>2, <2>4 DEF R!Return, Calls, Call
  <2> QED
    BY <1>1, <2>5 DEF R!AbstractNext
<1> QED
  BY <1>2, <1>3

LEMMA RefinedGiveUp ==
  ASSUME Inv, NEW G \in SUBSET Requests, \A r \in G : req[r].st = "open",
         \A r \in Requests :
           req'[r] = IF r \in G THEN [req[r] EXCEPT !.st = "givenup"] ELSE req[r],
         UNCHANGED <<outcome, disk>>
  PROVE  R!AbstractNext
<1>1. \A r \in G : Calls[r].st = "open"
  BY DEF Calls, Call
<1>2. ASSUME NEW r \in Requests
      PROVE  Call(r)' = IF r \in G THEN [Calls[r] EXCEPT !.st = "givenup"] ELSE Calls[r]
  <2>1. req[r] \in Req
    BY DEF Inv, Types
  <2>2. CASE r \in G
    <3>1. /\ req'[r].st = "givenup" /\ req'[r].cmd = req[r].cmd
          /\ req'[r].answer = req[r].answer
      BY <2>1, <2>2 DEF Req
    <3> QED
      BY <2>2, <3>1 DEF Calls, Call
  <2>3. CASE r \notin G
    BY <2>3 DEF Calls, Call
  <2> QED
    BY <2>2, <2>3
<1>3. Calls' = [r \in Requests |->
                  IF r \in G THEN [Calls[r] EXCEPT !.st = "givenup"] ELSE Calls[r]]
  BY <1>2 DEF Calls
<1>4. R!GiveUp(G)
  BY <1>1, <1>3 DEF R!GiveUp, Calls, Call
<1> QED
  BY <1>4 DEF R!AbstractNext

LEMMA RefinedNext == Inv /\ [Next]_vars => [R!AbstractNext]_(R!abstractVars)
<1> SUFFICES ASSUME Inv, [Next]_vars PROVE R!AbstractNext \/ UNCHANGED R!abstractVars
  OBVIOUS
<1>1. CASE AgentHandle
  BY <1>1, RefinedCarryOut
<1>2. CASE AgentSeesClose \/ AgentCrash \/ Disconnect
  BY <1>2, RefinedStutter DEF AgentSeesClose, AgentCrash, Disconnect
<1>3. CASE HubRestart
  <2> DEFINE G == {r \in Requests : req[r].st = "open"}
  <2>1. /\ \A r \in Requests :
             req'[r] = IF r \in G THEN [req[r] EXCEPT !.st = "givenup"] ELSE req[r]
        /\ UNCHANGED <<outcome, disk>>
    BY <1>3 DEF HubRestart
  <2>2. G \in SUBSET Requests /\ \A r \in G : req[r].st = "open"
    OBVIOUS
  <2> HIDE DEF G
  <2> QED
    BY <2>1, <2>2, RefinedGiveUp
<1>4. ASSUME NEW c \in Conns, Connect(c) \/ HubSeesClose(c) \/ Break(c)
      PROVE  R!AbstractNext \/ UNCHANGED R!abstractVars
  BY <1>4, RefinedStutter DEF Connect, HubSeesClose, Break
<1>5. ASSUME NEW c \in Conns, HubReceive(c) PROVE R!AbstractNext \/ UNCHANGED R!abstractVars
  BY <1>5, RefinedReceive
<1>6. ASSUME NEW r \in Requests, Timeout(r) PROVE R!AbstractNext \/ UNCHANGED R!abstractVars
  <2> DEFINE G == {r}
  <2>1. req \in [Requests -> Req]
    BY DEF Inv, Types
  <2>2. /\ \A x \in Requests :
             req'[x] = IF x \in G THEN [req[x] EXCEPT !.st = "givenup"] ELSE req[x]
        /\ UNCHANGED <<outcome, disk>> /\ \A x \in G : req[x].st = "open"
        /\ G \in SUBSET Requests
    BY <1>6, <2>1 DEF Timeout
  <2> HIDE DEF G
  <2> QED
    BY <2>2, RefinedGiveUp
<1>7. ASSUME NEW r \in Requests, NEW cmd \in Commands,
             ProxyOffline(r, cmd) \/ ProxySend(r, cmd) \/ ProxyFails(r, cmd)
      PROVE  R!AbstractNext \/ UNCHANGED R!abstractVars
  BY <1>7, RefinedInvoke DEF ProxyOffline, ProxySend, ProxyFails
<1>8. CASE UNCHANGED vars
  BY <1>8, RefinedStutter DEF vars
<1> QED
  BY <1>1, <1>2, <1>3, <1>4, <1>5, <1>6, <1>7, <1>8 DEF Next

(* The tunnel implements the abstract remote call: connection_manager.rs and the
   hub carry a command out at most once and never one that was refused, and a
   caller gets the answer of his own command or none. *)
THEOREM TunnelImplementsRemoteCall == LanSpec => ImplementsRemoteCall
<1>1. Spec => R!AbstractSpec
  BY RefinedInit, RefinedNext, TunnelInvariant, PTL DEF Spec, R!AbstractSpec
<1> QED
  BY <1>1, LanImplementsTunnel, PTL DEF ImplementsRemoteCall

-----------------------------------------------------------------------------
(* Reads over the LAN. *)

LanRead == [st : {"idle", "announced", "open", "sent", "answered"}, path : Paths \union {None},
            ranged : BOOLEAN, start : Nat, size : Nat, seen : Seq(Cells), changed : BOOLEAN,
            file : Seq(Cells), linked : BOOLEAN, at : Nat, sought : BOOLEAN,
            body : Seq(Values), cut : BOOLEAN]

(* What a header announces lies within the file as it was. *)
Announced(read) ==
  read.st \in {"announced", "open", "sent"} =>
    /\ read.start + read.size <= Len(read.seen)
    /\ ~read.ranged => read.start = 0 /\ read.size = Len(read.seen)

(* The name announced and the open file hold what the header saw, unless they
   were changed; an open file with a name holds what the name stands for. *)
Held(read, files) ==
  /\ read.st = "announced" =>
       /\ read.body = <<>>
       /\ read.sought
       /\ ~read.changed => IsFile(files, read.path) /\ files[read.path].data = read.seen
  /\ read.st = "open" =>
       /\ read.linked => IsFile(files, read.path) /\ files[read.path].data = read.file
       /\ ~read.changed => read.file = read.seen
       /\ read.sought => read.at = read.start + Len(read.body)

(* What is sent begins what was announced, and is all of it at the end. *)
AsAnnounced(read) ==
  read.st \in {"open", "sent"} =>
    /\ ~read.changed /\ read.sought =>
         /\ Len(read.body) <= read.size
         /\ \A k \in 1 .. Len(read.body) : read.body[k] = read.seen[read.start + k]
         /\ read.st = "sent" /\ ~read.cut => Len(read.body) = read.size
    /\ read.ranged => Len(read.body) <= read.size

LanInv == /\ lan \in [Reads -> LanRead]
          /\ \A l \in Reads : Announced(lan[l]) /\ Held(lan[l], disk) /\ AsAnnounced(lan[l])

LEMMA NoReadType == NoRead \in LanRead /\ NoRead.st = "idle"
<1>1. <<>> \in Seq(Cells) /\ <<>> \in Seq(Values)
  OBVIOUS
<1> QED
  BY <1>1 DEF NoRead, LanRead

LEMMA LanReadStep ==
  ASSUME LanInv, NEW l \in Reads, NEW D \in LanRead,
         Announced(D), Held(D, disk), AsAnnounced(D),
         lan' = [lan EXCEPT ![l] = D], disk' = disk
  PROVE  LanInv'
<1>1. lan' \in [Reads -> LanRead]
  BY DEF LanInv
<1>2. ASSUME NEW m \in Reads
      PROVE  Announced(lan'[m]) /\ Held(lan'[m], disk') /\ AsAnnounced(lan'[m])
  <2>1. lan'[m] = lan[m] \/ lan'[m] = D
    BY DEF LanInv
  <2> QED
    BY <2>1 DEF LanInv
<1> QED
  BY <1>1, <1>2 DEF LanInv

(* A range that fits ends at or before the last cell. *)
LEMMA ParseRangeFits ==
  ASSUME NEW g \in Ranges, NEW total \in Nat, NEW fit, fit = ParseRange(g, total), fit # None
  PROVE  fit[1] \in Nat /\ fit[2] \in Nat /\ fit[1] <= fit[2] /\ fit[2] < total
<1>1. g.start \in Nat /\ (g.end # None => g.end \in Nat)
  BY RangesAssumption
<1> DEFINE last == IF total = 0 THEN 0 ELSE total - 1
           end == IF g.end = None THEN last ELSE AtMost(g.end, last)
<1>2. last \in Nat /\ end \in Nat /\ end <= last
  BY <1>1 DEF AtMost
<1>3. fit = <<g.start, end>> /\ g.start <= end /\ g.start < total
  BY DEF ParseRange
<1> HIDE DEF end
<1> QED
  BY <1>1, <1>2, <1>3

LEMMA LanHeaderStep ==
  ASSUME Inv, LanInv, NEW l \in Reads, NEW p \in Paths, NEW g \in Ranges \union {None},
         LanHeader(l, p, g)
  PROVE  LanInv'
<1> PICK data : data = disk[p].data
  OBVIOUS
<1> PICK fit : fit = IF g = None THEN None ELSE ParseRange(g, Len(data))
  OBVIOUS
<1> DEFINE b == fit # None
           start == IF fit = None THEN 0 ELSE fit[1]
           size == IF fit = None THEN Len(data) ELSE fit[2] - fit[1] + 1
           D == [NoRead EXCEPT !.st = "announced", !.path = p, !.seen = data, !.ranged = b,
                               !.start = start, !.size = size]
<1>1. data \in Seq(Cells) /\ Len(data) \in Nat /\ IsFile(disk, p)
  <2>1. disk[p] \in Entry /\ IsFile(disk, p)
    BY DEF LanHeader, IsFile, Inv, Types, DiskOK
  <2> QED
    BY <2>1 DEF Entry
<1>2. lan' = [lan EXCEPT ![l] = D] /\ disk' = disk
  BY DEF LanHeader, vars
<1>3. /\ start \in Nat /\ size \in Nat /\ start + size <= Len(data)
      /\ ~b => start = 0 /\ size = Len(data)
  <2>1. CASE fit = None
    BY <1>1, <2>1
  <2>2. CASE fit # None
    <3>1. g \in Ranges /\ fit = ParseRange(g, Len(data))
      BY <2>2
    <3>2. fit[1] \in Nat /\ fit[2] \in Nat /\ fit[1] <= fit[2] /\ fit[2] < Len(data)
      BY <1>1, <2>2, <3>1, ParseRangeFits
    <3> QED
      BY <1>1, <2>2, <3>2
  <2> QED
    BY <2>1, <2>2
<1>4. b \in BOOLEAN
  OBVIOUS
<1> HIDE DEF b, start, size
<1>5. /\ D \in LanRead /\ D.st = "announced" /\ D.seen = data /\ D.start = start
      /\ D.size = size /\ D.ranged = b /\ D.path = p /\ D.sought /\ D.body = <<>>
  BY <1>1, <1>3, <1>4, NoReadType DEF LanRead, NoRead
<1> HIDE DEF D
<1>6. Announced(D) /\ Held(D, disk) /\ AsAnnounced(D)
  BY <1>1, <1>3, <1>5 DEF Announced, Held, AsAnnounced
<1> QED
  BY <1>2, <1>5, <1>6, LanReadStep

LEMMA LanOpenStep ==
  ASSUME Inv, LanInv, NEW l \in Reads, LanOpen(l)
  PROVE  LanInv'
<1>1. /\ lan[l] \in LanRead /\ lan \in [Reads -> LanRead] /\ lan[l].st = "announced"
      /\ Announced(lan[l]) /\ Held(lan[l], disk) /\ disk' = disk
  BY DEF LanInv, LanOpen, vars
<1>2. lan[l].body = <<>> /\ lan[l].sought /\ lan[l].start \in Nat /\ lan[l].size \in Nat
  BY <1>1 DEF Held, LanRead
<1>3. CASE lan' = [lan EXCEPT ![l].st = "sent", ![l].cut = TRUE]
  <2> DEFINE D == [lan[l] EXCEPT !.st = "sent", !.cut = TRUE]
  <2>1. lan' = [lan EXCEPT ![l] = D]
    BY <1>1, <1>3 DEF LanRead
  <2>2. /\ D \in LanRead /\ D.st = "sent" /\ D.cut /\ D.body = <<>> /\ D.seen = lan[l].seen
        /\ D.start = lan[l].start /\ D.size = lan[l].size /\ D.ranged = lan[l].ranged
    BY <1>1, <1>2 DEF LanRead
  <2> HIDE DEF D
  <2>3. Announced(D) /\ Held(D, disk) /\ AsAnnounced(D)
    BY <1>1, <1>2, <2>2 DEF Announced, Held, AsAnnounced
  <2> QED
    BY <1>1, <2>1, <2>2, <2>3, LanReadStep
<1>4. ASSUME NEW at \in {lan[l].start, 0}, IsFile(disk, lan[l].path),
             lan' = [lan EXCEPT ![l].st = "open", ![l].file = disk[lan[l].path].data,
                                ![l].linked = TRUE, ![l].at = at,
                                ![l].sought = (at = lan[l].start)]
      PROVE  LanInv'
  <2> PICK data : data = disk[lan[l].path].data
    OBVIOUS
  <2> DEFINE b == at = lan[l].start
             D == [lan[l] EXCEPT !.st = "open", !.file = data, !.linked = TRUE, !.at = at,
                                 !.sought = b]
  <2>1. lan' = [lan EXCEPT ![l] = D]
    BY <1>1, <1>4 DEF LanRead
  <2>2. data \in Seq(Cells)
    BY <1>4 DEF IsFile, Inv, Types, DiskOK, Entry
  <2>3. b \in BOOLEAN /\ at \in Nat /\ (b => at = lan[l].start)
    BY <1>2, <1>4
  <2> HIDE DEF b
  <2>4. /\ D \in LanRead /\ D.st = "open" /\ D.file = data /\ D.at = at /\ D.sought = b
        /\ D.body = <<>> /\ D.seen = lan[l].seen /\ D.changed = lan[l].changed
        /\ D.start = lan[l].start /\ D.size = lan[l].size /\ D.ranged = lan[l].ranged
        /\ D.path = lan[l].path
    BY <1>1, <1>2, <2>2, <2>3 DEF LanRead
  <2> HIDE DEF D
  <2>5. Announced(D) /\ AsAnnounced(D)
    BY <1>1, <1>2, <2>4 DEF Announced, AsAnnounced
  <2>6. Held(D, disk)
    BY <1>1, <1>2, <1>4, <2>3, <2>4 DEF Held
  <2> QED
    BY <1>1, <2>1, <2>4, <2>5, <2>6, LanReadStep
<1> QED
  BY <1>3, <1>4 DEF LanOpen

(* A copy that ends has sent all there is of what was announced. *)
LEMMA LanEndsStep ==
  ASSUME LanInv, NEW l \in Reads, NEW cut \in BOOLEAN, lan[l].st = "open", LanEnds(l, cut),
         cut \/ ~More(lan[l])
  PROVE  LanInv'
<1> DEFINE D == [lan[l] EXCEPT !.st = "sent", !.cut = cut, !.file = <<>>, !.linked = FALSE, !.at = 0]
<1>1. /\ lan[l] \in LanRead /\ lan \in [Reads -> LanRead] /\ disk' = disk
      /\ Announced(lan[l]) /\ Held(lan[l], disk) /\ AsAnnounced(lan[l])
  BY DEF LanInv, LanEnds, vars
<1>2. lan' = [lan EXCEPT ![l] = D]
  BY <1>1 DEF LanEnds, LanRead
<1>3. <<>> \in Seq(Cells)
  OBVIOUS
<1>4. /\ D \in LanRead /\ D.st = "sent" /\ D.cut = cut /\ D.body = lan[l].body
      /\ D.seen = lan[l].seen /\ D.changed = lan[l].changed /\ D.sought = lan[l].sought
      /\ D.start = lan[l].start /\ D.size = lan[l].size /\ D.ranged = lan[l].ranged
  BY <1>1, <1>3 DEF LanRead
<1> HIDE DEF D
<1>5. /\ lan[l].start \in Nat /\ lan[l].size \in Nat /\ lan[l].at \in Nat
      /\ Len(lan[l].body) \in Nat /\ Len(lan[l].file) \in Nat /\ Len(lan[l].seen) \in Nat
  BY <1>1 DEF LanRead
<1>6. ASSUME ~lan[l].changed, lan[l].sought, ~cut PROVE Len(lan[l].body) = lan[l].size
  <2>1. /\ lan[l].file = lan[l].seen /\ lan[l].at = lan[l].start + Len(lan[l].body)
        /\ Len(lan[l].body) <= lan[l].size
        /\ lan[l].start + lan[l].size <= Len(lan[l].seen)
    BY <1>1, <1>6 DEF Held, AsAnnounced, Announced
  <2>2. ~(lan[l].at < Len(lan[l].file)) \/ ~(Len(lan[l].body) < lan[l].size)
    BY <1>1, <1>6 DEF More, LanRead
  <2>3. Len(lan[l].file) = Len(lan[l].seen)
    BY <2>1
  <2> HIDE DEF More
  <2> QED
    BY <1>5, <2>1, <2>2, <2>3, SMTT(30)
<1>7. Announced(D) /\ Held(D, disk)
  BY <1>1, <1>4 DEF Announced, Held
<1>8. AsAnnounced(D)
  BY <1>1, <1>4, <1>6 DEF AsAnnounced
<1> QED
  BY <1>1, <1>2, <1>4, <1>7, <1>8, LanReadStep

LEMMA LanCopyStep ==
  ASSUME LanInv, NEW l \in Reads, LanCopy(l)
  PROVE  LanInv'
<1>1. CASE ~More(lan[l])
  BY <1>1, LanEndsStep DEF LanCopy
<1>2. CASE More(lan[l])
  <2> PICK cell : cell = lan[l].file[lan[l].at + 1]
    OBVIOUS
  <2> PICK n : n = lan[l].at
    OBVIOUS
  <2> PICK body : body = Append(lan[l].body, cell)
    OBVIOUS
  <2> PICK m : m = n + 1
    OBVIOUS
  <2> DEFINE D == [lan[l] EXCEPT !.at = m, !.body = body]
  <2>1. /\ lan[l] \in LanRead /\ lan \in [Reads -> LanRead] /\ disk' = disk /\ lan[l].st = "open"
        /\ Announced(lan[l]) /\ Held(lan[l], disk) /\ AsAnnounced(lan[l])
    BY <1>2 DEF LanInv, LanCopy, vars
  <2>2. lan' = [lan EXCEPT ![l].at = m, ![l].body = body]
    BY <1>2, <2>1 DEF LanCopy, LanRead
  <2>3. lan' = [lan EXCEPT ![l] = D]
    BY <2>1, <2>2 DEF LanRead
  <2>4. /\ lan[l].start \in Nat /\ lan[l].size \in Nat /\ n \in Nat
        /\ lan[l].body \in Seq(Values) /\ lan[l].file \in Seq(Cells) /\ Len(lan[l].file) \in Nat
        /\ Len(lan[l].seen) \in Nat /\ lan[l].ranged \in BOOLEAN
    BY <2>1 DEF LanRead
  <2>5. n < Len(lan[l].file) /\ (lan[l].ranged => Len(lan[l].body) < lan[l].size)
    BY <1>2 DEF More
  <2>6. cell \in Values
    <3>1. n + 1 \in 1 .. Len(lan[l].file)
      BY <2>4, <2>5
    <3>2. cell \in Cells
      BY <2>4, <3>1
    <3> QED
      BY <3>2 DEF Values
  <2>7. /\ body \in Seq(Values) /\ Len(body) = Len(lan[l].body) + 1 /\ Len(lan[l].body) \in Nat
        /\ body[Len(body)] = cell
        /\ \A k \in 1 .. Len(lan[l].body) : body[k] = lan[l].body[k]
    BY <2>4, <2>6
  <2>8. /\ D \in LanRead /\ D.st = "open" /\ D.at = m /\ D.body = body
        /\ D.seen = lan[l].seen /\ D.changed = lan[l].changed /\ D.sought = lan[l].sought
        /\ D.start = lan[l].start /\ D.size = lan[l].size /\ D.ranged = lan[l].ranged
        /\ D.file = lan[l].file /\ D.linked = lan[l].linked /\ D.path = lan[l].path
    <3>1. m \in Nat
      BY <2>4
    <3> QED
      BY <2>1, <2>7, <3>1 DEF LanRead
  <2> HIDE DEF D
  <2>9. ASSUME ~lan[l].changed, lan[l].sought
        PROVE  /\ Len(body) <= lan[l].size
               /\ \A k \in 1 .. Len(body) : body[k] = lan[l].seen[lan[l].start + k]
    <3>1. /\ lan[l].file = lan[l].seen /\ n = lan[l].start + Len(lan[l].body)
          /\ Len(lan[l].body) <= lan[l].size
          /\ lan[l].start + lan[l].size <= Len(lan[l].seen)
          /\ ~lan[l].ranged => lan[l].start = 0 /\ lan[l].size = Len(lan[l].seen)
          /\ \A k \in 1 .. Len(lan[l].body) : lan[l].body[k] = lan[l].seen[lan[l].start + k]
      BY <2>1, <2>9 DEF Held, AsAnnounced, Announced
    <3>2. Len(lan[l].body) < lan[l].size
      BY <2>4, <2>5, <2>7, <3>1
    <3>3. cell = lan[l].seen[lan[l].start + Len(body)]
      <4>1. n + 1 = lan[l].start + Len(body)
        BY <2>4, <2>7, <3>1
      <4> QED
        BY <3>1, <4>1
    <3>4. ASSUME NEW k \in 1 .. Len(body) PROVE body[k] = lan[l].seen[lan[l].start + k]
      <4>1. k = Len(body) \/ k \in 1 .. Len(lan[l].body)
        BY <2>7
      <4> QED
        BY <2>7, <3>1, <3>3, <4>1
    <3>5. Len(body) <= lan[l].size
      <4> PICK x, y : x = Len(lan[l].body) /\ y = lan[l].size
        OBVIOUS
      <4>1. x \in Nat /\ y \in Nat /\ Len(body) = x + 1 /\ x < y
        BY <2>4, <2>7, <3>2
      <4> QED
        BY <4>1
    <3> QED
      BY <3>4, <3>5
  <2>10. Announced(D)
    BY <2>1, <2>8 DEF Announced
  <2>11. Held(D, disk)
    BY <2>1, <2>4, <2>7, <2>8 DEF Held
  <2>12. lan[l].ranged => Len(body) <= lan[l].size
    <3> PICK x, y : x = Len(lan[l].body) /\ y = lan[l].size
      OBVIOUS
    <3>1. x \in Nat /\ y \in Nat /\ Len(body) = x + 1 /\ (lan[l].ranged => x < y)
      BY <2>4, <2>5, <2>7
    <3> QED
      BY <3>1
  <2>13. AsAnnounced(D)
    BY <2>8, <2>9, <2>12, Zenon DEF AsAnnounced
  <2> QED
    BY <2>1, <2>3, <2>8, <2>10, <2>11, <2>13, LanReadStep
<1> QED
  BY <1>1, <1>2

(* A command of the tunnel leaves a read as it should be. *)
LEMMA FollowedStep ==
  ASSUME NEW read \in LanRead, Announced(read), Held(read, disk), AsAnnounced(read),
         DiskOK(disk)'
  PROVE  /\ Followed(read) \in LanRead
         /\ Announced(Followed(read)) /\ Held(Followed(read), disk') /\ AsAnnounced(Followed(read))
<1> DEFINE p == read.path
           same == IsFile(disk', p) /\ disk'[p].data = disk[p].data
<1>1. CASE read.st = "announced" /\ IsFile(disk, p) /\ ~same
  <2> DEFINE D == [read EXCEPT !.changed = TRUE]
  <2>1. Followed(read) = D
    BY <1>1 DEF Followed
  <2>2. /\ D \in LanRead /\ D.st = "announced" /\ D.changed /\ D.body = read.body
        /\ D.sought = read.sought /\ D.seen = read.seen /\ D.start = read.start
        /\ D.size = read.size /\ D.ranged = read.ranged
    BY <1>1 DEF LanRead
  <2> HIDE DEF D
  <2> QED
    BY <1>1, <2>1, <2>2 DEF Announced, Held, AsAnnounced
<1>2. CASE read.st = "open" /\ read.linked /\ ~same /\ IsFile(disk', p)
  <2> PICK data : data = disk'[p].data
    OBVIOUS
  <2> DEFINE D == [read EXCEPT !.file = data, !.changed = TRUE]
  <2>1. Followed(read) = D
    BY <1>2 DEF Followed
  <2>2. data \in Seq(Cells)
    BY <1>2 DEF IsFile, DiskOK, Entry
  <2>3. /\ D \in LanRead /\ D.st = "open" /\ D.changed /\ D.body = read.body /\ D.file = data
        /\ D.sought = read.sought /\ D.seen = read.seen /\ D.start = read.start
        /\ D.size = read.size /\ D.ranged = read.ranged /\ D.path = p /\ D.at = read.at
    BY <1>2, <2>2 DEF LanRead
  <2> HIDE DEF D
  <2> QED
    BY <1>2, <2>1, <2>3 DEF Announced, Held, AsAnnounced
<1>3. CASE read.st = "open" /\ read.linked /\ ~same /\ ~IsFile(disk', p)
  <2> DEFINE D == [read EXCEPT !.linked = FALSE]
  <2>1. Followed(read) = D
    BY <1>3 DEF Followed
  <2>2. /\ D \in LanRead /\ D.st = "open" /\ D.linked = FALSE /\ D.changed = read.changed
        /\ D.body = read.body /\ D.file = read.file /\ D.cut = read.cut
        /\ D.sought = read.sought /\ D.seen = read.seen /\ D.start = read.start
        /\ D.size = read.size /\ D.ranged = read.ranged /\ D.at = read.at
    BY <1>3 DEF LanRead
  <2> HIDE DEF D
  <2> QED
    BY <1>3, <2>1, <2>2 DEF Announced, Held, AsAnnounced
<1>4. CASE /\ ~(read.st = "announced" /\ IsFile(disk, p) /\ ~same)
           /\ ~(read.st = "open" /\ read.linked /\ ~same)
  <2>1. Followed(read) = read
    BY <1>4 DEF Followed
  <2>2. Held(read, disk')
    BY <1>4 DEF Held
  <2> QED
    BY <2>1, <2>2
<1> QED
  BY <1>1, <1>2, <1>3, <1>4

LEMMA LanFollowStep ==
  ASSUME Inv, LanInv, Next, lan' = [l \in Reads |-> Followed(lan[l])]
  PROVE  LanInv'
<1>1. DiskOK(disk)'
  BY InvNext DEF Inv, Types
<1>2. ASSUME NEW l \in Reads
      PROVE  /\ lan'[l] \in LanRead
             /\ Announced(lan'[l]) /\ Held(lan'[l], disk') /\ AsAnnounced(lan'[l])
  BY <1>1, FollowedStep DEF LanInv
<1> QED
  BY <1>2 DEF LanInv

LEMMA LanAnswerStep ==
  ASSUME LanInv, NEW l \in Reads, NEW p \in Paths, NEW a, Sound(a), LanAnswer(l, p, a)
  PROVE  LanInv'
<1> DEFINE D == [NoRead EXCEPT !.st = "answered", !.path = p, !.body = a.val]
<1>1. a.val \in Seq(Values)
  BY DEF Sound, Answers
<1>2. D \in LanRead /\ D.st = "answered"
  BY <1>1, NoReadType DEF LanRead
<1>3. lan' = [lan EXCEPT ![l] = D] /\ disk' = disk
  BY DEF LanAnswer, vars
<1> HIDE DEF D
<1>4. Announced(D) /\ Held(D, disk) /\ AsAnnounced(D)
  BY <1>2 DEF Announced, Held, AsAnnounced
<1> QED
  BY <1>2, <1>3, <1>4, LanReadStep

LEMMA LanInvNext == Inv /\ LanInv /\ [LanNext]_lanVars => LanInv'
<1> SUFFICES ASSUME Inv, LanInv, [LanNext]_lanVars PROVE LanInv'
  OBVIOUS
<1>1. CASE UNCHANGED lanVars
  BY <1>1 DEF LanInv, lanVars, vars
<1>2. ASSUME NEW l \in Reads, LanOpen(l) \/ LanCopy(l) \/ LanCut(l) PROVE LanInv'
  BY <1>2, LanOpenStep, LanCopyStep, LanEndsStep DEF LanCut
<1>3. ASSUME NEW l \in Reads, NEW p \in Paths, NEW g \in Ranges \union {None}, LanHeader(l, p, g)
      PROVE  LanInv'
  BY <1>3, LanHeaderStep
<1>4. ASSUME NEW l \in Reads, NEW p \in Paths, LanLook(l, p) \/ LanChecksum(l, p) PROVE LanInv'
  <2>1. Sound(Stat(disk, p)) /\ Sound(ListDir(disk, p)) /\ Sound(Checksum(disk, p))
    BY LookSound DEF Inv, Types
  <2> QED
    BY <1>4, <2>1, LanAnswerStep DEF LanLook, LanChecksum
<1>5. CASE Next /\ lan' = [l \in Reads |-> Followed(lan[l])]
  BY <1>5, LanFollowStep
<1> QED
  BY <1>1, <1>2, <1>3, <1>4, <1>5 DEF LanNext, LanStep

(* A LAN read of lan_server.rs sends what its header announced, or the beginning
   of it if an error cuts the copy short, for every file, every range and every
   interleaving with the tunnel, unless the file changed or the seek failed; and
   a range is never longer than announced. *)
THEOREM LanServerBodyAsAnnounced == LanSpec => []LanBodyAsAnnounced
<1>1. LanInit => LanInv
  BY NoReadType DEF LanInit, LanInv, Announced, Held, AsAnnounced
<1>2. LanInv => LanBodyAsAnnounced
  BY DEF LanInv, AsAnnounced, LanBodyAsAnnounced
<1> QED
  BY <1>1, <1>2, LanInvNext, TunnelInvariant, LanImplementsTunnel, PTL DEF LanSpec
=============================================================================
