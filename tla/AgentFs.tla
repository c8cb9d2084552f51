------------------------------ MODULE AgentFs -------------------------------
(***************************************************************************)
(* The agent's file-system handler (fs_handler.rs) behind the policy check *)
(* of handle_fs_command: what a command does to the files of a storage     *)
(* root and what it answers.  Paths are at most two levels deep, a file is *)
(* a sequence of cells, and a cell holds the request that wrote it, or     *)
(* Zero where a write past the end left a hole.  Links are not modelled.   *)
(***************************************************************************)
EXTENDS Integers, Sequences, FiniteSets

CONSTANTS Paths,
          ParentOf,   \* a function from Paths to the folder of a path, or Top
          Top,        \* the storage root
          Offsets,    \* offsets of chunks, in cells
          Requests,   \* what cells are written by
          Commands,   \* the commands that callers send
          Zero,
          None

ASSUME PathsAssumption ==
  /\ Top \notin Paths
  /\ ParentOf \in [Paths -> Paths \union {Top}]
  /\ \A p \in Paths : ParentOf[p] # Top => ParentOf[p] # p /\ ParentOf[ParentOf[p]] = Top
ASSUME CellsAssumption == Offsets \subseteq Nat /\ Zero \notin Requests /\ None \notin Requests

(* A command as it comes over the tunnel.  A barred one names a storage path
   that agent.toml restricts, a path that safe_resolve refuses, an unknown
   operation, or data that is not base64. *)
Command ==
  [op : {"write", "read"}, path : Paths, offset : Offsets]
    \union
  [op : {"delete"}, path : Paths, recursive : BOOLEAN]
    \union
  [op : {"mkdir", "stat", "list", "checksum", "barred"}, path : Paths]

ASSUME CommandsAssumption == Commands \subseteq Command

(* What a file holds, and what an answer may carry: cells, lengths and flags,
   and the number of entries of a folder. *)
Cells   == Requests \union {Zero}
Values  == Cells \union Nat \union {Cardinality(S) : S \in SUBSET Paths}
Answers == [ok : BOOLEAN, val : Seq(Values)]

ASSUME AnswersAssumption == None \notin Answers

Dir == [kind |-> "dir", data |-> <<>>]

IsDir(disk, p)  == p \in DOMAIN disk /\ disk[p].kind = "dir"
IsFile(disk, p) == p \in DOMAIN disk /\ disk[p].kind = "file"

Folders(p) == {ParentOf[p]} \ {Top}
Below(p) == {q \in Paths : ParentOf[q] = p}

(* create_dir_all can make every folder above p. *)
Reachable(disk, p) == \A q \in Folders(p) : q \in DOMAIN disk => IsDir(disk, q)

(* disk with the folders S that it lacks. *)
WithFolders(disk, S) ==
  [q \in DOMAIN disk \union S |-> IF q \in DOMAIN disk THEN disk[q] ELSE Dir]

(* The cells of a file after one of them is written at offset o. *)
Written(data, o, x) ==
  [k \in 1 .. (IF Len(data) > o THEN Len(data) ELSE o + 1) |->
     IF k = o + 1 THEN x ELSE IF k <= Len(data) THEN data[k] ELSE Zero]

(* What a command leaves on the disk and answers; the value is a sequence. *)
Answer(disk, ok, val) == [disk |-> disk, ok |-> ok, val |-> val]

Refused(disk) == Answer(disk, FALSE, <<>>)

(* write_chunk: the file is opened without truncating it. *)
WriteChunk(disk, p, o, r) ==
  IF ~Reachable(disk, p) \/ IsDir(disk, p)
    THEN Refused(disk)
    ELSE LET old  == IF p \in DOMAIN disk THEN disk[p].data ELSE <<>>
             file == [kind |-> "file", data |-> Written(old, o, r)]
             base == WithFolders(disk, Folders(p) \union {p})
         IN  Answer([base EXCEPT ![p] = file], TRUE, <<Len(file.data)>>)

(* read_chunk: one cell, or the end of the file. *)
ReadChunk(disk, p, o) ==
  IF ~IsFile(disk, p) THEN Refused(disk)
  ELSE Answer(disk, TRUE, IF o >= Len(disk[p].data) THEN <<>> ELSE <<disk[p].data[o + 1]>>)

\* Mutant: a folder goes without its contents.
Delete_FolderOnly(disk, p, recursive) ==
  IF p \notin DOMAIN disk THEN Answer(disk, TRUE, <<0>>)
  ELSE Answer([q \in DOMAIN disk \ {p} |-> disk[q]], TRUE, <<1>>)

(* delete: what does not exist is no error; a folder goes with its contents
   if the command says so. *)
Delete(disk, p, recursive) ==
  LET inside == Below(p) \intersect DOMAIN disk
  IN  IF p \notin DOMAIN disk THEN Answer(disk, TRUE, <<0>>)
      ELSE IF IsDir(disk, p) /\ inside # {} /\ ~recursive THEN Refused(disk)
      ELSE Answer([q \in DOMAIN disk \ ({p} \union inside) |-> disk[q]], TRUE, <<1>>)

(* mkdir *)
Mkdir(disk, p) ==
  IF p \in DOMAIN disk THEN Answer(disk, TRUE, <<0>>)
  ELSE IF ~Reachable(disk, p) THEN Refused(disk)
  ELSE Answer(WithFolders(disk, Folders(p) \union {p}), TRUE, <<1>>)

(* stat: whether there is such an entry. *)
Stat(disk, p) == Answer(disk, TRUE, IF p \in DOMAIN disk THEN <<1>> ELSE <<0>>)

(* list_dir: how many entries a folder has. *)
ListDir(disk, p) ==
  IF ~IsDir(disk, p) THEN Refused(disk)
  ELSE Answer(disk, TRUE, <<Cardinality(Below(p) \intersect DOMAIN disk)>>)

(* file_hash: a value that depends on every cell and on the length. *)
FileHash(data) == <<Len(data)>> \o data

Checksum(disk, p) ==
  IF ~IsFile(disk, p) THEN Refused(disk) ELSE Answer(disk, TRUE, FileHash(disk[p].data))

(* handle_fs_command: the policy check, then the operation. *)
HandleFsCommand(disk, cmd, r) ==
  CASE cmd.op = "barred"   -> Refused(disk)
    [] cmd.op = "write"    -> WriteChunk(disk, cmd.path, cmd.offset, r)
    [] cmd.op = "read"     -> ReadChunk(disk, cmd.path, cmd.offset)
    [] cmd.op = "delete"   -> Delete(disk, cmd.path, cmd.recursive)
    [] cmd.op = "mkdir"    -> Mkdir(disk, cmd.path)
    [] cmd.op = "stat"     -> Stat(disk, cmd.path)
    [] cmd.op = "list"     -> ListDir(disk, cmd.path)
    [] cmd.op = "checksum" -> Checksum(disk, cmd.path)

(* The files make a tree: whatever exists lies in folders that exist. *)
TreeOf(disk) ==
  \A p \in DOMAIN disk : \A q \in Folders(p) : IsDir(disk, q)
=============================================================================
