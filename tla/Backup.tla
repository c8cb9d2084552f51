------------------------------- MODULE Backup -------------------------------
(***************************************************************************)
(* Backups of one user (crate backup): create, verify, restore, delete and *)
(* retention, one action per statement or per file, beside the uploads,    *)
(* overwrites and purges that change the rows and the contents under them. *)
(* A backup is a directory of payloads, written one by one, a manifest     *)
(* written after them, and a row of the table backups inserted last.       *)
(* Folders, counts and sizes are left out; share links and file versions,  *)
(* both restored by INSERT ... ON CONFLICT DO NOTHING, are links.          *)
(* A file, a directory or a statement may fail at any time; most of these  *)
(* errors are ignored, and the request goes on.                            *)
(*                                                                         *)
(* History in a request: off, that another request or the disk changed     *)
(* what it reads or writes; blind, that a verification did not get at the  *)
(* manifest; lost, the files and links an ignored error passed over.       *)
(***************************************************************************)
EXTENDS Integers, Sequences, FiniteSets

CONSTANTS Files, Contents, Links,
          LinkOf,      \* the file of a link
          Versions,    \* the links that are file versions; the others are share links
          Backups,     \* names of backup directories, each used once
          InTrash,     \* the files that are in the trash at first
          Existing,    \* the backups made before, oldest first
          Keeps,       \* the keep_count values of retention requests
          Workers,     \* requests that may be in flight at once
          MaxChanges,  \* bound: changes made by the rest of the system
          MaxRequests, \* bound: requests begun
          None

ASSUME LinksAssumption == LinkOf \in [Links -> Files]
ASSUME ExistingAssumption ==
  /\ Existing \in Seq(Backups)
  /\ \A i, j \in 1 .. Len(Existing) : Existing[i] = Existing[j] => i = j
ASSUME BoundsAssumption == Keeps \subseteq Nat /\ MaxChanges \in Nat /\ MaxRequests \in Nat
ASSUME ContentsAssumption == Contents # {}

VARIABLES
  row,       \* file_entries: a function from the files that have a row
  blob,      \* the contents in active storage, by file
  links,     \* the links there are
  dir,       \* per backup, its directory or None
  made,      \* the backups whose row was inserted, in this order
  status,    \* the table backups: a function from the rows to their status
  job,       \* per worker, the request in flight
  changes, requests,   \* what is left of the bounds
  doomed,    \* history: backups a delete or retention had begun to remove
  rotten,    \* history: backups that were damaged on disk
  deleted,   \* history: backups that a delete was asked for
  sweeps     \* history: the keep_count values of the retentions begun

vars == <<row, blob, links, dir, made, status, job, changes, requests, doomed, rotten, deleted, sweeps>>

Empty == [x \in {} |-> None]
Put(fn, k, v) == [x \in DOMAIN fn \union {k} |-> IF x = k THEN v ELSE fn[x]]
Drop(fn, S) == [x \in DOMAIN fn \ S |-> fn[x]]

Row == [hash : Contents, trashed : BOOLEAN]

(* Functions from some of the files. *)
FilesTo(S) == UNION {[D -> S] : D \in SUBSET Files}

Manifest == [files : FilesTo(Contents), entries : FilesTo(Row), links : SUBSET Links]
Dir == [payload : FilesTo(Contents), manifest : Manifest \union {None}, legible : BOOLEAN]

(* None is told apart from everything it may stand in for. *)
ASSUME NoneAssumption ==
  /\ None \notin Files \union Contents \union Backups
  /\ \A x \in Manifest : x # None
  /\ \A x \in Dir : x # None

Job == [op : {"idle", "copy", "manifest", "insert", "remove", "drop",
              "load", "verify", "restore", "rows", "report"},
        b : Backups \union {None}, todo : SUBSET (Files \union Backups),
        files : FilesTo(Contents), entries : FilesTo(Row), links : SUBSET Links,
        done : SUBSET Files, lost : SUBSET (Files \union Links),
        bad : BOOLEAN, blind : BOOLEAN, off : BOOLEAN]

Idle == [op |-> "idle", b |-> None, todo |-> {}, files |-> Empty, entries |-> Empty,
         links |-> {}, done |-> {}, lost |-> {}, bad |-> FALSE, blind |-> FALSE, off |-> FALSE]

NewDir == [payload |-> Empty, manifest |-> None, legible |-> TRUE]

SetOf(s) == {s[k] : k \in 1 .. Len(s)}
Made == SetOf(made)

Table == DOMAIN status
Used  == {b \in Backups : dir[b] # None} \union Made
           \union {job[w].b : w \in Workers}

Init ==
  /\ row = [f \in Files |-> [hash |-> CHOOSE c \in Contents : TRUE, trashed |-> f \in InTrash]]
  /\ blob = [f \in Files |-> row[f].hash]
  /\ links = Links
  /\ LET copied == Drop(blob, InTrash)
         full == [payload |-> copied, legible |-> TRUE,
                  manifest |-> [files |-> copied, entries |-> row, links |-> links]]
     IN  dir = [b \in Backups |-> IF b \in SetOf(Existing) THEN full ELSE None]
  /\ made = Existing
  /\ status = [b \in SetOf(Existing) |-> "completed"]
  /\ job = [w \in Workers |-> Idle]
  /\ changes = MaxChanges
  /\ requests = MaxRequests
  /\ doomed = {} /\ rotten = {} /\ deleted = {} /\ sweeps = {}

(* Whether a request is off by now. *)
Mark(j, m) == [j EXCEPT !.off = @ \/ m]

(* Worker w goes on with j; the requests that seen picks are off from now on. *)
Step(w, j, seen(_)) ==
  job' = [v \in Workers |-> IF v = w THEN j ELSE Mark(job[v], seen(job[v]))]

Nobody(j) == FALSE
Restoring(j) == j.op \in {"restore", "rows", "report"}
Reads(j, b) == j.b = b /\ (Restoring(j) \/ j.op \in {"load", "verify"})

Begin(w, j) ==
  /\ job[w].op = "idle"
  /\ requests > 0
  /\ requests' = requests - 1
  /\ Step(w, j, Nobody)

-----------------------------------------------------------------------------
(* create_backup: the directory is made and the rows are read; the contents of
   the files not in the trash are to be copied. *)
CreateBegin(w, b) ==
  /\ Begin(w, [Idle EXCEPT !.op = "copy", !.b = b, !.entries = row,
                           !.todo = {f \in DOMAIN row : ~row[f].trashed}])
  /\ b \notin Used
  /\ dir' = [dir EXCEPT ![b] = NewDir]
  /\ UNCHANGED <<row, blob, links, made, status, changes, doomed, rotten, deleted, sweeps>>

(* One file is copied and listed with the hash of what was read. *)
CopyFile(w, f) ==
  /\ job[w].op = "copy"
  /\ f \in job[w].todo \intersect DOMAIN blob
  /\ dir' = [dir EXCEPT ![job[w].b].payload = Put(@, f, blob[f])]
  /\ Step(w, [job[w] EXCEPT !.todo = @ \ {f}, !.files = Put(@, f, blob[f])], Nobody)
  /\ UNCHANGED <<row, blob, links, made, status, changes, requests, doomed, rotten, deleted, sweeps>>

(* Its contents are gone, or cannot be read or written: it is skipped. *)
SkipFile(w, f) ==
  /\ job[w].op = "copy"
  /\ f \in job[w].todo
  /\ Step(w, [job[w] EXCEPT !.todo = @ \ {f}], Nobody)
  /\ UNCHANGED <<row, blob, links, dir, made, status, changes, requests, doomed, rotten, deleted, sweeps>>

(* Versions and share links are read, and taken for none if that fails ... *)
CopyLinks(w) ==
  /\ job[w].op = "copy" /\ job[w].todo = {}
  /\ \E versions \in {links \intersect Versions, {}}, shares \in {links \ Versions, {}} :
       Step(w, [job[w] EXCEPT !.op = "manifest", !.links = versions \union shares], Nobody)
  /\ UNCHANGED <<row, blob, links, dir, made, status, changes, requests, doomed, rotten, deleted, sweeps>>

(* ... the manifest is written ... *)
WriteManifest(w) ==
  /\ job[w].op = "manifest"
  /\ dir' = [dir EXCEPT ![job[w].b].legible = TRUE, ![job[w].b].manifest =
               [files |-> job[w].files, entries |-> job[w].entries, links |-> job[w].links]]
  /\ Step(w, [job[w] EXCEPT !.op = "insert"], Nobody)
  /\ UNCHANGED <<row, blob, links, made, status, changes, requests, doomed, rotten, deleted, sweeps>>

\* Mutant: the row is inserted before the manifest is written.
InsertBackup_Early(w) ==
  /\ job[w].op = "manifest"
  /\ made' = Append(made, job[w].b)
  /\ status' = Put(status, job[w].b, "completed")
  /\ Step(w, Idle, Nobody)
  /\ UNCHANGED <<row, blob, links, dir, changes, requests, doomed, rotten, deleted, sweeps>>

(* ... and the row inserted, as completed. *)
InsertBackup(w) ==
  /\ job[w].op = "insert"
  /\ made' = Append(made, job[w].b)
  /\ status' = Put(status, job[w].b, "completed")
  /\ Step(w, Idle, Nobody)
  /\ UNCHANGED <<row, blob, links, dir, changes, requests, doomed, rotten, deleted, sweeps>>

-----------------------------------------------------------------------------
(* delete_backup: the row is read. *)
DeleteRead(w, b) ==
  /\ b \in Table
  /\ Begin(w, [Idle EXCEPT !.op = "remove", !.todo = {b}])
  /\ deleted' = deleted \union {b}
  /\ UNCHANGED <<row, blob, links, dir, made, status, changes, doomed, rotten, sweeps>>

Newer(b) == {c \in Table : \E i, j \in 1 .. Len(made) : made[i] = b /\ made[j] = c /\ i < j}

\* Mutant: the newest backups are selected instead of the older ones.
Surplus_Newest(k) == {b \in Table : Cardinality(Table) - 1 - Cardinality(Newer(b)) >= k}

(* The rows beyond the k newest. *)
Surplus(k) == {b \in Table : Cardinality(Newer(b)) >= k}

(* enforce_retention: the rows to be removed are read.  OFFSET takes a 0; a
   negative number is an error of the query. *)
RetentionRead(w, k) ==
  /\ Begin(w, [Idle EXCEPT !.op = "remove", !.todo = Surplus(k)])
  /\ Surplus(k) # {}
  /\ sweeps' = sweeps \union {k}
  /\ UNCHANGED <<row, blob, links, dir, made, status, changes, doomed, rotten, deleted>>

(* Both remove a directory, and ignore an error of that, which may leave any of
   it behind ... *)
RemoveDir(w, b) ==
  /\ job[w].op = "remove"
  /\ b \in job[w].todo
  /\ \/ dir' = [dir EXCEPT ![b] = None]
     \/ /\ dir[b] # None
        /\ \E S \in SUBSET Files, m \in {dir[b].manifest, None} :
             dir' = [dir EXCEPT ![b].payload = Drop(@, S), ![b].manifest = m]
  /\ doomed' = doomed \union {b}
  /\ Step(w, [job[w] EXCEPT !.op = "drop", !.b = b], LAMBDA j : Reads(j, b))
  /\ UNCHANGED <<row, blob, links, made, status, changes, requests, rotten, deleted, sweeps>>

(* ... and then its row.  Retention ignores an error of that, too, and goes on
   with the next; for delete_backup it is the end. *)
DropRow(w) ==
  /\ job[w].op = "drop"
  /\ LET b == job[w].b
         rest == job[w].todo \ {b}
     IN  /\ status' \in {Drop(status, {b}), status}
         /\ Step(w, IF rest = {} THEN Idle
                    ELSE [job[w] EXCEPT !.op = "remove", !.b = None, !.todo = rest], Nobody)
  /\ UNCHANGED <<row, blob, links, dir, made, changes, requests, doomed, rotten, deleted, sweeps>>

-----------------------------------------------------------------------------
(* Something is there under the name of the manifest. *)
HasManifest(b) == dir[b] # None /\ dir[b].manifest # None

(* It can be parsed. *)
Legible(b) == HasManifest(b) /\ dir[b].legible

(* verify_backup: is there a manifest?  If not, that is the verdict; it is also
   the verdict if that cannot be found out. *)
VerifyStat(w, b) ==
  /\ b \in Table
  /\ \/ /\ HasManifest(b)
        /\ Begin(w, [Idle EXCEPT !.op = "load", !.b = b])
     \/ Begin(w, [Idle EXCEPT !.op = "verify", !.b = b, !.bad = TRUE, !.blind = HasManifest(b)])
  /\ UNCHANGED <<row, blob, links, dir, made, status, changes, doomed, rotten, deleted, sweeps>>

(* It is read.  What cannot be read or parsed lists no files, and is not
   counted as missing. *)
VerifyLoad(w) ==
  /\ job[w].op = "load"
  /\ \/ /\ Legible(job[w].b)
        /\ LET files == dir[job[w].b].manifest.files
           IN  Step(w, [job[w] EXCEPT !.op = "verify", !.files = files, !.todo = DOMAIN files], Nobody)
     \/ Step(w, [job[w] EXCEPT !.op = "verify", !.blind = TRUE], Nobody)
  /\ UNCHANGED <<row, blob, links, dir, made, status, changes, requests, doomed, rotten, deleted, sweeps>>

HasPayload(b, f) == dir[b] # None /\ f \in DOMAIN dir[b].payload

\* Mutant: a missing payload is not counted.
VerifyFile_PresentOnly(w, f) ==
  /\ job[w].op = "verify"
  /\ f \in job[w].todo
  /\ LET b == job[w].b
         differs == HasPayload(b, f) /\ dir[b].payload[f] # job[w].files[f]
     IN  Step(w, [job[w] EXCEPT !.todo = @ \ {f}, !.bad = @ \/ differs], Nobody)
  /\ UNCHANGED <<row, blob, links, dir, made, status, changes, requests, doomed, rotten, deleted, sweeps>>

(* A payload's hash is compared with the manifest's; one that is not there or
   cannot be read is missing. *)
VerifyFile(w, f) ==
  /\ job[w].op = "verify"
  /\ f \in job[w].todo
  /\ LET b == job[w].b
         good == HasPayload(b, f) /\ dir[b].payload[f] = job[w].files[f]
         j == [job[w] EXCEPT !.todo = @ \ {f}]
     IN  \/ Step(w, [j EXCEPT !.bad = @ \/ ~good], Nobody)
         \/ Step(w, [j EXCEPT !.bad = TRUE, !.lost = @ \union {f}], Nobody)
  /\ UNCHANGED <<row, blob, links, dir, made, status, changes, requests, doomed, rotten, deleted, sweeps>>

(* The verdict is bad or healthy. *)
VerifyEnd(w) ==
  /\ job[w].op = "verify" /\ job[w].todo = {}
  /\ Step(w, Idle, Nobody)
  /\ UNCHANGED <<row, blob, links, dir, made, status, changes, requests, doomed, rotten, deleted, sweeps>>

-----------------------------------------------------------------------------
(* restore_backup: the manifest is read and parsed, or the request ends. *)
RestoreRead(w, b) ==
  /\ b \in Table
  /\ Legible(b)
  /\ LET man == dir[b].manifest
     IN  Begin(w, [Idle EXCEPT !.op = "restore", !.b = b, !.files = man.files,
                     !.entries = man.entries, !.links = man.links, !.todo = DOMAIN man.files])
  /\ UNCHANGED <<row, blob, links, dir, made, status, changes, doomed, rotten, deleted, sweeps>>

\* Mutant: a file that is in active storage already is left as it is, and counted.
RestoreFile_IfMissing(w, f) ==
  /\ job[w].op = "restore"
  /\ f \in job[w].todo
  /\ HasPayload(job[w].b, f)
  /\ LET data == dir[job[w].b].payload[f]
         j == [job[w] EXCEPT !.todo = @ \ {f}, !.bad = @ \/ data # job[w].files[f]]
     IN  /\ blob' = IF f \in DOMAIN blob THEN blob ELSE Put(blob, f, data)
         /\ Step(w, [j EXCEPT !.done = @ \union {f}], Restoring)
  /\ UNCHANGED <<row, links, dir, made, status, changes, requests, doomed, rotten, deleted, sweeps>>

(* A payload is written back whatever its hash; a mismatch is counted, and the
   file if it was written.  An error of writing is ignored, and leaves what was
   there or anything else. *)
RestoreFile(w, f) ==
  /\ job[w].op = "restore"
  /\ f \in job[w].todo
  /\ HasPayload(job[w].b, f)
  /\ LET data == dir[job[w].b].payload[f]
         j == [job[w] EXCEPT !.todo = @ \ {f}, !.bad = @ \/ data # job[w].files[f]]
     IN  \/ /\ blob' = Put(blob, f, data)
            /\ Step(w, [j EXCEPT !.done = @ \union {f}], Restoring)
         \/ /\ blob' \in {blob} \union {Put(blob, f, c) : c \in Contents}
            /\ Step(w, j, Restoring)
  /\ UNCHANGED <<row, links, dir, made, status, changes, requests, doomed, rotten, deleted, sweeps>>

(* A payload that is missing or cannot be read is passed over. *)
RestoreSkip(w, f) ==
  /\ job[w].op = "restore"
  /\ f \in job[w].todo
  /\ Step(w, [job[w] EXCEPT !.todo = @ \ {f}], Nobody)
  /\ UNCHANGED <<row, blob, links, dir, made, status, changes, requests, doomed, rotten, deleted, sweeps>>

(* The files are done: the rows follow. *)
RestoreRows(w) ==
  /\ job[w].op = "restore" /\ job[w].todo = {}
  /\ Step(w, [job[w] EXCEPT !.op = "rows", !.todo = DOMAIN job[w].entries], Nobody)
  /\ UNCHANGED <<row, blob, links, dir, made, status, changes, requests, doomed, rotten, deleted, sweeps>>

(* A row is inserted or overwritten.  An error, such as a name that is taken or
   a parent that is not there, is ignored. *)
RestoreRow(w, f) ==
  /\ job[w].op = "rows"
  /\ f \in job[w].todo
  /\ LET j == [job[w] EXCEPT !.todo = @ \ {f}]
     IN  \/ /\ row' = Put(row, f, job[w].entries[f])
            /\ Step(w, j, Restoring)
         \/ /\ Step(w, [j EXCEPT !.lost = @ \union {f}], Nobody)
            /\ UNCHANGED row
  /\ UNCHANGED <<blob, links, dir, made, status, changes, requests, doomed, rotten, deleted, sweeps>>

\* Mutant: the rows of the links do not refer to their files.
RestoreLinks_Unreferenced(w) ==
  /\ job[w].op = "rows" /\ job[w].todo = {}
  /\ links' = links \union job[w].links
  /\ Step(w, [job[w] EXCEPT !.op = "report"], Nobody)
  /\ UNCHANGED <<row, blob, dir, made, status, changes, requests, doomed, rotten, deleted, sweeps>>

(* Links are inserted where their file is, and left alone if they exist; the
   errors of the others are ignored, and so is any other error. *)
RestoreLinks(w) ==
  /\ job[w].op = "rows" /\ job[w].todo = {}
  /\ \E failed \in SUBSET job[w].links :
       /\ links' = links \union {l \in job[w].links \ failed : LinkOf[l] \in DOMAIN row}
       /\ Step(w, [job[w] EXCEPT !.op = "report", !.lost = @ \union failed], Nobody)
  /\ UNCHANGED <<row, blob, dir, made, status, changes, requests, doomed, rotten, deleted, sweeps>>

(* The status is set if the row is still there, and the result reported. *)
RestoreEnd(w) ==
  /\ job[w].op = "report"
  /\ status' = IF job[w].b \in Table THEN [status EXCEPT ![job[w].b] = "restored"] ELSE status
  /\ Step(w, Idle, Nobody)
  /\ UNCHANGED <<row, blob, links, dir, made, changes, requests, doomed, rotten, deleted, sweeps>>

(* The server stops or the client goes away at an await. *)
Abort(w) ==
  /\ job[w].op # "idle"
  /\ Step(w, Idle, Nobody)
  /\ UNCHANGED <<row, blob, links, dir, made, status, changes, requests, doomed, rotten, deleted, sweeps>>

-----------------------------------------------------------------------------
(* The rest of the system (FileTree, Shares), one statement at a time. *)
Changed(seen(_)) ==
  /\ changes > 0
  /\ changes' = changes - 1
  /\ job' = [v \in Workers |-> Mark(job[v], seen(job[v]))]
  /\ UNCHANGED <<dir, made, status, requests, doomed, rotten, deleted, sweeps>>

(* A file is written in place; its row follows. *)
Overwrite(f, c) ==
  /\ f \in DOMAIN blob
  /\ blob' = Put(blob, f, c)
  /\ Changed(Restoring)
  /\ UNCHANGED <<row, links>>

Record(f) ==
  /\ f \in DOMAIN row \intersect DOMAIN blob
  /\ row[f].hash # blob[f]
  /\ row' = [row EXCEPT ![f].hash = blob[f]]
  /\ Changed(Restoring)
  /\ UNCHANGED <<blob, links>>

(* Trash, and the two steps of a purge. *)
Trash(f) ==
  /\ f \in DOMAIN row
  /\ row' = [row EXCEPT ![f].trashed = ~@]
  /\ Changed(Restoring)
  /\ UNCHANGED <<blob, links>>

PurgeBlob(f) ==
  /\ f \in DOMAIN row \intersect DOMAIN blob
  /\ row[f].trashed
  /\ blob' = Drop(blob, {f})
  /\ Changed(Restoring)
  /\ UNCHANGED <<row, links>>

PurgeRow(f) ==
  /\ f \in DOMAIN row
  /\ row[f].trashed
  /\ row' = Drop(row, {f})
  /\ links' = {l \in links : LinkOf[l] # f}
  /\ Changed(Restoring)
  /\ UNCHANGED blob

(* A payload or the manifest is damaged on the backup disk, or lost. *)
Rot(b) ==
  /\ changes > 0
  /\ changes' = changes - 1
  /\ \/ \E f \in Files :
          /\ HasPayload(b, f)
          /\ \/ \E c \in Contents \ {dir[b].payload[f]} : dir' = [dir EXCEPT ![b].payload[f] = c]
             \/ dir' = [dir EXCEPT ![b].payload = Drop(@, {f})]
     \/ /\ HasManifest(b)
        /\ \/ dir' = [dir EXCEPT ![b].legible = FALSE]
           \/ dir' = [dir EXCEPT ![b].manifest = None]
  /\ rotten' = rotten \union {b}
  /\ job' = [v \in Workers |-> Mark(job[v], Reads(job[v], b))]
  /\ UNCHANGED <<row, blob, links, made, status, requests, doomed, deleted, sweeps>>

Request(w) ==
  \/ \E b \in Backups : \/ CreateBegin(w, b) \/ DeleteRead(w, b)
                       \/ VerifyStat(w, b) \/ RestoreRead(w, b)
  \/ \E k \in Keeps : RetentionRead(w, k)

Continue(w) ==
  \/ CopyLinks(w) \/ WriteManifest(w) \/ InsertBackup(w)
  \/ DropRow(w) \/ VerifyLoad(w) \/ VerifyEnd(w)
  \/ RestoreRows(w) \/ RestoreLinks(w) \/ RestoreEnd(w) \/ Abort(w)
  \/ \E b \in Backups : RemoveDir(w, b)
  \/ \E f \in Files : CopyFile(w, f) \/ SkipFile(w, f) \/ VerifyFile(w, f)
                      \/ RestoreFile(w, f) \/ RestoreSkip(w, f) \/ RestoreRow(w, f)

Environment ==
  \/ \E f \in Files : \/ \E c \in Contents : Overwrite(f, c)
                     \/ Record(f) \/ Trash(f) \/ PurgeBlob(f) \/ PurgeRow(f)
  \/ \E b \in Backups : Rot(b)

Next == Environment \/ \E w \in Workers : Request(w) \/ Continue(w)

Spec == Init /\ [][Next]_vars

-----------------------------------------------------------------------------
PartialFn(fn, D, S) == DOMAIN fn \subseteq D /\ \A x \in DOMAIN fn : fn[x] \in S

(* Types; links and backups refer to what exists, and no backup is inserted
   twice. *)
TypeOK ==
  /\ row \in FilesTo(Row) /\ blob \in FilesTo(Contents)
  /\ links \subseteq {l \in Links : LinkOf[l] \in DOMAIN row}
  /\ dir \in [Backups -> Dir \union {None}]
  /\ made \in Seq(Backups)
  /\ PartialFn(status, Backups, {"completed", "restored"})
  /\ job \in [Workers -> Job]
  /\ changes \in 0 .. MaxChanges /\ requests \in 0 .. MaxRequests
  /\ doomed \subseteq Backups /\ rotten \subseteq Backups
  /\ deleted \subseteq Backups /\ sweeps \subseteq Keeps
  /\ \A i, j \in 1 .. Len(made) : made[i] = made[j] => i = j
  /\ Table \subseteq Made

(* What a restore will find: a manifest, and every file it lists, unchanged. *)
Sound(b) ==
  /\ Legible(b)
  /\ \A f \in DOMAIN dir[b].manifest.files :
       HasPayload(b, f) /\ dir[b].payload[f] = dir[b].manifest.files[f]

(* A backup the table shows as completed is sound, whatever was overwritten,
   purged or cut short while create_backup copied it, until the disk damages
   it or its removal begins. *)
CompletedIsSound == \A b \in Table \ (doomed \union rotten) : Sound(b)

(* A backup that verify_backup calls healthy is sound, unless it never got at the
   manifest, and one that it calls degraded is not, unless a file could not be
   read; in both cases if the backup was not removed or damaged meanwhile. *)
VerdictTrue ==
  \A w \in Workers :
    LET j == job[w]
    IN  j.op = "verify" /\ j.todo = {} /\ ~j.off /\ ~j.blind =>
          /\ ~j.bad => Sound(j.b)
          /\ j.bad /\ j.lost = {} => ~Sound(j.b)

(* A restore that reports no corruption and that nothing interfered with has
   put back the listed contents of every file it counts as restored, and the
   rows as they were backed up with the links on them, save the ones whose
   INSERT failed in silence. *)
RestoreFaithful ==
  \A w \in Workers :
    LET j == job[w]
    IN  j.op = "report" /\ ~j.bad /\ ~j.off =>
          /\ \A f \in j.done : f \in DOMAIN blob /\ blob[f] = j.files[f]
          /\ \A f \in DOMAIN j.entries \ j.lost : f \in DOMAIN row /\ row[f] = j.entries[f]
          /\ \A l \in j.links \ j.lost : LinkOf[l] \in DOMAIN j.entries \ j.lost => l \in links

(* A backup that nobody asked to delete and that is among the newest, as many as
   every retention was to keep, stays in the table, and sound if the disk is,
   whatever is created, deleted or swept meanwhile. *)
RetentionKeepsNewest ==
  \A i \in 1 .. Len(made) :
    made[i] \notin deleted /\ (\A k \in sweeps : Len(made) - i < k) =>
      made[i] \in Table /\ (made[i] \notin rotten => Sound(made[i]))
=============================================================================
