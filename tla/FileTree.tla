------------------------------ MODULE FileTree ------------------------------
(***************************************************************************)
(* The file tree of the backend: the table file_entries, the blob store    *)
(* under it, and the handlers of the crate file_metadata that change them. *)
(*                                                                         *)
(* Handlers run concurrently and hold no transaction: every SQL statement  *)
(* is atomic, and other requests run between two statements.  A handler    *)
(* whose last statement re-checks all that its first ones read (owner,     *)
(* kind and id of a row never change, the foreign key and the unique key   *)
(* are enforced by the database) is one action; the others are one action  *)
(* per statement, and job[w] holds what worker w has read so far.  A       *)
(* request that is refused changes nothing and is not a step.              *)
(***************************************************************************)
EXTENDS Integers, FiniteSets

CONSTANTS Ids,       \* the UUIDs that new entries may draw
          Users,
          Names,     \* file and folder names
          Sizes,     \* sizes of uploads, in bytes
          Quota,     \* users.storage_quota_bytes, the same for every user
          Workers,   \* requests that may be in flight at once
          Root       \* parent_id IS NULL

ASSUME RootAssumption == Root \notin Ids
ASSUME SizesAssumption == Sizes \subseteq Nat /\ \E m \in Sizes : \A s \in Sizes : s <= m
ASSUME QuotaAssumption == Quota \in Nat
ASSUME WorkersAssumption == IsFiniteSet(Workers) /\ Workers # {}

VARIABLES row,       \* file_entries: a function from the ids that exist
          blobs,     \* ids whose contents are in the blob store
          fresh,     \* ids Uuid::new_v4 has not drawn yet
          job,       \* per worker, the request in flight
          doomed,    \* history: ids whose storage_path some purge has read
          unchecked  \* history: ids that count as usage unseen by a quota check

vars == <<row, blobs, fresh, job, doomed, unchecked>>

Parents == Ids \union {Root}

(* kind: entry_type, with "filled" for a folder that a WebDAV PUT gave contents.
   storage_path IS NOT NULL is kind # "folder". *)
Row == [user : Users, parent : Parents, name : Names,
        kind : {"file", "folder", "filled"}, size : Sizes \union {0},
        trashed : BOOLEAN]

Idle == [op |-> "idle"]

(* declared: the bytes the quota check has seen. *)
UploadJob  == [op : {"upload", "stored"}, user : Users, id : Ids, parent : Parents,
               name : Names, size : Sizes \union {0}, declared : Sizes \union {0}]
RenameJob  == [op : {"rename"}, user : Users, id : Ids, name : Names]
ItemJob    == [op : {"restore", "purge", "trash"}, user : Users, id : Ids]
PurgingJob == [op : {"purging"}, user : Users, id : Ids, paths : SUBSET Ids]
EmptyJob   == [op : {"emptying"}, user : Users, paths : SUBSET Ids]

(* Requests of the front ends only (module FrontEnds). *)
PutJob     == [op : {"put", "written"}, user : Users, id : Ids, size : Sizes]
CopyJob    == [op : {"copy"}, user : Users, id : Ids, parent : Parents, name : Names,
               size : Sizes \union {0}, from : Ids]

Job == {Idle} \union UploadJob \union RenameJob \union ItemJob \union PurgingJob
              \union EmptyJob \union PutJob \union CopyJob

Init == /\ row = [i \in {} |-> Idle]
        /\ blobs = {}
        /\ fresh = Ids
        /\ job = [w \in Workers |-> Idle]
        /\ doomed = {}
        /\ unchecked = {}

-----------------------------------------------------------------------------
(* Reading the table. *)

Entries == DOMAIN row

(* verify_ownership: the row exists and belongs to the user. *)
Owned(u, i) == i \in Entries /\ row[i].user = u

(* Mutated form of ParentOk: any entry will do. *)
ParentOk_AnyOwner(u, p) == p = Root \/ p \in Entries

(* A request names no parent, or an entry of its own user.  The entry need
   not be a folder, nor outside the trash. *)
ParentOk(u, p) == p = Root \/ Owned(u, p)

(* The recursive CTE of delete_item, restore_from_trash and permanent_delete:
   the entry and everything below it.  The recursive arm follows parent_id
   and does not look at user_id. *)
Descendants(i) ==
  {j \in Entries :
     /\ i \in Entries
     /\ \A S \in SUBSET Entries :
          (/\ i \in S
           /\ \A k \in Entries : row[k].parent \in S => k \in S) => j \in S}

(* UNION ALL keeps no record of rows it has met: on an entry that lies below
   itself the statement never returns.  Every entry has one parent, so a
   cycle below i always contains i. *)
OnCycle(i) == i \in Entries /\ row[i].parent \in Descendants(i)

(* UNIQUE NULLS NOT DISTINCT (user_id, parent_id, name, is_trashed). *)
UniqueNames(t) ==
  \A i, j \in DOMAIN t :
    (/\ t[i].user = t[j].user
     /\ t[i].parent = t[j].parent
     /\ t[i].name = t[j].name
     /\ t[i].trashed = t[j].trashed) => i = j

(* The dup check of create_folder and rename_item: a live entry of that name,
   other than the one that is renamed. *)
NameTaken(u, p, n, except) ==
  \E j \in Entries \ except :
    /\ row[j].user = u
    /\ row[j].parent = p
    /\ row[j].name = n
    /\ ~row[j].trashed

(* The bytes of the entries in S, one by one. *)
Bytes(S) == UNION {{i} \X (1 .. row[i].size) : i \in S}

(* SUM(size_bytes) of the user's live entries. *)
Used(u) == Cardinality(Bytes({i \in Entries : row[i].user = u /\ ~row[i].trashed}))

-----------------------------------------------------------------------------
(* Writing the table. *)

With(i, r) == [j \in Entries \union {i} |-> IF j = i THEN r ELSE row[j]]

Without(S) == [j \in Entries \ S |-> row[j]]

(* The database refuses a statement that breaks the unique key; the handler
   returns the error and the table is as before. *)
Statement(t) == row' = IF UniqueNames(t) THEN t ELSE row

SetTrashed(S, b) ==
  Statement([j \in Entries |->
               IF j \in S THEN [row[j] EXCEPT !.trashed = b] ELSE row[j]])

(* DELETE of a set of rows; parent_id is ON DELETE CASCADE. *)
Cascade(S) == UNION {Descendants(i) : i \in S}

Busy(w) == job[w] # Idle

Done(w) == job' = [job EXCEPT ![w] = Idle]

-----------------------------------------------------------------------------
(* The handlers. *)

(* create_folder *)
CreateFolder(u, p, n) ==
  /\ ParentOk(u, p)
  /\ ~NameTaken(u, p, n, {})
  /\ \E i \in fresh :
       /\ fresh' = fresh \ {i}
       /\ row' = With(i, [user |-> u, parent |-> p, name |-> n, kind |-> "folder",
                          size |-> 0, trashed |-> FALSE])
  /\ UNCHANGED <<blobs, job, doomed, unchecked>>

(* Mutated form of UploadCheck: the incoming bytes are not added. *)
UploadCheck_SizeIgnored(w, u, p, n, size, declared) ==
  /\ ~Busy(w)
  /\ ParentOk(u, p)
  /\ \E used \in {Used(u), 0} : used <= Quota
  /\ \E i \in fresh :
       /\ fresh' = fresh \ {i}
       /\ job' = [job EXCEPT ![w] =
            [op |-> "upload", user |-> u, id |-> i, parent |-> p, name |-> n,
             size |-> size, declared |-> declared]]
       /\ unchecked' = IF Used(u) <= Quota THEN unchecked ELSE unchecked \union {i}
  /\ UNCHANGED <<row, blobs, doomed>>

(* upload_file and complete_chunked_upload up to the quota check.  The latter
   checks the total_size the client declares, and the assembled size need not
   be the declared one.  A SUM that fails reads as 0, and the upload is let in
   whatever the usage is. *)
UploadCheck(w, u, p, n, size, declared) ==
  /\ ~Busy(w)
  /\ ParentOk(u, p)
  /\ \E used \in {Used(u), 0} : used + declared <= Quota
  /\ \E i \in fresh :
       /\ fresh' = fresh \ {i}
       /\ job' = [job EXCEPT ![w] =
            [op |-> "upload", user |-> u, id |-> i, parent |-> p, name |-> n,
             size |-> size, declared |-> declared]]
       /\ unchecked' = IF Used(u) + declared <= Quota THEN unchecked ELSE unchecked \union {i}
  /\ UNCHANGED <<row, blobs, doomed>>

(* store_file or assemble_chunks: a temporary file renamed to its final path,
   so the contents appear at once. *)
UploadStore(w) ==
  /\ job[w].op = "upload"
  /\ blobs' = blobs \union {job[w].id}
  /\ job' = [job EXCEPT ![w].op = "stored"]
  /\ UNCHANGED <<row, fresh, doomed, unchecked>>

(* The row an upload inserts, with the size it records. *)
UploadRow(w, size) ==
  [user |-> job[w].user, parent |-> job[w].parent, name |-> job[w].name,
   kind |-> "file", size |-> size, trashed |-> FALSE]

(* The end of an upload: t is the table with its row. *)
UploadEnd(w, t) ==
  /\ row' = IF job[w].parent \in Entries \union {Root} /\ UniqueNames(t) THEN t ELSE row
  /\ unchecked' = IF job[w].declared < job[w].size
                    THEN unchecked \union {job[w].id} ELSE unchecked
  /\ Done(w)
  /\ UNCHANGED <<blobs, fresh, doomed>>

(* Mutated forms of UploadInsert: the declared size is added to the actual
   one; the row is inserted before the contents are stored. *)
UploadInsert_SizesAdded(w) ==
  /\ job[w].op = "stored"
  /\ UploadEnd(w, With(job[w].id, UploadRow(w, job[w].size + job[w].declared)))

UploadInsert_BeforeStore(w) ==
  /\ job[w].op \in {"upload", "stored"}
  /\ UploadEnd(w, With(job[w].id, UploadRow(w, job[w].size)))

(* The INSERT: refused when the parent is gone or the name is taken, and the
   stored contents then stay behind. *)
UploadInsert(w) ==
  /\ job[w].op = "stored"
  /\ UploadEnd(w, With(job[w].id, UploadRow(w, job[w].size)))

(* rename_item: the dup check reads the parent the entry has now ... *)
RenameCheck(w, u, i, n) ==
  /\ ~Busy(w)
  /\ Owned(u, i)
  /\ ~NameTaken(u, row[i].parent, n, {i})
  /\ job' = [job EXCEPT ![w] = [op |-> "rename", user |-> u, id |-> i, name |-> n]]
  /\ UNCHANGED <<row, blobs, fresh, doomed, unchecked>>

(* ... and the UPDATE names the entry by id alone. *)
RenameUpdate(w) ==
  /\ job[w].op = "rename"
  /\ IF job[w].id \in Entries
       THEN Statement([row EXCEPT ![job[w].id].name = job[w].name])
       ELSE UNCHANGED row
  /\ Done(w)
  /\ UNCHANGED <<blobs, fresh, doomed, unchecked>>

(* move_item: the target is a folder of the user, or the root, and not the
   entry itself. *)
MoveItem(u, i, target) ==
  /\ Owned(u, i)
  /\ ParentOk(u, target)
  /\ target # Root => row[target].kind # "file"
  /\ target # i
  /\ Statement([row EXCEPT ![i].parent = target])
  /\ UNCHANGED <<blobs, fresh, job, doomed, unchecked>>

(* delete_item *)
DeleteItem(u, i) ==
  /\ Owned(u, i)
  /\ ~OnCycle(i)
  /\ SetTrashed(Descendants(i), TRUE)
  /\ UNCHANGED <<blobs, fresh, job, doomed, unchecked>>

(* restore_from_trash: the entry is in the trash ... *)
RestoreCheck(w, u, i) ==
  /\ ~Busy(w)
  /\ Owned(u, i)
  /\ row[i].trashed
  /\ job' = [job EXCEPT ![w] = [op |-> "restore", user |-> u, id |-> i]]
  /\ UNCHANGED <<row, blobs, fresh, doomed, unchecked>>

(* ... and what is below it by now comes back with it, unseen by the quota. *)
RestoreUpdate(w) ==
  /\ job[w].op = "restore"
  /\ ~OnCycle(job[w].id)
  /\ LET S == Descendants(job[w].id)
     IN  /\ SetTrashed(S, FALSE)
         /\ unchecked' = unchecked \union {j \in S : row[j].trashed}
  /\ Done(w)
  /\ UNCHANGED <<blobs, fresh, doomed>>

(* permanent_delete: the entry is in the trash ... *)
PurgeCheck(w, u, i) ==
  /\ ~Busy(w)
  /\ Owned(u, i)
  /\ row[i].trashed
  /\ job' = [job EXCEPT ![w] = [op |-> "purge", user |-> u, id |-> i]]
  /\ UNCHANGED <<row, blobs, fresh, doomed, unchecked>>

(* ... the storage paths below it are read ... *)
PurgeRead(w) ==
  /\ job[w].op = "purge"
  /\ ~OnCycle(job[w].id)
  /\ LET S == {j \in Descendants(job[w].id) : row[j].kind # "folder"}
     IN  /\ job' = [job EXCEPT ![w] = [op |-> "purging", user |-> job[w].user,
                                       id |-> job[w].id, paths |-> S]]
         /\ doomed' = doomed \union S
  /\ UNCHANGED <<row, blobs, fresh, unchecked>>

(* ... the contents are deleted one by one, errors ignored ... *)
PurgeBlob(w) ==
  /\ job[w].op \in {"purging", "emptying"}
  /\ \E i \in job[w].paths :
       /\ blobs' \in {blobs, blobs \ {i}}
       /\ job' = [job EXCEPT ![w].paths = @ \ {i}]
  /\ UNCHANGED <<row, fresh, doomed, unchecked>>

(* ... and the rows that are below the entry by now go last. *)
PurgeRows(w) ==
  /\ job[w].op = "purging"
  /\ job[w].paths = {}
  /\ ~OnCycle(job[w].id)
  /\ row' = Without(Descendants(job[w].id))
  /\ Done(w)
  /\ UNCHANGED <<blobs, fresh, doomed, unchecked>>

(* Mutated form of EmptyRead: every user's trash. *)
EmptyRead_AllUsers(w, u) ==
  /\ ~Busy(w)
  /\ LET S == {j \in Entries : row[j].trashed /\ row[j].kind # "folder"}
     IN  /\ job' = [job EXCEPT ![w] = [op |-> "emptying", user |-> u, paths |-> S]]
         /\ doomed' = doomed \union S
  /\ UNCHANGED <<row, blobs, fresh, unchecked>>

(* empty_trash: the paths of every trashed entry of the user ... *)
EmptyRead(w, u) ==
  /\ ~Busy(w)
  /\ LET S == {j \in Entries : row[j].user = u /\ row[j].trashed /\ row[j].kind # "folder"}
     IN  /\ job' = [job EXCEPT ![w] = [op |-> "emptying", user |-> u, paths |-> S]]
         /\ doomed' = doomed \union S
  /\ UNCHANGED <<row, blobs, fresh, unchecked>>

(* Mutated form of EmptyRows: every user's trash. *)
EmptyRows_AllUsers(w) ==
  /\ job[w].op = "emptying"
  /\ job[w].paths = {}
  /\ row' = Without(Cascade({j \in Entries : row[j].trashed}))
  /\ Done(w)
  /\ UNCHANGED <<blobs, fresh, doomed, unchecked>>

(* ... and, after the contents, the rows that are in the trash by now, with
   what hangs below them. *)
EmptyRows(w) ==
  /\ job[w].op = "emptying"
  /\ job[w].paths = {}
  /\ row' = Without(Cascade({j \in Entries : row[j].user = job[w].user /\ row[j].trashed}))
  /\ Done(w)
  /\ UNCHANGED <<blobs, fresh, doomed, unchecked>>

(* The gateway's clean-up task: trashed rows untouched for 30 days are deleted,
   with what hangs below them.  Which of the trashed rows are that old is left
   open.  It never looks at the blob store. *)
TrashCleanup ==
  /\ \E S \in SUBSET {j \in Entries : row[j].trashed} :
       S # {} /\ row' = Without(Cascade(S))
  /\ UNCHANGED <<blobs, fresh, job, doomed, unchecked>>

(* The server stops, or the client goes away and its handler is dropped, at
   any await: what was done so far stays. *)
Abort(w) ==
  /\ Busy(w)
  /\ Done(w)
  /\ UNCHANGED <<row, blobs, fresh, doomed, unchecked>>

Request ==
  \E u \in Users :
    \/ \E p \in Parents, n \in Names : CreateFolder(u, p, n)
    \/ \E i \in Ids :
         \/ DeleteItem(u, i)
         \/ \E p \in Parents : MoveItem(u, i, p)
    \/ \E w \in Workers :
         \/ \E p \in Parents, n \in Names, s, d \in Sizes : UploadCheck(w, u, p, n, s, d)
         \/ EmptyRead(w, u)
         \/ \E i \in Ids :
              \/ \E n \in Names : RenameCheck(w, u, i, n)
              \/ RestoreCheck(w, u, i)
              \/ PurgeCheck(w, u, i)

Continue(w) ==
  \/ UploadStore(w)
  \/ UploadInsert(w)
  \/ RenameUpdate(w)
  \/ RestoreUpdate(w)
  \/ PurgeRead(w)
  \/ PurgeBlob(w)
  \/ PurgeRows(w)
  \/ EmptyRows(w)

Next ==
  \/ Request
  \/ \E w \in Workers : Continue(w) \/ Abort(w)
  \/ TrashCleanup

Spec == Init /\ [][Next]_vars

-----------------------------------------------------------------------------
(* Properties. *)

(* The table, the blob store and the requests in flight have the shape the
   code gives them; an upload records the size of one file. *)
TypeOK ==
  /\ Entries \subseteq Ids
  /\ row \in [Entries -> Row]
  /\ blobs \subseteq Ids
  /\ fresh \subseteq Ids
  /\ job \in [Workers -> Job]
  /\ doomed \subseteq Ids
  /\ unchecked \subseteq Ids

(* Every entry hangs below an entry of the same user, or at the root: the
   recursive statements, which follow parent_id without looking at user_id,
   rely on it. *)
OwnersAgree ==
  \A i \in Entries :
    row[i].parent # Root => /\ row[i].parent \in Entries
                            /\ row[row[i].parent].user = row[i].user

(* A step that changes or deletes entries of one user only. *)
OneUser ==
  \E u \in Users : \A i \in Entries :
    row[i].user # u => /\ i \in DOMAIN row'
                       /\ row'[i] = row[i]

(* No request, purge or crash changes or deletes entries of two users at once,
   although delete_item, restore_from_trash, permanent_delete and the cascades
   select the rows below an entry by parent_id alone.  The clean-up task is
   the exception: it serves every user. *)
OneUserPerStep == [][OneUser \/ TrashCleanup]_vars

(* A purge in flight deletes contents of its own user's entries only. *)
PurgesOwnPaths ==
  \A w \in Workers : job[w].op \in {"purging", "emptying"} =>
    \A i \in job[w].paths \intersect Entries : row[i].user = job[w].user

(* A file is in the table without its contents only if permanent_delete or
   empty_trash had read its path: no upload, no crash between its steps and no
   other request makes an entry that cannot be downloaded. *)
DanglingOnlyByPurge ==
  \A i \in Entries : row[i].kind # "folder" /\ i \notin blobs => i \in doomed

MaxSize == CHOOSE m \in Sizes : \A s \in Sizes : s <= m

(* check_storage_quota holds up to what runs beside it: of the bytes a quota
   check has seen, the live ones exceed the quota by at most one upload per
   other worker.  (No check has seen what restore_from_trash brings back, what a
   chunked upload holds beyond its declared size, and what was let in beyond the
   quota because the SUM failed and read as 0.) *)
QuotaOvershootBounded ==
  \A u \in Users :
    Cardinality(Bytes({i \in Entries \ unchecked : row[i].user = u /\ ~row[i].trashed}))
      <= Quota + (Cardinality(Workers) - 1) * MaxSize

(* What the comment in move_item says of it: no folder is below itself. *)
NoCycle == \A i \in Entries : ~OnCycle(i)
=============================================================================
