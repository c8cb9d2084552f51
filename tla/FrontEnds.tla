------------------------------ MODULE FrontEnds ------------------------------
(***************************************************************************)
(* The WebDAV and S3 front ends beside the handlers of FileTree: they look *)
(* an entry up by path or by name, and write the same table and the same   *)
(* blob store with statements of their own, without the quota check and    *)
(* without the recursive statements.  Uploads through a share link, which  *)
(* call upload_file, come in here as well.                                 *)
(*                                                                         *)
(* A request is a look-up and a later statement; the walk of               *)
(* resolve_path down the folders is one step.  A PUT writes the contents   *)
(* in place, so that a file is never without contents, only with partial   *)
(* ones.  What a front end stores counts as usage no quota check has seen. *)
(***************************************************************************)
EXTENDS FileTree

CONSTANT PutSizes    \* sizes of what the front ends store

ASSUME PutSizesAssumption == PutSizes \subseteq Sizes

(* The folders a WebDAV path of user u leads to: every folder from the root
   down to p is live.  A path that leads nowhere ends in the deepest folder
   that is there, and a new entry is made below that one. *)
OnPath(u, p) ==
  \/ p = Root
  \/ /\ Owned(u, p)
     /\ \A k \in Entries : p \in Descendants(k) =>
          row[k].kind # "file" /\ ~row[k].trashed /\ ~OnCycle(k)

(* resolve_path: the live entry i is at the end of a path. *)
Resolved(u, i) == Owned(u, i) /\ ~row[i].trashed /\ OnPath(u, row[i].parent)

Begin(w, j) == job' = [job EXCEPT ![w] = j]

Untouched == UNCHANGED <<row, blobs, fresh, doomed, unchecked>>

-----------------------------------------------------------------------------
(* WebDAV. *)

(* MKCOL, and COPY of a folder (what is in it is not copied).  If the parent is
   moved or trashed between the look-up and the INSERT, the outcome is one of
   CreateFolder, which does not look at the state of the parent. *)
Mkcol(u, p, n) ==
  /\ OnPath(u, p)
  /\ ~NameTaken(u, p, n, {})
  /\ \E i \in fresh :
       /\ fresh' = fresh \ {i}
       /\ row' = With(i, [user |-> u, parent |-> p, name |-> n, kind |-> "folder",
                          size |-> 0, trashed |-> FALSE])
  /\ UNCHANGED <<blobs, job, doomed, unchecked>>

(* The look-up of a PUT that makes a new file; storing and inserting it are
   UploadStore and UploadInsert. *)
PutNew(w, u, p, n, size) ==
  \E i \in fresh :
    /\ fresh' = fresh \ {i}
    /\ Begin(w, [op |-> "upload", user |-> u, id |-> i, parent |-> p, name |-> n,
                 size |-> size, declared |-> 0])
    /\ UNCHANGED <<row, blobs, doomed, unchecked>>

(* The look-up of a PUT that replaces the contents of an entry: for WebDAV
   whatever is at the path, a folder too. *)
PutOver(w, u, i, size) ==
  /\ Begin(w, [op |-> "put", user |-> u, id |-> i, size |-> size])
  /\ Untouched

(* The contents are written in place ... *)
PutWrite(w) ==
  /\ job[w].op = "put"
  /\ blobs' = blobs \union {job[w].id}
  /\ job' = [job EXCEPT ![w].op = "written"]
  /\ UNCHANGED <<row, fresh, doomed, unchecked>>

(* ... and the UPDATE sets size and storage_path of the entry, if it is still
   there. *)
PutUpdate(w) ==
  /\ job[w].op = "written"
  /\ row' = IF job[w].id \in Entries
              THEN [row EXCEPT ![job[w].id].size = job[w].size,
                               ![job[w].id].kind = IF @ = "folder" THEN "filled" ELSE @]
              ELSE row
  /\ unchecked' = unchecked \union ({job[w].id} \intersect Entries)
  /\ Done(w)
  /\ UNCHANGED <<blobs, fresh, doomed>>

(* DELETE trashes the entry itself and nothing below it. *)
WebdavDelete(w, u, i) ==
  /\ Begin(w, [op |-> "trash", user |-> u, id |-> i])
  /\ Untouched

TrashUpdate(w) ==
  /\ job[w].op = "trash"
  /\ SetTrashed({job[w].id} \intersect Entries, TRUE)
  /\ Done(w)
  /\ UNCHANGED <<blobs, fresh, doomed, unchecked>>

(* MOVE takes the last segment of its Destination as the new name and leaves
   the parent alone; its UPDATE is RenameUpdate. *)
WebdavMove(w, u, i, n) ==
  /\ Begin(w, [op |-> "rename", user |-> u, id |-> i, name |-> n])
  /\ Untouched

(* COPY of a file, below the parent of its source ... *)
WebdavCopy(w, u, i, n) ==
  /\ row[i].kind = "file"
  /\ \E k \in fresh :
       /\ fresh' = fresh \ {k}
       /\ Begin(w, [op |-> "copy", user |-> u, id |-> k, parent |-> row[i].parent,
                    name |-> n, size |-> row[i].size, from |-> i])
  /\ UNCHANGED <<row, blobs, doomed, unchecked>>

(* Mutated form of CopyStore: a source that is gone is not noticed. *)
CopyStore_Unchecked(w) ==
  /\ job[w].op = "copy"
  /\ blobs' = IF job[w].from \in blobs THEN blobs \union {job[w].id} ELSE blobs
  /\ job' = [job EXCEPT ![w] =
       [op |-> "stored", user |-> job[w].user, id |-> job[w].id, parent |-> job[w].parent,
        name |-> job[w].name, size |-> job[w].size, declared |-> 0]]
  /\ UNCHANGED <<row, fresh, doomed, unchecked>>

(* ... copies the contents, which fails if they are gone; UploadInsert follows. *)
CopyStore(w) ==
  /\ job[w].op = "copy"
  /\ job[w].from \in blobs
  /\ blobs' = blobs \union {job[w].id}
  /\ job' = [job EXCEPT ![w] =
       [op |-> "stored", user |-> job[w].user, id |-> job[w].id, parent |-> job[w].parent,
        name |-> job[w].name, size |-> job[w].size, declared |-> 0]]
  /\ UNCHANGED <<row, fresh, doomed, unchecked>>

-----------------------------------------------------------------------------
(* S3: an object is named by the last segment of its key alone. *)

(* PutObject replaces a live file of that name in any folder, and makes one at
   the root if there is none. *)
PutObject(w, u, n, size) ==
  LET found == {i \in Entries : /\ row[i].user = u
                                /\ row[i].name = n
                                /\ ~row[i].trashed
                                /\ row[i].kind = "file"}
  IN  \/ found = {} /\ PutNew(w, u, Root, n, size)
      \/ \E i \in found : PutOver(w, u, i, size)

(* DeleteObject trashes every live entry of that name, in one statement. *)
DeleteObject(u, n) ==
  /\ SetTrashed({i \in Entries : row[i].user = u /\ row[i].name = n /\ ~row[i].trashed}, TRUE)
  /\ UNCHANGED <<blobs, fresh, job, doomed, unchecked>>

-----------------------------------------------------------------------------
(* upload_shared, through a link to entry i of user u: into the folder, or beside
   the file, and then upload_file on behalf of the owner.  The entry may be in
   the trash. *)
UploadShared(w, u, i, n, size) ==
  /\ Owned(u, i)
  /\ UploadCheck(w, u, IF row[i].kind = "file" THEN row[i].parent ELSE i, n, size, size)

-----------------------------------------------------------------------------
FrontRequest(w) ==
  /\ ~Busy(w)
  /\ \E u \in Users :
       \/ \E p \in Parents :
            /\ OnPath(u, p)
            /\ \E n \in Names, s \in PutSizes : PutNew(w, u, p, n, s)
       \/ \E i \in Ids :
            /\ Resolved(u, i)
            /\ \/ \E s \in PutSizes : PutOver(w, u, i, s)
               \/ WebdavDelete(w, u, i)
               \/ \E n \in Names : WebdavMove(w, u, i, n) \/ WebdavCopy(w, u, i, n)
       \/ \E n \in Names, s \in PutSizes : PutObject(w, u, n, s)
       \/ \E i \in Ids, n \in Names, s \in Sizes : UploadShared(w, u, i, n, s)

FrontContinue(w) ==
  \/ PutWrite(w)
  \/ PutUpdate(w)
  \/ TrashUpdate(w)
  \/ CopyStore(w)

FrontNext ==
  \/ Next
  \/ \E w \in Workers : FrontRequest(w) \/ FrontContinue(w)
  \/ \E u \in Users, n \in Names :
       DeleteObject(u, n) \/ \E p \in Parents : Mkcol(u, p, n)

FrontSpec == Init /\ [][FrontNext]_vars
=============================================================================
