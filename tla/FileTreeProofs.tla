--------------------------- MODULE FileTreeProofs ---------------------------
(***************************************************************************)
(* Proofs about FileTree and FrontEnds, for any number of users, entries,  *)
(* names, sizes and requests in flight.                                    *)
(*                                                                         *)
(* The handlers check an entry in one statement and use it in a later one. *)
(* What makes this sound is that ids are never used twice: an id that a    *)
(* request has read, or a purge has listed, is never drawn again (Reserved *)
(* below holds the ids that still may become rows), so whoever owned it    *)
(* then owns it now, if it exists at all.                                  *)
(*                                                                         *)
(* QuotaOvershootBounded speaks of the bytes in the table alone and is not *)
(* inductive: an INSERT adds bytes without a check.  QuotaKept counts the  *)
(* uploads that have passed the check with them.                           *)
(***************************************************************************)
EXTENDS FrontEnds, FiniteSetTheorems, TLAPS

Uploading == {w \in Workers : job[w].op \in {"upload", "stored", "copy"}}

(* The ids that may still become entries. *)
Reserved == fresh \union {job[w].id : w \in Uploading}

(* An id some request has read: it is not drawn again, and if it is in the
   table it belongs to u. *)
Settled(i, u) == i \notin Reserved /\ (i \in Entries => row[i].user = u)

(* What a request in flight may rely on. *)
JobOwn(w) ==
  /\ job[w].op \in {"upload", "stored", "copy"} =>
       job[w].parent = Root \/ Settled(job[w].parent, job[w].user)
  /\ job[w].op \in {"rename", "restore", "purge", "purging", "trash", "put", "written"} =>
       Settled(job[w].id, job[w].user)
  /\ job[w].op \in {"purging", "emptying"} =>
       \A i \in job[w].paths : i \in doomed /\ Settled(i, job[w].user)
  /\ job[w].op \in {"stored", "written"} => job[w].id \in blobs \union doomed

(* Every id becomes an entry at most once. *)
IdsOnce ==
  /\ \A i \in Entries \union doomed : i \notin Reserved
  /\ \A w \in Uploading : job[w].id \notin fresh
  /\ \A v, w \in Uploading : job[v].id = job[w].id => v = w

(* The inductive invariant. *)
Inv ==
  /\ TypeOK
  /\ OwnersAgree
  /\ IdsOnce
  /\ DanglingOnlyByPurge
  /\ \A w \in Workers : JobOwn(w)

(* What every step does to the ids, the owners, the purged paths and the
   contents: ids are only used up, entries keep their owner and get contents
   only where some are stored, and contents disappear only after their path
   was read. *)
Frame ==
  /\ \A i \in Reserved' : i \in Reserved
  /\ \A i \in DOMAIN row' :
       \/ i \in Reserved
       \/ /\ i \in Entries /\ row'[i].user = row[i].user
          /\ row'[i].kind = row[i].kind \/ i \in blobs' \union doomed'
  /\ \A i \in doomed : i \in doomed'
  /\ \A i \in blobs : i \in blobs' \union doomed'

-----------------------------------------------------------------------------
(* What TypeOK says of a request in flight, by its kind. *)
LEMMA JobFields ==
  ASSUME TypeOK, NEW w \in Workers
  PROVE  /\ job[w].op \in {"upload", "stored"} => job[w] \in UploadJob
         /\ job[w].op = "rename" => job[w] \in RenameJob
         /\ job[w].op \in {"restore", "purge", "trash"} => job[w] \in ItemJob
         /\ job[w].op \in {"put", "written"} => job[w] \in PutJob
         /\ job[w].op = "copy" => job[w] \in CopyJob
         /\ job[w].op = "purging" => job[w] \in PurgingJob
         /\ job[w].op = "emptying" => job[w] \in EmptyJob
         /\ job[w] # Idle => job[w].user \in Users
<1>1. job[w] \in Job
  BY DEF TypeOK
<1> QED
  BY <1>1 DEF Job, Idle, UploadJob, RenameJob, ItemJob, PurgingJob, EmptyJob,
             PutJob, CopyJob

(* The recursive CTE selects entries only, and everything below them. *)
LEMMA DescendantsClosed ==
  ASSUME NEW i
  PROVE  /\ Descendants(i) \subseteq Entries
         /\ \A k \in Entries : row[k].parent \in Descendants(i) => k \in Descendants(i)
BY DEF Descendants

(* Where OwnersAgree holds, it selects entries of one user. *)
LEMMA DescendantsOneUser ==
  ASSUME TypeOK, OwnersAgree, NEW i, NEW j \in Descendants(i)
  PROVE  i \in Entries /\ row[j].user = row[i].user
<1>1. i \in Entries /\ j \in Entries
  BY DEF Descendants
<1> DEFINE S == {k \in Entries : row[k].user = row[i].user}
<1>2. S \in SUBSET Entries /\ i \in S
  BY <1>1
<1>3. \A k \in Entries : row[k].parent \in S => k \in S
  BY RootAssumption DEF OwnersAgree, TypeOK
<1>4. j \in S
  BY <1>2, <1>3 DEF Descendants
<1> QED
  BY <1>1, <1>4

(* A cascade deletes whole subtrees. *)
LEMMA CascadeClosed ==
  ASSUME NEW S
  PROVE  /\ Cascade(S) \subseteq Entries
         /\ \A k \in Entries : row[k].parent \in Cascade(S) => k \in Cascade(S)
BY DescendantsClosed DEF Cascade

(* What a request relies on survives the steps of all others. *)
LEMMA JobKept ==
  ASSUME Frame, NEW w \in Workers, JobOwn(w), job'[w] = job[w]
  PROVE  JobOwn(w)'
<1>1. ASSUME NEW i, NEW u, Settled(i, u) PROVE Settled(i, u)'
  BY <1>1 DEF Settled, Frame, Entries
<1> QED
  BY <1>1 DEF JobOwn, Frame

(* Contents are missing only after a purge, if this is so for new entries. *)
LEMMA DanglingKept ==
  ASSUME Frame, DanglingOnlyByPurge,
         \A i \in DOMAIN row' : i \in Reserved =>
           row'[i].kind = "folder" \/ i \in blobs' \union doomed'
  PROVE  DanglingOnlyByPurge'
BY DEF Frame, DanglingOnlyByPurge, Entries

-----------------------------------------------------------------------------
(* Deleting a set of entries that holds all that is below it. *)
LEMMA DeleteRows ==
  ASSUME Inv, NEW S, row' = Without(S),
         \A k \in Entries : row[k].parent \in S => k \in S
  PROVE  /\ DOMAIN row' \subseteq Ids /\ row' \in [DOMAIN row' -> Row]
         /\ OwnersAgree'
         /\ \A i \in DOMAIN row' : i \in Entries /\ row'[i] = row[i]
<1>1. DOMAIN row' = Entries \ S /\ \A i \in Entries \ S : row'[i] = row[i]
  BY DEF Without
<1>2. DOMAIN row' \subseteq Ids /\ row' \in [DOMAIN row' -> Row]
  BY <1>1 DEF Without, Inv, TypeOK
<1>3. OwnersAgree'
  BY <1>1 DEF Inv, OwnersAgree, Entries
<1> QED
  BY <1>1, <1>2, <1>3

(* Ids stay used once if no request draws one. *)
LEMMA IdsKept ==
  ASSUME Inv,
         \A i \in fresh' : i \in fresh,
         \A w \in Uploading' : w \in Uploading /\ job'[w].id = job[w].id,
         \A i \in doomed' : i \in doomed \union Entries,
         \A i \in DOMAIN row' : i \in Entries \/ i \notin Reserved'
  PROVE  IdsOnce' /\ \A i \in Reserved' : i \in Reserved
<1>1. \A i \in Reserved' : i \in Reserved
  BY DEF Reserved
<1>2. \A i \in (Entries \union doomed)' : i \notin Reserved'
  BY <1>1 DEF Inv, IdsOnce, Entries
<1>3. \A w \in Uploading' : job'[w].id \notin fresh'
  BY DEF Inv, IdsOnce
<1>4. \A v, w \in Uploading' : job'[v].id = job'[w].id => v = w
  BY DEF Inv, IdsOnce
<1> QED
  BY <1>1, <1>2, <1>3, <1>4 DEF IdsOnce

(* The invariant after a step, from its parts. *)
LEMMA InvKept ==
  ASSUME Inv, Frame, TypeOK', OwnersAgree', IdsOnce',
         \A i \in DOMAIN row' : i \in Reserved =>
           row'[i].kind = "folder" \/ i \in blobs' \union doomed',
         \A w \in Workers : job'[w] = job[w] \/ JobOwn(w)'
  PROVE  Inv'
<1>1. DanglingOnlyByPurge'
  BY DanglingKept DEF Inv
<1>2. \A w \in Workers : JobOwn(w)'
  BY JobKept DEF Inv
<1> QED
  BY <1>1, <1>2 DEF Inv

(* A step that reads the table, and at most dooms entries and removes doomed
   contents. *)
LEMMA ReadStep ==
  ASSUME Inv, NEW w \in Workers, NEW J \in Job,
         J.op \notin {"upload", "stored", "copy"},
         job' = [job EXCEPT ![w] = J],
         UNCHANGED <<row, fresh, unchecked>>,
         blobs' \subseteq Ids,
         \A i \in blobs : i \in blobs' \union doomed',
         \A i \in doomed : i \in doomed',
         \A i \in doomed' : i \in doomed \union Entries,
         JobOwn(w)'
  PROVE  Inv'
<1>1. /\ job \in [Workers -> Job] /\ job' \in [Workers -> Job] /\ job'[w] = J
      /\ \A v \in Workers : v # w => job'[v] = job[v]
      /\ row' = row /\ fresh' = fresh
  BY DEF Inv, TypeOK
<1>2. TypeOK'
  BY <1>1 DEF Inv, TypeOK, Entries
<1>3. OwnersAgree'
  BY <1>1 DEF Inv, OwnersAgree, Entries
<1>4. \A v \in Uploading' : v \in Uploading /\ job'[v].id = job[v].id
  BY <1>1 DEF Uploading
<1>5. IdsOnce' /\ \A i \in Reserved' : i \in Reserved
  BY <1>1, <1>4, IdsKept DEF Entries
<1>6. \A i \in Entries : i \notin Reserved
  BY DEF Inv, IdsOnce
<1>7. Frame
  BY <1>1, <1>5 DEF Frame, Entries
<1> QED
  BY <1>1, <1>2, <1>3, <1>5, <1>6, <1>7, InvKept DEF Entries

(* A step that rewrites or deletes entries and ends the request, if it is one's;
   a folder may be given contents that are stored. *)
LEMMA TableStep ==
  ASSUME Inv,
         DOMAIN row' \subseteq Entries,
         row' \in [DOMAIN row' -> Row],
         \A i \in DOMAIN row' :
           /\ row'[i].user = row[i].user
           /\ row'[i].kind = row[i].kind \/ i \in blobs \union doomed,
         OwnersAgree',
         job' = job \/ \E w \in Workers : Done(w),
         UNCHANGED <<blobs, fresh, doomed>>,
         unchecked' \subseteq Ids
  PROVE  Inv'
<1>1. /\ job' \in [Workers -> Job]
      /\ \A w \in Workers : job'[w] = job[w] \/ job'[w] = Idle
      /\ blobs' = blobs /\ fresh' = fresh /\ doomed' = doomed
  BY DEF Inv, TypeOK, Done, Job
<1>2. TypeOK'
  BY <1>1 DEF Inv, TypeOK, Entries
<1>3. \A w \in Uploading' : w \in Uploading /\ job'[w].id = job[w].id
  BY <1>1 DEF Uploading, Idle
<1>4. IdsOnce' /\ \A i \in Reserved' : i \in Reserved
  BY <1>1, <1>3, IdsKept DEF Entries
<1>5. Frame
  BY <1>1, <1>4 DEF Frame, Entries
<1>6. \A w \in Workers : job'[w] = job[w] \/ JobOwn(w)'
  BY <1>1 DEF JobOwn, Idle
<1>7. \A i \in DOMAIN row' : i \notin Reserved
  BY DEF Inv, IdsOnce
<1> QED
  BY <1>2, <1>4, <1>5, <1>6, <1>7, InvKept

-----------------------------------------------------------------------------
(* The initial state. *)
LEMMA InvInit == Init => Inv
<1> SUFFICES ASSUME Init PROVE Inv
  OBVIOUS
<1>1. Entries = {} /\ doomed = {} /\ blobs = {} /\ unchecked = {} /\ fresh = Ids
  BY DEF Init, Entries
<1>2. job \in [Workers -> Job] /\ \A w \in Workers : job[w] = Idle
  BY DEF Init, Job
<1>3. Uploading = {}
  BY <1>2 DEF Uploading, Idle
<1>4. TypeOK
  BY <1>1, <1>2 DEF TypeOK, Init, Entries
<1>5. OwnersAgree /\ DanglingOnlyByPurge
  BY <1>1 DEF OwnersAgree, DanglingOnlyByPurge
<1>6. IdsOnce
  BY <1>1, <1>3 DEF IdsOnce
<1>7. \A w \in Workers : JobOwn(w)
  BY <1>2 DEF JobOwn, Idle
<1> QED
  BY <1>4, <1>5, <1>6, <1>7 DEF Inv

-----------------------------------------------------------------------------
(* The steps that draw an id or insert an entry. *)

(* create_folder *)
LEMMA CreateFolderStep ==
  ASSUME Inv, NEW u \in Users, NEW p \in Parents, NEW n \in Names, CreateFolder(u, p, n)
  PROVE  Inv'
<1> DEFINE r == [user |-> u, parent |-> p, name |-> n, kind |-> "folder",
                 size |-> 0, trashed |-> FALSE]
<1>1. PICK i \in fresh : fresh' = fresh \ {i} /\ row' = With(i, r)
  BY DEF CreateFolder
<1>2. /\ i \in Ids /\ i \in Reserved /\ i \notin Entries
      /\ blobs' = blobs /\ job' = job /\ doomed' = doomed /\ unchecked' = unchecked
  BY DEF Inv, TypeOK, IdsOnce, Reserved, CreateFolder
<1>3. /\ DOMAIN row' = Entries \union {i} /\ row'[i] = r
      /\ \A j \in Entries : row'[j] = row[j]
  BY <1>1, <1>2 DEF With
<1>4. r \in Row /\ r.user = u /\ r.parent = p /\ r.kind = "folder"
  BY DEF Row
<1> HIDE DEF r
<1>5. TypeOK'
  <2>1. \A j \in Entries : row[j] \in Row
    BY DEF Inv, TypeOK
  <2>2. row' \in [DOMAIN row' -> Row]
    BY <1>1, <1>4, <2>1 DEF With
  <2> QED
    BY <1>1, <1>2, <1>3, <2>2 DEF Inv, TypeOK, Entries
<1>6. OwnersAgree'
  <2>1. p # Root => p \in Entries /\ row[p].user = u
    BY DEF CreateFolder, ParentOk, Owned
  <2> QED
    BY <1>2, <1>3, <1>4, <2>1 DEF Inv, OwnersAgree, Entries
<1>7. Uploading' = Uploading
  BY <1>2 DEF Uploading
<1>8. i \notin Reserved'
  BY <1>1, <1>2, <1>7 DEF Reserved, Inv, IdsOnce
<1>9. IdsOnce' /\ \A j \in Reserved' : j \in Reserved
  BY <1>1, <1>2, <1>3, <1>7, <1>8, IdsKept
<1>10. Frame
  BY <1>2, <1>3, <1>9 DEF Frame
<1>11. \A j \in DOMAIN row' : j \in Reserved => row'[j].kind = "folder"
  BY <1>3, <1>4 DEF Inv, IdsOnce
<1> QED
  BY <1>2, <1>5, <1>6, <1>9, <1>10, <1>11, InvKept

(* upload_file and complete_chunked_upload: the quota check *)
LEMMA UploadCheckStep ==
  ASSUME Inv, NEW w \in Workers, NEW u \in Users, NEW p \in Parents, NEW n \in Names,
         NEW size \in Sizes, NEW declared \in Sizes, UploadCheck(w, u, p, n, size, declared)
  PROVE  Inv'
<1>1. PICK i \in fresh :
        /\ fresh' = fresh \ {i}
        /\ job' = [job EXCEPT ![w] =
             [op |-> "upload", user |-> u, id |-> i, parent |-> p, name |-> n,
              size |-> size, declared |-> declared]]
        /\ unchecked' \in {unchecked, unchecked \union {i}}
  BY DEF UploadCheck
<1>2. /\ i \in Ids /\ i \in Reserved /\ row' = row /\ Entries' = Entries
      /\ blobs' = blobs /\ doomed' = doomed /\ unchecked' \subseteq Ids
  BY <1>1 DEF Inv, TypeOK, Reserved, UploadCheck, Entries
<1>3. /\ job \in [Workers -> Job]
      /\ job'[w] = [op |-> "upload", user |-> u, id |-> i, parent |-> p, name |-> n,
                    size |-> size, declared |-> declared]
      /\ \A v \in Workers : v # w => job'[v] = job[v]
      /\ w \notin Uploading
  BY <1>1 DEF Inv, TypeOK, UploadCheck, Busy, Uploading, Idle
<1>4. job'[w].op = "upload" /\ job'[w].id = i /\ job'[w].parent = p /\ job'[w].user = u
  BY <1>3
<1>5. TypeOK'
  <2>1. job'[w] \in Job
    BY <1>2, <1>3 DEF Job, UploadJob
  <2>2. job' \in [Workers -> Job]
    BY <1>1, <1>3, <2>1
  <2> QED
    BY <1>1, <1>2, <2>2 DEF Inv, TypeOK
<1>6. OwnersAgree'
  BY <1>2 DEF Inv, OwnersAgree
<1>7. Uploading' = Uploading \union {w} /\ \A v \in Uploading : job'[v].id = job[v].id
  BY <1>3, <1>4 DEF Uploading
<1>8. Reserved' = Reserved
  BY <1>1, <1>4, <1>7, <1>3 DEF Reserved, Inv, IdsOnce
<1>9. IdsOnce'
  <2>1. \A j \in (Entries \union doomed)' : j \notin Reserved'
    BY <1>2, <1>8 DEF Inv, IdsOnce
  <2>2. \A v \in Uploading' : job'[v].id \notin fresh'
    BY <1>1, <1>4, <1>7 DEF Inv, IdsOnce
  <2>3. \A v, x \in Uploading' : job'[v].id = job'[x].id => v = x
    BY <1>4, <1>7 DEF Inv, IdsOnce
  <2> QED
    BY <2>1, <2>2, <2>3 DEF IdsOnce
<1>10. Frame
  BY <1>2, <1>8 DEF Frame, Entries
<1>11. JobOwn(w)'
  <2>1. p = Root \/ Settled(p, u)
    BY DEF UploadCheck, ParentOk, Owned, Settled, Inv, IdsOnce
  <2>2. p = Root \/ Settled(p, u)'
    BY <1>2, <1>8, <2>1 DEF Settled
  <2> QED
    BY <1>4, <2>2 DEF JobOwn
<1>12. \A j \in DOMAIN row' : j \notin Reserved
  BY <1>2 DEF Inv, IdsOnce, Entries
<1> QED
  BY <1>3, <1>5, <1>6, <1>9, <1>10, <1>11, <1>12, InvKept

(* store_file and assemble_chunks *)
LEMMA UploadStoreStep ==
  ASSUME Inv, NEW w \in Workers, UploadStore(w)
  PROVE  Inv'
<1>1. /\ row' = row /\ Entries' = Entries /\ fresh' = fresh
      /\ doomed' = doomed /\ unchecked' = unchecked
      /\ job \in [Workers -> Job] /\ job[w].op = "upload"
      /\ blobs' = blobs \union {job[w].id}
      /\ job' = [job EXCEPT ![w].op = "stored"]
  BY DEF UploadStore, Inv, TypeOK, Entries
<1>2. job[w] \in UploadJob
  BY <1>1, JobFields DEF Inv
<1>3. /\ job'[w] = [job[w] EXCEPT !.op = "stored"]
      /\ \A v \in Workers : v # w => job'[v] = job[v]
  BY <1>1
<1>4. /\ job'[w] \in UploadJob /\ job'[w].op = "stored" /\ job'[w].id = job[w].id
      /\ job'[w].parent = job[w].parent /\ job'[w].user = job[w].user
      /\ job[w].id \in Ids
  BY <1>2, <1>3 DEF UploadJob
<1>5. TypeOK'
  <2>1. job' \in [Workers -> Job]
    BY <1>1, <1>3, <1>4 DEF Job
  <2> QED
    BY <1>1, <1>4, <2>1 DEF Inv, TypeOK
<1>6. OwnersAgree'
  BY <1>1 DEF Inv, OwnersAgree
<1>7. Uploading' = Uploading /\ \A v \in Uploading : job'[v].id = job[v].id
  BY <1>1, <1>3, <1>4 DEF Uploading
<1>8. IdsOnce' /\ \A i \in Reserved' : i \in Reserved
  BY <1>1, <1>7, IdsKept DEF Entries
<1>9. Frame
  BY <1>1, <1>8 DEF Frame, Entries
<1>10. JobOwn(w)'
  <2>1. job[w].parent = Root \/ Settled(job[w].parent, job[w].user)
    BY <1>1 DEF Inv, JobOwn
  <2>2. job[w].parent = Root \/ (job[w].parent \notin Reserved'
          /\ (job[w].parent \in Entries' => row'[job[w].parent].user = job[w].user))
    BY <1>1, <1>8, <2>1 DEF Settled
  <2> QED
    BY <1>1, <1>4, <2>2 DEF JobOwn, Settled
<1>11. \A j \in DOMAIN row' : j \notin Reserved
  BY <1>1 DEF Inv, IdsOnce, Entries
<1> QED
  BY <1>3, <1>5, <1>6, <1>8, <1>9, <1>10, <1>11, InvKept

(* The INSERT of an upload *)
LEMMA UploadInsertStep ==
  ASSUME Inv, NEW w \in Workers, UploadInsert(w)
  PROVE  Inv'
<1> DEFINE i == job[w].id
           r == UploadRow(w, job[w].size)
<1>1. /\ job \in [Workers -> Job] /\ job[w].op = "stored"
      /\ blobs' = blobs /\ fresh' = fresh /\ doomed' = doomed
      /\ job' = [job EXCEPT ![w] = Idle]
      /\ unchecked' = unchecked \/ unchecked' = unchecked \union {i}
  BY DEF UploadInsert, UploadEnd, Done, Inv, TypeOK
<1>2. job[w] \in UploadJob
  BY <1>1, JobFields DEF Inv
<1>3. /\ r \in Row /\ r.user = job[w].user /\ r.parent = job[w].parent
      /\ i \in Ids
  BY <1>2 DEF UploadJob, UploadRow, Row
<1>4. w \in Uploading /\ i \in Reserved /\ i \notin fresh /\ i \notin Entries
  BY <1>1 DEF Uploading, Reserved, Inv, IdsOnce
<1>5. /\ job' \in [Workers -> Job] /\ job'[w] = Idle
      /\ \A v \in Workers : v # w => job'[v] = job[v]
  BY <1>1 DEF Job
<1>6. \A v \in Uploading' : v \in Uploading /\ v # w /\ job'[v].id = job[v].id
  BY <1>5 DEF Uploading, Idle
<1>7. i \notin Reserved'
  BY <1>1, <1>4, <1>6 DEF Reserved, Inv, IdsOnce
<1>8. \/ row' = row
      \/ row' = With(i, r) /\ job[w].parent \in Entries \union {Root}
  BY DEF UploadInsert, UploadEnd
<1> HIDE DEF i, r
<1>9. /\ \A j \in Entries : j \in DOMAIN row' /\ row'[j] = row[j]
      /\ \A j \in DOMAIN row' : j \in Entries
           \/ (j = i /\ row'[i] = r /\ job[w].parent \in Entries \union {Root})
      /\ row' \in [DOMAIN row' -> Row]
  <2>1. \A j \in Entries : row[j] \in Row
    BY DEF Inv, TypeOK
  <2>2. CASE row' = row
    BY <2>2 DEF Inv, TypeOK, Entries
  <2>3. CASE row' = With(i, r) /\ job[w].parent \in Entries \union {Root}
    BY <1>3, <1>4, <2>1, <2>3 DEF With
  <2> QED
    BY <1>8, <2>2, <2>3
<1>10. TypeOK'
  BY <1>1, <1>3, <1>5, <1>9 DEF Inv, TypeOK, Entries
<1>11. IdsOnce' /\ \A j \in Reserved' : j \in Reserved
  BY <1>1, <1>6, <1>7, <1>9, IdsKept
<1>12. Frame
  BY <1>1, <1>4, <1>9, <1>11 DEF Frame
<1>13. OwnersAgree'
  <2>1. job[w].parent = Root \/ Settled(job[w].parent, job[w].user)
    BY <1>1 DEF Inv, JobOwn
  <2>2. r.parent # Root /\ job[w].parent \in Entries \union {Root} =>
          r.parent \in Entries /\ row[r.parent].user = r.user
    BY <1>3, <2>1 DEF Settled
  <2> QED
    BY <1>9, <2>2 DEF Inv, OwnersAgree, Entries
<1>14. JobOwn(w)'
  BY <1>5 DEF JobOwn, Idle
<1>15. \A j \in DOMAIN row' : j \in Reserved => j \in blobs' \union doomed'
  BY <1>1, <1>9 DEF Inv, IdsOnce, JobOwn, i
<1> QED
  BY <1>5, <1>10, <1>11, <1>12, <1>13, <1>14, <1>15, InvKept

-----------------------------------------------------------------------------
(* The steps that only read the table. *)

(* rename_item, restore_from_trash and permanent_delete: the first check *)
LEMMA CheckStep ==
  ASSUME Inv, NEW w \in Workers, NEW u \in Users, NEW i \in Ids,
         \/ \E n \in Names : RenameCheck(w, u, i, n)
         \/ RestoreCheck(w, u, i)
         \/ PurgeCheck(w, u, i)
  PROVE  Inv'
<1>1. /\ i \in Entries /\ row[i].user = u
      /\ UNCHANGED <<row, blobs, fresh, doomed, unchecked>>
  BY DEF RenameCheck, RestoreCheck, PurgeCheck, Owned
<1>2. PICK J : /\ J \in RenameJob \union ItemJob
               /\ J.id = i /\ J.user = u
               /\ job' = [job EXCEPT ![w] = J]
  <2>1. CASE \E n \in Names : RenameCheck(w, u, i, n)
    BY <2>1 DEF RenameCheck, RenameJob
  <2>2. CASE RestoreCheck(w, u, i)
    <3>1. [op |-> "restore", user |-> u, id |-> i] \in ItemJob
      BY DEF ItemJob
    <3> QED
      BY <2>2, <3>1 DEF RestoreCheck
  <2>3. CASE PurgeCheck(w, u, i)
    <3>1. [op |-> "purge", user |-> u, id |-> i] \in ItemJob
      BY DEF ItemJob
    <3> QED
      BY <2>3, <3>1 DEF PurgeCheck
  <2> QED
    BY <2>1, <2>2, <2>3
<1>3. J \in Job /\ J.op \in {"rename", "restore", "purge", "trash"}
  BY <1>2 DEF Job, RenameJob, ItemJob
<1>4. job \in [Workers -> Job] /\ job'[w] = J /\ \A v \in Workers : v # w => job'[v] = job[v]
  BY <1>2 DEF Inv, TypeOK
<1>5. \A v \in Uploading' : v \in Uploading /\ job'[v].id = job[v].id
  BY <1>3, <1>4 DEF Uploading
<1>6. \A j \in Reserved' : j \in Reserved
  BY <1>1, <1>5 DEF Reserved
<1>7. i \notin Reserved'
  BY <1>1, <1>6 DEF Inv, IdsOnce
<1>8. JobOwn(w)'
  BY <1>1, <1>2, <1>3, <1>4, <1>7 DEF JobOwn, Settled, Entries
<1> QED
  BY <1>1, <1>2, <1>3, <1>8, ReadStep DEF Inv, TypeOK

(* permanent_delete and empty_trash: the paths are read *)
LEMMA PathsStep ==
  ASSUME Inv, NEW w \in Workers, NEW u \in Users, NEW S, NEW J \in PurgingJob \union EmptyJob,
         S \subseteq Entries, \A i \in S : row[i].user = u,
         J.user = u, J.paths = S,
         J.op = "purging" => Settled(J.id, u),
         job' = [job EXCEPT ![w] = J],
         doomed' = doomed \union S,
         UNCHANGED <<row, blobs, fresh, unchecked>>
  PROVE  Inv'
<1>1. J \in Job /\ J.op \in {"purging", "emptying"}
  BY DEF Job, PurgingJob, EmptyJob
<1>2. job \in [Workers -> Job] /\ job'[w] = J /\ \A v \in Workers : v # w => job'[v] = job[v]
  BY DEF Inv, TypeOK
<1>3. \A v \in Uploading' : v \in Uploading /\ job'[v].id = job[v].id
  BY <1>1, <1>2 DEF Uploading
<1>4. \A j \in Reserved' : j \in Reserved
  BY <1>3 DEF Reserved
<1>5. \A i, v : Settled(i, v) => Settled(i, v)'
  BY <1>4 DEF Settled, Entries
<1>6. \A i \in S : i \in doomed' /\ Settled(i, u)
  BY DEF Settled, Inv, IdsOnce
<1>7. JobOwn(w)'
  BY <1>1, <1>2, <1>5, <1>6 DEF JobOwn
<1> QED
  BY <1>1, <1>7, ReadStep DEF Inv, TypeOK

(* permanent_delete reads the paths below the entry, all of one user. *)
LEMMA PurgeReadStep ==
  ASSUME Inv, NEW w \in Workers, PurgeRead(w)
  PROVE  Inv'
<1> DEFINE S == {j \in Descendants(job[w].id) : row[j].kind # "folder"}
           J == [op |-> "purging", user |-> job[w].user, id |-> job[w].id, paths |-> S]
<1>1. /\ job[w].op = "purge"
      /\ job' = [job EXCEPT ![w] = J] /\ doomed' = doomed \union S
      /\ UNCHANGED <<row, blobs, fresh, unchecked>>
  BY DEF PurgeRead
<1>2. job[w].user \in Users /\ job[w].id \in Ids
  BY <1>1, JobFields DEF Inv, ItemJob
<1>3. S \subseteq Entries /\ Entries \subseteq Ids
  BY DescendantsClosed DEF Inv, TypeOK
<1>4. Settled(job[w].id, job[w].user)
  BY <1>1 DEF Inv, JobOwn
<1>5. \A i \in S : row[i].user = job[w].user
  BY <1>4, DescendantsOneUser DEF Inv, Settled
<1> HIDE DEF S
<1>6. /\ J \in PurgingJob /\ J.user = job[w].user /\ J.paths = S /\ J.id = job[w].id
  BY <1>2, <1>3 DEF PurgingJob
<1> HIDE DEF J
<1> QED
  BY <1>1, <1>2, <1>3, <1>4, <1>5, <1>6, PathsStep

(* empty_trash reads the paths of its user's trash. *)
LEMMA EmptyReadStep ==
  ASSUME Inv, NEW w \in Workers, NEW u \in Users, EmptyRead(w, u)
  PROVE  Inv'
<1> DEFINE S == {j \in Entries : row[j].user = u /\ row[j].trashed /\ row[j].kind # "folder"}
           J == [op |-> "emptying", user |-> u, paths |-> S]
<1>1. /\ job' = [job EXCEPT ![w] = J] /\ doomed' = doomed \union S
      /\ UNCHANGED <<row, blobs, fresh, unchecked>>
  BY DEF EmptyRead
<1>2. S \subseteq Entries /\ S \subseteq Ids /\ \A i \in S : row[i].user = u
  BY DEF Inv, TypeOK
<1> HIDE DEF S
<1>3. J \in EmptyJob /\ J.user = u /\ J.paths = S /\ J.op = "emptying"
  BY <1>2 DEF EmptyJob
<1> HIDE DEF J
<1> QED
  BY <1>1, <1>2, <1>3, PathsStep

(* permanent_delete and empty_trash: the contents of one path are deleted *)
LEMMA PurgeBlobStep ==
  ASSUME Inv, NEW w \in Workers, PurgeBlob(w)
  PROVE  Inv'
<1>1. /\ job[w].op \in {"purging", "emptying"}
      /\ UNCHANGED <<row, fresh, doomed, unchecked>>
  BY DEF PurgeBlob
<1>2. PICK i \in job[w].paths :
        /\ blobs' \in {blobs, blobs \ {i}}
        /\ job' = [job EXCEPT ![w].paths = @ \ {i}]
  BY DEF PurgeBlob
<1> DEFINE J == [job[w] EXCEPT !.paths = @ \ {i}]
<1>3. job[w] \in PurgingJob \union EmptyJob
  BY <1>1, JobFields DEF Inv
<1>4. /\ J \in PurgingJob \union EmptyJob /\ J.op = job[w].op /\ J.user = job[w].user
      /\ J.paths = job[w].paths \ {i}
      /\ J.op = "purging" => J.id = job[w].id
  BY <1>1, <1>3 DEF PurgingJob, EmptyJob
<1>5. job \in [Workers -> Job] /\ job' = [job EXCEPT ![w] = J]
  BY <1>2 DEF Inv, TypeOK
<1> HIDE DEF J
<1>6. J \in Job /\ job'[w] = J /\ \A v \in Workers : v # w => job'[v] = job[v]
  BY <1>4, <1>5 DEF Job
<1>7. \A v \in Uploading' : v \in Uploading /\ job'[v].id = job[v].id
  BY <1>1, <1>4, <1>6 DEF Uploading
<1>8. \A j \in Reserved' : j \in Reserved
  BY <1>1, <1>7 DEF Reserved
<1>9. \A j, v : Settled(j, v) => Settled(j, v)'
  BY <1>1, <1>8 DEF Settled, Entries
<1>10. JobOwn(w)'
  BY <1>1, <1>4, <1>6, <1>9 DEF JobOwn, Inv
<1>11. i \in doomed /\ blobs' \subseteq Ids /\ \A j \in blobs : j \in blobs' \union doomed'
  BY <1>1, <1>2 DEF Inv, JobOwn, TypeOK
<1> QED
  BY <1>1, <1>4, <1>5, <1>6, <1>10, <1>11, ReadStep

(* The handler is dropped *)
LEMMA AbortStep ==
  ASSUME Inv, NEW w \in Workers, Abort(w)
  PROVE  Inv'
<1>1. job' = [job EXCEPT ![w] = Idle] /\ Idle \in Job /\ Idle.op = "idle"
  BY DEF Abort, Done, Job, Idle
<1>2. JobOwn(w)'
  BY <1>1 DEF JobOwn, Inv, TypeOK
<1> QED
  BY <1>1, <1>2, ReadStep DEF Abort, Inv, TypeOK

-----------------------------------------------------------------------------
(* The steps that rewrite entries. *)

(* A statement that leaves owner, parent and kind of every entry alone. *)
LEMMA RewriteRows ==
  ASSUME Inv, NEW t \in [Entries -> Row],
         \A i \in Entries : /\ t[i].user = row[i].user
                            /\ t[i].kind = row[i].kind
                            /\ t[i].parent = row[i].parent,
         row' = t \/ row' = row
  PROVE  /\ DOMAIN row' = Entries /\ row' \in [DOMAIN row' -> Row]
         /\ \A i \in DOMAIN row' : row'[i].user = row[i].user /\ row'[i].kind = row[i].kind
         /\ OwnersAgree'
<1>1. row \in [Entries -> Row]
  BY DEF Inv, TypeOK
<1>2. DOMAIN row' = Entries /\ row' \in [DOMAIN row' -> Row]
  BY <1>1
<1>3. \A i \in DOMAIN row' : /\ row'[i].user = row[i].user
                             /\ row'[i].kind = row[i].kind
                             /\ row'[i].parent = row[i].parent
  BY <1>2
<1>4. OwnersAgree'
  BY <1>2, <1>3 DEF Inv, OwnersAgree, Entries
<1> QED
  BY <1>2, <1>3, <1>4

(* The UPDATE of delete_item and restore_from_trash *)
LEMMA TrashRows ==
  ASSUME Inv, NEW S, NEW b \in BOOLEAN, SetTrashed(S, b)
  PROVE  /\ DOMAIN row' = Entries /\ row' \in [DOMAIN row' -> Row]
         /\ \A i \in DOMAIN row' : row'[i].user = row[i].user /\ row'[i].kind = row[i].kind
         /\ OwnersAgree'
<1> DEFINE t == [j \in Entries |->
                   IF j \in S THEN [row[j] EXCEPT !.trashed = b] ELSE row[j]]
<1>1. \A j \in Entries : row[j] \in Row
  BY DEF Inv, TypeOK
<1>2. \A j \in Entries : /\ t[j] \in Row
                         /\ t[j].user = row[j].user
                         /\ t[j].kind = row[j].kind
                         /\ t[j].parent = row[j].parent
  BY <1>1 DEF Row
<1>3. t \in [Entries -> Row]
  BY <1>2
<1>4. row' = t \/ row' = row
  BY DEF SetTrashed, Statement
<1> HIDE DEF t
<1> QED
  BY <1>2, <1>3, <1>4, RewriteRows

(* delete_item puts an entry and what is below it in the trash. *)
LEMMA DeleteItemStep ==
  ASSUME Inv, NEW u \in Users, NEW i \in Ids, DeleteItem(u, i)
  PROVE  Inv'
<1>1. SetTrashed(Descendants(i), TRUE) /\ UNCHANGED <<blobs, fresh, job, doomed, unchecked>>
  BY DEF DeleteItem
<1> QED
  BY <1>1, TrashRows, TableStep DEF Inv, TypeOK

(* restore_from_trash takes an entry and what is below it out of the trash. *)
LEMMA RestoreUpdateStep ==
  ASSUME Inv, NEW w \in Workers, RestoreUpdate(w)
  PROVE  Inv'
<1> DEFINE S == Descendants(job[w].id)
<1>1. /\ SetTrashed(S, FALSE) /\ Done(w)
      /\ unchecked' = unchecked \union {j \in S : row[j].trashed}
      /\ UNCHANGED <<blobs, fresh, doomed>>
  BY DEF RestoreUpdate
<1>2. S \subseteq Entries
  BY DescendantsClosed
<1>3. unchecked' \subseteq Ids
  BY <1>1, <1>2 DEF Inv, TypeOK
<1> QED
  BY <1>1, <1>3, TrashRows, TableStep

(* rename_item rewrites the name of one row. *)
LEMMA RenameUpdateStep ==
  ASSUME Inv, NEW w \in Workers, RenameUpdate(w)
  PROVE  Inv'
<1> DEFINE i == job[w].id
           t == [row EXCEPT ![i].name = job[w].name]
<1>1. job[w].op = "rename" /\ Done(w) /\ UNCHANGED <<blobs, fresh, doomed, unchecked>>
  BY DEF RenameUpdate
<1>2. row \in [Entries -> Row] /\ unchecked \subseteq Ids
  BY DEF Inv, TypeOK
<1>3. job[w].name \in Names
  BY <1>1, JobFields DEF Inv, RenameJob
<1>4. row' = row \/ (i \in Entries /\ row' = t)
  BY DEF RenameUpdate, Statement
<1>5. /\ DOMAIN row' = Entries /\ row' \in [DOMAIN row' -> Row]
      /\ \A j \in DOMAIN row' : row'[j].user = row[j].user /\ row'[j].kind = row[j].kind
      /\ OwnersAgree'
  <2>1. CASE row' = row
    BY <1>2, <2>1, RewriteRows
  <2>2. CASE i \in Entries /\ row' = t
    <3>1. \A j \in Entries : t[j] = IF j = i THEN [row[i] EXCEPT !.name = job[w].name]
                                             ELSE row[j]
      BY <1>2, <2>2
    <3> DEFINE r == [row[i] EXCEPT !.name = job[w].name]
    <3>a. row[i] \in Row
      BY <1>2, <2>2
    <3>b. r \in Row /\ r.user = row[i].user /\ r.kind = row[i].kind /\ r.parent = row[i].parent
      BY <1>3, <3>a DEF Row
    <3>c. DOMAIN t = Entries /\ t = [j \in DOMAIN t |-> t[j]]
      BY <1>2
    <3> HIDE DEF t, r
    <3>2. \A j \in Entries : /\ t[j] \in Row
                             /\ t[j].user = row[j].user
                             /\ t[j].kind = row[j].kind
                             /\ t[j].parent = row[j].parent
      BY <1>2, <3>b, <3>1 DEF r
    <3>3. t \in [Entries -> Row]
      BY <3>c, <3>2
    <3> QED
      BY <2>2, <3>2, <3>3, RewriteRows
  <2> QED
    BY <1>4, <2>1, <2>2
<1> QED
  BY <1>1, <1>2, <1>5, TableStep

(* move_item hangs a row below a folder of its own user. *)
LEMMA MoveItemStep ==
  ASSUME Inv, NEW u \in Users, NEW i \in Ids, NEW target \in Parents, MoveItem(u, i, target)
  PROVE  Inv'
<1> DEFINE t == [row EXCEPT ![i].parent = target]
<1>1. /\ i \in Entries /\ row[i].user = u
      /\ target # Root => target \in Entries /\ row[target].user = u
      /\ UNCHANGED <<blobs, fresh, job, doomed, unchecked>>
      /\ row' = t \/ row' = row
  BY DEF MoveItem, Owned, ParentOk, Statement
<1>2. row \in [Entries -> Row] /\ unchecked \subseteq Ids
  BY DEF Inv, TypeOK
<1>3. /\ \A j \in Entries : j # i => t[j] = row[j]
      /\ t[i] = [row[i] EXCEPT !.parent = target]
      /\ DOMAIN t = Entries
  BY <1>1, <1>2
<1> DEFINE r == [row[i] EXCEPT !.parent = target]
<1>a. row[i] \in Row
  BY <1>1, <1>2
<1>b. r \in Row /\ r.user = row[i].user /\ r.kind = row[i].kind /\ r.parent = target
  BY <1>a DEF Row
<1>c. t = [j \in DOMAIN t |-> t[j]]
  BY <1>2
<1> HIDE DEF t, r
<1>4. t[i] = r
  BY <1>3 DEF r
<1>5. t \in [Entries -> Row]
  BY <1>2, <1>3, <1>4, <1>b, <1>c
<1>6. /\ DOMAIN row' = Entries /\ row' \in [DOMAIN row' -> Row]
      /\ \A j \in DOMAIN row' : row'[j].user = row[j].user /\ row'[j].kind = row[j].kind
  BY <1>1, <1>2, <1>3, <1>4, <1>5, <1>b
<1>7. OwnersAgree'
  <2>1. CASE row' = row
    BY <2>1 DEF Inv, OwnersAgree, Entries
  <2>2. CASE row' = t
    <3>1. ASSUME NEW j \in DOMAIN row', row'[j].parent # Root
          PROVE  row'[j].parent \in Entries /\ row[row'[j].parent].user = row[j].user
      <4>1. CASE j = i
        BY <1>1, <1>4, <1>b, <2>2, <3>1, <4>1
      <4>2. CASE j # i
        BY <1>3, <1>6, <2>2, <3>1, <4>2 DEF Inv, OwnersAgree
      <4> QED
        BY <4>1, <4>2
    <3> QED
      BY <1>6, <3>1 DEF OwnersAgree, Entries
  <2> QED
    BY <1>1, <2>1, <2>2
<1> QED
  BY <1>1, <1>2, <1>6, <1>7, TableStep

(* permanent_delete, empty_trash and the clean-up task: rows are deleted *)
LEMMA DeleteStep ==
  ASSUME Inv, TrashCleanup \/ \E w \in Workers : PurgeRows(w) \/ EmptyRows(w)
  PROVE  Inv'
<1>1. PICK S : /\ row' = Without(S)
               /\ \A k \in Entries : row[k].parent \in S => k \in S
  BY DescendantsClosed, CascadeClosed DEF TrashCleanup, PurgeRows, EmptyRows
<1>2. /\ UNCHANGED <<blobs, fresh, doomed, unchecked>>
      /\ job' = job \/ \E w \in Workers : Done(w)
  BY DEF TrashCleanup, PurgeRows, EmptyRows
<1>3. /\ DOMAIN row' \subseteq Ids /\ row' \in [DOMAIN row' -> Row]
      /\ OwnersAgree'
      /\ \A i \in DOMAIN row' : i \in Entries /\ row'[i] = row[i]
  BY <1>1, DeleteRows
<1> QED
  BY <1>2, <1>3, TableStep DEF Inv, TypeOK

-----------------------------------------------------------------------------
(* Every step of the system keeps the invariant. *)
LEMMA InvNext == Inv /\ [Next]_vars => Inv'
<1> SUFFICES ASSUME Inv, [Next]_vars PROVE Inv'
  OBVIOUS
<1>1. CASE Request
  BY <1>1, CreateFolderStep, DeleteItemStep, MoveItemStep, UploadCheckStep,
     EmptyReadStep, CheckStep DEF Request
<1>2. ASSUME NEW w \in Workers, Continue(w) \/ Abort(w) PROVE Inv'
  BY <1>2, UploadStoreStep, UploadInsertStep, RenameUpdateStep, RestoreUpdateStep,
     PurgeReadStep, PurgeBlobStep, DeleteStep, AbortStep DEF Continue
<1>3. CASE TrashCleanup
  BY <1>3, DeleteStep
<1>4. CASE UNCHANGED vars
  BY <1>4 DEF vars, Inv, TypeOK, OwnersAgree, IdsOnce, DanglingOnlyByPurge, JobOwn,
     Settled, Reserved, Uploading, Entries
<1> QED
  BY <1>1, <1>2, <1>3, <1>4 DEF Next

(* The inductive invariant holds throughout, for any number of users, entries
   and concurrent requests. *)
THEOREM FileTreeInvariant == Spec => []Inv
BY InvInit, InvNext, PTL DEF Spec

(* Tables and requests keep their shape: no handler stores a malformed row. *)
THEOREM FileTreeTypeOK == Spec => []TypeOK
<1>1. Inv => TypeOK
  BY DEF Inv
<1> QED
  BY FileTreeInvariant, <1>1, PTL

(* Every entry hangs below an entry of the same user, although the upload
   handlers check the parent's owner before they store the contents and insert
   the row afterwards. *)
THEOREM FileTreeOwnersAgree == Spec => []OwnersAgree
<1>1. Inv => OwnersAgree
  BY DEF Inv
<1> QED
  BY FileTreeInvariant, <1>1, PTL

(* permanent_delete and empty_trash delete contents of their own user only,
   although they list the paths in one statement and delete them later. *)
THEOREM FileTreePurgesOwnPaths == Spec => []PurgesOwnPaths
<1>1. Inv => PurgesOwnPaths
  BY DEF Inv, JobOwn, Settled, PurgesOwnPaths
<1> QED
  BY FileTreeInvariant, <1>1, PTL

(* Only a purge makes an entry that cannot be downloaded: no upload, rename,
   move, restore, clean-up or crash does. *)
THEOREM FileTreeDanglingOnlyByPurge == Spec => []DanglingOnlyByPurge
<1>1. Inv => DanglingOnlyByPurge
  BY DEF Inv
<1> QED
  BY FileTreeInvariant, <1>1, PTL

-----------------------------------------------------------------------------
(* A step that leaves what exists alone, or touches one user's entries. *)
LEMMA OneUserBy ==
  ASSUME NEW u \in Users,
         \A i \in Entries : row[i].user # u => i \in DOMAIN row' /\ row'[i] = row[i]
  PROVE  OneUser
BY DEF OneUser

(* delete_item, move_item and create_folder, by their user *)
LEMMA RequestOneUser ==
  ASSUME Inv, NEW u \in Users, NEW i \in Ids, NEW p \in Parents, NEW n \in Names,
         DeleteItem(u, i) \/ MoveItem(u, i, p) \/ CreateFolder(u, p, n)
  PROVE  OneUser
<1>1. row \in [Entries -> Row]
  BY DEF Inv, TypeOK
<1>2. CASE DeleteItem(u, i)
  <2>1. \A j \in Descendants(i) : row[j].user = u
    BY <1>2, DescendantsOneUser DEF DeleteItem, Owned, Inv
  <2>2. SetTrashed(Descendants(i), TRUE)
    BY <1>2 DEF DeleteItem
  <2>3. \A j \in Entries : row[j].user # u => j \in DOMAIN row' /\ row'[j] = row[j]
    BY <1>1, <2>1, <2>2 DEF SetTrashed, Statement
  <2> QED
    BY <2>3, OneUserBy
<1>3. CASE MoveItem(u, i, p)
  <2>1. \A j \in Entries : row[j].user # u => j \in DOMAIN row' /\ row'[j] = row[j]
    BY <1>1, <1>3 DEF MoveItem, Owned, Statement
  <2> QED
    BY <2>1, OneUserBy
<1>4. CASE CreateFolder(u, p, n)
  <2>1. PICK k \in fresh : \E r : row' = With(k, r)
    BY <1>4 DEF CreateFolder
  <2>2. k \notin Entries
    BY DEF Inv, IdsOnce, Reserved
  <2>3. \A j \in Entries : j \in DOMAIN row' /\ row'[j] = row[j]
    BY <2>1, <2>2 DEF With
  <2> QED
    BY <2>3, OneUserBy
<1> QED
  BY <1>2, <1>3, <1>4

(* What a request in flight does to the table, by the user it began for *)
LEMMA ContinueOneUser ==
  ASSUME Inv, NEW w \in Workers, Continue(w) \/ Abort(w)
  PROVE  OneUser
<1> DEFINE u == job[w].user
<1>1. row \in [Entries -> Row]
  BY DEF Inv, TypeOK
<1>2. job[w] # Idle
  <2>1. CASE Abort(w)
    BY <2>1 DEF Abort, Busy
  <2>2. CASE UploadStore(w) \/ PurgeRead(w) \/ PurgeBlob(w)
    BY <2>2 DEF UploadStore, PurgeRead, PurgeBlob, Idle
  <2>3. CASE UploadInsert(w) \/ RenameUpdate(w) \/ RestoreUpdate(w)
    <3>1. job[w].op \in {"stored", "rename", "restore"}
      BY <2>3 DEF UploadInsert, RenameUpdate, RestoreUpdate
    <3> QED
      BY <3>1 DEF Idle
  <2>4. CASE PurgeRows(w) \/ EmptyRows(w)
    BY <2>4 DEF PurgeRows, EmptyRows, Idle
  <2> QED
    BY <2>1, <2>2, <2>3, <2>4 DEF Continue
<1>3. u \in Users
  BY <1>2, JobFields DEF Inv
<1>4. SUFFICES \A j \in Entries : row[j].user # u => j \in DOMAIN row' /\ row'[j] = row[j]
  BY <1>3, OneUserBy
<1>5. CASE UploadStore(w) \/ PurgeRead(w) \/ PurgeBlob(w) \/ Abort(w)
  BY <1>5 DEF UploadStore, PurgeRead, PurgeBlob, Abort, Entries
<1>6. CASE UploadInsert(w)
  <2>1. job[w].id \notin Entries
    BY <1>6 DEF UploadInsert, Inv, IdsOnce, Reserved, Uploading
  <2>2. row' = row \/ row' = With(job[w].id, UploadRow(w, job[w].size))
    BY <1>6 DEF UploadInsert, UploadEnd
  <2> QED
    BY <2>1, <2>2 DEF With, Entries
<1>7. CASE RenameUpdate(w)
  <2>1. job[w].op = "rename"
    BY <1>7 DEF RenameUpdate
  <2>2. job[w].id \in Entries => row[job[w].id].user = u
    BY <2>1 DEF Inv, JobOwn, Settled
  <2> QED
    BY <1>1, <1>7, <2>2 DEF RenameUpdate, Statement
<1>8. CASE RestoreUpdate(w) \/ PurgeRows(w)
  <2>1. job[w].op \in {"restore", "purging"}
    BY <1>8 DEF RestoreUpdate, PurgeRows
  <2>2. job[w].id \in Entries => row[job[w].id].user = u
    BY <2>1 DEF Inv, JobOwn, Settled
  <2>3. \A j \in Descendants(job[w].id) : row[j].user = u
    BY <2>2, DescendantsOneUser DEF Inv
  <2>4. \/ SetTrashed(Descendants(job[w].id), FALSE)
        \/ row' = Without(Descendants(job[w].id))
    BY <1>8 DEF RestoreUpdate, PurgeRows
  <2> QED
    BY <1>1, <2>3, <2>4 DEF SetTrashed, Statement, Without
<1>9. CASE EmptyRows(w)
  <2> DEFINE S == {j \in Entries : row[j].user = u /\ row[j].trashed}
  <2>1. row' = Without(Cascade(S))
    BY <1>9 DEF EmptyRows
  <2>2. \A j \in Cascade(S) : row[j].user = u
    BY DescendantsOneUser DEF Cascade, Inv
  <2> HIDE DEF S
  <2> QED
    BY <2>1, <2>2 DEF Without
<1> QED
  BY <1>5, <1>6, <1>7, <1>8, <1>9 DEF Continue

(* A step touches the entries of one user, or is the clean-up task. *)
LEMMA NextOneUser ==
  ASSUME Inv, Next
  PROVE  OneUser \/ TrashCleanup
<1>1. ASSUME Request PROVE OneUser
  <2>1. PICK u \in Users :
          \/ \E p \in Parents, n \in Names : CreateFolder(u, p, n)
          \/ \E i \in Ids : DeleteItem(u, i) \/ \E p \in Parents : MoveItem(u, i, p)
          \/ row' = row
    <3>1. \A w \in Workers, u \in Users : EmptyRead(w, u) => row' = row
      BY DEF EmptyRead
    <3>2. \A w \in Workers, u \in Users, p \in Parents, n \in Names, x, y \in Sizes :
            UploadCheck(w, u, p, n, x, y) => row' = row
      BY DEF UploadCheck
    <3>3. \A w \in Workers, u \in Users, i \in Ids :
            /\ \A n \in Names : RenameCheck(w, u, i, n) => row' = row
            /\ RestoreCheck(w, u, i) \/ PurgeCheck(w, u, i) => row' = row
      BY DEF RenameCheck, RestoreCheck, PurgeCheck
    <3> QED
      BY <1>1, <3>1, <3>2, <3>3 DEF Request
  <2>2. CASE \E p \in Parents, n \in Names : CreateFolder(u, p, n)
    <3>1. PICK p \in Parents, n \in Names : CreateFolder(u, p, n)
      BY <2>2
    <3>2. PICK i \in Ids : TRUE
      BY <3>1 DEF CreateFolder, Inv, TypeOK
    <3> QED
      BY <3>1, RequestOneUser
  <2>3. ASSUME NEW i \in Ids, DeleteItem(u, i) \/ \E p \in Parents : MoveItem(u, i, p)
        PROVE  OneUser
    <3>1. PICK p \in Parents : DeleteItem(u, i) \/ MoveItem(u, i, p)
      BY <2>3 DEF Parents
    <3>2. row[i] \in Row /\ row[i].name \in Names
      BY <3>1 DEF Inv, TypeOK, DeleteItem, MoveItem, Owned, Row
    <3> QED
      BY <3>1, <3>2, RequestOneUser
  <2>4. CASE row' = row
    BY <2>4, OneUserBy DEF Entries
  <2> QED
    BY <2>1, <2>2, <2>3, <2>4
<1> QED
  BY <1>1, ContinueOneUser DEF Next

(* No request changes or deletes entries of two users: the recursive
   statements, which never look at user_id below their first row, stay within
   the tree of the user they began for, at whatever time they run. *)
THEOREM FileTreeOneUserPerStep == Spec => OneUserPerStep
<1>1. Inv /\ [Next]_vars => [OneUser \/ TrashCleanup]_vars
  BY NextOneUser
<1> QED
  BY FileTreeInvariant, <1>1, PTL DEF Spec, OneUserPerStep

-----------------------------------------------------------------------------
(* The same invariant holds with the WebDAV, the S3 front end and the uploads
   through share links running beside the API, although their look-ups and
   their statements are their own. *)

(* A request that draws the id of the file it is going to make. *)
LEMMA DrawStep ==
  ASSUME Inv, NEW w \in Workers, ~Busy(w), NEW i \in fresh, NEW J \in Job,
         J.op \in {"upload", "copy"}, J.id = i,
         J.parent = Root \/ Settled(J.parent, J.user),
         fresh' = fresh \ {i},
         job' = [job EXCEPT ![w] = J],
         UNCHANGED <<row, blobs, doomed, unchecked>>
  PROVE  Inv'
<1>1. /\ i \in Ids /\ i \in Reserved /\ row' = row /\ Entries' = Entries
      /\ blobs' = blobs /\ doomed' = doomed /\ unchecked' = unchecked
  BY DEF Inv, TypeOK, Reserved, Entries
<1>2. /\ job \in [Workers -> Job] /\ job' \in [Workers -> Job] /\ job'[w] = J
      /\ \A v \in Workers : v # w => job'[v] = job[v]
      /\ w \notin Uploading
  BY DEF Inv, TypeOK, Busy, Uploading, Idle
<1>3. TypeOK'
  BY <1>1, <1>2 DEF Inv, TypeOK
<1>4. OwnersAgree'
  BY <1>1 DEF Inv, OwnersAgree
<1>5. Uploading' = Uploading \union {w} /\ \A v \in Uploading : job'[v].id = job[v].id
  BY <1>2 DEF Uploading
<1>6. Reserved' = Reserved
  BY <1>2, <1>5 DEF Reserved, Inv, IdsOnce
<1>7. IdsOnce'
  <2>1. \A j \in (Entries \union doomed)' : j \notin Reserved'
    BY <1>1, <1>6 DEF Inv, IdsOnce
  <2>2. \A v \in Uploading' : job'[v].id \notin fresh'
    BY <1>2, <1>5 DEF Inv, IdsOnce
  <2>3. \A v, x \in Uploading' : job'[v].id = job'[x].id => v = x
    BY <1>2, <1>5 DEF Inv, IdsOnce
  <2> QED
    BY <2>1, <2>2, <2>3 DEF IdsOnce
<1>8. Frame
  BY <1>1, <1>6 DEF Frame, Entries
<1>9. JobOwn(w)'
  <2>1. J.parent = Root \/ Settled(J.parent, J.user)'
    BY <1>1, <1>6 DEF Settled
  <2> QED
    BY <1>2, <2>1 DEF JobOwn
<1>10. \A j \in DOMAIN row' : j \notin Reserved
  BY <1>1 DEF Inv, IdsOnce, Entries
<1> QED
  BY <1>2, <1>3, <1>4, <1>7, <1>8, <1>9, <1>10, InvKept

(* A request that looks an entry of its user up and will act on it by id. *)
LEMMA ItemStep ==
  ASSUME Inv, NEW w \in Workers, NEW J \in Job,
         J.op \in {"rename", "trash", "put"},
         J.id \in Entries, row[J.id].user = J.user,
         job' = [job EXCEPT ![w] = J],
         Untouched
  PROVE  Inv'
<1>1. UNCHANGED <<row, blobs, fresh, doomed, unchecked>>
  BY DEF Untouched
<1>2. job \in [Workers -> Job] /\ job'[w] = J /\ \A v \in Workers : v # w => job'[v] = job[v]
  BY DEF Inv, TypeOK
<1>3. \A v \in Uploading' : v \in Uploading /\ job'[v].id = job[v].id
  BY <1>2 DEF Uploading
<1>4. \A j \in Reserved' : j \in Reserved
  BY <1>1, <1>3 DEF Reserved
<1>5. J.id \notin Reserved'
  BY <1>4 DEF Inv, IdsOnce
<1>6. JobOwn(w)'
  BY <1>1, <1>2, <1>5 DEF JobOwn, Settled, Entries
<1> QED
  BY <1>1, <1>6, ReadStep DEF Inv, TypeOK

(* A folder on a WebDAV path will do as a parent. *)
LEMMA OnPathSettled ==
  ASSUME Inv, NEW u, NEW p, OnPath(u, p)
  PROVE  ParentOk(u, p) /\ (p = Root \/ Settled(p, u))
BY DEF OnPath, ParentOk, Owned, Settled, Inv, IdsOnce

(* The look-up of a PUT that makes a file *)
LEMMA PutNewStep ==
  ASSUME Inv, NEW w \in Workers, ~Busy(w), NEW u \in Users, NEW p \in Parents,
         NEW n \in Names, NEW size \in PutSizes, OnPath(u, p), PutNew(w, u, p, n, size)
  PROVE  Inv'
<1>1. PICK i \in fresh :
        /\ fresh' = fresh \ {i}
        /\ Begin(w, [op |-> "upload", user |-> u, id |-> i, parent |-> p, name |-> n,
                     size |-> size, declared |-> 0])
  BY DEF PutNew
<1>2. UNCHANGED <<row, blobs, doomed, unchecked>>
  BY DEF PutNew
<1> DEFINE J == [op |-> "upload", user |-> u, id |-> i, parent |-> p, name |-> n,
                 size |-> size, declared |-> 0]
<1>3. J \in UploadJob
  BY PutSizesAssumption DEF UploadJob, Inv, TypeOK
<1>4. J \in Job /\ J.op = "upload" /\ J.id = i /\ J.parent = p /\ J.user = u
  BY <1>3 DEF Job
<1>5. job' = [job EXCEPT ![w] = J]
  BY <1>1 DEF Begin
<1> HIDE DEF J
<1>6. J.parent = Root \/ Settled(J.parent, J.user)
  BY <1>4, OnPathSettled
<1> QED
  BY <1>1, <1>2, <1>4, <1>5, <1>6, DrawStep

(* The look-up of a PUT that replaces contents *)
LEMMA PutOverStep ==
  ASSUME Inv, NEW w \in Workers, NEW u \in Users, NEW i \in Ids, NEW size \in PutSizes,
         Owned(u, i), PutOver(w, u, i, size)
  PROVE  Inv'
<1> DEFINE J == [op |-> "put", user |-> u, id |-> i, size |-> size]
<1>1. J \in PutJob
  BY PutSizesAssumption DEF PutJob
<1>2. J \in Job /\ J.op = "put" /\ J.id = i /\ J.user = u
  BY <1>1 DEF Job
<1>3. job' = [job EXCEPT ![w] = J] /\ Untouched
  BY DEF PutOver, Begin
<1> HIDE DEF J
<1> QED
  BY <1>2, <1>3, ItemStep DEF Owned

(* The look-ups of DELETE and MOVE *)
LEMMA WebdavItemStep ==
  ASSUME Inv, NEW w \in Workers, NEW u \in Users, NEW i \in Ids, NEW n \in Names,
         Owned(u, i), WebdavDelete(w, u, i) \/ WebdavMove(w, u, i, n)
  PROVE  Inv'
<1>1. CASE WebdavDelete(w, u, i)
  <2> DEFINE J == [op |-> "trash", user |-> u, id |-> i]
  <2>1. J \in ItemJob
    BY DEF ItemJob
  <2>2. J \in Job /\ J.op = "trash" /\ J.id = i /\ J.user = u
    BY <2>1 DEF Job
  <2>3. job' = [job EXCEPT ![w] = J] /\ Untouched
    BY <1>1 DEF WebdavDelete, Begin
  <2> HIDE DEF J
  <2> QED
    BY <2>2, <2>3, ItemStep DEF Owned
<1>2. CASE WebdavMove(w, u, i, n)
  <2> DEFINE J == [op |-> "rename", user |-> u, id |-> i, name |-> n]
  <2>1. J \in RenameJob
    BY DEF RenameJob
  <2>2. J \in Job /\ J.op = "rename" /\ J.id = i /\ J.user = u
    BY <2>1 DEF Job
  <2>3. job' = [job EXCEPT ![w] = J] /\ Untouched
    BY <1>2 DEF WebdavMove, Begin
  <2> HIDE DEF J
  <2> QED
    BY <2>2, <2>3, ItemStep DEF Owned
<1> QED
  BY <1>1, <1>2

(* The look-up of COPY: the parent of an entry is of the same user. *)
LEMMA WebdavCopyStep ==
  ASSUME Inv, NEW w \in Workers, ~Busy(w), NEW u \in Users, NEW i \in Ids, NEW n \in Names,
         Owned(u, i), WebdavCopy(w, u, i, n)
  PROVE  Inv'
<1>1. PICK k \in fresh :
        /\ fresh' = fresh \ {k}
        /\ Begin(w, [op |-> "copy", user |-> u, id |-> k, parent |-> row[i].parent,
                     name |-> n, size |-> row[i].size, from |-> i])
  BY DEF WebdavCopy
<1>2. UNCHANGED <<row, blobs, doomed, unchecked>>
  BY DEF WebdavCopy
<1>3. i \in Entries /\ row[i] \in Row /\ row[i].user = u /\ k \in Ids
  BY DEF Owned, Inv, TypeOK
<1> DEFINE J == [op |-> "copy", user |-> u, id |-> k, parent |-> row[i].parent,
                 name |-> n, size |-> row[i].size, from |-> i]
<1>4. J \in CopyJob
  BY <1>3 DEF CopyJob, Row
<1>5. J \in Job /\ J.op = "copy" /\ J.id = k /\ J.parent = row[i].parent /\ J.user = u
  BY <1>4 DEF Job
<1>6. job' = [job EXCEPT ![w] = J]
  BY <1>1 DEF Begin
<1> HIDE DEF J
<1>7. J.parent = Root \/ Settled(J.parent, J.user)
  BY <1>3, <1>5 DEF Settled, Inv, OwnersAgree, IdsOnce
<1> QED
  BY <1>1, <1>2, <1>5, <1>6, <1>7, DrawStep

-----------------------------------------------------------------------------
(* PUT: contents are written in place *)
LEMMA PutWriteStep ==
  ASSUME Inv, NEW w \in Workers, PutWrite(w)
  PROVE  Inv'
<1> DEFINE J == [job[w] EXCEPT !.op = "written"]
<1>1. /\ job[w].op = "put" /\ blobs' = blobs \union {job[w].id}
      /\ UNCHANGED <<row, fresh, doomed, unchecked>>
      /\ job \in [Workers -> Job]
      /\ job' = [job EXCEPT ![w] = J]
  BY DEF PutWrite, Inv, TypeOK
<1>2. job[w] \in PutJob
  BY <1>1, JobFields DEF Inv
<1>3. /\ J \in PutJob /\ J.op = "written" /\ J.id = job[w].id /\ J.user = job[w].user
      /\ job[w].id \in Ids
  BY <1>2 DEF PutJob
<1> HIDE DEF J
<1>4. J \in Job /\ job'[w] = J /\ \A v \in Workers : v # w => job'[v] = job[v]
  BY <1>1, <1>3 DEF Job
<1>5. \A v \in Uploading' : v \in Uploading /\ job'[v].id = job[v].id
  BY <1>3, <1>4 DEF Uploading
<1>6. \A j \in Reserved' : j \in Reserved
  BY <1>1, <1>5 DEF Reserved
<1>7. /\ job[w].id \notin Reserved'
      /\ job[w].id \in Entries' => row'[job[w].id].user = job[w].user
  BY <1>1, <1>6 DEF Settled, Entries, Inv, JobOwn
<1>8. JobOwn(w)'
  <2>1. job'[w].op = "written" /\ job'[w].id = job[w].id /\ job'[w].user = job[w].user
    BY <1>3, <1>4
  <2>2. job[w].id \in blobs'
    BY <1>1
  <2> QED
    BY <1>7, <2>1, <2>2 DEF JobOwn, Settled
<1>9. blobs' \subseteq Ids
  BY <1>1, <1>3 DEF Inv, TypeOK
<1> QED
  BY <1>1, <1>3, <1>4, <1>8, <1>9, ReadStep

(* PUT: the UPDATE gives the entry its size, and a folder contents *)
LEMMA PutUpdateStep ==
  ASSUME Inv, NEW w \in Workers, PutUpdate(w)
  PROVE  Inv'
<1> DEFINE i == job[w].id
           r == [row[i] EXCEPT !.size = job[w].size,
                               !.kind = IF @ = "folder" THEN "filled" ELSE @]
<1>1. /\ job[w].op = "written" /\ Done(w) /\ UNCHANGED <<blobs, fresh, doomed>>
      /\ unchecked' = unchecked \union ({i} \intersect Entries)
  BY DEF PutUpdate
<1>2. row \in [Entries -> Row] /\ unchecked' \subseteq Ids
  BY <1>1 DEF Inv, TypeOK
<1>3. job[w].size \in Sizes
  BY <1>1, JobFields DEF Inv, PutJob
<1>4. i \in blobs \union doomed
  BY <1>1 DEF Inv, JobOwn
<1>5. /\ DOMAIN row' = Entries /\ row' \in [DOMAIN row' -> Row]
      /\ \A j \in DOMAIN row' : /\ row'[j].user = row[j].user
                                /\ row'[j].parent = row[j].parent
                                /\ row'[j].kind = row[j].kind \/ j = i
  <2>1. CASE i \notin Entries
    <3>1. row' = row
      BY <2>1 DEF PutUpdate
    <3> QED
      BY <1>2, <3>1
  <2>2. CASE i \in Entries
    <3>1. row[i] \in Row
      BY <1>2, <2>2
    <3>2. r \in Row /\ r.user = row[i].user /\ r.parent = row[i].parent
      BY <1>3, <3>1 DEF Row
    <3>3. row' = [row EXCEPT ![i] = r]
      BY <1>2, <2>2 DEF PutUpdate
    <3> HIDE DEF i, r
    <3> QED
      BY <1>2, <2>2, <3>2, <3>3
  <2> QED
    BY <2>1, <2>2
<1>6. OwnersAgree'
  BY <1>5 DEF Inv, OwnersAgree, Entries
<1> QED
  BY <1>1, <1>2, <1>4, <1>5, <1>6, TableStep

(* DELETE of WebDAV and of S3 *)
LEMMA FrontTrashStep ==
  ASSUME Inv,
         \/ \E w \in Workers : TrashUpdate(w)
         \/ \E u \in Users, n \in Names : DeleteObject(u, n)
  PROVE  Inv'
<1>1. PICK S : SetTrashed(S, TRUE)
  BY DEF TrashUpdate, DeleteObject
<1>2. /\ UNCHANGED <<blobs, fresh, doomed, unchecked>>
      /\ job' = job \/ \E w \in Workers : Done(w)
  BY DEF TrashUpdate, DeleteObject
<1> QED
  BY <1>1, <1>2, TrashRows, TableStep DEF Inv, TypeOK

(* COPY: the contents are copied *)
LEMMA CopyStoreStep ==
  ASSUME Inv, NEW w \in Workers, CopyStore(w)
  PROVE  Inv'
<1> DEFINE J == [op |-> "stored", user |-> job[w].user, id |-> job[w].id,
                 parent |-> job[w].parent, name |-> job[w].name, size |-> job[w].size,
                 declared |-> 0]
<1>1. /\ row' = row /\ Entries' = Entries /\ fresh' = fresh
      /\ doomed' = doomed /\ unchecked' = unchecked
      /\ job \in [Workers -> Job] /\ job[w].op = "copy"
      /\ blobs' = blobs \union {job[w].id}
      /\ job' = [job EXCEPT ![w] = J]
  BY DEF CopyStore, Inv, TypeOK, Entries
<1>2. job[w] \in CopyJob
  BY <1>1, JobFields DEF Inv
<1>3. /\ J \in UploadJob /\ J.op = "stored" /\ J.id = job[w].id
      /\ J.parent = job[w].parent /\ J.user = job[w].user
      /\ job[w].id \in Ids
  BY <1>2 DEF UploadJob, CopyJob
<1> HIDE DEF J
<1>4. /\ job'[w] = J /\ job' \in [Workers -> Job]
      /\ \A v \in Workers : v # w => job'[v] = job[v]
  BY <1>1, <1>3 DEF Job
<1>5. TypeOK'
  BY <1>1, <1>3, <1>4 DEF Inv, TypeOK
<1>6. OwnersAgree'
  BY <1>1 DEF Inv, OwnersAgree
<1>7. Uploading' = Uploading /\ \A v \in Uploading : job'[v].id = job[v].id
  BY <1>1, <1>3, <1>4 DEF Uploading
<1>8. IdsOnce' /\ \A i \in Reserved' : i \in Reserved
  BY <1>1, <1>7, IdsKept DEF Entries
<1>9. Frame
  BY <1>1, <1>8 DEF Frame, Entries
<1>10. JobOwn(w)'
  <2>1. job[w].parent = Root \/ Settled(job[w].parent, job[w].user)
    BY <1>1 DEF Inv, JobOwn
  <2>2. job[w].parent = Root \/ (job[w].parent \notin Reserved'
          /\ (job[w].parent \in Entries' => row'[job[w].parent].user = job[w].user))
    BY <1>1, <1>8, <2>1 DEF Settled
  <2> QED
    BY <1>1, <1>3, <1>4, <2>2 DEF JobOwn, Settled
<1>11. \A j \in DOMAIN row' : j \notin Reserved
  BY <1>1 DEF Inv, IdsOnce, Entries
<1> QED
  BY <1>4, <1>5, <1>6, <1>8, <1>9, <1>10, <1>11, InvKept

(* MKCOL is a create_folder that looks at more. *)
LEMMA MkcolStep ==
  ASSUME Inv, NEW u \in Users, NEW p \in Parents, NEW n \in Names, Mkcol(u, p, n)
  PROVE  CreateFolder(u, p, n)
<1>1. ParentOk(u, p)
  BY OnPathSettled DEF Mkcol
<1> QED
  BY <1>1 DEF Mkcol, CreateFolder

(* An upload through a link is an upload of the owner. *)
LEMMA UploadSharedStep ==
  ASSUME Inv, NEW w \in Workers, NEW u \in Users, NEW i \in Ids, NEW n \in Names,
         NEW size \in Sizes, UploadShared(w, u, i, n, size)
  PROVE  \E p \in Parents : UploadCheck(w, u, p, n, size, size)
<1>1. i \in Entries /\ row[i].parent \in Parents /\ i \in Parents
  BY DEF UploadShared, Owned, Inv, TypeOK, Row, Parents
<1> QED
  BY <1>1 DEF UploadShared

(* The requests of the front ends *)
LEMMA FrontRequestStep ==
  ASSUME Inv, NEW w \in Workers, FrontRequest(w)
  PROVE  Inv'
<1>1. ~Busy(w)
  BY DEF FrontRequest
<1>2. PICK u \in Users :
        \/ \E p \in Parents :
             /\ OnPath(u, p)
             /\ \E n \in Names, s \in PutSizes : PutNew(w, u, p, n, s)
        \/ \E i \in Ids :
             /\ Resolved(u, i)
             /\ \/ \E s \in PutSizes : PutOver(w, u, i, s)
                \/ WebdavDelete(w, u, i)
                \/ \E n \in Names : WebdavMove(w, u, i, n) \/ WebdavCopy(w, u, i, n)
        \/ \E n \in Names, s \in PutSizes : PutObject(w, u, n, s)
        \/ \E i \in Ids, n \in Names, s \in Sizes : UploadShared(w, u, i, n, s)
  BY DEF FrontRequest
<1>3. ASSUME NEW p \in Parents, NEW n \in Names, NEW s \in PutSizes,
             OnPath(u, p), PutNew(w, u, p, n, s)
      PROVE  Inv'
  BY <1>1, <1>3, PutNewStep
<1>4. ASSUME NEW i \in Ids, Resolved(u, i),
             \/ \E s \in PutSizes : PutOver(w, u, i, s)
             \/ WebdavDelete(w, u, i)
             \/ \E n \in Names : WebdavMove(w, u, i, n) \/ WebdavCopy(w, u, i, n)
      PROVE  Inv'
  <2>1. Owned(u, i)
    BY <1>4 DEF Resolved
  <2>2. \E n \in Names : TRUE
    BY <2>1 DEF Owned, Inv, TypeOK, Row
  <2> QED
    BY <1>1, <1>4, <2>1, <2>2, PutOverStep, WebdavItemStep, WebdavCopyStep
<1>5. ASSUME NEW n \in Names, NEW s \in PutSizes, PutObject(w, u, n, s)
      PROVE  Inv'
  <2>1. \/ PutNew(w, u, Root, n, s)
        \/ \E i \in Entries : row[i].user = u /\ PutOver(w, u, i, s)
    BY <1>5 DEF PutObject
  <2>2. OnPath(u, Root) /\ Root \in Parents /\ Entries \subseteq Ids
    BY DEF OnPath, Parents, Inv, TypeOK
  <2> QED
    BY <1>1, <2>1, <2>2, PutNewStep, PutOverStep DEF Owned
<1>6. ASSUME NEW i \in Ids, NEW n \in Names, NEW s \in Sizes, UploadShared(w, u, i, n, s)
      PROVE  Inv'
  BY <1>6, UploadSharedStep, UploadCheckStep
<1> QED
  BY <1>2, <1>3, <1>4, <1>5, <1>6

-----------------------------------------------------------------------------
(* Every step, of the API and of the front ends, keeps the invariant. *)
LEMMA FrontInvNext == Inv /\ [FrontNext]_vars => Inv'
<1> SUFFICES ASSUME Inv, [FrontNext]_vars PROVE Inv'
  OBVIOUS
<1>1. CASE [Next]_vars
  BY <1>1, InvNext
<1>2. ASSUME NEW w \in Workers, FrontRequest(w) \/ FrontContinue(w) PROVE Inv'
  BY <1>2, FrontRequestStep, PutWriteStep, PutUpdateStep, FrontTrashStep, CopyStoreStep
     DEF FrontContinue
<1>3. ASSUME NEW u \in Users, NEW n \in Names,
             DeleteObject(u, n) \/ \E p \in Parents : Mkcol(u, p, n)
      PROVE  Inv'
  BY <1>3, FrontTrashStep, MkcolStep, CreateFolderStep
<1> QED
  BY <1>1, <1>2, <1>3 DEF FrontNext

(* The inductive invariant holds with all front ends running, for any number of
   users, entries and concurrent requests. *)
THEOREM FrontInvariant == FrontSpec => []Inv
BY InvInit, FrontInvNext, PTL DEF FrontSpec

(* Tables and requests keep their shape, a folder with contents included. *)
THEOREM FrontTypeOK == FrontSpec => []TypeOK
<1>1. Inv => TypeOK
  BY DEF Inv
<1> QED
  BY FrontInvariant, <1>1, PTL

(* Every entry hangs below an entry of the same user: neither a look-up by path
   nor one by an object's key crosses into another user's tree. *)
THEOREM FrontOwnersAgree == FrontSpec => []OwnersAgree
<1>1. Inv => OwnersAgree
  BY DEF Inv
<1> QED
  BY FrontInvariant, <1>1, PTL

(* A purge deletes contents of its own user's entries only, whatever the front
   ends replace or copy meanwhile. *)
THEOREM FrontPurgesOwnPaths == FrontSpec => []PurgesOwnPaths
<1>1. Inv => PurgesOwnPaths
  BY DEF Inv, JobOwn, Settled, PurgesOwnPaths
<1> QED
  BY FrontInvariant, <1>1, PTL

(* Only a purge makes an entry that cannot be downloaded: a COPY whose source is
   purged under it, and a PUT into an entry that moves or goes, do not. *)
THEOREM FrontDanglingOnlyByPurge == FrontSpec => []DanglingOnlyByPurge
<1>1. Inv => DanglingOnlyByPurge
  BY DEF Inv
<1> QED
  BY FrontInvariant, <1>1, PTL

-----------------------------------------------------------------------------
(* What a front end's request in flight does to the table, by its user *)
LEMMA FrontContinueOneUser ==
  ASSUME Inv, NEW w \in Workers, FrontContinue(w)
  PROVE  OneUser
<1> DEFINE u == job[w].user
<1>1. row \in [Entries -> Row]
  BY DEF Inv, TypeOK
<1>2. job[w].op \in {"put", "written", "trash", "copy"}
  BY DEF FrontContinue, PutWrite, PutUpdate, TrashUpdate, CopyStore
<1>3. u \in Users
  BY <1>2, JobFields DEF Inv, Idle
<1>4. SUFFICES \A j \in Entries : row[j].user # u => j \in DOMAIN row' /\ row'[j] = row[j]
  BY <1>3, OneUserBy
<1>5. CASE PutWrite(w) \/ CopyStore(w)
  BY <1>5 DEF PutWrite, CopyStore, Entries
<1>6. CASE PutUpdate(w) \/ TrashUpdate(w)
  <2>1. job[w].op \in {"written", "trash"}
    BY <1>6 DEF PutUpdate, TrashUpdate
  <2>2. job[w].id \in Entries => row[job[w].id].user = u
    BY <2>1 DEF Inv, JobOwn, Settled
  <2>3. CASE PutUpdate(w)
    BY <1>1, <2>2, <2>3 DEF PutUpdate
  <2>4. CASE TrashUpdate(w)
    BY <1>1, <2>2, <2>4 DEF TrashUpdate, SetTrashed, Statement
  <2> QED
    BY <1>6, <2>3, <2>4
<1> QED
  BY <1>5, <1>6 DEF FrontContinue

(* The requests only read the table. *)
LEMMA FrontRequestReads ==
  ASSUME NEW w \in Workers, FrontRequest(w)
  PROVE  row' = row /\ \E u \in Users : TRUE
BY DEF FrontRequest, PutNew, PutOver, WebdavDelete, WebdavMove, WebdavCopy, PutObject,
       UploadShared, UploadCheck, Untouched

(* DeleteObject trashes entries of its user *)
LEMMA DeleteObjectOneUser ==
  ASSUME Inv, NEW u \in Users, NEW n \in Names, DeleteObject(u, n)
  PROVE  OneUser
<1>1. row \in [Entries -> Row]
  BY DEF Inv, TypeOK
<1>2. \A j \in Entries : row[j].user # u => j \in DOMAIN row' /\ row'[j] = row[j]
  BY <1>1 DEF DeleteObject, SetTrashed, Statement
<1> QED
  BY <1>2, OneUserBy

(* No request of any front end changes or deletes entries of two users, although
   S3 names objects by the last segment of their key alone and the UPDATEs of
   WebDAV name entries by id alone. *)
THEOREM FrontOneUserPerStep == FrontSpec => OneUserPerStep
<1>1. Inv /\ [FrontNext]_vars => [OneUser \/ TrashCleanup]_vars
  <2> SUFFICES ASSUME Inv, FrontNext PROVE OneUser \/ TrashCleanup
    OBVIOUS
  <2>1. CASE Next
    BY <2>1, NextOneUser
  <2>2. ASSUME NEW w \in Workers, FrontRequest(w) PROVE OneUser
    BY <2>2, FrontRequestReads, OneUserBy DEF Entries
  <2>3. ASSUME NEW u \in Users, NEW n \in Names, NEW p \in Parents, Mkcol(u, p, n)
        PROVE  OneUser \/ TrashCleanup
    <3>1. CreateFolder(u, p, n)
      BY <2>3, MkcolStep
    <3>2. Next
      BY <3>1 DEF Next, Request
    <3> QED
      BY <3>2, NextOneUser
  <2> QED
    BY <2>1, <2>2, <2>3, FrontContinueOneUser, DeleteObjectOneUser DEF FrontNext
<1> QED
  BY FrontInvariant, <1>1, PTL DEF FrontSpec, OneUserPerStep

-----------------------------------------------------------------------------
(* The quota.  Uploads that have passed the check and not yet inserted their row
   are bytes to come; QuotaKept counts them with the bytes that are there. *)

(* The entries whose bytes a quota check has seen. *)
Checked(u) == {i \in Entries \ unchecked : row[i].user = u /\ ~row[i].trashed}

(* The uploads of u that have passed a check of the usage and hold no more than
   declared. *)
Pending(u) == {w \in Workers : /\ job[w].op \in {"upload", "stored"}
                               /\ job[w].user = u
                               /\ job[w].id \notin unchecked
                               /\ job[w].size <= job[w].declared}

PendingBytes(u) == UNION {{w} \X (1 .. job[w].size) : w \in Pending(u)}

(* One upload of the largest size for every other worker. *)
Slack == (Cardinality(Workers) - 1) * MaxSize

QuotaKept ==
  \A u \in Users :
    Cardinality(Bytes(Checked(u))) + Cardinality(PendingBytes(u)) <= Quota + Slack

(* The inductive invariant of the quota; the table is finite. *)
QuotaInv == TypeOK /\ IsFiniteSet(Entries) /\ QuotaKept

(* What a row must be after a step for its checked bytes not to be new ones. *)
RowsQuiet ==
  /\ unchecked \subseteq unchecked'
  /\ \A i \in DOMAIN row' : i \notin unchecked' /\ ~row'[i].trashed =>
       \/ row'[i].size = 0
       \/ /\ i \in Entries \ unchecked /\ ~row[i].trashed
          /\ row'[i].user = row[i].user /\ row'[i].size = row[i].size

(* What a request must be after a step for its bytes not to be new ones. *)
JobsQuiet ==
  \A w \in Workers : job'[w].op \in {"upload", "stored"} =>
    \/ job'[w].size = 0
    \/ ~(job'[w].size <= job'[w].declared)
    \/ job'[w].id \in unchecked'
    \/ /\ job[w].op \in {"upload", "stored"} /\ job'[w].id = job[w].id
       /\ job'[w].user = job[w].user /\ job'[w].size = job[w].size
       /\ job'[w].declared = job[w].declared

(* A step that adds at most one row and no bytes. *)
Quiet == RowsQuiet /\ JobsQuiet /\ \E k : DOMAIN row' \subseteq Entries \union {k}

LEMMA MaxSizeType ==
  MaxSize \in Nat /\ \A s \in Sizes \union {0} : s \in Nat /\ s <= MaxSize
<1>1. MaxSize \in Sizes /\ \A s \in Sizes : s <= MaxSize
  BY SizesAssumption DEF MaxSize
<1> QED
  BY <1>1, SizesAssumption

(* The slack is a number. *)
LEMMA SlackType ==
  /\ Slack \in Nat
  /\ \A w \in Workers : /\ IsFiniteSet(Workers \ {w})
                        /\ Cardinality(Workers \ {w}) = Cardinality(Workers) - 1
<1>1. PICK w \in Workers : TRUE
  BY WorkersAssumption
<1>2. \A v \in Workers : /\ IsFiniteSet(Workers \ {v})
                         /\ Cardinality(Workers \ {v}) = Cardinality(Workers) - 1
  BY WorkersAssumption, FS_RemoveElement
<1>3. Cardinality(Workers) - 1 \in Nat
  <2>1. Cardinality(Workers \ {w}) \in Nat
    BY <1>2, FS_CardinalityType
  <2> QED
    BY <1>2, <2>1
<1>4. Slack \in Nat
  <2>1. \A a, b \in Nat : a * b \in Nat
    OBVIOUS
  <2> QED
    BY <1>3, <2>1, MaxSizeType DEF Slack
<1> QED
  BY <1>2, <1>4

(* The pairs below a size, and how many there are. *)
LEMMA Pairs ==
  ASSUME NEW x, NEW n \in Nat
  PROVE  IsFiniteSet({x} \X (1 .. n)) /\ Cardinality({x} \X (1 .. n)) = n
<1>1. IsFiniteSet({x}) /\ Cardinality({x}) = 1
  BY FS_Singleton
<1>2. IsFiniteSet(1 .. n) /\ Cardinality(1 .. n) = n
  BY FS_Interval
<1>3. /\ IsFiniteSet({x} \X (1 .. n))
      /\ Cardinality({x} \X (1 .. n)) = Cardinality({x}) * Cardinality(1 .. n)
  BY <1>1, <1>2, FS_Product
<1> QED
  BY <1>1, <1>2, <1>3

(* A union of two finite sets has at most the sum of their elements, and that
   many if they are disjoint. *)
LEMMA UnionBound ==
  ASSUME NEW A, NEW B, IsFiniteSet(A), IsFiniteSet(B)
  PROVE  /\ IsFiniteSet(A \union B)
         /\ Cardinality(A) \in Nat /\ Cardinality(B) \in Nat /\ Cardinality(A \union B) \in Nat
         /\ Cardinality(A \union B) <= Cardinality(A) + Cardinality(B)
         /\ A \intersect B = {} => Cardinality(A \union B) = Cardinality(A) + Cardinality(B)
<1>1. IsFiniteSet(A \intersect B)
  BY FS_Subset
<1>2. /\ IsFiniteSet(A \union B)
      /\ Cardinality(A \union B) = Cardinality(A) + Cardinality(B) - Cardinality(A \intersect B)
  BY FS_Union
<1>3. /\ Cardinality(A) \in Nat /\ Cardinality(B) \in Nat /\ Cardinality(A \union B) \in Nat
      /\ Cardinality(A \intersect B) \in Nat
  BY <1>1, <1>2, FS_CardinalityType
<1>4. A \intersect B = {} => Cardinality(A \intersect B) = 0
  BY FS_EmptySet
<1> QED
  BY <1>2, <1>3, <1>4

(* A set below a finite one. *)
LEMMA SubsetBound ==
  ASSUME NEW A, NEW B, IsFiniteSet(B), A \subseteq B
  PROVE  /\ IsFiniteSet(A)
         /\ Cardinality(A) \in Nat /\ Cardinality(B) \in Nat
         /\ Cardinality(A) <= Cardinality(B)
<1>1. IsFiniteSet(A) /\ Cardinality(A) <= Cardinality(B)
  BY FS_Subset
<1> QED
  BY <1>1, FS_CardinalityType

(* The bytes of a finite set of entries are finitely many. *)
LEMMA BytesFinite ==
  ASSUME TypeOK, IsFiniteSet(Entries), NEW S, S \subseteq Entries
  PROVE  IsFiniteSet(Bytes(S))
<1>1. IsFiniteSet(Entries \X (1 .. MaxSize))
  <2>1. IsFiniteSet(1 .. MaxSize)
    BY MaxSizeType, FS_Interval
  <2> QED
    BY <2>1, FS_Product
<1>2. \A i \in Entries : row[i].size \in Nat /\ row[i].size <= MaxSize
  BY MaxSizeType DEF TypeOK, Row
<1>3. Bytes(S) \subseteq Entries \X (1 .. MaxSize)
  BY <1>2, MaxSizeType DEF Bytes
<1> QED
  BY <1>1, <1>3, SubsetBound

(* The bytes to come of all workers but w are within the slack. *)
LEMMA PendingBound ==
  ASSUME TypeOK, NEW u
  PROVE  /\ IsFiniteSet(PendingBytes(u))
         /\ \A w \in Workers :
              w \notin Pending(u) => Cardinality(PendingBytes(u)) <= Slack
<1>1. \A w \in Pending(u) : job[w].size \in Nat /\ job[w].size <= MaxSize
  BY MaxSizeType, JobFields DEF Pending, UploadJob
<1>2. PendingBytes(u) \subseteq Workers \X (1 .. MaxSize)
  BY <1>1, MaxSizeType DEF PendingBytes, Pending
<1>3. IsFiniteSet(1 .. MaxSize) /\ Cardinality(1 .. MaxSize) = MaxSize
  BY MaxSizeType, FS_Interval
<1>4. IsFiniteSet(PendingBytes(u))
  <2>1. IsFiniteSet(Workers \X (1 .. MaxSize))
    BY <1>3, WorkersAssumption, FS_Product
  <2> QED
    BY <1>2, <2>1, SubsetBound
<1>5. ASSUME NEW w \in Workers, w \notin Pending(u)
      PROVE  Cardinality(PendingBytes(u)) <= Slack
  <2>1. PendingBytes(u) \subseteq (Workers \ {w}) \X (1 .. MaxSize)
    BY <1>1, <1>5, MaxSizeType DEF PendingBytes, Pending
  <2>2. /\ IsFiniteSet((Workers \ {w}) \X (1 .. MaxSize))
        /\ Cardinality((Workers \ {w}) \X (1 .. MaxSize)) = Slack
    <3>1. PICK A, B : A = Workers \ {w} /\ B = 1 .. MaxSize
      OBVIOUS
    <3>2. IsFiniteSet(A) /\ Cardinality(A) = Cardinality(Workers) - 1
      BY <3>1, SlackType
    <3>3. IsFiniteSet(B) /\ Cardinality(B) = MaxSize
      BY <3>1, <1>3
    <3>4. IsFiniteSet(A \X B) /\ Cardinality(A \X B) = Cardinality(A) * Cardinality(B)
      BY <3>2, <3>3, FS_Product
    <3> QED
      BY <3>1, <3>2, <3>3, <3>4 DEF Slack
  <2> QED
    BY <2>1, <2>2, SubsetBound
<1> QED
  BY <1>4, <1>5

-----------------------------------------------------------------------------
(* A step that adds no bytes keeps the invariant. *)
LEMMA QuietStep ==
  ASSUME QuotaInv, TypeOK', Quiet
  PROVE  QuotaInv'
<1>1. TypeOK /\ IsFiniteSet(Entries) /\ QuotaKept /\ RowsQuiet /\ JobsQuiet
  BY DEF QuotaInv, Quiet
<1>2. IsFiniteSet(Entries')
  <2>1. PICK k : Entries' \subseteq Entries \union {k}
    BY DEF Quiet, Entries
  <2>2. IsFiniteSet(Entries \union {k})
    BY <1>1, FS_AddElement
  <2> QED
    BY <2>1, <2>2, SubsetBound
<1>3. ASSUME NEW u \in Users
      PROVE  /\ Bytes(Checked(u))' \subseteq Bytes(Checked(u))
             /\ PendingBytes(u)' \subseteq PendingBytes(u)
  <2>1. ASSUME NEW b \in Bytes(Checked(u))'
        PROVE  b \in Bytes(Checked(u))
    <3>1. PICK i \in Checked(u)' : b \in {i} \X (1 .. row'[i].size)
      BY <2>1 DEF Bytes
    <3>2. /\ i \in DOMAIN row' /\ i \notin unchecked' /\ ~row'[i].trashed /\ row'[i].user = u
      BY <3>1 DEF Checked, Entries
    <3>3. row'[i].size # 0
      BY <3>1
    <3>4. /\ i \in Entries \ unchecked /\ ~row[i].trashed
          /\ row'[i].user = row[i].user /\ row'[i].size = row[i].size
      BY <1>1, <3>2, <3>3 DEF RowsQuiet
    <3>5. i \in Checked(u)
      BY <3>2, <3>4 DEF Checked
    <3>6. b \in {i} \X (1 .. row[i].size)
      BY <3>1, <3>4
    <3> QED
      BY <3>5, <3>6 DEF Bytes
  <2>2. ASSUME NEW b \in PendingBytes(u)'
        PROVE  b \in PendingBytes(u)
    <3>1. PICK w \in Pending(u)' : b \in {w} \X (1 .. job'[w].size)
      BY <2>2 DEF PendingBytes
    <3>2. /\ w \in Workers /\ job'[w].op \in {"upload", "stored"} /\ job'[w].user = u
          /\ job'[w].size <= job'[w].declared /\ job'[w].id \notin unchecked'
      BY <3>1 DEF Pending
    <3>3. job'[w].size # 0
      BY <3>1
    <3>4. /\ job[w].op \in {"upload", "stored"} /\ job'[w].id = job[w].id
          /\ job'[w].user = job[w].user /\ job'[w].size = job[w].size
          /\ job'[w].declared = job[w].declared
      BY <1>1, <3>2, <3>3 DEF JobsQuiet
    <3>5. w \in Pending(u)
      BY <1>1, <3>2, <3>4 DEF Pending, RowsQuiet
    <3>6. b \in {w} \X (1 .. job[w].size)
      BY <3>1, <3>4
    <3> QED
      BY <3>5, <3>6 DEF PendingBytes
  <2> QED
    BY <2>1, <2>2
<1>4. ASSUME NEW u \in Users
      PROVE  Cardinality(Bytes(Checked(u))') + Cardinality(PendingBytes(u)') <= Quota + Slack
  <2>1. PICK A, B, C, D : /\ A = Bytes(Checked(u))' /\ B = Bytes(Checked(u))
                          /\ C = PendingBytes(u)' /\ D = PendingBytes(u)
    OBVIOUS
  <2>2. IsFiniteSet(B)
    BY <1>1, <2>1, BytesFinite DEF Checked
  <2>3. IsFiniteSet(D)
    BY <1>1, <2>1, PendingBound
  <2>4. /\ Cardinality(A) \in Nat /\ Cardinality(B) \in Nat
        /\ Cardinality(A) <= Cardinality(B)
    BY <1>3, <2>1, <2>2, SubsetBound
  <2>5. /\ Cardinality(C) \in Nat /\ Cardinality(D) \in Nat
        /\ Cardinality(C) <= Cardinality(D)
    BY <1>3, <2>1, <2>3, SubsetBound
  <2>6. Cardinality(B) + Cardinality(D) <= Quota + Slack
    BY <1>1, <2>1 DEF QuotaKept
  <2>7. Quota + Slack \in Nat
    BY QuotaAssumption, SlackType
  <2>8. Cardinality(A) + Cardinality(C) <= Quota + Slack
    BY <2>4, <2>5, <2>6, <2>7
  <2> QED
    BY <2>1, <2>8
<1>5. QuotaKept'
  BY <1>4 DEF QuotaKept, Slack
<1> QED
  BY <1>2, <1>5 DEF QuotaInv

(* The quota check: what is there and what is coming from the others. *)
LEMMA UploadCheckQuota ==
  ASSUME QuotaInv, TypeOK', NEW w \in Workers, NEW u \in Users, NEW p, NEW n,
         NEW size \in Sizes, NEW declared \in Sizes, UploadCheck(w, u, p, n, size, declared)
  PROVE  QuotaInv'
<1>1. TypeOK /\ IsFiniteSet(Entries) /\ QuotaKept
  BY DEF QuotaInv
<1>2. PICK i : /\ job' = [job EXCEPT ![w] =
                    [op |-> "upload", user |-> u, id |-> i, parent |-> p, name |-> n,
                     size |-> size, declared |-> declared]]
               /\ unchecked' = IF Used(u) + declared <= Quota THEN unchecked ELSE unchecked \union {i}
  BY DEF UploadCheck
<1>3. /\ job'[w] = [op |-> "upload", user |-> u, id |-> i, parent |-> p, name |-> n,
                    size |-> size, declared |-> declared]
      /\ \A v \in Workers : v # w => job'[v] = job[v]
      /\ row' = row /\ unchecked \subseteq unchecked' /\ job[w] = Idle
  BY <1>1, <1>2 DEF UploadCheck, Busy, TypeOK
<1>4. size \in Nat /\ declared \in Nat
  BY SizesAssumption
<1>5. CASE ~(size <= declared) \/ i \in unchecked'
  <2>1. JobsQuiet
    BY <1>3, <1>5 DEF JobsQuiet
  <2>2. RowsQuiet /\ DOMAIN row' \subseteq Entries \union {w}
    BY <1>3 DEF RowsQuiet, Entries
  <2> QED
    BY <2>1, <2>2, QuietStep DEF Quiet
<1>6. CASE size <= declared /\ i \notin unchecked'
  <2>0. unchecked' = unchecked /\ Used(u) + declared <= Quota
    BY <1>2, <1>6
  <2>1. \A v \in Users : Bytes(Checked(v))' = Bytes(Checked(v))
    BY <1>3, <2>0 DEF Bytes, Checked, Entries
  <2>2. \A v \in Users : w \notin Pending(v)
    BY <1>3 DEF Pending, Idle
  <2>3. \A v \in Users : \A x \in Workers \ {w} : x \in Pending(v)' <=> x \in Pending(v)
    BY <1>3, <2>0 DEF Pending
  <2>4. \A v \in Users : w \in Pending(v)' <=> v = u
    BY <1>3, <1>6 DEF Pending
  <2>5. ASSUME NEW v \in Users, v # u
        PROVE  PendingBytes(v)' = PendingBytes(v)
    <3>1. Pending(v)' = Pending(v) /\ w \notin Pending(v) /\ Pending(v) \subseteq Workers
      BY <2>2, <2>3, <2>4, <2>5 DEF Pending
    <3>2. \A x \in Pending(v) : job'[x] = job[x]
      BY <3>1, <1>3
    <3> QED
      BY <3>1, <3>2 DEF PendingBytes
  <2>6. PendingBytes(u)' = PendingBytes(u) \union ({w} \X (1 .. size))
    <3>1. Pending(u)' = Pending(u) \union {w} /\ w \notin Pending(u) /\ Pending(u) \subseteq Workers
      BY <2>2, <2>3, <2>4 DEF Pending
    <3>2. \A x \in Pending(u) : job'[x] = job[x]
      BY <3>1, <1>3
    <3>3. job'[w].size = size
      BY <1>3
    <3> QED
      BY <3>1, <3>2, <3>3 DEF PendingBytes
  <2>7. ASSUME NEW v \in Users
        PROVE  Cardinality(Bytes(Checked(v))') + Cardinality(PendingBytes(v)') <= Quota + Slack
    <3>1. CASE v # u
      BY <3>1, <1>1, <2>1, <2>5 DEF QuotaKept
    <3>2. CASE v = u
      <4>1. PICK A, B, C, D : /\ A = Bytes(Checked(u)) /\ C = PendingBytes(u)
                              /\ B = Bytes({j \in Entries : row[j].user = u /\ ~row[j].trashed})
                              /\ D = {w} \X (1 .. size)
        OBVIOUS
      <4>2. IsFiniteSet(B)
        BY <1>1, <4>1, BytesFinite
      <4>3. A \subseteq B
        BY <4>1 DEF Bytes, Checked
      <4>4. Cardinality(A) \in Nat /\ Cardinality(B) \in Nat /\ Cardinality(A) <= Cardinality(B)
        BY <4>2, <4>3, SubsetBound
      <4>5. Cardinality(B) + declared <= Quota
        BY <2>0, <4>1 DEF Used
      <4>6. IsFiniteSet(C) /\ Cardinality(C) <= Slack
        BY <1>1, <2>2, <4>1, PendingBound
      <4>7. IsFiniteSet(D) /\ Cardinality(D) = size
        BY <1>4, <4>1, Pairs
      <4>8. /\ Cardinality(C) \in Nat /\ Cardinality(C \union D) \in Nat
            /\ Cardinality(C \union D) <= Cardinality(C) + Cardinality(D)
        BY <4>6, <4>7, UnionBound
      <4>9. Cardinality(A) + Cardinality(C \union D) <= Quota + Slack
        BY <4>4, <4>5, <4>6, <4>7, <4>8, <1>4, <1>6, QuotaAssumption, SlackType
      <4> QED
        BY <3>2, <4>1, <4>9, <2>1, <2>6
    <3> QED
      BY <3>1, <3>2
  <2>8. QuotaKept'
    BY <2>7 DEF QuotaKept, Slack
  <2>9. IsFiniteSet(Entries')
    BY <1>1, <1>3 DEF Entries
  <2> QED
    BY <2>8, <2>9 DEF QuotaInv
<1> QED
  BY <1>5, <1>6

(* The INSERT: bytes that were to come are there. *)
LEMMA UploadInsertQuota ==
  ASSUME QuotaInv, TypeOK', NEW w \in Workers, UploadInsert(w)
  PROVE  QuotaInv'
<1>1. TypeOK /\ IsFiniteSet(Entries) /\ QuotaKept
  BY DEF QuotaInv
<1>2. PICK i, u, size : i = job[w].id /\ u = job[w].user /\ size = job[w].size
  OBVIOUS
<1>3. /\ job[w].op = "stored" /\ job[w] \in UploadJob
      /\ row' = row \/ row' = With(i, UploadRow(w, size))
      /\ unchecked' = IF job[w].declared < size THEN unchecked \union {i} ELSE unchecked
      /\ job' = [job EXCEPT ![w] = Idle]
  BY <1>1, <1>2, JobFields DEF UploadInsert, UploadEnd, Done
<1>4. size \in Nat /\ job[w].declared \in Nat /\ u \in Users
  BY <1>2, <1>3, SizesAssumption DEF UploadJob
<1>5. job'[w] = Idle /\ \A v \in Workers : v # w => job'[v] = job[v]
  BY <1>1, <1>3 DEF TypeOK
<1>6. JobsQuiet
  BY <1>5 DEF JobsQuiet, Idle
<1>7. CASE row' = row
  <2>1. RowsQuiet /\ DOMAIN row' \subseteq Entries \union {w}
    BY <1>3, <1>7 DEF RowsQuiet, Entries
  <2> QED
    BY <2>1, <1>6, QuietStep DEF Quiet
<1>8. CASE row' = With(i, UploadRow(w, size))
  <2>1. /\ DOMAIN row' = Entries \union {i}
        /\ \A j \in Entries : j # i => row'[j] = row[j]
        /\ row'[i].user = u /\ row'[i].size = size
    BY <1>2, <1>8 DEF With, UploadRow
  <2>2. CASE job[w].declared < size \/ i \in unchecked
    <3>1. RowsQuiet
      BY <1>3, <2>1, <2>2 DEF RowsQuiet
    <3> QED
      BY <3>1, <2>1, <1>6, QuietStep DEF Quiet
  <2>3. CASE ~(job[w].declared < size) /\ i \notin unchecked
    <3>1. unchecked' = unchecked /\ size <= job[w].declared
      BY <1>3, <1>4, <2>3
    <3>2. IsFiniteSet(Entries')
      BY <1>1, <2>1, FS_AddElement DEF Entries
    <3>3. ASSUME NEW v \in Users, NEW b \in Bytes(Checked(v))'
          PROVE  b \in Bytes(Checked(v)) \/ (v = u /\ b \in {i} \X (1 .. size))
      <4>1. PICK j \in Checked(v)' : b \in {j} \X (1 .. row'[j].size)
        BY <3>3 DEF Bytes
      <4>2. j \in DOMAIN row' /\ j \notin unchecked' /\ ~row'[j].trashed /\ row'[j].user = v
        BY <4>1 DEF Checked, Entries
      <4>3. CASE j = i
        BY <4>1, <4>2, <4>3, <2>1
      <4>4. CASE j # i
        <5>1. j \in Checked(v) /\ row'[j] = row[j]
          BY <4>2, <4>4, <2>1, <3>1 DEF Checked
        <5> QED
          BY <5>1, <4>1 DEF Bytes
      <4> QED
        BY <4>3, <4>4
    <3>4. ASSUME NEW v \in Users
          PROVE  /\ PendingBytes(v)' \subseteq PendingBytes(v)
                 /\ v = u => PendingBytes(v)' \union ({w} \X (1 .. size)) \subseteq PendingBytes(v)
                 /\ PendingBytes(v)' \intersect ({w} \X (1 .. size)) = {}
      <4>1. w \notin Pending(v)' /\ Pending(v)' \subseteq Workers
        BY <1>5 DEF Pending, Idle
      <4>2. \A x \in Pending(v)' : x \in Pending(v) /\ job'[x] = job[x]
        BY <4>1, <1>5, <3>1 DEF Pending
      <4>3. PendingBytes(v)' = UNION {{x} \X (1 .. job[x].size) : x \in Pending(v)'}
        BY <4>2 DEF PendingBytes
      <4>4. PendingBytes(v)' \subseteq PendingBytes(v)
        BY <4>2, <4>3 DEF PendingBytes
      <4>5. PendingBytes(v)' \intersect ({w} \X (1 .. size)) = {}
        BY <4>1, <4>3
      <4>6. v = u => w \in Pending(v)
        BY <1>2, <1>3, <2>3, <3>1 DEF Pending
      <4>7. v = u => {w} \X (1 .. size) \subseteq PendingBytes(v)
        BY <4>6, <1>2 DEF PendingBytes
      <4> QED
        BY <4>4, <4>5, <4>7
    <3>5. ASSUME NEW v \in Users
          PROVE  Cardinality(Bytes(Checked(v))') + Cardinality(PendingBytes(v)') <= Quota + Slack
      <4>1. PICK A, B, C, D : /\ A = Bytes(Checked(v))' /\ B = Bytes(Checked(v))
                              /\ C = PendingBytes(v)' /\ D = PendingBytes(v)
        OBVIOUS
      <4>2. PICK E, F : E = {i} \X (1 .. size) /\ F = {w} \X (1 .. size)
        OBVIOUS
      <4>3. IsFiniteSet(B)
        BY <1>1, <4>1, BytesFinite DEF Checked
      <4>4. IsFiniteSet(D) /\ IsFiniteSet(C)
        BY <1>1, <4>1, <3>4, PendingBound, SubsetBound
      <4>5. IsFiniteSet(E) /\ Cardinality(E) = size /\ IsFiniteSet(F) /\ Cardinality(F) = size
        BY <4>2, <1>4, Pairs
      <4>6. Cardinality(B) + Cardinality(D) <= Quota + Slack
        BY <1>1, <4>1 DEF QuotaKept
      <4>7. Quota + Slack \in Nat
        BY QuotaAssumption, SlackType
      <4>8. CASE v # u
        <5>1. A \subseteq B /\ C \subseteq D
          BY <4>1, <4>8, <3>3, <3>4
        <5>2. Cardinality(A) \in Nat /\ Cardinality(B) \in Nat /\ Cardinality(A) <= Cardinality(B)
          BY <5>1, <4>3, SubsetBound
        <5>3. Cardinality(C) \in Nat /\ Cardinality(D) \in Nat /\ Cardinality(C) <= Cardinality(D)
          BY <5>1, <4>4, SubsetBound
        <5>4. Cardinality(A) + Cardinality(C) <= Quota + Slack
          BY <5>2, <5>3, <4>6, <4>7
        <5> QED
          BY <5>4, <4>1
      <4>9. CASE v = u
        <5>1. A \subseteq B \union E /\ C \union F \subseteq D /\ C \intersect F = {}
          BY <4>1, <4>2, <4>9, <3>3, <3>4
        <5>2. /\ IsFiniteSet(B \union E) /\ Cardinality(B) \in Nat
              /\ Cardinality(B \union E) \in Nat
              /\ Cardinality(B \union E) <= Cardinality(B) + size
          BY <4>3, <4>5, UnionBound
        <5>3. Cardinality(A) \in Nat /\ Cardinality(A) <= Cardinality(B \union E)
          BY <5>1, <5>2, SubsetBound
        <5>4. Cardinality(C) \in Nat /\ Cardinality(C \union F) = Cardinality(C) + size
          BY <5>1, <4>4, <4>5, UnionBound
        <5>5. Cardinality(D) \in Nat /\ Cardinality(C \union F) <= Cardinality(D)
          BY <5>1, <4>4, SubsetBound
        <5>6. Cardinality(A) + Cardinality(C) <= Quota + Slack
          BY <5>2, <5>3, <5>4, <5>5, <4>6, <4>7, <1>4
        <5> QED
          BY <5>6, <4>1
      <4> QED
        BY <4>8, <4>9
    <3>6. QuotaKept'
      BY <3>5 DEF QuotaKept, Slack
    <3> QED
      BY <3>2, <3>6 DEF QuotaInv
  <2> QED
    BY <2>2, <2>3
<1> QED
  BY <1>3, <1>7, <1>8

-----------------------------------------------------------------------------
(* Every other step is quiet: by what it does to the table ... *)
LEMMA RowsSame ==
  ASSUME row' = row, unchecked' = unchecked
  PROVE  RowsQuiet /\ DOMAIN row' \subseteq Entries
  BY DEF RowsQuiet, Entries

LEMMA RowsDeleted ==
  ASSUME NEW S, row' = Without(S), unchecked' = unchecked
  PROVE  RowsQuiet /\ DOMAIN row' \subseteq Entries
  BY DEF RowsQuiet, Entries, Without

LEMMA RowsTrashed ==
  ASSUME TypeOK, NEW S, SetTrashed(S, TRUE), unchecked' = unchecked
  PROVE  RowsQuiet /\ DOMAIN row' \subseteq Entries
<1>1. row \in [Entries -> Row]
  BY DEF TypeOK
<1>2. \/ row' = row
      \/ row' = [j \in Entries |-> IF j \in S THEN [row[j] EXCEPT !.trashed = TRUE] ELSE row[j]]
  BY DEF SetTrashed, Statement
<1>3. CASE row' = row
  BY <1>3, RowsSame
<1>4. CASE row' = [j \in Entries |-> IF j \in S THEN [row[j] EXCEPT !.trashed = TRUE] ELSE row[j]]
  <2>1. DOMAIN row' = Entries
    BY <1>4
  <2>2. \A j \in Entries : j \in S => row'[j].trashed
    BY <1>1, <1>4 DEF Row
  <2>3. \A j \in Entries : j \notin S => row'[j] = row[j]
    BY <1>4
  <2> QED
    BY <2>1, <2>2, <2>3 DEF RowsQuiet
<1> QED
  BY <1>2, <1>3, <1>4

(* a new folder has no bytes *)
LEMMA RowsFolder ==
  ASSUME NEW i, NEW r, r.size = 0, row' = With(i, r), unchecked' = unchecked
  PROVE  RowsQuiet /\ DOMAIN row' \subseteq Entries \union {i}
  BY DEF RowsQuiet, With

(* an entry that is renamed or moved keeps its bytes *)
LEMMA RowsField ==
  ASSUME TypeOK, NEW i \in Entries, NEW x, unchecked' = unchecked,
         \/ Statement([row EXCEPT ![i].name = x])
         \/ Statement([row EXCEPT ![i].parent = x])
  PROVE  RowsQuiet /\ DOMAIN row' \subseteq Entries
<1>1. row \in [Entries -> Row]
  BY DEF TypeOK
<1>2. \/ row' = row
      \/ row' = [row EXCEPT ![i].name = x]
      \/ row' = [row EXCEPT ![i].parent = x]
  BY DEF Statement
<1>3. DOMAIN row' = Entries
  BY <1>1, <1>2
<1>4. \A j \in Entries : j # i => row'[j] = row[j]
  BY <1>1, <1>2
<1>5. /\ row'[i].trashed = row[i].trashed /\ row'[i].user = row[i].user
      /\ row'[i].size = row[i].size
  BY <1>1, <1>2 DEF Row
<1> QED
  BY <1>3, <1>4, <1>5 DEF RowsQuiet

(* ... and to the requests in flight. *)
LEMMA JobsSame ==
  ASSUME job' = job
  PROVE  JobsQuiet
  BY DEF JobsQuiet

LEMMA JobsSet ==
  ASSUME TypeOK, NEW w \in Workers, NEW J, job' = [job EXCEPT ![w] = J],
         \/ J.op \notin {"upload", "stored"}
         \/ J.size = 0
         \/ ~(J.size <= J.declared)
  PROVE  JobsQuiet
<1>1. job'[w] = J /\ \A v \in Workers : v # w => job'[v] = job[v]
  BY DEF TypeOK
<1> QED
  BY <1>1 DEF JobsQuiet

LEMMA JobsDone ==
  ASSUME TypeOK, NEW w \in Workers, Done(w)
  PROVE  JobsQuiet
<1>1. Idle.op = "idle"
  BY DEF Idle
<1> QED
  BY <1>1, JobsSet DEF Done

(* The handlers of the API. *)
LEMMA RequestQuiet ==
  ASSUME TypeOK, NEW u \in Users, NEW i, NEW p, NEW n, NEW w \in Workers,
         \/ CreateFolder(u, p, n) \/ DeleteItem(u, i) \/ MoveItem(u, i, p)
         \/ EmptyRead(w, u) \/ RenameCheck(w, u, i, n)
         \/ RestoreCheck(w, u, i) \/ PurgeCheck(w, u, i)
  PROVE  Quiet
<1>1. CASE CreateFolder(u, p, n)
  <2>1. PICK k : row' = With(k, [user |-> u, parent |-> p, name |-> n, kind |-> "folder",
                                 size |-> 0, trashed |-> FALSE])
    BY <1>1 DEF CreateFolder
  <2>2. RowsQuiet /\ DOMAIN row' \subseteq Entries \union {k}
    BY <1>1, <2>1, RowsFolder DEF CreateFolder
  <2> QED
    BY <1>1, <2>2, JobsSame DEF CreateFolder, Quiet
<1>2. CASE DeleteItem(u, i)
  BY <1>2, RowsTrashed, JobsSame DEF DeleteItem, Quiet
<1>3. CASE MoveItem(u, i, p)
  BY <1>3, RowsField, JobsSame DEF MoveItem, Quiet, Owned
<1>4. CASE EmptyRead(w, u)
  <2>1. PICK S : job' = [job EXCEPT ![w] = [op |-> "emptying", user |-> u, paths |-> S]]
    BY <1>4 DEF EmptyRead
  <2>2. JobsQuiet
    BY <2>1, JobsSet
  <2> QED
    BY <1>4, <2>2, RowsSame DEF EmptyRead, Quiet
<1>5. CASE RenameCheck(w, u, i, n)
  <2>1. job' = [job EXCEPT ![w] = [op |-> "rename", user |-> u, id |-> i, name |-> n]]
    BY <1>5 DEF RenameCheck
  <2>2. JobsQuiet
    BY <2>1, JobsSet
  <2> QED
    BY <1>5, <2>2, RowsSame DEF RenameCheck, Quiet
<1>6. CASE RestoreCheck(w, u, i) \/ PurgeCheck(w, u, i)
  <2>1. /\ \E o \in {"restore", "purge"} :
             job' = [job EXCEPT ![w] = [op |-> o, user |-> u, id |-> i]]
        /\ row' = row /\ unchecked' = unchecked
    BY <1>6 DEF RestoreCheck, PurgeCheck
  <2>2. JobsQuiet
    BY <2>1, JobsSet
  <2> QED
    BY <2>1, <2>2, RowsSame DEF Quiet
<1> QED
  BY <1>1, <1>2, <1>3, <1>4, <1>5, <1>6

(* restore_from_trash brings back bytes that are unchecked from then on. *)
LEMMA RestoreQuiet ==
  ASSUME TypeOK, NEW w \in Workers, RestoreUpdate(w)
  PROVE  Quiet
<1>1. PICK S : S = Descendants(job[w].id)
  OBVIOUS
<1>2. /\ SetTrashed(S, FALSE) /\ unchecked' = unchecked \union {j \in S : row[j].trashed}
      /\ Done(w)
  BY <1>1 DEF RestoreUpdate
<1>3. row \in [Entries -> Row] /\ S \subseteq Entries
  BY <1>1, DescendantsClosed DEF TypeOK
<1>4. \/ row' = row
      \/ row' = [j \in Entries |-> IF j \in S THEN [row[j] EXCEPT !.trashed = FALSE] ELSE row[j]]
  BY <1>2 DEF SetTrashed, Statement
<1>5. RowsQuiet /\ DOMAIN row' \subseteq Entries
  <2>1. CASE row' = row
    BY <2>1, <1>2 DEF RowsQuiet, Entries
  <2>2. CASE row' = [j \in Entries |-> IF j \in S THEN [row[j] EXCEPT !.trashed = FALSE] ELSE row[j]]
    <3>1. DOMAIN row' = Entries
      BY <2>2
    <3>2. \A j \in Entries : row'[j].user = row[j].user /\ row'[j].size = row[j].size
      BY <1>3, <2>2 DEF Row
    <3>3. \A j \in Entries : j \notin S => row'[j] = row[j]
      BY <2>2
    <3>4. \A j \in S : j \notin unchecked' => j \notin unchecked /\ ~row[j].trashed
      BY <1>2
    <3> QED
      BY <3>1, <3>2, <3>3, <3>4, <1>2 DEF RowsQuiet
  <2> QED
    BY <1>4, <2>1, <2>2
<1> QED
  BY <1>2, <1>5, JobsDone DEF Quiet

(* The later steps of the requests of the API. *)
LEMMA ContinueQuiet ==
  ASSUME TypeOK, NEW w \in Workers, Continue(w) \/ Abort(w), ~UploadInsert(w)
  PROVE  Quiet
<1>1. CASE UploadStore(w)
  <2>1. job[w] \in UploadJob /\ job' = [job EXCEPT ![w].op = "stored"]
        /\ row' = row /\ unchecked' = unchecked
    BY <1>1, JobFields DEF UploadStore
  <2>2. /\ job'[w].user = job[w].user /\ job'[w].size = job[w].size /\ job'[w].id = job[w].id
        /\ job'[w].declared = job[w].declared /\ job[w].op \in {"upload", "stored"}
        /\ \A v \in Workers : v # w => job'[v] = job[v]
    BY <2>1 DEF TypeOK, UploadJob
  <2>3. JobsQuiet
    BY <2>2 DEF JobsQuiet
  <2> QED
    BY <2>1, <2>3, RowsSame DEF Quiet
<1>2. CASE RenameUpdate(w)
  <2>1. RowsQuiet /\ DOMAIN row' \subseteq Entries
    BY <1>2, RowsSame, RowsField DEF RenameUpdate
  <2> QED
    BY <1>2, <2>1, JobsDone DEF RenameUpdate, Quiet
<1>3. CASE RestoreUpdate(w)
  BY <1>3, RestoreQuiet
<1>4. CASE PurgeRead(w)
  <2>1. PICK S : job' = [job EXCEPT ![w] = [op |-> "purging", user |-> job[w].user,
                                           id |-> job[w].id, paths |-> S]]
    BY <1>4 DEF PurgeRead
  <2>2. JobsQuiet
    BY <2>1, JobsSet
  <2> QED
    BY <1>4, <2>2, RowsSame DEF PurgeRead, Quiet
<1>5. CASE PurgeBlob(w)
  <2>1. PICK i : job' = [job EXCEPT ![w].paths = @ \ {i}]
    BY <1>5 DEF PurgeBlob
  <2>2. job[w].op \in {"purging", "emptying"} /\ row' = row /\ unchecked' = unchecked
    BY <1>5 DEF PurgeBlob
  <2>3. job[w] \in PurgingJob \/ job[w] \in EmptyJob
    BY <2>2, JobFields
  <2>4. /\ job'[w].op = job[w].op /\ \A v \in Workers : v # w => job'[v] = job[v]
    BY <2>1, <2>3 DEF TypeOK, PurgingJob, EmptyJob
  <2>5. JobsQuiet
    BY <2>2, <2>4 DEF JobsQuiet
  <2> QED
    BY <2>2, <2>5, RowsSame DEF Quiet
<1>6. CASE PurgeRows(w)
  BY <1>6, RowsDeleted, JobsDone DEF PurgeRows, Quiet
<1>7. CASE EmptyRows(w)
  BY <1>7, RowsDeleted, JobsDone DEF EmptyRows, Quiet
<1>8. CASE Abort(w)
  BY <1>8, RowsSame, JobsDone DEF Abort, Quiet
<1> QED
  BY <1>1, <1>2, <1>3, <1>4, <1>5, <1>6, <1>7, <1>8 DEF Continue

(* The requests of the front ends and their later steps. *)
LEMMA PutNewQuiet ==
  ASSUME TypeOK, NEW w \in Workers, NEW u, NEW p, NEW n, NEW size \in Sizes,
         PutNew(w, u, p, n, size)
  PROVE  Quiet
<1>1. PICK i : job' = [job EXCEPT ![w] =
                 [op |-> "upload", user |-> u, id |-> i, parent |-> p, name |-> n,
                  size |-> size, declared |-> 0]]
  BY DEF PutNew, Begin
<1>2. PICK J : J = [op |-> "upload", user |-> u, id |-> i, parent |-> p, name |-> n,
                    size |-> size, declared |-> 0]
  OBVIOUS
<1>3. job' = [job EXCEPT ![w] = J] /\ J.size = size /\ J.declared = 0
  BY <1>1, <1>2
<1>4. size = 0 \/ ~(size <= 0)
  BY SizesAssumption
<1>5. JobsQuiet
  BY <1>3, <1>4, JobsSet
<1> QED
  BY <1>5, RowsSame DEF PutNew, Quiet

LEMMA FrontItemQuiet ==
  ASSUME TypeOK, NEW w \in Workers, NEW u, NEW i, NEW n, NEW size,
         \/ PutOver(w, u, i, size) \/ WebdavDelete(w, u, i)
         \/ WebdavMove(w, u, i, n) \/ WebdavCopy(w, u, i, n)
  PROVE  Quiet
<1>1. JobsQuiet
  <2>1. CASE PutOver(w, u, i, size)
    <3>1. job' = [job EXCEPT ![w] = [op |-> "put", user |-> u, id |-> i, size |-> size]]
      BY <2>1 DEF PutOver, Begin
    <3> QED
      BY <3>1, JobsSet
  <2>2. CASE WebdavDelete(w, u, i)
    <3>1. job' = [job EXCEPT ![w] = [op |-> "trash", user |-> u, id |-> i]]
      BY <2>2 DEF WebdavDelete, Begin
    <3> QED
      BY <3>1, JobsSet
  <2>3. CASE WebdavMove(w, u, i, n)
    <3>1. job' = [job EXCEPT ![w] = [op |-> "rename", user |-> u, id |-> i, name |-> n]]
      BY <2>3 DEF WebdavMove, Begin
    <3> QED
      BY <3>1, JobsSet
  <2>4. CASE WebdavCopy(w, u, i, n)
    <3>1. PICK k : job' = [job EXCEPT ![w] =
            [op |-> "copy", user |-> u, id |-> k, parent |-> row[i].parent,
             name |-> n, size |-> row[i].size, from |-> i]]
      BY <2>4 DEF WebdavCopy, Begin
    <3> QED
      BY <3>1, JobsSet
  <2> QED
    BY <2>1, <2>2, <2>3, <2>4
<1>2. row' = row /\ unchecked' = unchecked
  BY DEF PutOver, WebdavDelete, WebdavMove, WebdavCopy, Untouched
<1> QED
  BY <1>1, <1>2, RowsSame DEF Quiet

LEMMA FrontContinueQuiet ==
  ASSUME TypeOK, NEW w \in Workers, FrontContinue(w)
  PROVE  Quiet
<1>1. CASE PutWrite(w)
  <2>1. job[w] \in PutJob /\ job' = [job EXCEPT ![w].op = "written"]
        /\ row' = row /\ unchecked' = unchecked
    BY <1>1, JobFields DEF PutWrite
  <2>2. job'[w].op = "written" /\ \A v \in Workers : v # w => job'[v] = job[v]
    BY <2>1 DEF TypeOK, PutJob
  <2>3. JobsQuiet
    BY <2>2 DEF JobsQuiet
  <2> QED
    BY <2>1, <2>3, RowsSame DEF Quiet
<1>2. CASE PutUpdate(w)
  <2>1. PICK i : i = job[w].id
    OBVIOUS
  <2>2. unchecked' = unchecked \union ({i} \intersect Entries) /\ Done(w)
    BY <1>2, <2>1 DEF PutUpdate
  <2>3. DOMAIN row' = Entries /\ \A j \in Entries : j # i => row'[j] = row[j]
    BY <1>2, <2>1 DEF PutUpdate, Entries, TypeOK
  <2>4. RowsQuiet
    BY <2>2, <2>3 DEF RowsQuiet
  <2> QED
    BY <2>2, <2>3, <2>4, JobsDone DEF Quiet
<1>3. CASE TrashUpdate(w)
  BY <1>3, RowsTrashed, JobsDone DEF TrashUpdate, Quiet
<1>4. CASE CopyStore(w)
  <2>1. PICK J : J = [op |-> "stored", user |-> job[w].user, id |-> job[w].id,
                      parent |-> job[w].parent, name |-> job[w].name,
                      size |-> job[w].size, declared |-> 0]
    OBVIOUS
  <2>2. /\ job' = [job EXCEPT ![w] = J]
        /\ job[w] \in CopyJob /\ row' = row /\ unchecked' = unchecked
    BY <1>4, <2>1, JobFields DEF CopyStore
  <2>3. J.size = job[w].size /\ J.declared = 0 /\ job[w].size \in Nat
    BY <2>1, <2>2, SizesAssumption DEF CopyJob
  <2>4. J.size = 0 \/ ~(J.size <= J.declared)
    BY <2>3
  <2>5. JobsQuiet
    BY <2>2, <2>4, JobsSet
  <2> QED
    BY <2>2, <2>5, RowsSame DEF Quiet
<1> QED
  BY <1>1, <1>2, <1>3, <1>4 DEF FrontContinue

-----------------------------------------------------------------------------
(* Every step keeps the invariant of the quota. *)
LEMMA NextQuota ==
  ASSUME QuotaInv, TypeOK', Next
  PROVE  QuotaInv'
<1>1. TypeOK
  BY DEF QuotaInv
<1>2. CASE Request
  <2>1. PICK u \in Users :
          \/ \E p \in Parents, n \in Names : CreateFolder(u, p, n)
          \/ \E i \in Ids :
               \/ DeleteItem(u, i)
               \/ \E p \in Parents : MoveItem(u, i, p)
          \/ \E w \in Workers :
               \/ \E p \in Parents, n \in Names, s, d \in Sizes : UploadCheck(w, u, p, n, s, d)
               \/ EmptyRead(w, u)
               \/ \E i \in Ids :
                    \/ \E n \in Names : RenameCheck(w, u, i, n)
                    \/ RestoreCheck(w, u, i)
                    \/ PurgeCheck(w, u, i)
    BY <1>2 DEF Request
  <2>2. \A w \in Workers, p \in Parents, n \in Names, s, d \in Sizes :
          UploadCheck(w, u, p, n, s, d) => QuotaInv'
    BY UploadCheckQuota
  <2>3. PICK v \in Workers : TRUE
    BY WorkersAssumption
  <2>4. \A i, p, n : CreateFolder(u, p, n) \/ DeleteItem(u, i) \/ MoveItem(u, i, p) => Quiet
    BY <1>1, <2>3, RequestQuiet
  <2>5. ASSUME NEW w \in Workers, NEW i, NEW n,
               \/ EmptyRead(w, u) \/ RenameCheck(w, u, i, n)
               \/ RestoreCheck(w, u, i) \/ PurgeCheck(w, u, i)
        PROVE  Quiet
    BY <1>1, <2>5, RequestQuiet
  <2>6. Quiet \/ QuotaInv'
    BY <2>1, <2>2, <2>4, <2>5
  <2> QED
    BY <2>6, QuietStep
<1>3. ASSUME NEW w \in Workers, Continue(w) \/ Abort(w)
      PROVE  QuotaInv'
  BY <1>1, <1>3, ContinueQuiet, UploadInsertQuota, QuietStep
<1>4. CASE TrashCleanup
  <2>1. PICK S : row' = Without(S)
    BY <1>4 DEF TrashCleanup
  <2>2. Quiet
    BY <1>4, <2>1, RowsDeleted, JobsSame DEF TrashCleanup, Quiet
  <2> QED
    BY <2>2, QuietStep
<1> QED
  BY <1>2, <1>3, <1>4 DEF Next

LEMMA FrontNextQuota ==
  ASSUME QuotaInv, TypeOK', [FrontNext]_vars
  PROVE  QuotaInv'
<1>1. TypeOK
  BY DEF QuotaInv
<1>2. CASE UNCHANGED vars
  <2>1. row' = row /\ unchecked' = unchecked /\ job' = job
    BY <1>2 DEF vars
  <2> QED
    BY <2>1, RowsSame, JobsSame, QuietStep DEF Quiet
<1>3. CASE Next
  BY <1>3, NextQuota
<1>4. ASSUME NEW w \in Workers, FrontRequest(w)
      PROVE  QuotaInv'
  <2>1. PICK u \in Users :
          \/ \E p \in Parents :
               /\ OnPath(u, p)
               /\ \E n \in Names, s \in PutSizes : PutNew(w, u, p, n, s)
          \/ \E i \in Ids :
               /\ Resolved(u, i)
               /\ \/ \E s \in PutSizes : PutOver(w, u, i, s)
                  \/ WebdavDelete(w, u, i)
                  \/ \E n \in Names : WebdavMove(w, u, i, n) \/ WebdavCopy(w, u, i, n)
          \/ \E n \in Names, s \in PutSizes : PutObject(w, u, n, s)
          \/ \E i \in Ids, n \in Names, s \in Sizes : UploadShared(w, u, i, n, s)
    BY <1>4 DEF FrontRequest
  <2>2. \A p, n : \A s \in PutSizes : PutNew(w, u, p, n, s) => Quiet
    BY <1>1, PutSizesAssumption, PutNewQuiet
  <2>3. ASSUME NEW i, NEW n, NEW s,
               \/ PutOver(w, u, i, s) \/ WebdavDelete(w, u, i)
               \/ WebdavMove(w, u, i, n) \/ WebdavCopy(w, u, i, n)
        PROVE  Quiet
    BY <1>1, <2>3, FrontItemQuiet
  <2>4. ASSUME NEW n, NEW s \in PutSizes, PutObject(w, u, n, s)
        PROVE  Quiet
    <3>1. PutNew(w, u, Root, n, s) \/ \E i \in Entries : PutOver(w, u, i, s)
      BY <2>4 DEF PutObject
    <3> QED
      BY <3>1, <2>2, <2>3
  <2>5. \A i, n : \A s \in Sizes : UploadShared(w, u, i, n, s) => QuotaInv'
    BY UploadCheckQuota DEF UploadShared
  <2> QED
    <3>1. Quiet \/ QuotaInv'
      BY <2>1, <2>2, <2>3, <2>4, <2>5
    <3> QED
      BY <3>1, QuietStep
<1>5. ASSUME NEW w \in Workers, FrontContinue(w)
      PROVE  QuotaInv'
  BY <1>1, <1>5, FrontContinueQuiet, QuietStep
<1>6. ASSUME NEW u \in Users, NEW n \in Names, DeleteObject(u, n)
      PROVE  QuotaInv'
  <2>1. Quiet
    BY <1>1, <1>6, RowsTrashed, JobsSame DEF DeleteObject, Quiet
  <2> QED
    BY <2>1, QuietStep
<1>7. ASSUME NEW u \in Users, NEW n \in Names, NEW p \in Parents, Mkcol(u, p, n)
      PROVE  QuotaInv'
  <2>1. PICK k : row' = With(k, [user |-> u, parent |-> p, name |-> n, kind |-> "folder",
                                 size |-> 0, trashed |-> FALSE])
    BY <1>7 DEF Mkcol
  <2>2. RowsQuiet /\ DOMAIN row' \subseteq Entries \union {k}
    BY <1>7, <2>1, RowsFolder DEF Mkcol
  <2>3. Quiet
    BY <1>7, <2>2, JobsSame DEF Mkcol, Quiet
  <2> QED
    BY <2>3, QuietStep
<1> QED
  BY <1>2, <1>3, <1>4, <1>5, <1>6, <1>7 DEF FrontNext

(* An empty table and no request in flight. *)
LEMMA InitQuota == Init => QuotaInv
<1> SUFFICES ASSUME Init PROVE QuotaInv
  OBVIOUS
<1>1. TypeOK
  BY InvInit DEF Inv
<1>2. Entries = {} /\ \A w \in Workers : job[w].op = "idle"
  BY DEF Init, Entries, Idle
<1>3. ASSUME NEW u \in Users
      PROVE  Bytes(Checked(u)) = {} /\ PendingBytes(u) = {}
  BY <1>2 DEF Bytes, Checked, PendingBytes, Pending
<1>4. QuotaKept
  <2>1. Cardinality({}) + Cardinality({}) <= Quota + Slack
    BY FS_EmptySet, QuotaAssumption, SlackType
  <2> QED
    BY <1>3, <2>1 DEF QuotaKept
<1> QED
  BY <1>1, <1>2, <1>4, FS_EmptySet DEF QuotaInv

(* check_storage_quota and the INSERT are two statements, and uploads through the
   API, the chunked uploads and the share links race between them: for any number
   of requests in flight, the bytes that passed the check exceed the quota by at
   most one upload of the largest size per other request. *)
THEOREM FrontQuotaOvershootBounded == FrontSpec => []QuotaOvershootBounded
<1>1. Inv /\ QuotaInv /\ [FrontNext]_vars => QuotaInv'
  <2> SUFFICES ASSUME Inv, QuotaInv, [FrontNext]_vars PROVE QuotaInv'
    OBVIOUS
  <2>1. TypeOK'
    BY FrontInvNext DEF Inv
  <2> QED
    BY <2>1, FrontNextQuota
<1>2. QuotaInv => QuotaOvershootBounded
  <2> SUFFICES ASSUME QuotaInv, NEW u \in Users
               PROVE  Cardinality(Bytes(Checked(u))) <= Quota + Slack
    BY DEF QuotaOvershootBounded, Checked, Slack
  <2>1. /\ Cardinality(Bytes(Checked(u))) \in Nat /\ Cardinality(PendingBytes(u)) \in Nat
    BY BytesFinite, PendingBound, FS_CardinalityType DEF QuotaInv, Checked
  <2> QED
    BY <2>1, QuotaAssumption, SlackType DEF QuotaInv, QuotaKept
<1> QED
  BY <1>1, <1>2, InitQuota, FrontInvariant, PTL DEF FrontSpec

-----------------------------------------------------------------------------
(* Cycles.  move_item lets an entry go below itself; nothing else does. *)

(* The entry goes to a folder that is itself or below it. *)
MoveBelowItself == \E u \in Users, i \in Ids, p \in Parents :
                     MoveItem(u, i, p) /\ p \in Descendants(i)

(* A tree without a cycle gets one only by moving an entry below itself: every
   other request, purge, clean-up or crash leaves it a tree. *)
CyclesOnlyByMove == [][NoCycle => NoCycle' \/ MoveBelowItself]_vars

(* S holds, with an entry, all that is below it. *)
Closed(S) == S \subseteq Entries /\ \A k \in Entries : row[k].parent \in S => k \in S

LEMMA DescendantsLeast ==
  ASSUME NEW i, NEW S, Closed(S), i \in S
  PROVE  Descendants(i) \subseteq S
  BY DEF Closed, Descendants

LEMMA DescendantsSelf ==
  ASSUME NEW i \in Entries
  PROVE  i \in Descendants(i) /\ Closed(Descendants(i))
  BY DEF Closed, Descendants

(* Where nobody's parent changes, and no entry is new, a tree stays one. *)
LEMMA TreeKept ==
  ASSUME NoCycle, DOMAIN row' \subseteq Entries,
         \A i \in DOMAIN row' : row'[i].parent = row[i].parent
  PROVE  NoCycle'
<1> SUFFICES ASSUME NEW i \in Entries', OnCycle(i)'
             PROVE  FALSE
  BY DEF NoCycle
<1>1. i \in Entries /\ row[i].parent \in Descendants(i)'
  BY DEF OnCycle, Entries
<1>2. PICK S : S = Descendants(i) \intersect Entries'
  OBVIOUS
<1>3. i \in S
  BY <1>1, <1>2, DescendantsSelf
<1>4. Closed(S)'
  BY <1>1, <1>2, DescendantsSelf DEF Closed, Entries
<1>5. Descendants(i)' \subseteq S
  BY <1>3, <1>4 DEF Closed, Descendants
<1>6. OnCycle(i)
  BY <1>1, <1>2, <1>5 DEF OnCycle
<1> QED
  BY <1>1, <1>6 DEF NoCycle

(* A new entry, below one that was there, hangs at the end of the tree. *)
LEMMA TreeGrown ==
  ASSUME NoCycle, TypeOK, OwnersAgree, NEW i \in Ids, i \notin Entries, NEW r,
         row' = With(i, r), r.parent \in Entries \union {Root}
  PROVE  NoCycle'
<1>1. /\ Entries' = Entries \union {i} /\ row'[i] = r
      /\ \A k \in Entries : row'[k] = row[k]
  BY DEF Entries, With
<1>2. \A k \in Entries \union {i} : row'[k].parent # i
  BY <1>1, RootAssumption DEF OwnersAgree
<1> SUFFICES ASSUME NEW k \in Entries', OnCycle(k)'
             PROVE  FALSE
  BY DEF NoCycle
<1>3. row'[k].parent \in Descendants(k)'
  BY DEF OnCycle
<1>4. CASE k = i
  <2>1. Closed({i})'
    BY <1>1, <1>2 DEF Closed
  <2>2. Descendants(i)' \subseteq {i}
    BY <2>1 DEF Closed, Descendants
  <2> QED
    BY <1>2, <1>3, <1>4, <2>2
<1>5. CASE k \in Entries
  <2>1. PICK S : S = Descendants(k) \union {i}
    OBVIOUS
  <2>2. Closed(S)' /\ k \in S
    BY <1>1, <1>2, <1>5, <2>1, DescendantsSelf DEF Closed
  <2>3. Descendants(k)' \subseteq S
    BY <2>2 DEF Closed, Descendants
  <2>4. row[k].parent \in Descendants(k)
    BY <1>1, <1>2, <1>3, <1>5, <2>1, <2>3
  <2> QED
    BY <1>5, <2>4 DEF NoCycle, OnCycle
<1> QED
  BY <1>1, <1>4, <1>5

(* An entry that is below i, and not i, is below an entry below i. *)
LEMMA DescendantsParent ==
  ASSUME NEW i, NEW k \in Descendants(i), k # i
  PROVE  row[k].parent \in Descendants(i)
<1> SUFFICES ASSUME row[k].parent \notin Descendants(i)
             PROVE  FALSE
  OBVIOUS
<1>1. i \in Entries
  BY DEF Descendants
<1>2. PICK S : S = Descendants(i) \ {k}
  OBVIOUS
<1>3. Closed(S) /\ i \in S
  BY <1>1, <1>2, DescendantsSelf DEF Closed
<1> QED
  BY <1>2, <1>3, DescendantsLeast

(* Moving an entry to a place that is not below it keeps the tree a tree. *)
LEMMA TreeMoved ==
  ASSUME NoCycle, NEW i \in Entries, NEW p, p \notin Descendants(i),
         DOMAIN row' = Entries, row'[i].parent = p,
         \A k \in Entries : k # i => row'[k].parent = row[k].parent
  PROVE  NoCycle'
<1>1. PICK D : D = Descendants(i)
  OBVIOUS
<1>2. i \in D /\ Closed(D) /\ D \subseteq Entries
  BY <1>1, DescendantsSelf DEF Closed
<1>3. Entries' = Entries
  BY DEF Entries
<1>4. Closed(D)'
  BY <1>1, <1>2, <1>3 DEF Closed
<1> SUFFICES ASSUME NEW k \in Entries, OnCycle(k)'
             PROVE  FALSE
  BY <1>3 DEF NoCycle
<1>5. row'[k].parent \in Descendants(k)'
  BY DEF OnCycle
<1>6. CASE k = i
  <2>1. Descendants(i)' \subseteq D
    BY <1>2, <1>4 DEF Closed, Descendants
  <2> QED
    BY <1>1, <1>5, <1>6, <2>1
<1>7. CASE k # i /\ k \in D
  <2>1. PICK E : E = Descendants(k)
    OBVIOUS
  <2>2. k \in E /\ Closed(E)
    BY <2>1, DescendantsSelf
  <2>3. E \subseteq D
    BY <1>2, <1>7, <2>1, DescendantsLeast
  <2>4. i \notin E
    <3> SUFFICES ASSUME i \in E PROVE FALSE
      OBVIOUS
    <3>1. D \subseteq E
      BY <1>1, <2>2, DescendantsLeast
    <3>2. row[k].parent \in E
      BY <1>1, <1>7, <3>1, DescendantsParent
    <3> QED
      BY <3>2, <2>1 DEF NoCycle, OnCycle
  <2>5. Closed(E)'
    BY <1>1, <1>3, <2>2, <2>3 DEF Closed
  <2>6. Descendants(k)' \subseteq E
    BY <2>2, <2>5 DEF Closed, Descendants
  <2>7. row[k].parent \in E
    BY <1>5, <1>7, <2>6
  <2> QED
    BY <2>1, <2>7 DEF NoCycle, OnCycle
<1>8. CASE k \notin D
  <2>1. PICK E : E = Descendants(k) \union D
    OBVIOUS
  <2>2. k \in E /\ Closed(E)'
    BY <1>1, <1>2, <1>3, <2>1, DescendantsSelf DEF Closed
  <2>3. Descendants(k)' \subseteq E
    BY <2>2 DEF Closed, Descendants
  <2>4. k # i /\ row[k].parent \in E
    BY <1>2, <1>5, <1>8, <2>3
  <2>5. row[k].parent \notin D
    BY <1>2, <1>8 DEF Closed
  <2> QED
    BY <2>1, <2>4, <2>5 DEF NoCycle, OnCycle
<1> QED
  BY <1>6, <1>7, <1>8

(* What a step must do to the table to keep the parents of all entries. *)
ParentsKept == /\ DOMAIN row' \subseteq Entries
               /\ \A i \in DOMAIN row' : row'[i].parent = row[i].parent

LEMMA TrashedKeepsParents ==
  ASSUME TypeOK, NEW S, NEW b \in BOOLEAN, SetTrashed(S, b)
  PROVE  ParentsKept
<1>1. row \in [Entries -> Row]
  BY DEF TypeOK
<1>2. \/ row' = row
      \/ row' = [j \in Entries |-> IF j \in S THEN [row[j] EXCEPT !.trashed = b] ELSE row[j]]
  BY DEF SetTrashed, Statement
<1> QED
  BY <1>1, <1>2 DEF ParentsKept, Entries, Row

LEMMA DeletedKeepsParents ==
  ASSUME NEW S, row' = Without(S)
  PROVE  ParentsKept
  BY DEF ParentsKept, Without

(* The later steps of the requests, of the API and of the front ends. *)
LEMMA ContinueTree ==
  ASSUME Inv, NoCycle, NEW w \in Workers, Continue(w) \/ Abort(w) \/ FrontContinue(w)
  PROVE  NoCycle'
<1>1. TypeOK /\ OwnersAgree /\ row \in [Entries -> Row]
  BY DEF Inv, TypeOK
<1>2. CASE UploadInsert(w)
  <2>1. CASE row' = row
    BY <2>1, TreeKept DEF Entries
  <2>2. CASE row' # row
    <3>1. PICK i, r : i = job[w].id /\ r = UploadRow(w, job[w].size)
      OBVIOUS
    <3>2. row' = With(i, r) /\ job[w].parent \in Entries \union {Root} /\ job[w].op = "stored"
      BY <1>2, <2>2, <3>1 DEF UploadInsert, UploadEnd
    <3>3. r.parent = job[w].parent
      BY <3>1 DEF UploadRow
    <3>4. i \in Ids /\ i \notin Entries
      <4>1. w \in Uploading /\ i \in Reserved
        BY <3>1, <3>2 DEF Uploading, Reserved
      <4>2. job[w] \in UploadJob
        BY <1>1, <3>2, JobFields
      <4> QED
        BY <3>1, <4>1, <4>2 DEF Inv, IdsOnce, UploadJob
    <3> QED
      BY <1>1, <3>2, <3>3, <3>4, TreeGrown
  <2> QED
    BY <2>1, <2>2
<1>3. CASE RenameUpdate(w)
  <2>1. row' = row \/ (job[w].id \in Entries /\ row' = [row EXCEPT ![job[w].id].name = job[w].name])
    BY <1>3 DEF RenameUpdate, Statement
  <2>2. ParentsKept
    BY <1>1, <2>1 DEF ParentsKept, Entries, Row
  <2> QED
    BY <2>2, TreeKept DEF ParentsKept
<1>4. CASE RestoreUpdate(w) \/ TrashUpdate(w)
  <2>1. ParentsKept
    BY <1>1, <1>4, TrashedKeepsParents DEF RestoreUpdate, TrashUpdate
  <2> QED
    BY <2>1, TreeKept DEF ParentsKept
<1>5. CASE PurgeRows(w) \/ EmptyRows(w)
  <2>1. ParentsKept
    BY <1>5, DeletedKeepsParents DEF PurgeRows, EmptyRows
  <2> QED
    BY <2>1, TreeKept DEF ParentsKept
<1>6. CASE PutUpdate(w)
  <2>1. PICK i : i = job[w].id
    OBVIOUS
  <2>2. DOMAIN row' = Entries /\ \A j \in Entries : j # i => row'[j] = row[j]
    BY <1>1, <1>6, <2>1 DEF PutUpdate, Entries
  <2>3. i \in Entries => row'[i].parent = row[i].parent
    BY <1>1, <1>6, <2>1 DEF PutUpdate, Row
  <2> QED
    BY <2>2, <2>3, TreeKept
<1>7. CASE \/ UploadStore(w) \/ PurgeRead(w) \/ PurgeBlob(w) \/ Abort(w)
           \/ PutWrite(w) \/ CopyStore(w)
  <2>1. row' = row
    BY <1>7 DEF UploadStore, PurgeRead, PurgeBlob, Abort, PutWrite, CopyStore
  <2> QED
    BY <2>1, TreeKept DEF Entries
<1> QED
  BY <1>2, <1>3, <1>4, <1>5, <1>6, <1>7 DEF Continue, FrontContinue

(* The requests that change the table at once. *)
LEMMA RequestTree ==
  ASSUME Inv, NoCycle, NEW u \in Users, NEW i \in Ids, NEW p \in Parents, NEW n \in Names,
         \/ CreateFolder(u, p, n) \/ Mkcol(u, p, n) \/ DeleteItem(u, i)
         \/ MoveItem(u, i, p) \/ DeleteObject(u, n)
  PROVE  NoCycle' \/ MoveBelowItself
<1>1. TypeOK /\ OwnersAgree /\ row \in [Entries -> Row]
  BY DEF Inv, TypeOK
<1>2. CASE CreateFolder(u, p, n) \/ Mkcol(u, p, n)
  <2>1. p = Root \/ p \in Entries
    BY <1>2 DEF CreateFolder, Mkcol, ParentOk, OnPath, Owned
  <2>2. PICK k \in fresh : row' = With(k, [user |-> u, parent |-> p, name |-> n,
                                          kind |-> "folder", size |-> 0, trashed |-> FALSE])
    BY <1>2 DEF CreateFolder, Mkcol
  <2>3. k \in Ids /\ k \notin Entries
    BY <1>1 DEF Inv, IdsOnce, Reserved, TypeOK
  <2> QED
    BY <1>1, <2>1, <2>2, <2>3, TreeGrown
<1>3. CASE DeleteItem(u, i) \/ DeleteObject(u, n)
  <2>1. ParentsKept
    BY <1>1, <1>3, TrashedKeepsParents DEF DeleteItem, DeleteObject
  <2> QED
    BY <2>1, TreeKept DEF ParentsKept
<1>4. CASE MoveItem(u, i, p)
  <2>1. i \in Entries
    BY <1>4 DEF MoveItem, Owned
  <2>2. CASE p \in Descendants(i)
    BY <1>4, <2>2 DEF MoveBelowItself
  <2>3. CASE row' = row
    BY <2>3, TreeKept DEF Entries
  <2>4. CASE p \notin Descendants(i) /\ row' # row
    <3>1. row' = [row EXCEPT ![i].parent = p]
      BY <1>4, <2>4 DEF MoveItem, Statement
    <3>2. /\ DOMAIN row' = Entries /\ row'[i].parent = p
          /\ \A k \in Entries : k # i => row'[k].parent = row[k].parent
      BY <1>1, <2>1, <3>1 DEF Row
    <3> QED
      BY <2>1, <2>4, <3>2, TreeMoved
  <2> QED
    BY <2>2, <2>3, <2>4
<1> QED
  BY <1>2, <1>3, <1>4

(* The requests that only read. *)
LEMMA ReadsTable ==
  ASSUME NEW w \in Workers
  PROVE  /\ \A u \in Users : EmptyRead(w, u) => row' = row
         /\ \A u \in Users, p \in Parents, n \in Names, x, y \in Sizes :
              UploadCheck(w, u, p, n, x, y) => row' = row
         /\ \A u \in Users, i \in Ids :
              /\ \A n \in Names : RenameCheck(w, u, i, n) => row' = row
              /\ RestoreCheck(w, u, i) \/ PurgeCheck(w, u, i) => row' = row
  BY DEF EmptyRead, UploadCheck, RenameCheck, RestoreCheck, PurgeCheck

(* A tree of folders stays a tree, whatever requests of the API and of the front
   ends run at once, unless move_item moves an entry below itself, which its check
   of the target alone does not exclude. *)
THEOREM FrontCyclesOnlyByMove == FrontSpec => CyclesOnlyByMove
<1>1. Inv /\ [FrontNext]_vars => [NoCycle => NoCycle' \/ MoveBelowItself]_vars
  <2> SUFFICES ASSUME Inv, FrontNext, NoCycle PROVE NoCycle' \/ MoveBelowItself
    OBVIOUS
  <2>1. CASE row' = row
    BY <2>1, TreeKept DEF Entries
  <2>2. CASE Request /\ row' # row
    <3>1. PICK u \in Users :
            \/ \E p \in Parents, n \in Names : CreateFolder(u, p, n)
            \/ \E i \in Ids : DeleteItem(u, i) \/ \E p \in Parents : MoveItem(u, i, p)
      BY <2>2, ReadsTable DEF Request
    <3>2. CASE \E p \in Parents, n \in Names : CreateFolder(u, p, n)
      <4>1. PICK p \in Parents, n \in Names : CreateFolder(u, p, n)
        BY <3>2
      <4>2. PICK i \in Ids : TRUE
        BY <4>1 DEF CreateFolder, Inv, TypeOK
      <4> QED
        BY <4>1, RequestTree
    <3>3. ASSUME NEW i \in Ids, DeleteItem(u, i) \/ \E p \in Parents : MoveItem(u, i, p)
          PROVE  NoCycle' \/ MoveBelowItself
      <4>1. PICK p \in Parents : DeleteItem(u, i) \/ MoveItem(u, i, p)
        BY <3>3 DEF Parents
      <4>2. row[i].name \in Names
        BY <4>1 DEF Inv, TypeOK, DeleteItem, MoveItem, Owned, Row
      <4> QED
        BY <4>1, <4>2, RequestTree
    <3> QED
      BY <3>1, <3>2, <3>3
  <2>3. ASSUME NEW w \in Workers, Continue(w) \/ Abort(w) \/ FrontContinue(w)
        PROVE  NoCycle'
    BY <2>3, ContinueTree
  <2>4. CASE TrashCleanup
    <3>1. ParentsKept
      BY <2>4, DeletedKeepsParents DEF TrashCleanup
    <3> QED
      BY <3>1, TreeKept DEF ParentsKept
  <2>5. ASSUME NEW w \in Workers, FrontRequest(w)
        PROVE  NoCycle'
    <3>1. row' = row
      BY <2>5, FrontRequestReads
    <3> QED
      BY <3>1, TreeKept DEF Entries
  <2>6. ASSUME NEW u \in Users, NEW n \in Names,
               DeleteObject(u, n) \/ \E p \in Parents : Mkcol(u, p, n)
        PROVE  NoCycle' \/ MoveBelowItself
    <3>1. PICK p \in Parents : DeleteObject(u, n) \/ Mkcol(u, p, n)
      BY <2>6 DEF Parents
    <3>2. CASE Ids = {}
      <4>1. Entries = {} /\ fresh = {}
        BY <3>2 DEF Inv, TypeOK
      <4>2. DOMAIN row' \subseteq Entries
        BY <2>6, <4>1 DEF DeleteObject, Mkcol, SetTrashed, Statement, Entries
      <4> QED
        BY <4>1, <4>2, TreeKept
    <3>3. CASE Ids # {}
      BY <3>1, <3>3, RequestTree
    <3> QED
      BY <3>2, <3>3
  <2> QED
    BY <2>1, <2>2, <2>3, <2>4, <2>5, <2>6 DEF FrontNext, Next
<1> QED
  BY FrontInvariant, <1>1, PTL DEF FrontSpec, CyclesOnlyByMove
=============================================================================
