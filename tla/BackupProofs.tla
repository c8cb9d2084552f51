---------------------------- MODULE BackupProofs ----------------------------
(***************************************************************************)
(* Proofs about backups, for any number of files, contents, links, backups *)
(* and concurrent requests.                                                *)
(*                                                                         *)
(* The properties speak of a backup in the table, of a verification at its *)
(* end, of a restore at its end and of the newest backups.  Their          *)
(* strengthening says what holds half way: a backup being made is in the   *)
(* hands of one request and holds what that request has listed; a          *)
(* verification has judged the files it has looked at; a restore has put   *)
(* back the files it has counted and the rows it has not lost; what is     *)
(* being removed, or is gone, was asked for or has enough newer backups.   *)
(***************************************************************************)
EXTENDS Backup, FiniteSetTheorems, TLAPS

Creating(j) == j.op \in {"copy", "manifest", "insert"}
Removing(j) == j.op \in {"remove", "drop"}
Verifying(j) == j.op \in {"load", "verify"}

(* Backup b holds the contents c of f. *)
Holds(b, f, c) == HasPayload(b, f) /\ dir[b].payload[f] = c

(* b was made, and at least k backups after it. *)
Outdated(b, k) == \E i \in 1 .. Len(made) : made[i] = b /\ Len(made) - i >= k

(* b may be removed: a delete was asked for, or a retention leaves it out. *)
Due(b) == b \in deleted \/ \E k \in sweeps : Outdated(b, k)

(* A backup is made by one request. *)
OneMaker ==
  \A v, w \in Workers : v # w /\ Creating(job[w]) => job[v].b # job[w].b

(* A backup being made is there, not in the table, and holds what is listed. *)
MakerFits(w) ==
  LET j == job[w]
  IN  Creating(j) =>
        /\ j.b \in Backups \ Made
        /\ dir[j.b] # None
        /\ j.b \notin rotten =>
             /\ \A f \in DOMAIN j.files : Holds(j.b, f, j.files[f])
             /\ j.op = "insert" => Legible(j.b) /\ dir[j.b].manifest.files = j.files

(* What is to be removed was made and is due; a row goes after its directory. *)
RemoverFits(w) ==
  LET j == job[w]
  IN  Removing(j) => /\ j.todo \subseteq Made
                     /\ j.op = "drop" => j.b \in j.todo /\ j.b \in doomed
                     /\ \A b \in j.todo : Due(b)

(* The verdict so far is about the files that were looked at. *)
Judged(j) ==
  \/ ~HasManifest(j.b) /\ j.bad
  \/ /\ Legible(j.b)
     /\ dir[j.b].manifest.files = j.files
     /\ ~j.bad => \A f \in DOMAIN j.files \ j.todo : Holds(j.b, f, j.files[f])
     /\ j.bad /\ j.lost = {} => \E f \in DOMAIN j.files \ j.todo : ~Holds(j.b, f, j.files[f])

VerifierFits(w) ==
  LET j == job[w]
  IN  Verifying(j) =>
        /\ j.b \in Made
        /\ j.op = "load" => ~j.bad
        /\ j.todo \subseteq DOMAIN j.files
        /\ j.op = "verify" /\ ~j.off /\ ~j.blind => Judged(j)

(* A restore has put back what it has been at and not lost. *)
FileBack(j, f) == f \in DOMAIN blob /\ blob[f] = j.files[f]
RowBack(j, f) == f \notin j.lost => f \in DOMAIN row /\ row[f] = j.entries[f]
LinkBack(j, l) == l \notin j.lost /\ LinkOf[l] \in DOMAIN j.entries \ j.lost => l \in links

RestorerFits(w) ==
  LET j == job[w]
  IN  Restoring(j) =>
        /\ j.b \in Made
        /\ j.op = "restore" => j.todo \intersect j.done = {}
        /\ j.op = "rows" => j.todo \subseteq DOMAIN j.entries
        /\ ~j.bad /\ ~j.off =>
             /\ \A f \in j.done : FileBack(j, f)
             /\ j.op = "rows" => \A f \in DOMAIN j.entries \ j.todo : RowBack(j, f)
             /\ j.op = "report" => \A f \in DOMAIN j.entries : RowBack(j, f)
             /\ j.op = "report" => \A l \in j.links : LinkBack(j, l)

JobFits(w) == MakerFits(w) /\ RemoverFits(w) /\ VerifierFits(w) /\ RestorerFits(w)

(* Only what was made is removed or asked to be, and only what is due; a row
   that is gone was doomed before. *)
DoomedMade == doomed \subseteq Made /\ deleted \subseteq Made
DoomedDue == \A b \in doomed : Due(b)
GoneDoomed == Made \ Table \subseteq doomed

TableFits == DoomedMade /\ DoomedDue /\ GoneDoomed /\ CompletedIsSound

Inv == /\ TypeOK /\ OneMaker
       /\ \A w \in Workers : JobFits(w)
       /\ TableFits

-----------------------------------------------------------------------------
(* Functions from some of the files. *)
LEMMA FilesToFn ==
  ASSUME NEW S, NEW fn \in FilesTo(S)
  PROVE  DOMAIN fn \subseteq Files /\ \A f \in DOMAIN fn : fn[f] \in S
BY DEF FilesTo

LEMMA FilesToIntro ==
  ASSUME NEW S, NEW D \in SUBSET Files, NEW fn \in [D -> S]
  PROVE  fn \in FilesTo(S)
BY DEF FilesTo

LEMMA EmptyTo ==
  ASSUME NEW S
  PROVE  Empty \in FilesTo(S) /\ DOMAIN Empty = {}
<1>1. Empty \in [{} -> S] /\ DOMAIN Empty = {}
  BY DEF Empty
<1> QED
  BY <1>1, FilesToIntro

LEMMA PutTo ==
  ASSUME NEW S, NEW fn \in FilesTo(S), NEW f \in Files, NEW c \in S
  PROVE  /\ Put(fn, f, c) \in FilesTo(S)
         /\ DOMAIN Put(fn, f, c) = DOMAIN fn \union {f}
         /\ Put(fn, f, c)[f] = c
         /\ \A g \in DOMAIN fn : g # f => Put(fn, f, c)[g] = fn[g]
<1>1. DOMAIN fn \union {f} \in SUBSET Files /\ \A g \in DOMAIN fn : fn[g] \in S
  BY FilesToFn
<1>2. Put(fn, f, c) \in [DOMAIN fn \union {f} -> S]
  BY <1>1 DEF Put
<1>3. Put(fn, f, c) \in FilesTo(S)
  BY <1>1, <1>2, FilesToIntro
<1> QED
  BY <1>3 DEF Put

LEMMA DropTo ==
  ASSUME NEW S, NEW fn \in FilesTo(S), NEW X
  PROVE  /\ Drop(fn, X) \in FilesTo(S)
         /\ DOMAIN Drop(fn, X) = DOMAIN fn \ X
         /\ \A g \in DOMAIN fn \ X : Drop(fn, X)[g] = fn[g]
<1>1. DOMAIN fn \ X \in SUBSET Files /\ \A g \in DOMAIN fn : fn[g] \in S
  BY FilesToFn
<1>2. Drop(fn, X) \in [DOMAIN fn \ X -> S]
  BY <1>1 DEF Drop
<1>3. Drop(fn, X) \in FilesTo(S)
  BY <1>1, <1>2, FilesToIntro
<1> QED
  BY <1>3 DEF Drop

LEMMA ExceptTo ==
  ASSUME NEW S, NEW fn \in FilesTo(S), NEW f \in DOMAIN fn, NEW c \in S
  PROVE  /\ [fn EXCEPT ![f] = c] \in FilesTo(S)
         /\ DOMAIN [fn EXCEPT ![f] = c] = DOMAIN fn
<1>1. DOMAIN fn \in SUBSET Files /\ fn \in [DOMAIN fn -> S]
  BY DEF FilesTo
<1>2. [fn EXCEPT ![f] = c] \in [DOMAIN fn -> S]
  BY <1>1
<1> QED
  BY <1>1, <1>2, FilesToIntro

(* The fields of a request. *)
LEMMA JobFields ==
  ASSUME NEW j \in Job
  PROVE  /\ j.b \in Backups \union {None} /\ j.todo \subseteq Files \union Backups
         /\ j.files \in FilesTo(Contents) /\ j.entries \in FilesTo(Row) /\ j.links \subseteq Links
         /\ j.bad \in BOOLEAN /\ j.off \in BOOLEAN /\ j.blind \in BOOLEAN
         /\ j.done \subseteq Files /\ j.lost \subseteq Files \union Links
BY DEF Job

LEMMA IdleFields ==
  Idle \in Job /\ Idle.op = "idle" /\ Idle.b = None
<1>1. Empty \in FilesTo(Contents) /\ Empty \in FilesTo(Row)
  BY EmptyTo
<1> QED
  BY <1>1 DEF Idle, Job

LEMMA MarkFields ==
  ASSUME NEW j \in Job, NEW m \in BOOLEAN
  PROVE  /\ Mark(j, m) \in Job
         /\ Mark(j, m).op = j.op /\ Mark(j, m).b = j.b /\ Mark(j, m).todo = j.todo
         /\ Mark(j, m).files = j.files /\ Mark(j, m).entries = j.entries
         /\ Mark(j, m).links = j.links /\ Mark(j, m).bad = j.bad /\ Mark(j, m).blind = j.blind
         /\ Mark(j, m).done = j.done /\ Mark(j, m).lost = j.lost
         /\ ~Mark(j, m).off => ~j.off /\ ~m
<1>1. j.off \in BOOLEAN /\ (j.off \/ m) \in BOOLEAN
  BY DEF Job
<1>2. Mark(j, m).off = (j.off \/ m)
  BY DEF Mark, Job
<1> QED
  BY <1>1, <1>2 DEF Mark, Job

(* Worker w goes on with j; the others are marked as m says. *)
Moved(w, j, m) == job' = [v \in Workers |-> IF v = w THEN j ELSE Mark(job[v], m[v])]

LEMMA MovedFields ==
  ASSUME job \in [Workers -> Job], NEW w, NEW j \in Job, NEW m \in [Workers -> BOOLEAN], Moved(w, j, m)
  PROVE  /\ job' \in [Workers -> Job]
         /\ w \in Workers => job'[w] = j
         /\ \A v \in Workers : v # w => job'[v] = Mark(job[v], m[v])
<1>1. \A v \in Workers : Mark(job[v], m[v]) \in Job
  BY MarkFields
<1> QED
  BY <1>1 DEF Moved

Unmarked == [v \in Workers |-> FALSE]

LEMMA UnmarkedType == Unmarked \in [Workers -> BOOLEAN]
BY DEF Unmarked

LEMMA StepNobody ==
  ASSUME NEW w, NEW j, Step(w, j, Nobody)
  PROVE  Moved(w, j, Unmarked)
BY DEF Step, Nobody, Moved, Unmarked

-----------------------------------------------------------------------------
(* At first nothing is under way, and the backups made before are complete. *)
LEMMA InitInv == Init => Inv
<1> SUFFICES ASSUME Init PROVE Inv
  OBVIOUS
<1>1. \A w \in Workers : job[w] = Idle
  BY DEF Init
<1>2. row \in [Files -> Row] /\ blob \in [Files -> Contents]
  BY ContentsAssumption DEF Init, Row
<1>3. row \in FilesTo(Row) /\ blob \in FilesTo(Contents) /\ DOMAIN row = Files
  BY <1>2, FilesToIntro
<1>4. made = Existing /\ made \in Seq(Backups) /\ Len(made) \in Nat /\ Made \subseteq Backups
  BY ExistingAssumption DEF Init, Made, SetOf
<1>5. /\ Table = Made /\ \A b \in Table : status[b] = "completed"
      /\ doomed = {} /\ deleted = {} /\ sweeps = {} /\ rotten = {}
  BY DEF Made, SetOf, Table, Init
<1>6. PICK copied : copied = Drop(blob, InTrash)
  OBVIOUS
<1>7. PICK man : man = [files |-> copied, entries |-> row, links |-> links]
  OBVIOUS
<1>8. PICK full : full = [payload |-> copied, legible |-> TRUE, manifest |-> man]
  OBVIOUS
<1>9. dir = [b \in Backups |-> IF b \in Made THEN full ELSE None]
  BY <1>4, <1>6, <1>7, <1>8 DEF Init, Made
<1>10. copied \in FilesTo(Contents) /\ links \subseteq Links
  BY <1>3, <1>6, DropTo DEF Init
<1>11. man \in Manifest /\ man # None /\ man.files = copied
  <2>1. man \in Manifest /\ man.files = copied
    BY <1>3, <1>7, <1>10 DEF Manifest
  <2> QED
    BY <2>1, NoneAssumption
<1>12. full \in Dir /\ full # None /\ full.payload = copied /\ full.manifest = man /\ full.legible
  <2>1. full \in Dir /\ full.payload = copied /\ full.manifest = man /\ full.legible
    BY <1>8, <1>10, <1>11 DEF Dir
  <2> QED
    BY <2>1, NoneAssumption
<1>13. TypeOK
  <2>1. job \in [Workers -> Job] /\ dir \in [Backups -> Dir \union {None}]
    BY <1>1, <1>9, <1>12, IdleFields DEF Init
  <2>2. links \subseteq {l \in Links : LinkOf[l] \in DOMAIN row}
    BY <1>3, LinksAssumption DEF Init
  <2>3. \A i, j \in 1 .. Len(made) : made[i] = made[j] => i = j
    BY <1>4, ExistingAssumption
  <2>4. changes \in 0 .. MaxChanges /\ requests \in 0 .. MaxRequests
    BY BoundsAssumption DEF Init
  <2>5. PartialFn(status, Backups, {"completed", "restored"})
    BY <1>4, <1>5 DEF PartialFn, Table
  <2> QED
    BY <1>3, <1>4, <1>5, <2>1, <2>2, <2>3, <2>4, <2>5 DEF TypeOK
<1>14. \A w \in Workers : JobFits(w)
  BY <1>1, IdleFields DEF JobFits, MakerFits, RemoverFits, VerifierFits, RestorerFits, Creating, Removing, Verifying, Restoring
<1>15. OneMaker
  BY <1>1, IdleFields DEF OneMaker, Creating
<1>16. CompletedIsSound
  <2> SUFFICES ASSUME NEW b \in Made PROVE Sound(b)
    BY <1>5 DEF CompletedIsSound
  <2>1. dir[b] = full
    BY <1>4, <1>9
  <2> QED
    BY <1>11, <1>12, <2>1 DEF Sound, Legible, HasManifest, HasPayload
<1>17. TableFits
  BY <1>5, <1>16 DEF TableFits, DoomedMade, DoomedDue, GoneDoomed
<1> QED
  BY <1>13, <1>14, <1>15, <1>17 DEF Inv

-----------------------------------------------------------------------------
(* What was made stays made, and outdated. *)
MadeGrows == \/ made' = made
             \/ \E b \in Backups : made' = Append(made, b)

LEMMA Growth ==
  ASSUME TypeOK, MadeGrows, deleted \subseteq deleted', sweeps \subseteq sweeps'
  PROVE  /\ Made \subseteq Made'
         /\ \A b : Due(b) => Due(b)'
<1>0. made \in Seq(Backups) /\ sweeps \subseteq Nat
  BY BoundsAssumption DEF TypeOK
<1>1. /\ Len(made') \in Nat /\ Len(made) \in Nat /\ Len(made) <= Len(made')
      /\ \A i \in 1 .. Len(made) : made'[i] = made[i] /\ i \in 1 .. Len(made')
  BY <1>0 DEF MadeGrows
<1>2. Made \subseteq Made'
  BY <1>1 DEF Made, SetOf
<1>3. ASSUME NEW b, NEW k \in Nat, Outdated(b, k) PROVE Outdated(b, k)'
  <2>1. PICK i \in 1 .. Len(made) : made[i] = b /\ Len(made) - i >= k
    BY <1>3 DEF Outdated
  <2>2. made'[i] = b /\ Len(made') - i >= k /\ i \in 1 .. Len(made')
    BY <1>1, <2>1
  <2> QED
    BY <2>2 DEF Outdated
<1> QED
  BY <1>0, <1>2, <1>3 DEF Due

(* A request that does not move still fits, if what it relies on has not
   changed or it has been marked. *)
LEMMA OtherFits ==
  ASSUME TypeOK, NEW v \in Workers, JobFits(v), NEW m \in BOOLEAN, job'[v] = Mark(job[v], m),
         MadeGrows, rotten \subseteq rotten', doomed \subseteq doomed',
         deleted \subseteq deleted', sweeps \subseteq sweeps',
         Creating(job[v]) =>
           /\ job[v].b \notin Made'
           /\ \/ dir'[job[v].b] = dir[job[v].b]
              \/ job[v].b \in rotten' /\ dir'[job[v].b] # None,
         (Verifying(job[v]) \/ Restoring(job[v])) /\ ~m => dir'[job[v].b] = dir[job[v].b],
         Restoring(job[v]) /\ ~m => blob' = blob /\ row' = row /\ links \subseteq links'
  PROVE  JobFits(v)'
<1>1. job[v] \in Job /\ made \in Seq(Backups)
  BY DEF TypeOK
<1>2. PICK j : j = job[v]
  OBVIOUS
<1>3. PICK n : n = job'[v]
  OBVIOUS
<1>4. /\ n.op = j.op /\ n.b = j.b /\ n.todo = j.todo /\ n.files = j.files /\ n.entries = j.entries
      /\ n.links = j.links /\ n.bad = j.bad /\ n.blind = j.blind /\ n.done = j.done /\ n.lost = j.lost
      /\ ~n.off => ~j.off /\ ~m
  <2>1. j \in Job /\ n = Mark(j, m)
    BY <1>1, <1>2, <1>3
  <2>2. /\ Mark(j, m).op = j.op /\ Mark(j, m).b = j.b /\ Mark(j, m).todo = j.todo
        /\ Mark(j, m).files = j.files /\ Mark(j, m).entries = j.entries
        /\ Mark(j, m).links = j.links /\ Mark(j, m).bad = j.bad /\ Mark(j, m).blind = j.blind
        /\ Mark(j, m).done = j.done /\ Mark(j, m).lost = j.lost
    BY <2>1, MarkFields
  <2>3. ~Mark(j, m).off => ~j.off /\ ~m
    BY <2>1, MarkFields
  <2> QED
    BY <2>1, <2>2, <2>3, Zenon
<1>5. Made \subseteq Made' /\ \A b : Due(b) => Due(b)'
  BY Growth
<1>6. MakerFits(v)'
  <2> SUFFICES ASSUME Creating(n)
               PROVE  /\ n.b \in Backups \ Made'
                      /\ dir'[n.b] # None
                      /\ n.b \notin rotten' =>
                           /\ \A f \in DOMAIN n.files : Holds(n.b, f, n.files[f])'
                           /\ n.op = "insert" => Legible(n.b)' /\ dir'[n.b].manifest.files = n.files
    BY <1>3 DEF MakerFits, Creating
  <2>1. Creating(j)
    BY <1>4 DEF Creating
  <2>2. /\ j.b \in Backups \ Made /\ dir[j.b] # None
        /\ j.b \notin rotten =>
             /\ \A f \in DOMAIN j.files : Holds(j.b, f, j.files[f])
             /\ j.op = "insert" => Legible(j.b) /\ dir[j.b].manifest.files = j.files
    BY <1>2, <2>1 DEF JobFits, MakerFits
  <2>3. /\ j.b \notin Made'
        /\ \/ dir'[j.b] = dir[j.b]
           \/ j.b \in rotten' /\ dir'[j.b] # None
    BY <1>2, <2>1
  <2>4. ASSUME n.b \notin rotten', NEW f \in DOMAIN n.files PROVE Holds(n.b, f, n.files[f])'
    <3>1. Holds(j.b, f, j.files[f]) /\ dir'[j.b] = dir[j.b]
      BY <1>4, <2>2, <2>3, <2>4
    <3> QED
      BY <1>4, <3>1 DEF Holds, HasPayload
  <2>5. n.b \in Backups \ Made' /\ dir'[n.b] # None
    BY <1>4, <2>2, <2>3
  <2>6. ASSUME n.b \notin rotten', n.op = "insert" PROVE Legible(n.b)' /\ dir'[n.b].manifest.files = n.files
    <3>1. Legible(j.b) /\ dir[j.b].manifest.files = j.files /\ dir'[j.b] = dir[j.b]
      BY <1>4, <2>2, <2>3, <2>6
    <3> QED
      BY <1>4, <3>1 DEF Legible, HasManifest
  <2> QED
    BY <2>4, <2>5, <2>6
<1>7. RemoverFits(v)'
  <2> SUFFICES ASSUME Removing(n)
               PROVE  /\ n.todo \subseteq Made'
                      /\ n.op = "drop" => n.b \in n.todo /\ n.b \in doomed'
                      /\ \A b \in n.todo : Due(b)'
    BY <1>3 DEF RemoverFits, Removing
  <2>1. Removing(j)
    BY <1>4 DEF Removing
  <2>2. /\ j.todo \subseteq Made
        /\ j.op = "drop" => j.b \in j.todo /\ j.b \in doomed
        /\ \A b \in j.todo : Due(b)
    BY <1>2, <2>1 DEF JobFits, RemoverFits
  <2> QED
    BY <1>4, <1>5, <2>2
<1>8. VerifierFits(v)'
  <2> SUFFICES ASSUME Verifying(n)
               PROVE  /\ n.b \in Made'
                      /\ n.op = "load" => ~n.bad
                      /\ n.todo \subseteq DOMAIN n.files
                      /\ n.op = "verify" /\ ~n.off /\ ~n.blind => Judged(n)'
    BY <1>3 DEF VerifierFits, Verifying, Judged, Legible, HasManifest, Holds, HasPayload
  <2>1. Verifying(j)
    BY <1>4 DEF Verifying
  <2>2. /\ j.b \in Made
        /\ j.op = "load" => ~j.bad
        /\ j.todo \subseteq DOMAIN j.files
        /\ j.op = "verify" /\ ~j.off /\ ~j.blind => Judged(j)
    BY <1>2, <2>1 DEF JobFits, VerifierFits
  <2>3. ~m => dir'[j.b] = dir[j.b]
    BY <1>2, <2>1
  <2>4. ASSUME ~m, Judged(j) PROVE Judged(n)'
    BY <1>4, <2>3, <2>4 DEF Judged, Legible, HasManifest, Holds, HasPayload
  <2> QED
    BY <1>4, <1>5, <2>2, <2>4
<1>9. RestorerFits(v)'
  <2> SUFFICES ASSUME Restoring(n)
               PROVE  /\ n.b \in Made'
                      /\ n.op = "restore" => n.todo \intersect n.done = {}
                      /\ n.op = "rows" => n.todo \subseteq DOMAIN n.entries
                      /\ ~n.bad /\ ~n.off =>
                           /\ \A f \in n.done : FileBack(n, f)'
                           /\ n.op = "rows" => \A f \in DOMAIN n.entries \ n.todo : RowBack(n, f)'
                           /\ n.op = "report" => \A f \in DOMAIN n.entries : RowBack(n, f)'
                           /\ n.op = "report" => \A l \in n.links : LinkBack(n, l)'
    BY <1>3 DEF RestorerFits, Restoring, FileBack, RowBack, LinkBack
  <2>1. Restoring(j)
    BY <1>4 DEF Restoring
  <2>2. /\ j.b \in Made
        /\ j.op = "restore" => j.todo \intersect j.done = {}
        /\ j.op = "rows" => j.todo \subseteq DOMAIN j.entries
        /\ ~j.bad /\ ~j.off =>
             /\ \A f \in j.done : FileBack(j, f)
             /\ j.op = "rows" => \A f \in DOMAIN j.entries \ j.todo : RowBack(j, f)
             /\ j.op = "report" => \A f \in DOMAIN j.entries : RowBack(j, f)
             /\ j.op = "report" => \A l \in j.links : LinkBack(j, l)
    BY <1>2, <2>1 DEF JobFits, RestorerFits
  <2>3. ~m => blob' = blob /\ row' = row /\ links \subseteq links'
    BY <1>2, <2>1
  <2> QED
    BY <1>4, <1>5, <2>2, <2>3 DEF FileBack, RowBack, LinkBack
<1> QED
  BY <1>6, <1>7, <1>8, <1>9 DEF JobFits

-----------------------------------------------------------------------------
(* A request fits if it does so for the one thing it is doing. *)
LEMMA IdleNow ==
  ASSUME NEW w, job'[w].op = "idle"
  PROVE  JobFits(w)'
BY DEF JobFits, MakerFits, RemoverFits, VerifierFits, RestorerFits, Creating, Removing, Verifying, Restoring

LEMMA MakerNow ==
  ASSUME NEW w, NEW n, n = job'[w], Creating(n),
         n.b \in Backups \ Made', dir'[n.b] # None,
         n.b \notin rotten' =>
           /\ \A f \in DOMAIN n.files : Holds(n.b, f, n.files[f])'
           /\ n.op = "insert" => Legible(n.b)' /\ dir'[n.b].manifest.files = n.files
  PROVE  JobFits(w)'
<1>1. ~Removing(n) /\ ~Verifying(n) /\ ~Restoring(n)
  BY DEF Creating, Removing, Verifying, Restoring
<1>2. MakerFits(w)'
  BY DEF MakerFits, Creating, Holds, HasPayload, Legible, HasManifest
<1> QED
  BY <1>1, <1>2 DEF JobFits, RemoverFits, VerifierFits, RestorerFits, Removing, Verifying, Restoring

LEMMA RemoverNow ==
  ASSUME NEW w, NEW n, n = job'[w], Removing(n),
         n.todo \subseteq Made', n.op = "drop" => n.b \in n.todo /\ n.b \in doomed',
         \A b \in n.todo : Due(b)'
  PROVE  JobFits(w)'
<1>1. ~Creating(n) /\ ~Verifying(n) /\ ~Restoring(n)
  BY DEF Creating, Removing, Verifying, Restoring
<1>2. RemoverFits(w)'
  BY DEF RemoverFits, Removing, Due, Outdated
<1> QED
  BY <1>1, <1>2 DEF JobFits, MakerFits, VerifierFits, RestorerFits, Creating, Verifying, Restoring

LEMMA VerifierNow ==
  ASSUME NEW w, NEW n, n = job'[w], Verifying(n), n.b \in Made',
         n.op = "load" => ~n.bad,
         n.todo \subseteq DOMAIN n.files,
         n.op = "verify" /\ ~n.off /\ ~n.blind => Judged(n)'
  PROVE  JobFits(w)'
<1>1. ~Creating(n) /\ ~Removing(n) /\ ~Restoring(n)
  BY DEF Creating, Removing, Verifying, Restoring
<1>2. VerifierFits(w)'
  BY DEF VerifierFits, Verifying, Judged, Legible, HasManifest, Holds, HasPayload
<1> QED
  BY <1>1, <1>2 DEF JobFits, MakerFits, RemoverFits, RestorerFits, Creating, Removing, Restoring

LEMMA RestorerNow ==
  ASSUME NEW w, NEW n, n = job'[w], Restoring(n), n.b \in Made',
         n.op = "restore" => n.todo \intersect n.done = {},
         n.op = "rows" => n.todo \subseteq DOMAIN n.entries,
         ~n.bad /\ ~n.off =>
           /\ \A f \in n.done : FileBack(n, f)'
           /\ n.op = "rows" => \A f \in DOMAIN n.entries \ n.todo : RowBack(n, f)'
           /\ n.op = "report" => \A f \in DOMAIN n.entries : RowBack(n, f)'
           /\ n.op = "report" => \A l \in n.links : LinkBack(n, l)'
  PROVE  JobFits(w)'
<1>1. ~Creating(n) /\ ~Removing(n) /\ ~Verifying(n)
  BY DEF Creating, Removing, Verifying, Restoring
<1>2. RestorerFits(w)'
  BY DEF RestorerFits, Restoring, FileBack, RowBack, LinkBack
<1> QED
  BY <1>1, <1>2 DEF JobFits, MakerFits, RemoverFits, VerifierFits, Creating, Removing, Verifying

-----------------------------------------------------------------------------
(* Two requests make different backups if the one that moves goes on with its
   own, with one that was made, or with none. *)
LEMMA MakersApart ==
  ASSUME Inv, NEW w \in Workers, NEW j \in Job, NEW m \in [Workers -> BOOLEAN], Moved(w, j, m),
         Creating(j) => Creating(job[w]) /\ j.b = job[w].b,
         j.b = job[w].b \/ j.b \in Made \union {None}
  PROVE  OneMaker'
<1>1. job \in [Workers -> Job] /\ \A v \in Workers : JobFits(v)
  BY DEF Inv, TypeOK
<1>2. job'[w] = j /\ \A v \in Workers : v # w => job'[v].b = job[v].b /\ job'[v].op = job[v].op
  <2>1. job'[w] = j /\ \A v \in Workers : v # w => job'[v] = Mark(job[v], m[v])
    BY <1>1, MovedFields
  <2>2. \A v \in Workers : Mark(job[v], m[v]).b = job[v].b /\ Mark(job[v], m[v]).op = job[v].op
    BY <1>1, MarkFields
  <2> QED
    BY <2>1, <2>2
<1>3. \A v \in Workers : Creating(job[v]) => job[v].b \notin Made \union {None}
  BY <1>1, NoneAssumption DEF JobFits, MakerFits
<1> QED
  BY <1>2, <1>3 DEF Inv, OneMaker, Creating

(* The table, as long as nothing is inserted. *)
LEMMA TableKept ==
  ASSUME Inv, made' = made, Table' \subseteq Table, Table \ Table' \subseteq doomed,
         deleted \subseteq deleted', deleted' \subseteq Made, sweeps \subseteq sweeps',
         doomed \subseteq doomed', doomed' \subseteq Made, \A b \in doomed' \ doomed : Due(b),
         rotten \subseteq rotten',
         \A b \in Made : dir'[b] = dir[b] \/ b \in doomed' \union rotten'
  PROVE  TableFits'
<1>1. Made' = Made /\ Table \subseteq Made /\ MadeGrows
  BY DEF Made, SetOf, MadeGrows, Inv, TypeOK
<1>2. DoomedMade' /\ GoneDoomed'
  BY <1>1 DEF Inv, TableFits, DoomedMade, GoneDoomed
<1>3. DoomedDue'
  <2>1. \A b : Due(b) => Due(b)'
    BY <1>1, Growth DEF Inv
  <2>2. \A b \in doomed' : Due(b)
    BY DEF Inv, TableFits, DoomedDue
  <2> QED
    BY <2>1, <2>2 DEF DoomedDue
<1>4. ASSUME NEW b \in Table' \ (doomed' \union rotten') PROVE Sound(b)'
  <2>1. Sound(b) /\ dir'[b] = dir[b]
    BY <1>1, <1>4 DEF Inv, TableFits, CompletedIsSound
  <2> QED
    BY <2>1 DEF Sound, HasPayload, Legible, HasManifest
<1>5. CompletedIsSound'
  BY <1>4 DEF CompletedIsSound
<1> QED
  BY <1>2, <1>3, <1>5 DEF TableFits

(* ... and when no row is dropped or asked for either. *)
LEMMA TableStill ==
  ASSUME Inv, UNCHANGED <<made, deleted, sweeps, doomed>>, Table' = Table, rotten \subseteq rotten',
         \A b \in Made : dir'[b] = dir[b] \/ b \in rotten'
  PROVE  TableFits'
<1>1. doomed' \subseteq Made /\ deleted' \subseteq Made
  BY DEF Inv, TableFits, DoomedMade
<1>2. made' = made /\ deleted \subseteq deleted' /\ sweeps \subseteq sweeps' /\ doomed \subseteq doomed'
  OBVIOUS
<1> QED
  BY <1>1, <1>2, TableKept

(* The other requests, when one moves and touches no directory of theirs. *)
LEMMA OthersFit ==
  ASSUME Inv, NEW w \in Workers, NEW j \in Job, Moved(w, j, Unmarked),
         UNCHANGED <<row, blob, made, rotten, doomed>>, links \subseteq links',
         deleted \subseteq deleted', sweeps \subseteq sweeps',
         \A b \in Backups : dir'[b] = dir[b] \/ (b \notin Made /\ \A v \in Workers \ {w} : job[v].b # b)
  PROVE  \A v \in Workers \ {w} : JobFits(v)'
<1> SUFFICES ASSUME NEW v \in Workers, v # w PROVE JobFits(v)'
  OBVIOUS
<1>1. TypeOK /\ JobFits(v) /\ job \in [Workers -> Job]
  BY DEF Inv, TypeOK
<1>2. job'[v] = Mark(job[v], FALSE)
  <2>1. job'[v] = Mark(job[v], Unmarked[v])
    BY <1>1, UnmarkedType, MovedFields
  <2> QED
    BY <2>1 DEF Unmarked
<1>3. MadeGrows /\ Made' = Made
  BY DEF MadeGrows, Made
<1>4. Creating(job[v]) => job[v].b \in Backups \ Made /\ dir'[job[v].b] = dir[job[v].b]
  BY <1>1 DEF JobFits, MakerFits
<1>5. Made \subseteq Backups
  BY <1>1 DEF TypeOK, Made, SetOf
<1>6. Verifying(job[v]) \/ Restoring(job[v]) => dir'[job[v].b] = dir[job[v].b]
  BY <1>1, <1>5 DEF JobFits, VerifierFits, RestorerFits
<1>7. rotten \subseteq rotten' /\ doomed \subseteq doomed' /\ blob' = blob /\ row' = row
  OBVIOUS
<1> QED
  BY <1>1, <1>2, <1>3, <1>4, <1>6, <1>7, OtherFits

(* A step that changes nothing but the request that takes it and what was asked
   for. *)
LEMMA AskStep ==
  ASSUME Inv, NEW w \in Workers, NEW j \in Job, Moved(w, j, Unmarked),
         UNCHANGED <<row, blob, links, dir, made, status, changes, doomed, rotten>>,
         deleted \subseteq deleted', deleted' \subseteq Made, sweeps \subseteq sweeps', sweeps' \subseteq Keeps,
         requests' \in 0 .. MaxRequests,
         Creating(j) => Creating(job[w]) /\ j.b = job[w].b,
         j.b = job[w].b \/ j.b \in Made \union {None},
         job'[w] = j => JobFits(w)'
  PROVE  Inv'
<1>1. job \in [Workers -> Job] /\ Made \subseteq Backups
  BY DEF Inv, TypeOK, Made, SetOf
<1>2. job' \in [Workers -> Job] /\ job'[w] = j
  BY <1>1, UnmarkedType, MovedFields
<1>3. Table' = Table /\ Made' = Made
  BY DEF Table, Made, SetOf
<1>4. TypeOK'
  BY <1>1, <1>2, <1>3 DEF Inv, TypeOK, PartialFn
<1>5. OneMaker'
  BY UnmarkedType, MakersApart
<1>6. \A v \in Workers : JobFits(v)'
  BY <1>2, OthersFit
<1>7. TableFits'
  <2>1. doomed' \subseteq Made /\ doomed \subseteq doomed' /\ rotten \subseteq rotten'
    BY DEF Inv, TableFits, DoomedMade
  <2>2. /\ made' = made /\ Table' \subseteq Table /\ Table \ Table' \subseteq doomed
        /\ \A b \in doomed' \ doomed : Due(b)
        /\ \A b \in Made : dir'[b] = dir[b]
    BY <1>3
  <2> QED
    BY <2>1, <2>2, TableKept
<1> QED
  BY <1>4, <1>5, <1>6, <1>7 DEF Inv

LEMMA LocalStep ==
  ASSUME Inv, NEW w \in Workers, NEW j \in Job, Moved(w, j, Unmarked),
         UNCHANGED <<row, blob, links, dir, made, status, changes, doomed, rotten, deleted, sweeps>>,
         requests' \in 0 .. MaxRequests,
         Creating(j) => Creating(job[w]) /\ j.b = job[w].b,
         j.b = job[w].b \/ j.b \in Made \union {None},
         job'[w] = j => JobFits(w)'
  PROVE  Inv'
<1>1. /\ deleted \subseteq deleted' /\ deleted' \subseteq Made
      /\ sweeps \subseteq sweeps' /\ sweeps' \subseteq Keeps
  BY DEF Inv, TypeOK, TableFits, DoomedMade
<1> QED
  BY <1>1, AskStep

-----------------------------------------------------------------------------
(* What retention selects has k newer backups: the newer ones in the table are
   among those made later, each of which was made once. *)
LEMMA SurplusOutdated ==
  ASSUME TypeOK, NEW k \in Nat, NEW b \in Surplus(k)
  PROVE  b \in Made /\ Outdated(b, k)
<1>1. /\ made \in Seq(Backups) /\ Len(made) \in Nat
      /\ \A i, j \in 1 .. Len(made) : made[i] = made[j] => i = j
      /\ Table \subseteq {made[i] : i \in 1 .. Len(made)}
  BY DEF TypeOK, Made, SetOf
<1>2. b \in Table /\ Cardinality(Newer(b)) >= k
  BY DEF Surplus
<1>3. PICK i \in 1 .. Len(made) : made[i] = b
  BY <1>1, <1>2
<1>4. PICK R : R = i + 1 .. Len(made)
  OBVIOUS
<1>5. PICK T : T = {made[l] : l \in R}
  OBVIOUS
<1>6. PICK g : g = [l \in R |-> made[l]]
  OBVIOUS
<1>7. IsFiniteSet(R) /\ Cardinality(R) = Len(made) - i
  <2>1. i + 1 \in Int /\ Len(made) \in Int
    BY <1>1, <1>3
  <2>2. /\ IsFiniteSet(i + 1 .. Len(made))
        /\ Cardinality(i + 1 .. Len(made)) = IF i + 1 > Len(made) THEN 0 ELSE Len(made) - (i + 1) + 1
    BY <2>1, FS_Interval
  <2> QED
    BY <1>1, <1>3, <1>4, <2>2
<1>8. g \in Surjection(R, T)
  BY <1>5, <1>6 DEF Surjection
<1>9. IsFiniteSet(T) /\ Cardinality(T) <= Cardinality(R)
  BY <1>7, <1>8, FS_Surjection
<1>10. Newer(b) \in SUBSET T
  BY <1>1, <1>3, <1>4, <1>5 DEF Newer
<1>11. Cardinality(Newer(b)) <= Cardinality(T) /\ IsFiniteSet(Newer(b))
  BY <1>9, <1>10, FS_Subset
<1>12. Cardinality(Newer(b)) \in Nat /\ Cardinality(T) \in Nat /\ Cardinality(R) \in Nat
  BY <1>7, <1>9, <1>11, FS_CardinalityType
<1>13. Len(made) - i >= k
  BY <1>1, <1>2, <1>3, <1>7, <1>9, <1>11, <1>12
<1> QED
  BY <1>3, <1>13 DEF Outdated, Made, SetOf

(* What the invariant says of the request of w, and of its types. *)
LEMMA Known ==
  ASSUME Inv, NEW w \in Workers
  PROVE  /\ job \in [Workers -> Job] /\ job[w] \in Job
         /\ dir \in [Backups -> Dir \union {None}]
         /\ requests \in 0 .. MaxRequests /\ changes \in 0 .. MaxChanges
         /\ Made \subseteq Backups /\ Table \subseteq Made
         /\ JobFits(w)
BY DEF Inv, TypeOK, Made, SetOf

(* A request that begins or ends. *)
LEMMA BeginStep ==
  ASSUME Inv, NEW w \in Workers, NEW j, Begin(w, j)
  PROVE  Moved(w, j, Unmarked) /\ requests' \in 0 .. MaxRequests
<1>1. Step(w, j, Nobody) /\ requests > 0 /\ requests' = requests - 1
  BY DEF Begin
<1>2. Moved(w, j, Unmarked)
  BY <1>1, StepNobody
<1>3. requests \in 0 .. MaxRequests
  BY Known
<1> QED
  BY <1>1, <1>2, <1>3, BoundsAssumption

LEMMA EndStep ==
  ASSUME Inv, NEW w \in Workers, VerifyEnd(w) \/ Abort(w)
  PROVE  Inv'
<1>1. /\ Step(w, Idle, Nobody)
      /\ UNCHANGED <<row, blob, links, dir, made, status, changes, requests, doomed, rotten, deleted, sweeps>>
  BY DEF VerifyEnd, Abort
<1>2. Moved(w, Idle, Unmarked)
  BY <1>1, StepNobody
<1>3. Idle \in Job /\ ~Creating(Idle) /\ Idle.b = None /\ requests' \in 0 .. MaxRequests
  BY <1>1, IdleFields, Known DEF Creating
<1>4. job'[w] = Idle => JobFits(w)'
  BY IdleFields, IdleNow
<1> QED
  BY <1>1, <1>2, <1>3, <1>4, LocalStep

(* A file is passed over, and the links are read. *)
LEMMA SkipStep ==
  ASSUME Inv, NEW w \in Workers, CopyLinks(w) \/ \E f \in Files : SkipFile(w, f)
  PROVE  Inv'
<1>0. /\ job[w] \in Job /\ JobFits(w) /\ requests \in 0 .. MaxRequests
      /\ links \subseteq Links
  BY Known DEF Inv, TypeOK
<1>1. /\ job[w].op = "copy"
      /\ UNCHANGED <<row, blob, links, dir, made, status, changes, requests, doomed, rotten, deleted, sweeps>>
  BY DEF CopyLinks, SkipFile
<1>2. PICK j : /\ Step(w, j, Nobody)
               /\ \/ \E S \in SUBSET links : j = [job[w] EXCEPT !.op = "manifest", !.links = S]
                  \/ \E f \in Files : j = [job[w] EXCEPT !.todo = @ \ {f}]
  <2>1. CASE CopyLinks(w)
    <3>1. PICK versions \in {links \intersect Versions, {}}, shares \in {links \ Versions, {}} :
            Step(w, [job[w] EXCEPT !.op = "manifest", !.links = versions \union shares], Nobody)
      BY <2>1 DEF CopyLinks
    <3>2. versions \union shares \in SUBSET links
      OBVIOUS
    <3> QED
      BY <3>1, <3>2
  <2>2. CASE \E f \in Files : SkipFile(w, f)
    BY <2>2 DEF SkipFile
  <2> QED
    BY <2>1, <2>2
<1>3. Moved(w, j, Unmarked)
  BY <1>2, StepNobody
<1>4. j \in Job /\ Creating(j) /\ j.op # "insert" /\ j.b = job[w].b /\ j.files = job[w].files
  <2>1. ASSUME NEW S \in SUBSET links, j = [job[w] EXCEPT !.op = "manifest", !.links = S]
        PROVE  j \in Job /\ Creating(j) /\ j.op # "insert" /\ j.b = job[w].b /\ j.files = job[w].files
    <3>1. S \subseteq Links
      BY <1>0
    <3> QED
      BY <1>0, <1>1, <2>1, <3>1 DEF Job, Creating
  <2>2. ASSUME NEW f \in Files, j = [job[w] EXCEPT !.todo = @ \ {f}]
        PROVE  j \in Job /\ Creating(j) /\ j.op # "insert" /\ j.b = job[w].b /\ j.files = job[w].files
    BY <1>0, <1>1, <2>2 DEF Job, Creating
  <2> QED
    BY <1>2, <2>1, <2>2
<1>5. Creating(job[w])
  BY <1>1 DEF Creating
<1>6. /\ j.b \in Backups \ Made' /\ dir'[j.b] # None
      /\ j.b \notin rotten' => \A f \in DOMAIN j.files : Holds(j.b, f, j.files[f])'
  <2>1. /\ j.b \in Backups \ Made /\ dir[j.b] # None
        /\ j.b \notin rotten => \A f \in DOMAIN j.files : Holds(j.b, f, j.files[f])
    BY <1>0, <1>4, <1>5 DEF JobFits, MakerFits
  <2> QED
    BY <1>1, <2>1 DEF Made, Holds, HasPayload
<1>7. job'[w] = j => JobFits(w)'
  BY <1>4, <1>6, MakerNow
<1>8. requests' \in 0 .. MaxRequests
  BY <1>0, <1>1
<1> QED
  BY <1>1, <1>3, <1>4, <1>5, <1>7, <1>8, LocalStep

(* The rows to be removed are read: they are due now. *)
LEMMA RemoveReadStep ==
  ASSUME Inv, NEW w \in Workers,
         (\E b \in Backups : DeleteRead(w, b)) \/ \E k \in Keeps : RetentionRead(w, k)
  PROVE  Inv'
<1>1. UNCHANGED <<row, blob, links, dir, made, status, changes, doomed, rotten>>
  BY DEF DeleteRead, RetentionRead
<1>2. Table \subseteq Made /\ Made \subseteq Backups /\ TypeOK /\ Made' = Made
  BY <1>1, Known DEF Inv, Made, SetOf
<1>3. deleted \subseteq Made /\ sweeps \subseteq Keeps
  BY DEF Inv, TypeOK, TableFits, DoomedMade
<1>4. PICK todo : /\ todo \subseteq Made
                  /\ Begin(w, [Idle EXCEPT !.op = "remove", !.todo = todo])
                  /\ deleted \subseteq deleted' /\ deleted' \subseteq Made
                  /\ sweeps \subseteq sweeps' /\ sweeps' \subseteq Keeps
                  /\ \A b \in todo : Due(b)'
  <2>1. CASE \E b \in Backups : DeleteRead(w, b)
    <3>1. PICK b \in Table : /\ Begin(w, [Idle EXCEPT !.op = "remove", !.todo = {b}])
                             /\ deleted' = deleted \union {b} /\ sweeps' = sweeps
      BY <2>1 DEF DeleteRead
    <3>2. PICK S : S = {b}
      OBVIOUS
    <3>3. S \subseteq Made /\ \A c \in S : Due(c)'
      BY <1>2, <3>1, <3>2 DEF Due
    <3>4. Begin(w, [Idle EXCEPT !.op = "remove", !.todo = S]) /\ deleted' \subseteq Made /\ deleted \subseteq deleted'
      BY <1>2, <1>3, <3>1, <3>2
    <3> QED
      BY <1>3, <3>1, <3>3, <3>4
  <2>2. CASE \E k \in Keeps : RetentionRead(w, k)
    <3>1. PICK k \in Keeps : /\ Begin(w, [Idle EXCEPT !.op = "remove", !.todo = Surplus(k)])
                             /\ sweeps' = sweeps \union {k} /\ deleted' = deleted
      BY <2>2 DEF RetentionRead
    <3>2. k \in Nat /\ \A b \in Surplus(k) : b \in Made /\ Outdated(b, k)
      BY <1>2, BoundsAssumption, SurplusOutdated
    <3>3. \A b \in Surplus(k) : Due(b)'
      BY <1>1, <3>1, <3>2 DEF Due, Outdated
    <3> QED
      BY <1>3, <3>1, <3>2, <3>3
  <2> QED
    BY <2>1, <2>2
<1>5. PICK j : j = [Idle EXCEPT !.op = "remove", !.todo = todo]
  OBVIOUS
<1>6. Moved(w, j, Unmarked) /\ requests' \in 0 .. MaxRequests
  BY <1>4, <1>5, BeginStep
<1>7. j \in Job /\ j.op = "remove" /\ j.b = None /\ j.todo = todo
  <2>1. Empty \in FilesTo(Contents) /\ Empty \in FilesTo(Row) /\ todo \subseteq Files \union Backups
    BY <1>2, <1>4, EmptyTo
  <2> QED
    BY <1>5, <2>1 DEF Idle, Job
<1>8. job'[w] = j => JobFits(w)'
  <2>1. Removing(j) /\ j.todo \subseteq Made' /\ \A b \in j.todo : Due(b)'
    BY <1>2, <1>4, <1>7 DEF Removing
  <2> QED
    BY <1>7, <2>1, RemoverNow
<1>9. ~Creating(j)
  BY <1>7 DEF Creating
<1> QED
  BY <1>1, <1>4, <1>6, <1>7, <1>8, <1>9, AskStep

(* The fields of a directory with a manifest. *)
LEMMA ManifestFields ==
  ASSUME Inv, NEW b \in Backups, HasManifest(b)
  PROVE  /\ dir[b] \in Dir /\ dir[b].manifest \in Manifest
         /\ dir[b].manifest.files \in FilesTo(Contents)
         /\ dir[b].manifest.entries \in FilesTo(Row)
         /\ dir[b].manifest.links \subseteq Links
         /\ DOMAIN dir[b].manifest.files \subseteq Files
<1>1. dir \in [Backups -> Dir \union {None}] /\ dir[b] # None /\ dir[b].manifest # None
  BY DEF Inv, TypeOK, HasManifest
<1>2. dir[b] \in Dir /\ dir[b].manifest \in Manifest
  BY <1>1 DEF Dir
<1>3. /\ dir[b].manifest.files \in FilesTo(Contents)
      /\ dir[b].manifest.entries \in FilesTo(Row)
      /\ dir[b].manifest.links \subseteq Links
  BY <1>2 DEF Manifest
<1> QED
  BY <1>2, <1>3, FilesToFn

(* verify_backup looks for the manifest. *)
LEMMA VerifyStatStep ==
  ASSUME Inv, NEW w \in Workers, NEW b \in Backups, VerifyStat(w, b)
  PROVE  Inv'
<1>1. /\ b \in Table
      /\ UNCHANGED <<row, blob, links, dir, made, status, changes, doomed, rotten, deleted, sweeps>>
  BY DEF VerifyStat
<1>2. b \in Made /\ Made' = Made
  BY <1>1, Known DEF Made, SetOf
<1>3. Empty \in FilesTo(Contents) /\ Empty \in FilesTo(Row) /\ DOMAIN Empty = {}
  BY EmptyTo
<1>4. HasManifest(b) \in BOOLEAN
  BY DEF HasManifest
<1>5. PICK j : /\ Begin(w, j)
               /\ \/ j = [Idle EXCEPT !.op = "load", !.b = b]
                  \/ j = [Idle EXCEPT !.op = "verify", !.b = b, !.bad = TRUE, !.blind = HasManifest(b)]
  BY DEF VerifyStat
<1>6. Moved(w, j, Unmarked) /\ requests' \in 0 .. MaxRequests
  BY <1>5, BeginStep
<1>7. /\ j \in Job /\ j.b = b
      /\ j.todo = {}
      /\ \/ j.op = "load" /\ ~j.bad
         \/ j.op = "verify" /\ j.bad /\ (~j.blind => ~HasManifest(b))
  <2>1. CASE j = [Idle EXCEPT !.op = "load", !.b = b]
    BY <1>3, <2>1 DEF Idle, Job
  <2>2. CASE j = [Idle EXCEPT !.op = "verify", !.b = b, !.bad = TRUE, !.blind = HasManifest(b)]
    <3>1. j \in Job /\ j.b = b /\ j.op = "verify" /\ j.todo = {}
      BY <1>3, <1>4, <2>2 DEF Idle, Job
    <3>2. j.bad = TRUE /\ j.blind = HasManifest(b)
      BY <2>2 DEF Idle
    <3> QED
      BY <3>1, <3>2
  <2> QED
    BY <1>5, <2>1, <2>2
<1>8. job'[w] = j => JobFits(w)'
  <2>1. Verifying(j) /\ j.b \in Made'
    BY <1>2, <1>7 DEF Verifying
  <2>2. j.op = "verify" /\ ~j.blind => Judged(j)'
    BY <1>1, <1>7 DEF Judged, HasManifest
  <2>3. (j.op = "load" => ~j.bad) /\ j.todo \subseteq DOMAIN j.files
    BY <1>7
  <2> QED
    BY <2>1, <2>2, <2>3, VerifierNow
<1>9. ~Creating(j)
  BY <1>7 DEF Creating
<1> QED
  BY <1>1, <1>2, <1>6, <1>7, <1>8, <1>9, LocalStep

(* It reads the manifest, or fails to. *)
LEMMA VerifyLoadStep ==
  ASSUME Inv, NEW w \in Workers, VerifyLoad(w)
  PROVE  Inv'
<1>0. job[w] \in Job /\ JobFits(w) /\ requests \in 0 .. MaxRequests /\ Made \subseteq Backups
  BY Known
<1>1. /\ job[w].op = "load"
      /\ UNCHANGED <<row, blob, links, dir, made, status, changes, requests, doomed, rotten, deleted, sweeps>>
  BY DEF VerifyLoad
<1>2. PICK o : o = job[w]
  OBVIOUS
<1>3. o \in Job /\ o.b \in Made /\ ~o.bad /\ o.todo \subseteq DOMAIN o.files /\ Made' = Made
  BY <1>0, <1>1, <1>2 DEF JobFits, VerifierFits, Verifying, Made
<1>4. ASSUME NEW j \in Job, Step(w, j, Nobody), j.op = "verify", j.b = o.b,
             j.todo \subseteq DOMAIN j.files, ~j.off /\ ~j.blind => Judged(j)
      PROVE  Inv'
  <2>1. Moved(w, j, Unmarked)
    BY <1>4, StepNobody
  <2>2. Judged(j) => Judged(j)'
    BY <1>1 DEF Judged, Legible, HasManifest, Holds, HasPayload
  <2>3. job'[w] = j => JobFits(w)'
    <3>1. Verifying(j) /\ j.b \in Made'
      BY <1>3, <1>4 DEF Verifying
    <3> QED
      BY <1>4, <2>2, <3>1, VerifierNow
  <2>4. ~Creating(j) /\ requests' \in 0 .. MaxRequests
    BY <1>0, <1>1, <1>4 DEF Creating
  <2> QED
    BY <1>1, <1>2, <1>4, <2>1, <2>3, <2>4, LocalStep
<1>5. ASSUME Legible(o.b), Step(w, [o EXCEPT !.op = "verify", !.files = dir[o.b].manifest.files,
                                            !.todo = DOMAIN dir[o.b].manifest.files], Nobody)
      PROVE  Inv'
  <2>1. PICK files : files = dir[o.b].manifest.files
    OBVIOUS
  <2>2. files \in FilesTo(Contents) /\ DOMAIN files \subseteq Files
    BY <1>0, <1>3, <1>5, <2>1, ManifestFields DEF Legible
  <2>3. PICK j : j = [o EXCEPT !.op = "verify", !.files = files, !.todo = DOMAIN files]
    OBVIOUS
  <2>4. j \in Job /\ j.op = "verify" /\ j.b = o.b /\ j.files = files /\ j.todo = DOMAIN files /\ j.bad = o.bad
    BY <1>3, <2>2, <2>3 DEF Job
  <2>5. Judged(j)
    BY <1>3, <1>5, <2>1, <2>4 DEF Judged
  <2>6. Step(w, j, Nobody)
    BY <1>5, <2>1, <2>3
  <2> QED
    BY <1>4, <2>4, <2>5, <2>6
<1>6. ASSUME Step(w, [o EXCEPT !.op = "verify", !.blind = TRUE], Nobody)
      PROVE  Inv'
  <2>1. PICK j : j = [o EXCEPT !.op = "verify", !.blind = TRUE]
    OBVIOUS
  <2>2. j \in Job /\ j.op = "verify" /\ j.b = o.b /\ j.files = o.files /\ j.todo = o.todo /\ j.blind
    BY <1>3, <2>1 DEF Job
  <2>3. Step(w, j, Nobody)
    BY <1>6, <2>1
  <2> QED
    BY <1>3, <1>4, <2>2, <2>3
<1> QED
  BY <1>2, <1>5, <1>6 DEF VerifyLoad

(* It compares one payload, or fails to read it. *)
LEMMA VerifyFileStep ==
  ASSUME Inv, NEW w \in Workers, NEW f \in Files, VerifyFile(w, f)
  PROVE  Inv'
<1>0. job[w] \in Job /\ JobFits(w) /\ requests \in 0 .. MaxRequests
  BY Known
<1>1. /\ job[w].op = "verify" /\ f \in job[w].todo
      /\ UNCHANGED <<row, blob, links, dir, made, status, changes, requests, doomed, rotten, deleted, sweeps>>
  BY DEF VerifyFile
<1>2. PICK o : o = job[w]
  OBVIOUS
<1>3. /\ o \in Job /\ o.b \in Made /\ o.todo \subseteq DOMAIN o.files /\ f \in o.todo /\ o.op = "verify"
      /\ o.bad \in BOOLEAN /\ o.lost \subseteq Files \union Links
      /\ ~o.off /\ ~o.blind => Judged(o)
  BY <1>0, <1>1, <1>2, JobFields DEF JobFits, VerifierFits, Verifying
<1>4. PICK good : good = Holds(o.b, f, o.files[f])
  OBVIOUS
<1>5. ASSUME NEW bad \in BOOLEAN, NEW lost \in SUBSET (Files \union Links), NEW j,
             j = [o EXCEPT !.todo = @ \ {f}, !.bad = bad, !.lost = lost], Step(w, j, Nobody),
             ~bad => ~o.bad /\ good,
             bad /\ lost = {} => (o.bad /\ o.lost = {}) \/ ~good
      PROVE  Inv'
  <2>1. Moved(w, j, Unmarked)
    BY <1>5, StepNobody
  <2>2. /\ j \in Job /\ j.op = "verify" /\ j.b = o.b /\ j.files = o.files /\ j.todo = o.todo \ {f}
        /\ j.off = o.off /\ j.blind = o.blind /\ j.bad = bad /\ j.lost = lost
    BY <1>3, <1>5 DEF Job
  <2>3. ASSUME ~j.off, ~j.blind PROVE Judged(j)'
    <3>1. Judged(o)
      BY <1>3, <2>2, <2>3
    <3>2. CASE ~HasManifest(o.b) /\ o.bad
      <4>1. j.bad /\ ~HasManifest(j.b)'
        BY <1>1, <1>5, <2>2, <3>2 DEF HasManifest
      <4> QED
        BY <4>1 DEF Judged
    <3>3. CASE /\ Legible(o.b)
               /\ dir[o.b].manifest.files = o.files
               /\ ~o.bad => \A g \in DOMAIN o.files \ o.todo : Holds(o.b, g, o.files[g])
               /\ o.bad /\ o.lost = {} => \E g \in DOMAIN o.files \ o.todo : ~Holds(o.b, g, o.files[g])
      <4>1. Legible(j.b)' /\ dir'[j.b].manifest.files = j.files
        BY <1>1, <2>2, <3>3 DEF Legible, HasManifest
      <4>2. DOMAIN j.files \ j.todo = (DOMAIN o.files \ o.todo) \union {f}
        BY <1>3, <2>2
      <4>3. ~j.bad => \A g \in DOMAIN j.files \ j.todo : Holds(j.b, g, j.files[g])
        BY <1>4, <1>5, <2>2, <3>3, <4>2
      <4>4. j.bad /\ j.lost = {} => \E g \in DOMAIN j.files \ j.todo : ~Holds(j.b, g, j.files[g])
        BY <1>4, <1>5, <2>2, <3>3, <4>2
      <4>5. \A g : Holds(j.b, g, j.files[g])' <=> Holds(j.b, g, j.files[g])
        BY <1>1 DEF Holds, HasPayload
      <4> QED
        BY <4>1, <4>3, <4>4, <4>5 DEF Judged
    <3> QED
      BY <3>1, <3>2, <3>3 DEF Judged
  <2>4. job'[w] = j => JobFits(w)'
    <3>1. Verifying(j) /\ j.b \in Made' /\ j.op = "verify" /\ j.todo \subseteq DOMAIN j.files
      BY <1>1, <1>3, <2>2 DEF Verifying, Made
    <3> QED
      BY <2>3, <3>1, VerifierNow
  <2>5. ~Creating(j) /\ requests' \in 0 .. MaxRequests /\ j.b = job[w].b
    BY <1>0, <1>1, <1>2, <2>2 DEF Creating
  <2> QED
    BY <1>1, <2>1, <2>2, <2>4, <2>5, LocalStep
<1>6. CASE Step(w, [[o EXCEPT !.todo = @ \ {f}] EXCEPT !.bad = @ \/ ~good], Nobody)
  <2>1. PICK bad \in BOOLEAN : bad = (o.bad \/ ~good)
    OBVIOUS
  <2>2. PICK j : j = [o EXCEPT !.todo = @ \ {f}, !.bad = bad, !.lost = o.lost]
    OBVIOUS
  <2>3. j = [[o EXCEPT !.todo = @ \ {f}] EXCEPT !.bad = @ \/ ~good]
    BY <1>3, <2>1, <2>2 DEF Job
  <2>4. Step(w, j, Nobody)
    BY <1>6, <2>3
  <2>5. (~bad => ~o.bad /\ good) /\ (bad => o.bad \/ ~good)
    BY <1>3, <2>1
  <2> QED
    BY <1>3, <1>5, <2>2, <2>4, <2>5
<1>7. CASE Step(w, [[o EXCEPT !.todo = @ \ {f}] EXCEPT !.bad = TRUE, !.lost = @ \union {f}], Nobody)
  <2>1. PICK lost : lost = o.lost \union {f}
    OBVIOUS
  <2>2. PICK j : j = [o EXCEPT !.todo = @ \ {f}, !.bad = TRUE, !.lost = lost]
    OBVIOUS
  <2>3. j = [[o EXCEPT !.todo = @ \ {f}] EXCEPT !.bad = TRUE, !.lost = @ \union {f}]
    BY <1>3, <2>1, <2>2 DEF Job
  <2>4. Step(w, j, Nobody)
    BY <1>7, <2>3
  <2>5. lost \in SUBSET (Files \union Links) /\ lost # {}
    BY <1>3, <2>1
  <2> QED
    BY <1>5, <2>2, <2>4, <2>5
<1> QED
  BY <1>2, <1>4, <1>6, <1>7 DEF VerifyFile, Holds

(* restore_backup reads the manifest. *)
LEMMA RestoreReadStep ==
  ASSUME Inv, NEW w \in Workers, NEW b \in Backups, RestoreRead(w, b)
  PROVE  Inv'
<1>1. /\ b \in Table /\ HasManifest(b)
      /\ UNCHANGED <<row, blob, links, dir, made, status, changes, doomed, rotten, deleted, sweeps>>
  BY DEF RestoreRead, Legible
<1>2. b \in Made /\ Made' = Made
  BY <1>1, Known DEF Made, SetOf
<1>3. PICK man : man = dir[b].manifest
  OBVIOUS
<1>4. /\ man.files \in FilesTo(Contents) /\ man.entries \in FilesTo(Row) /\ man.links \subseteq Links
      /\ DOMAIN man.files \subseteq Files
  BY <1>1, <1>3, ManifestFields
<1>5. PICK j : j = [Idle EXCEPT !.op = "restore", !.b = b, !.files = man.files,
                     !.entries = man.entries, !.links = man.links, !.todo = DOMAIN man.files]
  OBVIOUS
<1>6. Begin(w, j)
  BY <1>3, <1>5 DEF RestoreRead
<1>7. Moved(w, j, Unmarked) /\ requests' \in 0 .. MaxRequests
  BY <1>6, BeginStep
<1>8. j \in Job /\ j.op = "restore" /\ j.b = b /\ j.done = {}
  BY <1>4, <1>5 DEF Idle, Job
<1>9. job'[w] = j => JobFits(w)'
  <2>1. Restoring(j) /\ j.b \in Made'
    BY <1>2, <1>8 DEF Restoring
  <2> QED
    BY <1>8, <2>1, RestorerNow
<1>10. ~Creating(j)
  BY <1>8 DEF Creating
<1> QED
  BY <1>1, <1>2, <1>7, <1>8, <1>9, <1>10, LocalStep

(* It passes over a file, and is done with the files. *)
LEMMA RestoreOnStep ==
  ASSUME Inv, NEW w \in Workers, RestoreRows(w) \/ \E f \in Files : RestoreSkip(w, f)
  PROVE  Inv'
<1>0. job[w] \in Job /\ JobFits(w) /\ requests \in 0 .. MaxRequests
  BY Known
<1>1. /\ job[w].op = "restore"
      /\ UNCHANGED <<row, blob, links, dir, made, status, changes, requests, doomed, rotten, deleted, sweeps>>
  BY DEF RestoreRows, RestoreSkip
<1>2. PICK o : o = job[w]
  OBVIOUS
<1>3. /\ o \in Job /\ o.b \in Made /\ DOMAIN o.entries \subseteq Files
      /\ ~o.bad /\ ~o.off => \A f \in o.done : FileBack(o, f)
      /\ o.todo \intersect o.done = {}
  <2>1. o \in Job /\ o.entries \in FilesTo(Row)
    BY <1>0, <1>2, JobFields
  <2> QED
    BY <1>0, <1>1, <1>2, <2>1, FilesToFn DEF JobFits, RestorerFits, Restoring
<1>4. PICK j : /\ Step(w, j, Nobody)
               /\ \/ j = [o EXCEPT !.op = "rows", !.todo = DOMAIN o.entries]
                  \/ \E f \in Files : j = [o EXCEPT !.todo = @ \ {f}]
  BY <1>2 DEF RestoreRows, RestoreSkip
<1>5. Moved(w, j, Unmarked)
  BY <1>4, StepNobody
<1>6. /\ j \in Job /\ j.b = o.b /\ j.files = o.files /\ j.entries = o.entries
      /\ j.done = o.done /\ j.off = o.off /\ j.bad = o.bad
      /\ (j.op = "restore" /\ j.todo \subseteq o.todo) \/ (j.op = "rows" /\ j.todo = DOMAIN o.entries)
  <2>1. CASE j = [o EXCEPT !.op = "rows", !.todo = DOMAIN o.entries]
    BY <1>3, <2>1 DEF Job
  <2>2. CASE \E f \in Files : j = [o EXCEPT !.todo = @ \ {f}]
    BY <1>1, <1>2, <1>3, <2>2 DEF Job
  <2> QED
    BY <1>4, <2>1, <2>2
<1>7. job'[w] = j => JobFits(w)'
  <2>1. Restoring(j) /\ j.b \in Made'
    BY <1>1, <1>3, <1>6 DEF Restoring, Made
  <2>2. ~j.bad /\ ~j.off => \A f \in j.done : FileBack(j, f)'
    BY <1>1, <1>3, <1>6 DEF FileBack
  <2> QED
    BY <1>3, <1>6, <2>1, <2>2, RestorerNow
<1>8. ~Creating(j) /\ requests' \in 0 .. MaxRequests /\ j.b = job[w].b
  BY <1>0, <1>1, <1>2, <1>6 DEF Creating
<1> QED
  BY <1>1, <1>5, <1>6, <1>7, <1>8, LocalStep

-----------------------------------------------------------------------------
(* A directory that is made or filled by its maker. *)
LEMMA MakerStep ==
  ASSUME Inv, NEW w \in Workers, NEW j \in Job, Moved(w, j, Unmarked), Creating(j), j.b \in Backups \ Made,
         UNCHANGED <<row, blob, links, made, status, changes, doomed, rotten, deleted, sweeps>>,
         requests' \in 0 .. MaxRequests,
         \A v \in Workers \ {w} : job[v].b # j.b,
         NEW d \in Dir, dir' = [dir EXCEPT ![j.b] = d],
         j.b \notin rotten => \A f \in DOMAIN j.files : f \in DOMAIN d.payload /\ d.payload[f] = j.files[f],
         j.op = "insert" => d.manifest # None /\ d.legible /\ d.manifest.files = j.files
  PROVE  Inv'
<1>1. job \in [Workers -> Job] /\ dir \in [Backups -> Dir \union {None}] /\ \A v \in Workers : JobFits(v)
  BY DEF Inv, TypeOK
<1>2. job' \in [Workers -> Job] /\ job'[w] = j /\ \A v \in Workers : v # w => job'[v] = Mark(job[v], FALSE)
  <2>1. /\ job' \in [Workers -> Job] /\ job'[w] = j
        /\ \A v \in Workers : v # w => job'[v] = Mark(job[v], Unmarked[v])
    BY <1>1, UnmarkedType, MovedFields
  <2> QED
    BY <2>1 DEF Unmarked
<1>3. dir' \in [Backups -> Dir \union {None}] /\ dir'[j.b] = d /\ d # None
  BY <1>1, NoneAssumption
<1>4. \A b \in Backups : b # j.b => dir'[b] = dir[b]
  BY <1>1
<1>5. Made' = Made /\ Table' = Table /\ Made \subseteq Backups
  BY DEF Made, SetOf, Table, Inv, TypeOK
<1>6. TypeOK'
  BY <1>2, <1>3, <1>5 DEF Inv, TypeOK, PartialFn
<1>7. OneMaker'
  <2>1. \A v \in Workers \ {w} : job'[v].b = job[v].b /\ job'[v].op = job[v].op
    <3>1. \A v \in Workers \ {w} : Mark(job[v], FALSE).b = job[v].b /\ Mark(job[v], FALSE).op = job[v].op
      BY <1>1, MarkFields
    <3> QED
      BY <1>2, <3>1
  <2> QED
    BY <1>2, <2>1 DEF Inv, OneMaker, Creating
<1>8. \A v \in Workers : JobFits(v)'
  <2>1. \A v \in Workers \ {w} : JobFits(v)'
    <3>1. \A b \in Backups : dir'[b] = dir[b] \/ (b \notin Made /\ \A v \in Workers \ {w} : job[v].b # b)
      BY <1>4
    <3>2. /\ UNCHANGED <<row, blob, made, rotten, doomed>> /\ links \subseteq links'
          /\ deleted \subseteq deleted' /\ sweeps \subseteq sweeps'
      OBVIOUS
    <3> QED
      BY <3>1, <3>2, OthersFit
  <2>2. JobFits(w)'
    <3>1. j.b \notin rotten' => \A f \in DOMAIN j.files : Holds(j.b, f, j.files[f])'
      BY <1>3 DEF Holds, HasPayload
    <3>2. j.b \in Backups \ Made' /\ dir'[j.b] # None
      BY <1>3, <1>5
    <3>3. j.op = "insert" => Legible(j.b)' /\ dir'[j.b].manifest.files = j.files
      BY <1>3 DEF Legible, HasManifest
    <3> QED
      BY <1>2, <3>1, <3>2, <3>3, MakerNow
  <2> QED
    BY <2>1, <2>2
<1>9. TableFits'
  <2>1. UNCHANGED <<made, deleted, sweeps, doomed>> /\ Table' = Table /\ rotten \subseteq rotten'
    BY <1>5
  <2>2. \A b \in Made : dir'[b] = dir[b] \/ b \in rotten'
    BY <1>4, <1>5
  <2> QED
    BY <2>1, <2>2, TableStill
<1> QED
  BY <1>6, <1>7, <1>8, <1>9 DEF Inv

(* create_backup begins with a directory nobody uses. *)
LEMMA CreateStep ==
  ASSUME Inv, NEW w \in Workers, NEW b \in Backups, CreateBegin(w, b)
  PROVE  Inv'
<1>1. PICK j : j = [Idle EXCEPT !.op = "copy", !.b = b, !.entries = row,
                                !.todo = {f \in DOMAIN row : ~row[f].trashed}]
  OBVIOUS
<1>2. /\ Begin(w, j) /\ b \notin Used /\ dir' = [dir EXCEPT ![b] = NewDir]
      /\ UNCHANGED <<row, blob, links, made, status, changes, doomed, rotten, deleted, sweeps>>
  BY <1>1 DEF CreateBegin
<1>3. Moved(w, j, Unmarked) /\ requests' \in 0 .. MaxRequests
  BY <1>2, BeginStep
<1>4. b \notin Made /\ \A v \in Workers : job[v].b # b
  BY <1>2 DEF Used, Made
<1>5. Empty \in FilesTo(Contents) /\ DOMAIN Empty = {} /\ row \in FilesTo(Row) /\ DOMAIN row \subseteq Files
  BY EmptyTo, FilesToFn DEF Inv, TypeOK
<1>6. j \in Job /\ j.op = "copy" /\ j.b = b /\ j.files = Empty
  BY <1>1, <1>5 DEF Idle, Job
<1>7. NewDir \in Dir
  BY <1>5 DEF NewDir, Dir
<1>8. Creating(j) /\ dir' = [dir EXCEPT ![j.b] = NewDir] /\ j.b \in Backups \ Made
  BY <1>2, <1>4, <1>6 DEF Creating
<1>9. \A v \in Workers \ {w} : job[v].b # j.b
  BY <1>4, <1>6
<1>10. \A f \in DOMAIN j.files : f \in DOMAIN NewDir.payload /\ NewDir.payload[f] = j.files[f]
  BY <1>5, <1>6
<1> QED
  BY <1>2, <1>3, <1>6, <1>7, <1>8, <1>9, <1>10, MakerStep

(* What a maker knows of the directory it fills. *)
LEMMA MakerKnows ==
  ASSUME Inv, NEW w \in Workers, Creating(job[w])
  PROVE  /\ job[w] \in Job /\ job[w].b \in Backups \ Made /\ dir[job[w].b] \in Dir
         /\ \A v \in Workers \ {w} : job[v].b # job[w].b
         /\ job[w].b \notin rotten => \A f \in DOMAIN job[w].files :
               f \in DOMAIN dir[job[w].b].payload /\ dir[job[w].b].payload[f] = job[w].files[f]
         /\ requests \in 0 .. MaxRequests
         /\ dir[job[w].b].payload \in FilesTo(Contents)
         /\ dir[job[w].b].manifest \in Manifest \union {None}
         /\ job[w].files \in FilesTo(Contents)
<1>1. JobFits(w) /\ job[w] \in Job /\ dir \in [Backups -> Dir \union {None}] /\ requests \in 0 .. MaxRequests
  BY Known
<1>2. job[w].b \in Backups \ Made /\ dir[job[w].b] # None
  BY <1>1 DEF JobFits, MakerFits
<1>3. dir[job[w].b] \in Dir
  BY <1>1, <1>2
<1>4. job[w].b \notin rotten => \A f \in DOMAIN job[w].files :
               f \in DOMAIN dir[job[w].b].payload /\ dir[job[w].b].payload[f] = job[w].files[f]
  BY <1>1 DEF JobFits, MakerFits, Holds, HasPayload
<1>5. \A v \in Workers \ {w} : job[v].b # job[w].b
  BY DEF Inv, OneMaker
<1>6. dir[job[w].b].payload \in FilesTo(Contents) /\ dir[job[w].b].manifest \in Manifest \union {None}
  BY <1>3 DEF Dir
<1> QED
  BY <1>1, <1>2, <1>3, <1>4, <1>5, <1>6, JobFields

(* One file is copied. *)
LEMMA CopyStep ==
  ASSUME Inv, NEW w \in Workers, NEW f \in Files, CopyFile(w, f)
  PROVE  Inv'
<1>1. PICK o : o = job[w]
  OBVIOUS
<1>2. o.op = "copy" /\ Creating(job[w]) /\ f \in DOMAIN blob /\ blob[f] \in Contents
  <2>1. o.op = "copy" /\ f \in DOMAIN blob
    BY <1>1 DEF CopyFile
  <2>2. blob \in FilesTo(Contents)
    BY DEF Inv, TypeOK
  <2> QED
    BY <1>1, <2>1, <2>2, FilesToFn DEF Creating
<1>3. PICK e : e = dir[o.b]
  OBVIOUS
<1>4. PICK c : c = blob[f]
  OBVIOUS
<1>5. /\ o \in Job /\ o.b \in Backups \ Made /\ e \in Dir
      /\ \A v \in Workers \ {w} : job[v].b # o.b
      /\ o.b \notin rotten => \A g \in DOMAIN o.files : g \in DOMAIN e.payload /\ e.payload[g] = o.files[g]
      /\ requests \in 0 .. MaxRequests
      /\ e.payload \in FilesTo(Contents) /\ o.files \in FilesTo(Contents)
  BY <1>1, <1>2, <1>3, MakerKnows
<1>6. PICK j : j = [o EXCEPT !.todo = @ \ {f}, !.files = Put(@, f, c)]
  OBVIOUS
<1>7. PICK d : d = [e EXCEPT !.payload = Put(@, f, c)]
  OBVIOUS
<1>8. /\ Step(w, j, Nobody)
      /\ UNCHANGED <<row, blob, links, made, status, changes, requests, doomed, rotten, deleted, sweeps>>
  BY <1>1, <1>4, <1>6 DEF CopyFile
<1>9. dir' = [dir EXCEPT ![o.b] = d]
  BY <1>1, <1>3, <1>4, <1>7 DEF CopyFile
<1>10. Moved(w, j, Unmarked)
  BY <1>8, StepNobody
<1>11. Put(e.payload, f, c) \in FilesTo(Contents) /\ Put(o.files, f, c) \in FilesTo(Contents)
  BY <1>2, <1>4, <1>5, PutTo
<1>12. d \in Dir /\ d.payload = Put(e.payload, f, c)
  BY <1>5, <1>7, <1>11 DEF Dir
<1>13. j \in Job /\ j.op = "copy" /\ j.b = o.b /\ j.files = Put(o.files, f, c)
  BY <1>2, <1>5, <1>6, <1>11 DEF Job
<1>14. o.b \notin rotten => \A g \in DOMAIN j.files : g \in DOMAIN d.payload /\ d.payload[g] = j.files[g]
  <2> SUFFICES ASSUME o.b \notin rotten, NEW g \in DOMAIN Put(o.files, f, c)
               PROVE  g \in DOMAIN Put(e.payload, f, c) /\ Put(e.payload, f, c)[g] = Put(o.files, f, c)[g]
    BY <1>12, <1>13
  <2>1. g = f \/ g \in DOMAIN o.files
    BY DEF Put
  <2>2. g \in DOMAIN o.files => g \in DOMAIN e.payload /\ e.payload[g] = o.files[g]
    BY <1>5
  <2> QED
    BY <2>1, <2>2 DEF Put
<1>15. Creating(j) /\ j.op # "insert" /\ requests' \in 0 .. MaxRequests
  BY <1>5, <1>8, <1>13 DEF Creating
<1>16. /\ j.b \in Backups \ Made /\ dir' = [dir EXCEPT ![j.b] = d]
       /\ \A v \in Workers \ {w} : job[v].b # j.b
       /\ j.b \notin rotten => \A g \in DOMAIN j.files : g \in DOMAIN d.payload /\ d.payload[g] = j.files[g]
  BY <1>5, <1>9, <1>13, <1>14
<1> QED
  BY <1>8, <1>10, <1>12, <1>13, <1>15, <1>16, MakerStep

(* The manifest is written. *)
LEMMA ManifestStep ==
  ASSUME Inv, NEW w \in Workers, WriteManifest(w)
  PROVE  Inv'
<1>1. PICK o : o = job[w]
  OBVIOUS
<1>2. o.op = "manifest" /\ Creating(job[w])
  BY <1>1 DEF WriteManifest, Creating
<1>3. PICK e : e = dir[o.b]
  OBVIOUS
<1>4. /\ o \in Job /\ o.b \in Backups \ Made /\ e \in Dir
      /\ \A v \in Workers \ {w} : job[v].b # o.b
      /\ o.b \notin rotten => \A g \in DOMAIN o.files : g \in DOMAIN e.payload /\ e.payload[g] = o.files[g]
      /\ requests \in 0 .. MaxRequests
  BY <1>1, <1>2, <1>3, MakerKnows
<1>5. PICK man : man = [files |-> o.files, entries |-> o.entries, links |-> o.links]
  OBVIOUS
<1>6. man \in Manifest /\ man.files = o.files /\ man # None
  <2>1. man \in Manifest /\ man.files = o.files
    BY <1>4, <1>5, JobFields DEF Manifest
  <2> QED
    BY <2>1, NoneAssumption
<1>7. PICK j : j = [o EXCEPT !.op = "insert"]
  OBVIOUS
<1>8. PICK d : d = [e EXCEPT !.legible = TRUE, !.manifest = man]
  OBVIOUS
<1>9. /\ Step(w, j, Nobody)
      /\ UNCHANGED <<row, blob, links, made, status, changes, requests, doomed, rotten, deleted, sweeps>>
  BY <1>1, <1>7 DEF WriteManifest
<1>10. dir' = [dir EXCEPT ![o.b] = d]
  BY <1>1, <1>3, <1>5, <1>8 DEF WriteManifest
<1>11. Moved(w, j, Unmarked)
  BY <1>9, StepNobody
<1>12. d \in Dir /\ d.payload = e.payload /\ d.manifest = man /\ d.legible
  BY <1>4, <1>6, <1>8 DEF Dir
<1>13. j \in Job /\ j.op = "insert" /\ j.b = o.b /\ j.files = o.files
  BY <1>4, <1>7 DEF Job
<1>14. Creating(j) /\ requests' \in 0 .. MaxRequests
  BY <1>4, <1>9, <1>13 DEF Creating
<1>15. o.b \notin rotten => \A g \in DOMAIN j.files : g \in DOMAIN d.payload /\ d.payload[g] = j.files[g]
  BY <1>4, <1>12, <1>13
<1>16. /\ j.b \in Backups \ Made /\ dir' = [dir EXCEPT ![j.b] = d]
       /\ \A v \in Workers \ {w} : job[v].b # j.b
       /\ j.b \notin rotten => \A g \in DOMAIN j.files : g \in DOMAIN d.payload /\ d.payload[g] = j.files[g]
  BY <1>4, <1>10, <1>13, <1>15
<1>17. d.manifest # None /\ d.legible /\ d.manifest.files = j.files
  BY <1>6, <1>12, <1>13
<1> QED
  BY <1>9, <1>11, <1>12, <1>13, <1>14, <1>16, <1>17, MakerStep

(* The row of a finished backup is inserted. *)
LEMMA InsertStep ==
  ASSUME Inv, NEW w \in Workers, InsertBackup(w)
  PROVE  Inv'
<1>1. PICK b : b = job[w].b
  OBVIOUS
<1>2. /\ job[w].op = "insert" /\ made' = Append(made, b) /\ status' = Put(status, b, "completed")
      /\ Step(w, Idle, Nobody)
      /\ UNCHANGED <<row, blob, links, dir, changes, requests, doomed, rotten, deleted, sweeps>>
  BY <1>1 DEF InsertBackup
<1>3. Creating(job[w])
  BY <1>2 DEF Creating
<1>4. b \in Backups \ Made /\ dir[b] \in Dir /\ \A v \in Workers \ {w} : job[v].b # b
  BY <1>1, <1>3, MakerKnows
<1>5. b \notin rotten => Sound(b)
  <2>1. b \notin rotten => /\ Legible(b) /\ dir[b].manifest.files = job[w].files
                          /\ \A f \in DOMAIN job[w].files : Holds(b, f, job[w].files[f])
    BY <1>1, <1>2, <1>3 DEF Inv, JobFits, MakerFits
  <2> QED
    BY <2>1 DEF Sound, Holds
<1>6. made \in Seq(Backups) /\ Len(made) \in Nat /\ job \in [Workers -> Job] /\ Table \subseteq Made
  BY DEF Inv, TypeOK
<1>7. /\ made' \in Seq(Backups) /\ Len(made') = Len(made) + 1 /\ made'[Len(made) + 1] = b
      /\ \A i \in 1 .. Len(made) : made'[i] = made[i]
  BY <1>2, <1>4, <1>6
<1>8. Made' = Made \union {b}
  <2>1. \A i \in 1 .. Len(made') : i \in 1 .. Len(made) \/ i = Len(made) + 1
    BY <1>6, <1>7
  <2>2. Len(made) + 1 \in 1 .. Len(made') /\ 1 .. Len(made) \subseteq 1 .. Len(made')
    BY <1>6, <1>7
  <2> QED
    BY <1>7, <2>1, <2>2 DEF Made, SetOf
<1>9. Table' = Table \union {b} /\ \A x \in Table : status'[x] \in {"completed", "restored"}
  BY <1>2 DEF Table, Put, Inv, TypeOK, PartialFn
<1>10. Moved(w, Idle, Unmarked)
  BY <1>2, StepNobody
<1>11. job' \in [Workers -> Job] /\ job'[w] = Idle /\ \A v \in Workers : v # w => job'[v] = Mark(job[v], FALSE)
  <2>1. /\ job' \in [Workers -> Job] /\ job'[w] = Idle
        /\ \A v \in Workers : v # w => job'[v] = Mark(job[v], Unmarked[v])
    BY <1>6, <1>10, IdleFields, UnmarkedType, MovedFields
  <2> QED
    BY <2>1 DEF Unmarked
<1>12. TypeOK'
  <2>1. \A i, k \in 1 .. Len(made') : made'[i] = made'[k] => i = k
    <3> SUFFICES ASSUME NEW i \in 1 .. Len(made'), NEW k \in 1 .. Len(made'), made'[i] = made'[k] PROVE i = k
      OBVIOUS
    <3>1. \A l \in 1 .. Len(made) : made[l] # b
      BY <1>4 DEF Made, SetOf
    <3> QED
      BY <1>6, <1>7, <3>1 DEF Inv, TypeOK
  <2>2. Table' \subseteq Made'
    BY <1>6, <1>8, <1>9
  <2>3. PartialFn(status, Backups, {"completed", "restored"})'
    BY <1>2, <1>4 DEF Inv, TypeOK, PartialFn, Put
  <2> QED
    BY <1>2, <1>7, <1>11, <2>1, <2>2, <2>3 DEF Inv, TypeOK, PartialFn
<1>13. OneMaker'
  <2>1. ~Creating(Idle) /\ Idle \in Job /\ Idle.b = None
    BY IdleFields DEF Creating
  <2> QED
    BY <1>10, <2>1, UnmarkedType, MakersApart
<1>14. MadeGrows
  BY <1>2, <1>4 DEF MadeGrows
<1>15. rotten \subseteq rotten' /\ doomed \subseteq doomed' /\ deleted \subseteq deleted' /\ sweeps \subseteq sweeps'
  BY <1>2
<1>16. \A v \in Workers : JobFits(v)'
  <2> SUFFICES ASSUME NEW v \in Workers PROVE JobFits(v)'
    OBVIOUS
  <2>1. CASE v = w
    BY <1>11, <2>1, IdleFields, IdleNow
  <2>2. CASE v # w
    <3>1. TypeOK /\ JobFits(v) /\ job'[v] = Mark(job[v], FALSE)
      BY <1>11, <2>2 DEF Inv
    <3>2. Creating(job[v]) => job[v].b \notin Made'
      BY <1>4, <1>8, <2>2, <3>1 DEF JobFits, MakerFits
    <3> QED
      BY <1>2, <1>14, <1>15, <3>1, <3>2, OtherFits
  <2> QED
    BY <2>1, <2>2
<1>17. DoomedMade' /\ DoomedDue' /\ GoneDoomed'
  <2>1. \A x : Due(x) => Due(x)'
    BY <1>14, <1>15, Growth DEF Inv
  <2> QED
    BY <1>2, <1>8, <1>9, <2>1 DEF Inv, TableFits, DoomedMade, DoomedDue, GoneDoomed
<1>18. CompletedIsSound'
  <2> SUFFICES ASSUME NEW x \in Table' \ (doomed' \union rotten') PROVE Sound(x)'
    BY DEF CompletedIsSound
  <2>1. Sound(x)
    BY <1>2, <1>5, <1>9 DEF Inv, TableFits, CompletedIsSound
  <2> QED
    BY <1>2, <2>1 DEF Sound, HasPayload, Legible, HasManifest
<1> QED
  BY <1>12, <1>13, <1>16, <1>17, <1>18 DEF Inv, TableFits

(* A directory is removed: its backup is doomed and its readers are off. *)
LEMMA RemoveDirStep ==
  ASSUME Inv, NEW w \in Workers, NEW b \in Backups, RemoveDir(w, b)
  PROVE  Inv'
<1>1. PICK o : o = job[w]
  OBVIOUS
<1>2. PICK j : j = [o EXCEPT !.op = "drop", !.b = b]
  OBVIOUS
<1>3. PICK m : m = [v \in Workers |-> Reads(job[v], b)]
  OBVIOUS
<1>4. /\ o.op = "remove" /\ b \in o.todo
      /\ \E left \in Dir \union {None} : dir' = [dir EXCEPT ![b] = left]
      /\ doomed' = doomed \union {b}
      /\ UNCHANGED <<row, blob, links, made, status, changes, requests, rotten, deleted, sweeps>>
  <2>1. ASSUME dir[b] # None, NEW S \in SUBSET Files, NEW x \in {dir[b].manifest, None},
               dir' = [dir EXCEPT ![b].payload = Drop(@, S), ![b].manifest = x]
        PROVE  \E left \in Dir \union {None} : dir' = [dir EXCEPT ![b] = left]
    <3>1. PICK d : d = dir[b]
      OBVIOUS
    <3>2. d \in Dir /\ d.payload \in FilesTo(Contents) /\ d.manifest \in Manifest \union {None}
      BY <2>1, <3>1 DEF Inv, TypeOK, Dir
    <3>3. Drop(d.payload, S) \in FilesTo(Contents)
      BY <3>2, DropTo
    <3>4. PICK left : left = [d EXCEPT !.payload = Drop(@, S), !.manifest = x]
      OBVIOUS
    <3>5. left \in Dir
      BY <2>1, <3>1, <3>2, <3>3, <3>4 DEF Dir
    <3>6. dir' = [dir EXCEPT ![b] = left]
      BY <2>1, <3>1, <3>4
    <3> QED
      BY <3>5, <3>6
  <2>2. \E left \in Dir \union {None} : dir' = [dir EXCEPT ![b] = left]
    BY <2>1 DEF RemoveDir
  <2> QED
    BY <1>1, <2>2 DEF RemoveDir
<1>5. Moved(w, j, m)
  BY <1>1, <1>2, <1>3 DEF RemoveDir, Step, Moved
<1>6. m \in [Workers -> BOOLEAN]
  BY <1>3 DEF Reads
<1>7. /\ job \in [Workers -> Job] /\ o \in Job /\ dir \in [Backups -> Dir \union {None}]
      /\ TypeOK /\ Made \subseteq Backups /\ \A v \in Workers : JobFits(v)
  BY <1>1, Known DEF Inv
<1>8. o.todo \subseteq Made /\ \A c \in o.todo : Due(c)
  BY <1>1, <1>4, <1>7 DEF JobFits, RemoverFits, Removing
<1>9. j \in Job /\ j.op = "drop" /\ j.b = b /\ j.todo = o.todo
  BY <1>2, <1>7 DEF Job
<1>10. job' \in [Workers -> Job] /\ job'[w] = j /\ \A v \in Workers : v # w => job'[v] = Mark(job[v], m[v])
  BY <1>5, <1>6, <1>7, <1>9, MovedFields
<1>11. /\ Made' = Made /\ MadeGrows /\ Table' = Table
       /\ rotten \subseteq rotten' /\ doomed \subseteq doomed' /\ deleted \subseteq deleted' /\ sweeps \subseteq sweeps'
  BY <1>4 DEF Made, SetOf, MadeGrows, Table
<1>12. TypeOK'
  <2>1. PICK left \in Dir \union {None} : dir' = [dir EXCEPT ![b] = left]
    BY <1>4
  <2>2. dir' \in [Backups -> Dir \union {None}] /\ doomed' \subseteq Backups
    BY <1>4, <1>7, <2>1 DEF TypeOK
  <2> QED
    BY <1>4, <1>10, <1>11, <2>2 DEF Inv, TypeOK, PartialFn
<1>13. OneMaker'
  <2>1. ~Creating(j) /\ j.b \in Made
    BY <1>4, <1>8, <1>9 DEF Creating
  <2> QED
    BY <1>5, <1>6, <1>9, <2>1, MakersApart
<1>14. \A v \in Workers : JobFits(v)'
  <2> SUFFICES ASSUME NEW v \in Workers PROVE JobFits(v)'
    OBVIOUS
  <2>1. CASE v = w
    <3>1. Removing(j) /\ j.todo \subseteq Made' /\ j.b \in j.todo /\ j.b \in doomed'
      BY <1>4, <1>8, <1>9, <1>11 DEF Removing
    <3>2. \A c \in j.todo : Due(c)'
      BY <1>7, <1>8, <1>9, <1>11, Growth
    <3> QED
      BY <1>10, <2>1, <3>1, <3>2, RemoverNow
  <2>2. CASE v # w
    <3>1. TypeOK /\ JobFits(v) /\ job'[v] = Mark(job[v], m[v]) /\ m[v] \in BOOLEAN
      BY <1>6, <1>7, <1>10, <2>2
    <3>2. \A c \in Backups : c # b => dir'[c] = dir[c]
      BY <1>4, <1>7
    <3>3. Creating(job[v]) => job[v].b \notin Made' /\ dir'[job[v].b] = dir[job[v].b]
      BY <1>4, <1>8, <1>11, <3>1, <3>2 DEF JobFits, MakerFits
    <3>4. (Verifying(job[v]) \/ Restoring(job[v])) /\ ~m[v] => dir'[job[v].b] = dir[job[v].b]
      <4> SUFFICES ASSUME Verifying(job[v]) \/ Restoring(job[v]), ~m[v] PROVE dir'[job[v].b] = dir[job[v].b]
        OBVIOUS
      <4>1. job[v].b \in Backups
        BY <1>7, <3>1 DEF JobFits, VerifierFits, RestorerFits
      <4>2. job[v].b # b
        BY <1>3 DEF Reads, Verifying
      <4> QED
        BY <3>2, <4>1, <4>2
    <3>5. blob' = blob /\ row' = row /\ links \subseteq links'
      BY <1>4
    <3> QED
      BY <1>11, <3>1, <3>3, <3>4, <3>5, OtherFits
  <2> QED
    BY <2>1, <2>2
<1>15. TableFits'
  <2>1. doomed' \subseteq Made /\ deleted' \subseteq Made /\ \A c \in doomed' \ doomed : Due(c)
    BY <1>4, <1>8 DEF Inv, TableFits, DoomedMade
  <2>2. made' = made /\ Table' \subseteq Table /\ Table \ Table' \subseteq doomed
    BY <1>4, <1>11
  <2>3. \A c \in Made : dir'[c] = dir[c] \/ c \in doomed' \union rotten'
    BY <1>4, <1>7
  <2> QED
    BY <1>11, <2>1, <2>2, <2>3, TableKept
<1> QED
  BY <1>12, <1>13, <1>14, <1>15 DEF Inv

(* The row goes, or stays if that fails; retention goes on with the next. *)
LEMMA DropRowStep ==
  ASSUME Inv, NEW w \in Workers, DropRow(w)
  PROVE  Inv'
<1>1. PICK o : o = job[w]
  OBVIOUS
<1>2. PICK b : b = o.b
  OBVIOUS
<1>3. PICK j : j = IF o.todo \ {b} = {} THEN Idle
                   ELSE [o EXCEPT !.op = "remove", !.b = None, !.todo = o.todo \ {b}]
  OBVIOUS
<1>4. /\ o.op = "drop" /\ status' \in {Drop(status, {b}), status}
      /\ Step(w, j, Nobody)
      /\ UNCHANGED <<row, blob, links, dir, made, changes, requests, doomed, rotten, deleted, sweeps>>
  BY <1>1, <1>2, <1>3 DEF DropRow
<1>5. Moved(w, j, Unmarked)
  BY <1>4, StepNobody
<1>6. /\ job \in [Workers -> Job] /\ o \in Job /\ TypeOK /\ Made \subseteq Backups
      /\ \A v \in Workers : JobFits(v)
  BY <1>1, Known DEF Inv
<1>7. o.todo \subseteq Made /\ b \in o.todo /\ b \in doomed /\ \A c \in o.todo : Due(c)
  BY <1>1, <1>2, <1>4, <1>6 DEF JobFits, RemoverFits, Removing
<1>8. /\ j \in Job /\ j.b = None
      /\ j.op = "idle" \/ (j.op = "remove" /\ j.todo \subseteq o.todo)
  <2>1. CASE o.todo \ {b} = {}
    BY <1>3, <2>1, IdleFields
  <2>2. CASE o.todo \ {b} # {}
    <3>1. o.todo \ {b} \subseteq Files \union Backups
      BY <1>6, JobFields
    <3> QED
      BY <1>3, <1>6, <2>2, <3>1 DEF Job
  <2> QED
    BY <2>1, <2>2
<1>9. job' \in [Workers -> Job] /\ job'[w] = j
  BY <1>5, <1>6, <1>8, UnmarkedType, MovedFields
<1>10. /\ Made' = Made /\ MadeGrows /\ Table' \subseteq Table /\ Table \ Table' \subseteq {b}
       /\ deleted \subseteq deleted' /\ sweeps \subseteq sweeps'
  BY <1>4 DEF Made, SetOf, MadeGrows, Table, Drop
<1>11. TypeOK'
  <2>1. PartialFn(status, Backups, {"completed", "restored"})'
    BY <1>4 DEF Inv, TypeOK, PartialFn, Drop
  <2>2. Table' \subseteq Made'
    BY <1>10 DEF Inv, TypeOK
  <2> QED
    BY <1>4, <1>9, <2>1, <2>2 DEF Inv, TypeOK
<1>12. OneMaker'
  <2>1. ~Creating(j)
    BY <1>8 DEF Creating
  <2> QED
    BY <1>5, <1>8, <2>1, UnmarkedType, MakersApart
<1>13. \A v \in Workers : JobFits(v)'
  <2>1. \A v \in Workers \ {w} : JobFits(v)'
    <3>1. /\ UNCHANGED <<row, blob, made, rotten, doomed>> /\ links \subseteq links'
          /\ \A c \in Backups : dir'[c] = dir[c]
      BY <1>4
    <3> QED
      BY <1>5, <1>8, <1>10, <3>1, OthersFit
  <2>2. CASE j.op = "idle"
    BY <1>9, <2>1, <2>2, IdleNow
  <2>3. CASE j.op = "remove" /\ j.todo \subseteq o.todo
    <3>1. Removing(j) /\ j.todo \subseteq Made' /\ j.op # "drop"
      BY <1>7, <1>10, <2>3 DEF Removing
    <3>2. \A c \in j.todo : Due(c)'
      BY <1>6, <1>7, <1>10, <2>3, Growth
    <3>3. JobFits(w)'
      BY <1>9, <3>1, <3>2, RemoverNow
    <3> QED
      BY <2>1, <3>3
  <2> QED
    BY <1>8, <2>2, <2>3
<1>14. TableFits'
  <2>1. doomed' \subseteq Made /\ deleted' \subseteq Made /\ doomed \subseteq doomed' /\ rotten \subseteq rotten'
    BY <1>4 DEF Inv, TableFits, DoomedMade
  <2>2. /\ made' = made /\ Table \ Table' \subseteq doomed
        /\ \A c \in doomed' \ doomed : Due(c)
        /\ \A c \in Made : dir'[c] = dir[c]
    BY <1>4, <1>7, <1>10
  <2> QED
    BY <1>10, <2>1, <2>2, TableKept
<1> QED
  BY <1>11, <1>12, <1>13, <1>14 DEF Inv

-----------------------------------------------------------------------------
(* The store changes: every restore in flight is off. *)
LEMMA MarkedFits ==
  ASSUME Inv, NEW v \in Workers, job'[v] = Mark(job[v], Restoring(job[v])),
         UNCHANGED <<dir, made, doomed, rotten, deleted, sweeps>>
  PROVE  JobFits(v)'
<1>1. TypeOK /\ JobFits(v) /\ Restoring(job[v]) \in BOOLEAN
  BY DEF Inv, Restoring
<1>2. /\ MadeGrows /\ Made' = Made
      /\ rotten \subseteq rotten' /\ doomed \subseteq doomed' /\ deleted \subseteq deleted' /\ sweeps \subseteq sweeps'
  BY DEF MadeGrows, Made
<1>3. Creating(job[v]) => job[v].b \notin Made'
  BY <1>1, <1>2 DEF JobFits, MakerFits
<1>4. PICK m \in BOOLEAN : m = Restoring(job[v])
  BY <1>1
<1> QED
  BY <1>1, <1>2, <1>3, <1>4, OtherFits

LEMMA TableSame ==
  ASSUME Inv, UNCHANGED <<dir, made, status, doomed, rotten, deleted, sweeps>>
  PROVE  TableFits'
<1>1. Table' = Table /\ rotten \subseteq rotten' /\ \A b \in Made : dir'[b] = dir[b]
  BY DEF Table
<1> QED
  BY <1>1, TableStill

Wary == [v \in Workers |-> Restoring(job[v])]

LEMMA WaryType == Wary \in [Workers -> BOOLEAN]
BY DEF Wary, Restoring

(* A step of a restore that changes the store. *)
LEMMA RestorerStep ==
  ASSUME Inv, NEW w \in Workers, NEW j \in Job, Moved(w, j, Wary),
         UNCHANGED <<dir, made, status, changes, requests, doomed, rotten, deleted, sweeps>>,
         row' \in FilesTo(Row), blob' \in FilesTo(Contents),
         links' \subseteq {l \in Links : LinkOf[l] \in DOMAIN row'},
         ~Creating(j), j.b = job[w].b, job'[w] = j => JobFits(w)'
  PROVE  Inv'
<1>1. job \in [Workers -> Job]
  BY DEF Inv, TypeOK
<1>2. job' \in [Workers -> Job] /\ job'[w] = j /\ \A v \in Workers : v # w => job'[v] = Mark(job[v], Restoring(job[v]))
  <2>1. /\ job' \in [Workers -> Job] /\ job'[w] = j
        /\ \A v \in Workers : v # w => job'[v] = Mark(job[v], Wary[v])
    BY <1>1, WaryType, MovedFields
  <2> QED
    BY <2>1 DEF Wary
<1>3. TypeOK'
  BY <1>2 DEF Inv, TypeOK, Table, Made, SetOf, PartialFn
<1>4. OneMaker'
  BY WaryType, MakersApart
<1>5. \A v \in Workers : JobFits(v)'
  BY <1>2, MarkedFits
<1>6. TableFits'
  BY TableSame
<1> QED
  BY <1>3, <1>4, <1>5, <1>6 DEF Inv

(* A file is written back, or the write fails. *)
LEMMA RestoreFileStep ==
  ASSUME Inv, NEW w \in Workers, NEW f \in Files, RestoreFile(w, f)
  PROVE  Inv'
<1>1. PICK o : o = job[w]
  OBVIOUS
<1>2. /\ o.op = "restore" /\ f \in o.todo /\ HasPayload(o.b, f)
      /\ UNCHANGED <<row, links, dir, made, status, changes, requests, doomed, rotten, deleted, sweeps>>
  BY <1>1 DEF RestoreFile
<1>3. /\ job[w] \in Job /\ o \in Job /\ JobFits(w)
      /\ row \in FilesTo(Row) /\ blob \in FilesTo(Contents)
      /\ links \subseteq {l \in Links : LinkOf[l] \in DOMAIN row}
      /\ dir \in [Backups -> Dir \union {None}] /\ Made \subseteq Backups
      /\ o.done \subseteq Files /\ o.bad \in BOOLEAN
  BY <1>1, Known, JobFields DEF Inv, TypeOK
<1>4. /\ o.b \in Made
      /\ o.todo \intersect o.done = {}
      /\ ~o.bad /\ ~o.off => \A g \in o.done : FileBack(o, g)
  BY <1>1, <1>2, <1>3 DEF JobFits, RestorerFits, Restoring
<1>5. PICK data : data = dir[o.b].payload[f]
  OBVIOUS
<1>6. data \in Contents
  <2>1. dir[o.b] \in Dir /\ f \in DOMAIN dir[o.b].payload
    BY <1>2, <1>3, <1>4 DEF HasPayload
  <2>2. dir[o.b].payload \in FilesTo(Contents)
    BY <2>1 DEF Dir
  <2> QED
    BY <1>5, <2>1, <2>2, FilesToFn
<1>7. PICK bad \in BOOLEAN : bad = (o.bad \/ data # o.files[f])
  OBVIOUS
<1>8. ASSUME NEW done \in SUBSET Files, NEW j, j = [o EXCEPT !.todo = @ \ {f}, !.bad = bad, !.done = done],
             Moved(w, j, Wary), blob' \in FilesTo(Contents), done \subseteq o.done \union {f},
             ~bad /\ ~o.off => \A g \in done : g \in DOMAIN blob' /\ blob'[g] = o.files[g]
      PROVE  Inv'
  <2>1. /\ j \in Job /\ j.op = "restore" /\ j.b = o.b /\ j.files = o.files
        /\ j.off = o.off /\ j.bad = bad /\ j.done = done /\ j.todo = o.todo \ {f}
    BY <1>2, <1>3, <1>8 DEF Job
  <2>2. job'[w] = j => JobFits(w)'
    <3>1. Restoring(j) /\ j.b \in Made'
      BY <1>2, <1>4, <2>1 DEF Restoring, Made
    <3>2. ~j.bad /\ ~j.off => \A g \in j.done : FileBack(j, g)'
      BY <1>8, <2>1 DEF FileBack
    <3>3. j.todo \intersect j.done = {}
      BY <1>4, <1>8, <2>1
    <3> QED
      BY <2>1, <3>1, <3>2, <3>3, RestorerNow
  <2>3. /\ ~Creating(j) /\ j.b = job[w].b
        /\ row' \in FilesTo(Row) /\ links' \subseteq {l \in Links : LinkOf[l] \in DOMAIN row'}
    BY <1>1, <1>2, <1>3, <2>1 DEF Creating
  <2> QED
    BY <1>2, <1>8, <2>1, <2>2, <2>3, RestorerStep
<1>9. ASSUME NEW n, n = [o EXCEPT !.todo = @ \ {f}, !.bad = @ \/ data # o.files[f]],
             blob' = Put(blob, f, data), Step(w, [n EXCEPT !.done = @ \union {f}], Restoring)
      PROVE  Inv'
  <2>1. PICK done : done = o.done \union {f}
    OBVIOUS
  <2>2. PICK j : j = [o EXCEPT !.todo = @ \ {f}, !.bad = bad, !.done = done]
    OBVIOUS
  <2>3. j = [n EXCEPT !.done = @ \union {f}]
    BY <1>3, <1>7, <1>9, <2>1, <2>2 DEF Job
  <2>4. Moved(w, j, Wary)
    BY <1>9, <2>3 DEF Step, Moved, Wary
  <2>5. /\ blob' \in FilesTo(Contents) /\ DOMAIN blob' = DOMAIN blob \union {f} /\ blob'[f] = data
        /\ \A g \in DOMAIN blob : g # f => blob'[g] = blob[g]
    BY <1>3, <1>6, <1>9, PutTo
  <2>6. ~bad /\ ~o.off => \A g \in done : g \in DOMAIN blob' /\ blob'[g] = o.files[g]
    <3> SUFFICES ASSUME ~bad, ~o.off, NEW g \in done PROVE g \in DOMAIN blob' /\ blob'[g] = o.files[g]
      OBVIOUS
    <3>1. ~o.bad /\ data = o.files[f]
      BY <1>7
    <3>2. g # f => FileBack(o, g)
      BY <1>4, <2>1, <3>1
    <3> QED
      BY <2>5, <3>1, <3>2 DEF FileBack
  <2>7. done \in SUBSET Files /\ done \subseteq o.done \union {f}
    BY <1>3, <2>1
  <2> QED
    BY <1>8, <2>2, <2>4, <2>5, <2>6, <2>7
<1>10. ASSUME NEW n, n = [o EXCEPT !.todo = @ \ {f}, !.bad = @ \/ data # o.files[f]],
              blob' \in {blob} \union {Put(blob, f, c) : c \in Contents}, Step(w, n, Restoring)
       PROVE  Inv'
  <2>1. PICK j : j = [o EXCEPT !.todo = @ \ {f}, !.bad = bad, !.done = o.done]
    OBVIOUS
  <2>2. j = n
    BY <1>3, <1>7, <1>10, <2>1 DEF Job
  <2>3. Moved(w, j, Wary)
    BY <1>10, <2>2 DEF Step, Moved, Wary
  <2>4. /\ blob' \in FilesTo(Contents)
        /\ \A g \in DOMAIN blob : g # f => g \in DOMAIN blob' /\ blob'[g] = blob[g]
    <3>1. CASE blob' = blob
      BY <1>3, <3>1
    <3>2. ASSUME NEW c \in Contents, blob' = Put(blob, f, c)
          PROVE  /\ blob' \in FilesTo(Contents)
                 /\ \A g \in DOMAIN blob : g # f => g \in DOMAIN blob' /\ blob'[g] = blob[g]
      <4>1. PICK s : s = blob
        OBVIOUS
      <4>2. s \in FilesTo(Contents) /\ blob' = Put(s, f, c)
        BY <1>3, <3>2, <4>1
      <4>3. /\ Put(s, f, c) \in FilesTo(Contents) /\ DOMAIN Put(s, f, c) = DOMAIN s \union {f}
            /\ \A g \in DOMAIN s : g # f => Put(s, f, c)[g] = s[g]
        BY <4>2, PutTo
      <4> QED
        BY <4>1, <4>2, <4>3
    <3>3. blob' = blob \/ \E c \in Contents : blob' = Put(blob, f, c)
      BY <1>10, Zenon
    <3> QED
      BY <3>1, <3>2, <3>3
  <2>5. ~bad /\ ~o.off => \A g \in o.done : g \in DOMAIN blob' /\ blob'[g] = o.files[g]
    <3> SUFFICES ASSUME ~bad, ~o.off, NEW g \in o.done PROVE g \in DOMAIN blob' /\ blob'[g] = o.files[g]
      OBVIOUS
    <3>1. FileBack(o, g) /\ g # f
      BY <1>2, <1>4, <1>7
    <3> QED
      BY <2>4, <3>1 DEF FileBack
  <2> QED
    BY <1>3, <1>8, <2>1, <2>3, <2>4, <2>5
<1> QED
  BY <1>1, <1>5, <1>9, <1>10 DEF RestoreFile

(* A row is written back, or the INSERT fails. *)
LEMMA RestoreRowStep ==
  ASSUME Inv, NEW w \in Workers, NEW f \in Files, RestoreRow(w, f)
  PROVE  Inv'
<1>1. PICK o : o = job[w]
  OBVIOUS
<1>2. /\ o.op = "rows" /\ f \in o.todo
      /\ UNCHANGED <<blob, links, dir, made, status, changes, requests, doomed, rotten, deleted, sweeps>>
  BY <1>1 DEF RestoreRow
<1>3. /\ job[w] \in Job /\ o \in Job /\ JobFits(w) /\ requests \in 0 .. MaxRequests
      /\ row \in FilesTo(Row) /\ blob \in FilesTo(Contents)
      /\ links \subseteq {l \in Links : LinkOf[l] \in DOMAIN row}
      /\ o.lost \subseteq Files \union Links /\ o.entries \in FilesTo(Row)
  BY <1>1, Known, JobFields DEF Inv, TypeOK
<1>4. /\ o.b \in Made /\ o.todo \subseteq DOMAIN o.entries
      /\ ~o.bad /\ ~o.off => /\ \A g \in o.done : FileBack(o, g)
                             /\ \A g \in DOMAIN o.entries \ o.todo : RowBack(o, g)
  BY <1>1, <1>2, <1>3 DEF JobFits, RestorerFits, Restoring
<1>5. ASSUME row' = Put(row, f, o.entries[f]), Step(w, [o EXCEPT !.todo = @ \ {f}], Restoring)
      PROVE  Inv'
  <2>1. PICK e : e = o.entries[f]
    OBVIOUS
  <2>2. e \in Row
    BY <1>2, <1>3, <1>4, <2>1, FilesToFn
  <2>3. PICK r : r = row
    OBVIOUS
  <2>4. Put(r, f, e) \in FilesTo(Row) /\ DOMAIN Put(r, f, e) = DOMAIN r \union {f}
    BY <1>3, <2>2, <2>3, PutTo
  <2>5. row' \in FilesTo(Row) /\ DOMAIN row' = DOMAIN row \union {f}
    BY <1>5, <2>1, <2>3, <2>4
  <2>6. PICK j : j = [o EXCEPT !.todo = @ \ {f}]
    OBVIOUS
  <2>7. Moved(w, j, Wary)
    BY <1>5, <2>6 DEF Step, Moved, Wary
  <2>8. /\ j \in Job /\ j.op = "rows" /\ j.b = o.b /\ j.files = o.files /\ j.entries = o.entries
        /\ j.todo = o.todo \ {f} /\ j.off = o.off /\ j.bad = o.bad /\ j.done = o.done /\ j.lost = o.lost
    BY <1>2, <1>3, <2>6 DEF Job
  <2>9. job'[w] = j => JobFits(w)'
    <3>1. Restoring(j) /\ j.b \in Made' /\ j.todo \subseteq DOMAIN j.entries
      BY <1>2, <1>4, <2>8 DEF Restoring, Made
    <3>2. ASSUME ~j.bad, ~j.off, NEW g \in j.done PROVE FileBack(j, g)'
      BY <1>2, <1>4, <2>8, <3>2 DEF FileBack
    <3>3. ASSUME ~j.bad, ~j.off, NEW g \in DOMAIN j.entries \ j.todo PROVE RowBack(j, g)'
      <4>1. g = f \/ RowBack(o, g)
        BY <1>4, <2>8, <3>3
      <4> QED
        BY <1>5, <2>8, <4>1 DEF RowBack, Put
    <3> QED
      BY <2>8, <3>1, <3>2, <3>3, RestorerNow
  <2>10. ~Creating(j) /\ j.b = job[w].b
    BY <1>1, <2>8 DEF Creating
  <2>11. blob' \in FilesTo(Contents) /\ links' \subseteq {l \in Links : LinkOf[l] \in DOMAIN row'}
    BY <1>2, <1>3, <2>5
  <2> QED
    BY <1>2, <2>5, <2>7, <2>8, <2>9, <2>10, <2>11, RestorerStep
<1>6. ASSUME UNCHANGED row, Step(w, [[o EXCEPT !.todo = @ \ {f}] EXCEPT !.lost = @ \union {f}], Nobody)
      PROVE  Inv'
  <2>1. PICK j : j = [o EXCEPT !.todo = @ \ {f}, !.lost = @ \union {f}]
    OBVIOUS
  <2>2. j = [[o EXCEPT !.todo = @ \ {f}] EXCEPT !.lost = @ \union {f}]
    BY <1>3, <2>1 DEF Job
  <2>3. Moved(w, j, Unmarked)
    BY <1>6, <2>2, StepNobody
  <2>4. /\ j \in Job /\ j.op = "rows" /\ j.b = o.b /\ j.files = o.files /\ j.entries = o.entries
        /\ j.todo = o.todo \ {f} /\ j.off = o.off /\ j.bad = o.bad /\ j.done = o.done
        /\ j.lost = o.lost \union {f}
    BY <1>2, <1>3, <2>1 DEF Job
  <2>5. job'[w] = j => JobFits(w)'
    <3>1. Restoring(j) /\ j.b \in Made' /\ j.todo \subseteq DOMAIN j.entries
      BY <1>2, <1>4, <2>4 DEF Restoring, Made
    <3>2. ASSUME ~j.bad, ~j.off, NEW g \in j.done PROVE FileBack(j, g)'
      BY <1>2, <1>4, <2>4, <3>2 DEF FileBack
    <3>3. ASSUME ~j.bad, ~j.off, NEW g \in DOMAIN j.entries \ j.todo PROVE RowBack(j, g)'
      <4>1. g = f \/ RowBack(o, g)
        BY <1>4, <2>4, <3>3
      <4> QED
        BY <1>6, <2>4, <4>1 DEF RowBack
    <3> QED
      BY <2>4, <3>1, <3>2, <3>3, RestorerNow
  <2>6. ~Creating(j) /\ j.b = job[w].b /\ requests' \in 0 .. MaxRequests
    BY <1>1, <1>2, <1>3, <2>4 DEF Creating
  <2> QED
    BY <1>2, <1>6, <2>3, <2>4, <2>5, <2>6, LocalStep
<1> QED
  BY <1>1, <1>5, <1>6 DEF RestoreRow

(* The links of the rows that are there are inserted, save those that fail. *)
LEMMA RestoreLinksStep ==
  ASSUME Inv, NEW w \in Workers, RestoreLinks(w)
  PROVE  Inv'
<1>1. PICK o : o = job[w]
  OBVIOUS
<1>2. PICK failed \in SUBSET o.links :
        /\ links' = links \union {l \in o.links \ failed : LinkOf[l] \in DOMAIN row}
        /\ Step(w, [o EXCEPT !.op = "report", !.lost = @ \union failed], Nobody)
  BY <1>1 DEF RestoreLinks
<1>3. PICK j : j = [o EXCEPT !.op = "report", !.lost = @ \union failed]
  OBVIOUS
<1>4. /\ o.op = "rows" /\ o.todo = {}
      /\ UNCHANGED <<row, blob, dir, made, status, changes, requests, doomed, rotten, deleted, sweeps>>
  BY <1>1 DEF RestoreLinks
<1>5. Moved(w, j, Unmarked)
  BY <1>2, <1>3, StepNobody
<1>6. /\ job \in [Workers -> Job] /\ o \in Job /\ JobFits(w) /\ o.links \subseteq Links
      /\ o.lost \subseteq Files \union Links
      /\ links \subseteq {l \in Links : LinkOf[l] \in DOMAIN row}
  BY <1>1, Known, JobFields DEF Inv, TypeOK
<1>7. /\ o.b \in Made
      /\ ~o.bad /\ ~o.off => /\ \A g \in o.done : FileBack(o, g)
                             /\ \A g \in DOMAIN o.entries : RowBack(o, g)
  BY <1>1, <1>4, <1>6 DEF JobFits, RestorerFits, Restoring
<1>8. /\ j \in Job /\ j.op = "report" /\ j.b = o.b /\ j.files = o.files /\ j.entries = o.entries
      /\ j.links = o.links /\ j.off = o.off /\ j.bad = o.bad /\ j.done = o.done
      /\ j.lost = o.lost \union failed
  <2>1. o.lost \union failed \in SUBSET (Files \union Links)
    BY <1>2, <1>6
  <2> QED
    BY <1>3, <1>6, <2>1 DEF Job
<1>9. job' \in [Workers -> Job] /\ job'[w] = j
  BY <1>5, <1>6, <1>8, UnmarkedType, MovedFields
<1>10. TypeOK'
  <2>1. links' \subseteq {l \in Links : LinkOf[l] \in DOMAIN row'}
    BY <1>2, <1>4, <1>6
  <2>2. Table' = Table /\ Made' = Made
    BY <1>4 DEF Table, Made
  <2> QED
    BY <1>4, <1>9, <2>1, <2>2 DEF Inv, TypeOK, PartialFn
<1>11. OneMaker'
  <2>1. ~Creating(j) /\ j.b = job[w].b
    BY <1>1, <1>8 DEF Creating
  <2> QED
    BY <1>5, <1>8, <2>1, UnmarkedType, MakersApart
<1>12. JobFits(w)'
  <2>1. Restoring(j) /\ j.b \in Made'
    BY <1>4, <1>7, <1>8 DEF Restoring, Made
  <2>2. ASSUME ~j.bad, ~j.off, NEW g \in j.done PROVE FileBack(j, g)'
    BY <1>4, <1>7, <1>8, <2>2 DEF FileBack
  <2>3. ASSUME ~j.bad, ~j.off, NEW g \in DOMAIN j.entries PROVE RowBack(j, g)'
    BY <1>4, <1>7, <1>8, <2>3 DEF RowBack
  <2>4. ASSUME ~j.bad, ~j.off, NEW l \in j.links PROVE LinkBack(j, l)'
    <3> SUFFICES ASSUME l \notin j.lost, LinkOf[l] \in DOMAIN j.entries \ j.lost PROVE l \in links'
      BY DEF LinkBack
    <3>1. LinkOf[l] \in DOMAIN row
      BY <1>7, <1>8, <2>4 DEF RowBack
    <3> QED
      BY <1>2, <1>8, <2>4, <3>1
  <2> QED
    BY <1>8, <1>9, <2>1, <2>2, <2>3, <2>4, RestorerNow
<1>13. \A v \in Workers : JobFits(v)'
  <2>1. /\ UNCHANGED <<row, blob, made, rotten, doomed>> /\ links \subseteq links'
        /\ deleted \subseteq deleted' /\ sweeps \subseteq sweeps'
        /\ \A c \in Backups : dir'[c] = dir[c]
    BY <1>2, <1>4
  <2>2. \A v \in Workers \ {w} : JobFits(v)'
    BY <1>5, <1>8, <2>1, OthersFit
  <2> QED
    BY <1>12, <2>2
<1>14. TableFits'
  BY <1>4, TableSame
<1> QED
  BY <1>10, <1>11, <1>13, <1>14 DEF Inv

(* The result is reported. *)
LEMMA RestoreEndStep ==
  ASSUME Inv, NEW w \in Workers, RestoreEnd(w)
  PROVE  Inv'
<1>1. /\ status' = IF job[w].b \in Table THEN [status EXCEPT ![job[w].b] = "restored"] ELSE status
      /\ Step(w, Idle, Nobody)
      /\ UNCHANGED <<row, blob, links, dir, made, changes, requests, doomed, rotten, deleted, sweeps>>
  BY DEF RestoreEnd
<1>2. Moved(w, Idle, Unmarked)
  BY <1>1, StepNobody
<1>3. job \in [Workers -> Job] /\ Idle \in Job /\ Idle.b = None /\ Idle.op = "idle" /\ ~Creating(Idle)
  BY Known, IdleFields DEF Creating
<1>4. job' \in [Workers -> Job] /\ job'[w] = Idle
  BY <1>2, <1>3, UnmarkedType, MovedFields
<1>5. Table' = Table /\ Made' = Made /\ PartialFn(status, Backups, {"completed", "restored"})'
  BY <1>1 DEF Table, Made, Inv, TypeOK, PartialFn
<1>6. TypeOK'
  BY <1>1, <1>4, <1>5 DEF Inv, TypeOK, PartialFn
<1>7. OneMaker'
  BY <1>2, <1>3, UnmarkedType, MakersApart
<1>8. \A v \in Workers : JobFits(v)'
  <2>1. /\ UNCHANGED <<row, blob, made, rotten, doomed>> /\ links \subseteq links'
        /\ deleted \subseteq deleted' /\ sweeps \subseteq sweeps'
        /\ \A c \in Backups : dir'[c] = dir[c]
    BY <1>1
  <2>2. \A v \in Workers \ {w} : JobFits(v)'
    BY <1>2, <1>3, <2>1, OthersFit
  <2>3. JobFits(w)'
    BY <1>3, <1>4, IdleNow
  <2> QED
    BY <2>2, <2>3
<1>9. TableFits'
  <2>1. /\ UNCHANGED <<made, deleted, sweeps, doomed>> /\ rotten \subseteq rotten'
        /\ \A b \in Made : dir'[b] = dir[b]
    BY <1>1
  <2> QED
    BY <1>5, <2>1, TableStill
<1> QED
  BY <1>6, <1>7, <1>8, <1>9 DEF Inv

-----------------------------------------------------------------------------
(* All requests are marked and none moves. *)
LEMMA AllMarked ==
  ASSUME Inv, NEW m \in [Workers -> BOOLEAN], job' = [v \in Workers |-> Mark(job[v], m[v])]
  PROVE  job' \in [Workers -> Job] /\ OneMaker'
<1>1. job \in [Workers -> Job]
  BY DEF Inv, TypeOK
<1>2. \A v \in Workers : /\ Mark(job[v], m[v]) \in Job /\ Mark(job[v], m[v]).b = job[v].b
                         /\ Mark(job[v], m[v]).op = job[v].op
  BY <1>1, MarkFields
<1>3. \A v \in Workers : job'[v].b = job[v].b /\ job'[v].op = job[v].op
  BY <1>2
<1> QED
  BY <1>2, <1>3 DEF Inv, OneMaker, Creating

(* The rest of the system changes rows, contents and links. *)
LEMMA ChangeStep ==
  ASSUME Inv, Changed(Restoring),
         row' \in FilesTo(Row), blob' \in FilesTo(Contents),
         links' \subseteq {l \in Links : LinkOf[l] \in DOMAIN row'}
  PROVE  Inv'
<1>1. /\ changes > 0 /\ changes' = changes - 1
      /\ job' = [v \in Workers |-> Mark(job[v], Wary[v])]
      /\ UNCHANGED <<dir, made, status, requests, doomed, rotten, deleted, sweeps>>
  BY DEF Changed, Wary
<1>2. job' \in [Workers -> Job] /\ OneMaker'
  BY <1>1, WaryType, AllMarked
<1>3. changes' \in 0 .. MaxChanges
  BY <1>1, BoundsAssumption DEF Inv, TypeOK
<1>4. TypeOK'
  BY <1>1, <1>2, <1>3 DEF Inv, TypeOK, Table, Made, SetOf, PartialFn
<1>5. \A v \in Workers : JobFits(v)'
  BY <1>1, MarkedFits DEF Wary
<1>6. TableFits'
  BY <1>1, TableSame
<1> QED
  BY <1>2, <1>4, <1>5, <1>6 DEF Inv

LEMMA StoreStep ==
  ASSUME Inv, NEW f \in Files,
         (\E c \in Contents : Overwrite(f, c)) \/ Record(f) \/ Trash(f) \/ PurgeBlob(f) \/ PurgeRow(f)
  PROVE  Inv'
<1>1. Changed(Restoring)
  BY DEF Overwrite, Record, Trash, PurgeBlob, PurgeRow
<1>2. /\ row \in FilesTo(Row) /\ blob \in FilesTo(Contents)
      /\ links \subseteq {l \in Links : LinkOf[l] \in DOMAIN row}
  BY DEF Inv, TypeOK
<1>3. f \in DOMAIN row => row[f] \in Row
  BY <1>2, FilesToFn
<1>4. f \in DOMAIN blob => blob[f] \in Contents
  BY <1>2, FilesToFn
<1>5. CASE \E c \in Contents : Overwrite(f, c)
  <2>1. PICK c \in Contents : blob' = Put(blob, f, c) /\ UNCHANGED <<row, links>>
    BY <1>5 DEF Overwrite
  <2>2. blob' \in FilesTo(Contents)
    BY <1>2, <2>1, PutTo
  <2> QED
    BY <1>1, <1>2, <2>1, <2>2, ChangeStep
<1>6. CASE Record(f) \/ Trash(f)
  <2>1. PICK r \in Row : row' = [row EXCEPT ![f] = r] /\ f \in DOMAIN row /\ UNCHANGED <<blob, links>>
    <3>1. CASE Record(f)
      <4>1. PICK r : r = [row[f] EXCEPT !.hash = blob[f]]
        OBVIOUS
      <4>2. r \in Row
        BY <1>3, <1>4, <3>1, <4>1 DEF Record, Row
      <4> QED
        BY <3>1, <4>1, <4>2 DEF Record
    <3>2. CASE Trash(f)
      <4>1. PICK r : r = [row[f] EXCEPT !.trashed = ~@]
        OBVIOUS
      <4>2. r \in Row
        BY <1>3, <3>2, <4>1 DEF Trash, Row
      <4> QED
        BY <3>2, <4>1, <4>2 DEF Trash
    <3> QED
      BY <1>6, <3>1, <3>2
  <2>2. row' \in FilesTo(Row) /\ DOMAIN row' = DOMAIN row
    BY <1>2, <2>1, ExceptTo
  <2> QED
    BY <1>1, <1>2, <2>1, <2>2, ChangeStep
<1>7. CASE PurgeBlob(f)
  <2>1. blob' = Drop(blob, {f}) /\ UNCHANGED <<row, links>>
    BY <1>7 DEF PurgeBlob
  <2>2. blob' \in FilesTo(Contents)
    BY <1>2, <2>1, DropTo
  <2> QED
    BY <1>1, <1>2, <2>1, <2>2, ChangeStep
<1>8. CASE PurgeRow(f)
  <2>1. row' = Drop(row, {f}) /\ links' = {l \in links : LinkOf[l] # f} /\ UNCHANGED blob
    BY <1>8 DEF PurgeRow
  <2>2. row' \in FilesTo(Row) /\ DOMAIN row' = DOMAIN row \ {f}
    BY <1>2, <2>1, DropTo
  <2>3. links' \subseteq {l \in Links : LinkOf[l] \in DOMAIN row'}
    BY <1>2, <2>1, <2>2
  <2> QED
    BY <1>1, <1>2, <2>1, <2>2, <2>3, ChangeStep
<1> QED
  BY <1>5, <1>6, <1>7, <1>8

(* A payload or the manifest is damaged: the backup is rotten and its readers
   are off. *)
LEMMA RotStep ==
  ASSUME Inv, NEW b \in Backups, Rot(b)
  PROVE  Inv'
<1>1. PICK m : m = [v \in Workers |-> Reads(job[v], b)]
  OBVIOUS
<1>2. m \in [Workers -> BOOLEAN]
  BY <1>1 DEF Reads
<1>3. /\ changes > 0 /\ changes' = changes - 1 /\ rotten' = rotten \union {b} /\ dir[b] # None
      /\ job' = [v \in Workers |-> Mark(job[v], m[v])]
      /\ UNCHANGED <<row, blob, links, made, status, requests, doomed, deleted, sweeps>>
  BY <1>1 DEF Rot, HasPayload, HasManifest
<1>4. job' \in [Workers -> Job] /\ OneMaker'
  BY <1>2, <1>3, AllMarked
<1>5. /\ dir \in [Backups -> Dir \union {None}] /\ TypeOK /\ Made \subseteq Backups
      /\ \A v \in Workers : JobFits(v)
  BY DEF Inv, TypeOK, Made, SetOf
<1>6. PICK e : e = dir[b]
  OBVIOUS
<1>7. e \in Dir /\ e.payload \in FilesTo(Contents)
  BY <1>3, <1>5, <1>6 DEF Dir
<1>8. PICK d \in Dir : dir' = [dir EXCEPT ![b] = d]
  <2>1. ASSUME NEW p \in FilesTo(Contents), dir' = [dir EXCEPT ![b].payload = p]
        PROVE  \E d \in Dir : dir' = [dir EXCEPT ![b] = d]
    <3>1. PICK d : d = [e EXCEPT !.payload = p]
      OBVIOUS
    <3>2. d \in Dir /\ dir' = [dir EXCEPT ![b] = d]
      BY <1>6, <1>7, <2>1, <3>1 DEF Dir
    <3> QED
      BY <3>2
  <2>2. ASSUME NEW f \in Files, HasPayload(b, f), NEW c \in Contents, dir' = [dir EXCEPT ![b].payload[f] = c]
        PROVE  \E d \in Dir : dir' = [dir EXCEPT ![b] = d]
    <3>1. PICK p : p = [e.payload EXCEPT ![f] = c]
      OBVIOUS
    <3>2. f \in DOMAIN e.payload
      BY <1>6, <2>2 DEF HasPayload
    <3>3. p \in FilesTo(Contents)
      BY <1>7, <3>1, <3>2, ExceptTo
    <3>4. dir' = [dir EXCEPT ![b].payload = p]
      BY <1>6, <2>2, <3>1
    <3> QED
      BY <2>1, <3>3, <3>4
  <2>3. ASSUME NEW f \in Files, dir' = [dir EXCEPT ![b].payload = Drop(@, {f})]
        PROVE  \E d \in Dir : dir' = [dir EXCEPT ![b] = d]
    <3>1. Drop(e.payload, {f}) \in FilesTo(Contents)
      BY <1>7, DropTo
    <3> QED
      BY <1>6, <2>1, <2>3, <3>1
  <2>4. ASSUME dir' = [dir EXCEPT ![b].legible = FALSE] \/ dir' = [dir EXCEPT ![b].manifest = None]
        PROVE  \E d \in Dir : dir' = [dir EXCEPT ![b] = d]
    <3>1. [e EXCEPT !.legible = FALSE] \in Dir /\ [e EXCEPT !.manifest = None] \in Dir
      BY <1>7 DEF Dir
    <3> QED
      BY <1>6, <2>4, <3>1
  <2> QED
    BY <2>2, <2>3, <2>4 DEF Rot
<1>9. d # None
  BY NoneAssumption
<1>10. /\ dir' \in [Backups -> Dir \union {None}] /\ dir'[b] = d
       /\ \A c \in Backups : c # b => dir'[c] = dir[c]
  BY <1>5, <1>8
<1>11. changes' \in 0 .. MaxChanges
  BY <1>3, <1>5, BoundsAssumption DEF TypeOK
<1>12. /\ Made' = Made /\ MadeGrows /\ Table' = Table
       /\ rotten \subseteq rotten' /\ doomed \subseteq doomed' /\ deleted \subseteq deleted' /\ sweeps \subseteq sweeps'
  BY <1>3 DEF Made, SetOf, MadeGrows, Table
<1>13. TypeOK'
  BY <1>3, <1>4, <1>10, <1>11, <1>12 DEF Inv, TypeOK, PartialFn
<1>14. \A v \in Workers : JobFits(v)'
  <2> SUFFICES ASSUME NEW v \in Workers PROVE JobFits(v)'
    OBVIOUS
  <2>1. TypeOK /\ JobFits(v) /\ job'[v] = Mark(job[v], m[v]) /\ m[v] \in BOOLEAN
    BY <1>2, <1>3, <1>5
  <2>2. Creating(job[v]) => /\ job[v].b \notin Made'
                            /\ \/ dir'[job[v].b] = dir[job[v].b]
                               \/ job[v].b \in rotten' /\ dir'[job[v].b] # None
    <3> SUFFICES ASSUME Creating(job[v])
                 PROVE  /\ job[v].b \notin Made'
                        /\ \/ dir'[job[v].b] = dir[job[v].b]
                           \/ job[v].b \in rotten' /\ dir'[job[v].b] # None
      OBVIOUS
    <3>1. job[v].b \in Backups \ Made
      BY <2>1 DEF JobFits, MakerFits
    <3> QED
      BY <1>3, <1>9, <1>10, <1>12, <3>1
  <2>3. (Verifying(job[v]) \/ Restoring(job[v])) /\ ~m[v] => dir'[job[v].b] = dir[job[v].b]
    <3> SUFFICES ASSUME Verifying(job[v]) \/ Restoring(job[v]), ~m[v] PROVE dir'[job[v].b] = dir[job[v].b]
      OBVIOUS
    <3>1. job[v].b \in Backups
      BY <1>5, <2>1 DEF JobFits, VerifierFits, RestorerFits
    <3>2. job[v].b # b
      BY <1>1 DEF Reads, Verifying
    <3> QED
      BY <1>10, <3>1, <3>2
  <2>4. blob' = blob /\ row' = row /\ links \subseteq links'
    BY <1>3
  <2> QED
    BY <1>12, <2>1, <2>2, <2>3, <2>4, OtherFits
<1>15. TableFits'
  <2>1. \A c \in Made : dir'[c] = dir[c] \/ c \in rotten'
    BY <1>3, <1>5, <1>10
  <2>2. UNCHANGED <<made, deleted, sweeps, doomed>>
    BY <1>3
  <2> QED
    BY <1>12, <2>1, <2>2, TableStill
<1> QED
  BY <1>4, <1>13, <1>14, <1>15 DEF Inv

-----------------------------------------------------------------------------
(* The inductive invariant: what each request may rely on half way, whatever
   other requests, the rest of the system and the backup disk do, and whichever
   statement, file or directory fails. *)
THEOREM BackupInvariant == Spec => []Inv
<1>1. Inv /\ [Next]_vars => Inv'
  <2> SUFFICES ASSUME Inv, [Next]_vars PROVE Inv'
    OBVIOUS
  <2>1. CASE Environment
    BY <2>1, StoreStep, RotStep DEF Environment
  <2>2. ASSUME NEW w \in Workers, Request(w) PROVE Inv'
    BY <2>2, CreateStep, RemoveReadStep, VerifyStatStep, RestoreReadStep DEF Request
  <2>3. ASSUME NEW w \in Workers, Continue(w) PROVE Inv'
    <3>1. ASSUME CopyLinks(w) \/ \E f \in Files : SkipFile(w, f) PROVE Inv'
      BY <3>1, SkipStep
    <3>2. ASSUME VerifyEnd(w) \/ Abort(w) PROVE Inv'
      BY <3>2, EndStep
    <3>3. ASSUME NEW f \in Files, CopyFile(w, f) \/ VerifyFile(w, f) \/ RestoreFile(w, f) \/ RestoreRow(w, f) PROVE Inv'
      BY <3>3, CopyStep, VerifyFileStep, RestoreFileStep, RestoreRowStep
    <3>4. ASSUME WriteManifest(w) \/ InsertBackup(w) \/ DropRow(w) \/ VerifyLoad(w) PROVE Inv'
      BY <3>4, ManifestStep, InsertStep, DropRowStep, VerifyLoadStep
    <3>5. ASSUME RestoreRows(w) \/ \E f \in Files : RestoreSkip(w, f) PROVE Inv'
      BY <3>5, RestoreOnStep
    <3>6. ASSUME RestoreLinks(w) \/ RestoreEnd(w) PROVE Inv'
      BY <3>6, RestoreLinksStep, RestoreEndStep
    <3>7. ASSUME NEW b \in Backups, RemoveDir(w, b) PROVE Inv'
      BY <3>7, RemoveDirStep
    <3> QED
      BY <2>3, <3>1, <3>2, <3>3, <3>4, <3>5, <3>6, <3>7 DEF Continue
  <2>4. CASE UNCHANGED vars
    <3>1. /\ UNCHANGED <<row, blob, links, dir, made, status, job, doomed, rotten, deleted, sweeps>>
          /\ changes' = changes /\ requests' = requests
      BY <2>4 DEF vars
    <3>2. Table' = Table /\ Made' = Made
      BY <3>1 DEF Table, Made
    <3>3. TypeOK' /\ OneMaker'
      BY <3>1, <3>2 DEF Inv, TypeOK, PartialFn, OneMaker, Creating
    <3>4. TableFits'
      BY <3>1, TableSame
    <3>5. ASSUME NEW w \in Workers PROVE JobFits(w)'
      <4>1. JobFits(w)
        BY DEF Inv
      <4> QED
        BY <3>1, <3>2, <4>1 DEF JobFits, MakerFits, RemoverFits, VerifierFits, RestorerFits, Creating, Removing,
             Verifying, Restoring, Judged, Legible, HasManifest, Holds, HasPayload, Due, Outdated,
             FileBack, RowBack, LinkBack
    <3> QED
      BY <3>3, <3>4, <3>5 DEF Inv
  <2> QED
    BY <2>1, <2>2, <2>3, <2>4 DEF Next
<1> QED
  BY InitInv, <1>1, PTL DEF Spec

(* The tables, the directories and the requests in flight keep their shape,
   links refer to rows that exist and no backup is inserted twice. *)
THEOREM BackupTypeOK == Spec => []TypeOK
<1>1. Inv => TypeOK
  BY DEF Inv
<1> QED
  BY BackupInvariant, <1>1, PTL

(* A backup the table shows as completed is sound until the disk damages it or
   its removal begins (create_backup). *)
THEOREM BackupCompletedIsSound == Spec => []CompletedIsSound
<1>1. Inv => CompletedIsSound
  BY DEF Inv, TableFits
<1> QED
  BY BackupInvariant, <1>1, PTL

(* What verify_backup calls healthy is sound unless it never got at the
   manifest, and what it calls degraded is not unless a file could not be read;
   in both cases if the backup was not removed or damaged meanwhile. *)
THEOREM BackupVerdictTrue == Spec => []VerdictTrue
<1>1. Inv => VerdictTrue
  <2> SUFFICES ASSUME Inv, NEW w \in Workers, NEW j, j = job[w],
                      j.op = "verify", j.todo = {}, ~j.off, ~j.blind
               PROVE  (~j.bad => Sound(j.b)) /\ (j.bad /\ j.lost = {} => ~Sound(j.b))
    BY DEF VerdictTrue
  <2>1. Judged(j)
    BY DEF Inv, JobFits, VerifierFits, Verifying
  <2> QED
    BY <2>1 DEF Judged, Sound, Legible, Holds
<1> QED
  BY BackupInvariant, <1>1, PTL

(* A restore that reports no corruption, and that nothing interfered with, has
   put back the contents of the files it counts, and the rows and links whose
   INSERT did not fail (restore_backup). *)
THEOREM BackupRestoreFaithful == Spec => []RestoreFaithful
<1>1. Inv => RestoreFaithful
  BY DEF Inv, JobFits, RestorerFits, RestoreFaithful, Restoring, FileBack, RowBack, LinkBack
<1> QED
  BY BackupInvariant, <1>1, PTL

(* What nobody asked to delete and is among the newest that every retention was
   to keep stays in the table, and sound if the disk is (enforce_retention,
   delete_backup). *)
THEOREM BackupRetentionKeepsNewest == Spec => []RetentionKeepsNewest
<1>1. Inv => RetentionKeepsNewest
  <2> SUFFICES ASSUME Inv, NEW i \in 1 .. Len(made), made[i] \notin deleted,
                      \A k \in sweeps : Len(made) - i < k
               PROVE  made[i] \in Table /\ (made[i] \notin rotten => Sound(made[i]))
    BY DEF RetentionKeepsNewest
  <2>1. /\ made \in Seq(Backups) /\ Len(made) \in Nat /\ sweeps \subseteq Nat
        /\ \A k, l \in 1 .. Len(made) : made[k] = made[l] => k = l
    BY BoundsAssumption DEF Inv, TypeOK
  <2>2. ASSUME NEW k \in sweeps PROVE ~Outdated(made[i], k)
    BY <2>1 DEF Outdated
  <2>3. ~Due(made[i])
    BY <2>2 DEF Due
  <2>4. made[i] \notin doomed /\ made[i] \in Made
    BY <2>3 DEF Inv, TableFits, DoomedDue, Made, SetOf
  <2> QED
    BY <2>4 DEF Inv, TableFits, GoneDoomed, CompletedIsSound
<1> QED
  BY BackupInvariant, <1>1, PTL
=============================================================================
