---------------------------- MODULE SharesProofs ----------------------------
(***************************************************************************)
(* For any number of links, files, limits and concurrent requests: the     *)
(* tables keep their shape, download_count is exact and a limit is only    *)
(* overshot by what is in flight.                                          *)
(*                                                                         *)
(* CountExact is not inductive: a new link starts with count 0, so its id  *)
(* must not have been downloaded under before, and a request in flight     *)
(* must not name an id that is still to be drawn.  FreshUnused says both.  *)
(* OvershootBounded is not inductive either: the downloads that were       *)
(* admitted and are not counted yet still add to the counter.  Limited     *)
(* counts them in advance.                                                 *)
(***************************************************************************)
EXTENDS Shares, FiniteSetTheorems, TLAPS

(* An id that has not been drawn is in no row, in no request and in no count. *)
FreshUnused ==
  /\ \A l \in fresh : l \notin Rows /\ served[l] = 0
  /\ \A w \in Workers : job[w] # Idle => job[w].id \notin fresh

Inv == TypeOK /\ CountExact /\ FreshUnused

(* The shape of a request that is in flight. *)
LEMMA JobShape ==
  ASSUME TypeOK, NEW w \in Workers
  PROVE  /\ job[w] \in Job
         /\ job[w] # Idle => job[w].id \in Links
         /\ job[w].op = "update" => job[w] # Idle
         /\ job[w].op = "read" => job[w] # Idle
         /\ job[w].op = "checked" =>
              job[w] \in [op : {"checked", "read"}, id : Links, file : Files]
         /\ job[w].op = "update" =>
              job[w] \in [op : {"update"}, id : Links, permission : Permissions,
                          password : Passwords \union {None},
                          expires : {"never", "later", "past"},
                          max : Limits \union {None}, active : BOOLEAN]
  BY DEF TypeOK, Job, Idle

(* A request that ends, or is dropped, leaves the rest of the invariant alone. *)
LEMMA DoneStep ==
  ASSUME Inv, NEW w \in Workers, Done(w)
  PROVE  /\ job' \in [Workers -> Job]
         /\ \A v \in Workers : job'[v] # Idle => job'[v] = job[v]
  BY DEF Inv, TypeOK, Done, Job

(* The initial state. *)
LEMMA InitInv == Init => Inv
  BY CountAssumption DEF Init, Inv, TypeOK, CountExact, FreshUnused, Rows, Idle, Job, Link

(* create_share draws an id nobody has downloaded under. *)
LEMMA CreateShareStep ==
  ASSUME Inv, NEW f \in Files, NEW perm \in Permissions,
         NEW pwd \in Passwords \union {None}, NEW exp \in {"never", "later", "past"},
         NEW max \in Limits \union {None}, CreateShare(f, perm, pwd, exp, max)
  PROVE  Inv'
<1>1. PICK l \in fresh :
        /\ fresh' = fresh \ {l}
        /\ link' = [k \in Rows \union {l} |->
                     IF k = l THEN [file |-> f, permission |-> perm, password |-> pwd,
                                    expires |-> exp, max |-> max, count |-> 0,
                                    active |-> TRUE]
                              ELSE link[k]]
        /\ peak' = [peak EXCEPT ![l] = max]
  BY DEF CreateShare
<1>2. UNCHANGED <<files, job, served>>
  BY DEF CreateShare
<1>3. l \in Links /\ Rows' = Rows \union {l}
  BY <1>1 DEF Inv, TypeOK, Rows
<1>4. [file |-> f, permission |-> perm, password |-> pwd, expires |-> exp,
       max |-> max, count |-> 0, active |-> TRUE] \in Link
  BY CountAssumption DEF Link
<1>5. link' \in [Rows' -> Link]
  BY <1>1, <1>3, <1>4 DEF Inv, TypeOK, Rows
<1>6. peak' \in [Links -> Nat \union {None}]
  BY <1>1, <1>3, LimitsAssumption DEF Inv, TypeOK
<1>7. TypeOK'
  BY <1>1, <1>2, <1>3, <1>5, <1>6 DEF Inv, TypeOK, Rows
<1>8. CountExact'
  BY <1>1, <1>2, <1>3 DEF Inv, CountExact, FreshUnused, Rows
<1>9. FreshUnused'
  BY <1>1, <1>2, <1>3 DEF Inv, FreshUnused, Rows
<1> QED
  BY <1>7, <1>8, <1>9 DEF Inv

(* update_share reads a row. *)
LEMMA UpdateReadStep ==
  ASSUME Inv, NEW w \in Workers, NEW l \in Links, NEW perm \in Permissions,
         NEW pwd \in Passwords \union {None}, NEW exp \in {"never", "later", "past"},
         NEW max \in Limits \union {None}, NEW active \in BOOLEAN,
         UpdateRead(w, l, perm, pwd, exp, max, active)
  PROVE  Inv'
<1> DEFINE j == [op |-> "update", id |-> l, permission |-> perm, password |-> pwd,
                 expires |-> exp, max |-> max, active |-> active]
<1>1. /\ l \in Rows
      /\ job' = [job EXCEPT ![w] = j]
      /\ UNCHANGED <<link, files, fresh, served, peak>>
  BY DEF UpdateRead
<1>2. j \in Job /\ j.id = l
  BY DEF Job
<1> HIDE DEF j
<1>3. job' \in [Workers -> Job]
  BY <1>1, <1>2 DEF Inv, TypeOK
<1>4. \A v \in Workers : job'[v] # Idle => job'[v].id \notin fresh
  BY <1>1, <1>2 DEF Inv, TypeOK, FreshUnused
<1> QED
  BY <1>1, <1>3, <1>4 DEF Inv, TypeOK, CountExact, FreshUnused, Rows

(* update_share writes everything but the counter back. *)
LEMMA UpdateWriteStep ==
  ASSUME Inv, NEW w \in Workers, UpdateWrite(w)
  PROVE  Inv'
<1>1. /\ job[w].op = "update"
      /\ Done(w)
      /\ UNCHANGED <<files, fresh, served>>
  BY DEF UpdateWrite
<1>2. CASE job[w].id \notin Rows
  <2>1. UNCHANGED <<link, peak>>
    BY <1>2 DEF UpdateWrite
  <2> QED
    BY <1>1, <2>1, DoneStep DEF Inv, TypeOK, CountExact, FreshUnused, Rows
<1>3. CASE job[w].id \in Rows
  <2> DEFINE l == job[w].id
  <2>1. /\ \E exp \in ByNow(job[w].expires) :
             link' = [link EXCEPT ![l] = Updated(link[l], [job[w] EXCEPT !.expires = exp])]
        /\ peak' = [peak EXCEPT ![l] = Higher(@, job[w].max)]
    BY <1>3 DEF UpdateWrite
  <2>2. PICK exp \in ByNow(job[w].expires) :
          link' = [link EXCEPT ![l] = Updated(link[l], [job[w] EXCEPT !.expires = exp])]
    BY <2>1
  <2>3. job[w] \in [op : {"update"}, id : Links, permission : Permissions,
                    password : Passwords \union {None},
                    expires : {"never", "later", "past"},
                    max : Limits \union {None}, active : BOOLEAN]
    BY <1>1, JobShape DEF Inv
  <2>4. exp \in {"never", "later", "past"}
    BY <2>3 DEF ByNow
  <2>5. link[l] \in Link /\ l \in Links
    BY <1>3, <2>3 DEF Inv, TypeOK
  <2>6. /\ Updated(link[l], [job[w] EXCEPT !.expires = exp]) \in Link
        /\ Updated(link[l], [job[w] EXCEPT !.expires = exp]).count = link[l].count
    BY <2>3, <2>4, <2>5 DEF Updated, Link
  <2>7. /\ link' \in [Rows' -> Link]
        /\ Rows' = Rows
        /\ \A k \in Rows : link'[k].count = link[k].count
    BY <1>3, <2>2, <2>6 DEF Inv, TypeOK, Rows
  <2>8. peak' \in [Links -> Nat \union {None}]
    <3>1. job[w].max \in Nat \union {None}
      BY <2>3, LimitsAssumption
    <3>2. peak[l] \in Nat \union {None}
      BY <2>5 DEF Inv, TypeOK
    <3>3. Higher(peak[l], job[w].max) \in Nat \union {None}
      BY <3>1, <3>2 DEF Higher
    <3> QED
      BY <2>1, <2>5, <3>3 DEF Inv, TypeOK
  <2> QED
    BY <1>1, <2>7, <2>8, DoneStep DEF Inv, TypeOK, CountExact, FreshUnused
<1> QED
  BY <1>2, <1>3

(* A step that ends or advances a request and leaves the table alone. *)
LEMMA JobStep ==
  ASSUME Inv, job' \in [Workers -> Job],
         \A v \in Workers : job'[v] # Idle => job[v] # Idle /\ job'[v].id = job[v].id,
         UNCHANGED <<link, files, fresh, served, peak>>
  PROVE  Inv'
  BY DEF Inv, TypeOK, CountExact, FreshUnused, Rows

(* download_shared is admitted, and remembers a link that exists. *)
LEMMA DownloadCheckStep ==
  ASSUME Inv, NEW w \in Workers, NEW l \in Links, NEW pwd, DownloadCheck(w, l, pwd)
  PROVE  Inv'
<1> DEFINE j == [op |-> "checked", id |-> l, file |-> link[l].file]
<1>1. /\ l \in Rows
      /\ job' = [job EXCEPT ![w] = j]
      /\ UNCHANGED <<link, files, fresh, served, peak>>
  BY DEF DownloadCheck, Admits
<1>2. link[l].file \in Files
  BY <1>1 DEF Inv, TypeOK, Link
<1>3. j \in Job /\ j.id = l
  BY <1>2 DEF Job
<1> HIDE DEF j
<1>4. job' \in [Workers -> Job]
  BY <1>1, <1>3 DEF Inv, TypeOK
<1>5. \A v \in Workers : job'[v] # Idle => job'[v].id \notin fresh
  BY <1>1, <1>3 DEF Inv, TypeOK, FreshUnused
<1> QED
  BY <1>1, <1>4, <1>5 DEF Inv, TypeOK, CountExact, FreshUnused, Rows

(* download_shared has read the file. *)
LEMMA DownloadReadStep ==
  ASSUME Inv, NEW w \in Workers, DownloadRead(w)
  PROVE  Inv'
<1>1. job[w] \in [op : {"checked", "read"}, id : Links, file : Files]
  BY JobShape DEF Inv, DownloadRead
<1>2. /\ [job[w] EXCEPT !.op = "read"] \in Job
      /\ [job[w] EXCEPT !.op = "read"].id = job[w].id
      /\ job[w] # Idle
  BY <1>1 DEF Job, Idle
<1>3. job' = [job EXCEPT ![w] = [job[w] EXCEPT !.op = "read"]]
  BY DEF DownloadRead
<1>4. UNCHANGED <<link, files, fresh, served, peak>>
  BY DEF DownloadRead
<1> QED
  BY <1>2, <1>3, <1>4, JobStep DEF Inv, TypeOK

(* The increment of download_count and the answer go together. *)
LEMMA DownloadCountStep ==
  ASSUME Inv, NEW w \in Workers, DownloadCount(w)
  PROVE  Inv'
<1> DEFINE i == job[w].id
<1>1. /\ job[w].op = "read"
      /\ served[i] < MaxCount
      /\ link' = [l \in Rows |-> IF l = i THEN [link[l] EXCEPT !.count = @ + 1] ELSE link[l]]
      /\ served' = [served EXCEPT ![i] = @ + 1]
      /\ Done(w)
      /\ UNCHANGED <<files, fresh, peak>>
  BY DEF DownloadCount
<1>2. i \in Links /\ i \notin fresh
  BY <1>1, JobShape DEF Inv, FreshUnused
<1>3. served' \in [Links -> 0 .. MaxCount]
  BY <1>1, <1>2, CountAssumption DEF Inv, TypeOK
<1>4. Rows' = Rows
  BY <1>1 DEF Rows
<1>5. \A l \in Rows : /\ link'[l] \in Link
                      /\ link'[l].count = served'[l]
  <2> SUFFICES ASSUME NEW l \in Rows
               PROVE  link'[l] \in Link /\ link'[l].count = served'[l]
    OBVIOUS
  <2>1. /\ l \in Links
        /\ link[l] \in Link
        /\ link[l].count = served[l]
        /\ served[l] \in 0 .. MaxCount
    BY DEF Inv, TypeOK, CountExact
  <2>2. CASE l = i
    <3>1. link'[l] = [link[l] EXCEPT !.count = link[l].count + 1]
      BY <1>1, <2>2
    <3>2. link[l].count + 1 \in 0 .. MaxCount
      BY <1>1, <2>1, <2>2, CountAssumption
    <3>3. [link[l] EXCEPT !.count = link[l].count + 1] \in Link
      BY <2>1, <3>2 DEF Link
    <3>4. [link[l] EXCEPT !.count = link[l].count + 1].count = link[l].count + 1
      BY <2>1 DEF Link
    <3>5. served'[l] = served[l] + 1
      BY <1>1, <1>2, <2>2 DEF Inv, TypeOK
    <3> QED
      BY <2>1, <3>1, <3>3, <3>4, <3>5
  <2>3. CASE l # i
    BY <1>1, <1>2, <2>1, <2>3 DEF Inv, TypeOK
  <2> QED
    BY <2>2, <2>3
<1>6. TypeOK'
  <2>1. link' \in [Rows' -> Link]
    BY <1>1, <1>4, <1>5
  <2> QED
    BY <1>1, <1>3, <1>4, <2>1, DoneStep DEF Inv, TypeOK
<1>7. CountExact'
  BY <1>4, <1>5 DEF CountExact
<1>8. FreshUnused'
  BY <1>1, <1>2, <1>4, DoneStep DEF Inv, TypeOK, FreshUnused
<1> QED
  BY <1>6, <1>7, <1>8 DEF Inv

(* A request that is dropped. *)
LEMMA AbortStep ==
  ASSUME Inv, NEW w \in Workers, Abort(w)
  PROVE  Inv'
  BY DoneStep, JobStep DEF Abort

(* A statement that deletes links, or rewrites them without their counter. *)
LEMMA TableStep ==
  ASSUME Inv, Rows' \subseteq Rows, link' \in [Rows' -> Link],
         \A l \in Rows' : link'[l].count = link[l].count,
         files' \subseteq Files, UNCHANGED <<fresh, job, served, peak>>
  PROVE  Inv'
  BY DEF Inv, TypeOK, CountExact, FreshUnused

(* delete_share *)
LEMMA DeleteShareStep ==
  ASSUME Inv, NEW l \in Links, DeleteShare(l)
  PROVE  Inv'
<1>1. Rows' \subseteq Rows /\ link' \in [Rows' -> Link] /\ \A k \in Rows' : link'[k] = link[k]
  BY DEF DeleteShare, Rows, Inv, TypeOK
<1> QED
  BY <1>1, TableStep DEF DeleteShare, Inv, TypeOK

(* The expiry of a link passes. *)
LEMMA ExpireStep ==
  ASSUME Inv, NEW l \in Links, Expire(l)
  PROVE  Inv'
<1>1. link[l] \in Link
  BY DEF Expire, Inv, TypeOK
<1>2. /\ [link[l] EXCEPT !.expires = "past"] \in Link
      /\ [link[l] EXCEPT !.expires = "past"].count = link[l].count
  BY <1>1 DEF Link
<1>3. link' = [link EXCEPT ![l] = [link[l] EXCEPT !.expires = "past"]]
  BY DEF Expire
<1>4. /\ Rows' = Rows
      /\ link' \in [Rows' -> Link]
      /\ \A k \in Rows' : link'[k].count = link[k].count
  BY <1>2, <1>3 DEF Expire, Rows, Inv, TypeOK
<1> QED
  BY <1>4, TableStep DEF Expire, Inv, TypeOK

(* The cascade from a purged file. *)
LEMMA FileGoneStep ==
  ASSUME Inv, NEW f \in Files, FileGone(f)
  PROVE  Inv'
<1>1. Rows' \subseteq Rows /\ link' \in [Rows' -> Link] /\ \A k \in Rows' : link'[k] = link[k]
  BY DEF FileGone, Rows, Inv, TypeOK
<1> QED
  BY <1>1, TableStep DEF FileGone, Inv, TypeOK

(* The gateway's task deactivates links and leaves their counters alone. *)
LEMMA ExpiryTaskStep ==
  ASSUME Inv, ExpiryTask
  PROVE  Inv'
<1>1. \A l \in Rows : /\ link[l] \in Link
                      /\ [link[l] EXCEPT !.active = FALSE] \in Link
                      /\ [link[l] EXCEPT !.active = FALSE].count = link[l].count
  BY DEF Inv, TypeOK, Link
<1>2. link' = [l \in Rows |-> IF link[l].expires = "past"
                                THEN [link[l] EXCEPT !.active = FALSE] ELSE link[l]]
  BY DEF ExpiryTask
<1>3. /\ Rows' = Rows
      /\ link' \in [Rows' -> Link]
      /\ \A k \in Rows' : link'[k].count = link[k].count
  BY <1>1, <1>2 DEF Rows
<1> QED
  BY <1>3, TableStep DEF ExpiryTask, Inv, TypeOK

(* Every step of every handler, of the task and of the clock preserves the
   invariant. *)
LEMMA NextInv ==
  ASSUME Inv, [Next]_vars
  PROVE  Inv'
<1>1. CASE UNCHANGED vars
  BY <1>1 DEF vars, Inv, TypeOK, CountExact, FreshUnused, Rows
<1>2. ASSUME NEW f \in Files, NEW perm \in Permissions, NEW pwd \in Passwords \union {None},
             NEW exp \in {"never", "later", "past"}, NEW max \in Limits \union {None},
             CreateShare(f, perm, pwd, exp, max)
      PROVE  Inv'
  BY <1>2, CreateShareStep
<1>3. ASSUME NEW w \in Workers, NEW l \in Links, NEW perm \in Permissions,
             NEW pwd \in Passwords \union {None}, NEW exp \in {"never", "later", "past"},
             NEW max \in Limits \union {None}, NEW active \in BOOLEAN,
             UpdateRead(w, l, perm, pwd, exp, max, active)
      PROVE  Inv'
  BY <1>3, UpdateReadStep
<1>4. ASSUME NEW w \in Workers,
             UpdateWrite(w) \/ DownloadRead(w) \/ DownloadCount(w) \/ Abort(w)
      PROVE  Inv'
  BY <1>4, UpdateWriteStep, DownloadReadStep, DownloadCountStep, AbortStep
<1>5. ASSUME NEW w \in Workers, NEW l \in Links, NEW pwd \in Passwords \union {None},
             DownloadCheck(w, l, pwd)
      PROVE  Inv'
  BY <1>5, DownloadCheckStep
<1>6. ASSUME NEW l \in Links, DeleteShare(l) \/ Expire(l) PROVE Inv'
  BY <1>6, DeleteShareStep, ExpireStep
<1>7. ASSUME NEW f \in Files, FileGone(f) PROVE Inv'
  BY <1>7, FileGoneStep
<1>8. CASE ExpiryTask
  BY <1>8, ExpiryTaskStep
<1> QED
  BY <1>1, <1>2, <1>3, <1>4, <1>5, <1>6, <1>7, <1>8 DEF Next

(* The inductive invariant of the share links. *)
THEOREM SharesInvariant == Spec => []Inv
<1>1. Inv /\ [Next]_vars => Inv'
  BY NextInv
<1> QED
  BY <1>1, InitInv, PTL DEF Spec

(* The table and the requests in flight keep their shape. *)
THEOREM SharesTypeOK == Spec => []TypeOK
<1>1. Inv => TypeOK
  BY DEF Inv
<1> QED
  BY <1>1, SharesInvariant, PTL

(* download_count is the number of downloads answered, however downloads,
   updates and the expiry task interleave. *)
THEOREM SharesCountExact == Spec => []CountExact
<1>1. Inv => CountExact
  BY DEF Inv
<1> QED
  BY <1>1, SharesInvariant, PTL

-----------------------------------------------------------------------------
(* The limit of a link is at most its highest, and the downloads counted and
   those in flight are not more than that and one per other request. *)
LimitedAt(l) ==
  peak[l] # None =>
    /\ link[l].max # None
    /\ link[l].max <= peak[l]
    /\ link[l].count + Cardinality(InFlight(l)) <= peak[l] + Cardinality(Workers) - 1

Limited == \A l \in Rows : LimitedAt(l)

LEMMA Crowd ==
  ASSUME NEW S \in SUBSET Workers, NEW T \in SUBSET S
  PROVE  /\ IsFiniteSet(S)
         /\ Cardinality(Workers) \in Nat /\ Cardinality(S) \in Nat /\ Cardinality(T) \in Nat
         /\ Cardinality(T) <= Cardinality(S) /\ Cardinality(S) <= Cardinality(Workers)
<1>1. IsFiniteSet(S) /\ Cardinality(S) <= Cardinality(Workers)
  BY WorkersAssumption, FS_Subset
<1>2. IsFiniteSet(T) /\ Cardinality(T) <= Cardinality(S)
  BY <1>1, FS_Subset
<1> QED
  BY <1>1, <1>2, WorkersAssumption, FS_CardinalityType

LEMMA SomeWorker == Cardinality(Workers) \in Nat /\ Cardinality(Workers) > 0
<1>1. Cardinality(Workers) \in Nat /\ Cardinality(Workers) # 0
  BY WorkersAssumption, FS_CardinalityType, FS_EmptySet
<1> QED
  BY <1>1

(* The numbers that Limited compares. *)
LEMMA Numbers ==
  ASSUME Inv, NEW l \in Rows
  PROVE  /\ l \in Links /\ link[l] \in Link
         /\ link[l].count \in Nat
         /\ link[l].max \in Nat \union {None}
         /\ peak[l] \in Nat \union {None}
<1>1. l \in Links /\ link[l] \in Link
  BY DEF Inv, TypeOK
<1>2. link[l].count \in 0 .. MaxCount /\ link[l].max \in Limits \union {None}
  BY <1>1 DEF Link
<1>3. link[l].count \in Nat
  BY <1>2, CountAssumption
<1>4. link[l].max \in Nat \union {None}
  BY <1>2, LimitsAssumption
<1>5. peak[l] \in Nat \union {None}
  BY <1>1 DEF Inv, TypeOK
<1> QED
  BY <1>1, <1>3, <1>4, <1>5

(* A step that counts nothing, admits nobody and leaves the limit alone. *)
LEMMA Calm ==
  ASSUME Inv, Limited, NEW l \in Rows,
         link'[l].max = link[l].max, link'[l].count = link[l].count,
         peak'[l] = peak[l], InFlight(l)' \subseteq InFlight(l)
  PROVE  LimitedAt(l)'
<1>1. PICK S, T : S = InFlight(l) /\ T = InFlight(l)'
  OBVIOUS
<1>2. S \in SUBSET Workers /\ T \in SUBSET S
  BY <1>1 DEF InFlight
<1>3. /\ Cardinality(Workers) \in Nat /\ Cardinality(S) \in Nat /\ Cardinality(T) \in Nat
      /\ Cardinality(T) <= Cardinality(S)
  BY <1>2, Crowd
<1>4. Cardinality(InFlight(l))' = Cardinality(T)
  BY <1>1
<1>5. peak[l] # None =>
        /\ link[l].max # None /\ link[l].max <= peak[l]
        /\ link[l].count + Cardinality(S) <= peak[l] + Cardinality(Workers) - 1
  BY <1>1 DEF Limited, LimitedAt
<1> QED
  BY <1>3, <1>4, <1>5, Numbers DEF LimitedAt

(* Ends of requests and changes of the table keep who is in flight. *)
LEMMA FewerInFlight ==
  ASSUME NEW l,
         \A v \in Workers : job'[v].op \in {"checked", "read"} =>
           job[v].op \in {"checked", "read"} /\ job'[v].id = job[v].id
  PROVE  InFlight(l)' \subseteq InFlight(l)
  BY DEF InFlight

(* A link is new: nothing is in flight under its id. *)
LEMMA CreateShareLimited ==
  ASSUME Inv, Limited, NEW f \in Files, NEW perm \in Permissions,
         NEW pwd \in Passwords \union {None}, NEW exp \in {"never", "later", "past"},
         NEW max \in Limits \union {None}, CreateShare(f, perm, pwd, exp, max)
  PROVE  Limited'
<1>1. PICK l \in fresh :
        /\ link' = [k \in Rows \union {l} |->
                     IF k = l THEN [file |-> f, permission |-> perm, password |-> pwd,
                                    expires |-> exp, max |-> max, count |-> 0,
                                    active |-> TRUE]
                              ELSE link[k]]
        /\ peak' = [peak EXCEPT ![l] = max]
  BY DEF CreateShare
<1>2. job' = job /\ l \in Links /\ l \notin Rows /\ Rows' = Rows \union {l}
  BY <1>1 DEF CreateShare, Inv, TypeOK, FreshUnused, Rows
<1>3. \A k \in Rows : LimitedAt(k)'
  <2> SUFFICES ASSUME NEW k \in Rows PROVE LimitedAt(k)'
    OBVIOUS
  <2>1. link'[k] = link[k] /\ peak'[k] = peak[k]
    BY <1>1, <1>2, Numbers DEF Inv, TypeOK
  <2>2. InFlight(k)' \subseteq InFlight(k)
    BY <1>2 DEF InFlight
  <2> QED
    BY <2>1, <2>2, Calm
<1>4. LimitedAt(l)'
  <2>1. link'[l].max = max /\ link'[l].count = 0 /\ peak'[l] = max
    BY <1>1, <1>2 DEF Inv, TypeOK
  <2>2. InFlight(l)' = {}
    BY <1>1, <1>2 DEF InFlight, Inv, FreshUnused, Idle
  <2>3. Cardinality(InFlight(l))' = 0
    BY <2>2, FS_EmptySet
  <2>4. max # None => max \in Nat
    BY LimitsAssumption
  <2> QED
    BY <2>1, <2>3, <2>4, SomeWorker DEF LimitedAt
<1> QED
  BY <1>2, <1>3, <1>4 DEF Limited

(* update_share sets a limit, and the highest one goes along. *)
LEMMA UpdateWriteLimited ==
  ASSUME Inv, Limited, NEW w \in Workers, UpdateWrite(w)
  PROVE  Limited'
<1>1. PICK j : j = job[w]
  OBVIOUS
<1>2. j \in [op : {"update"}, id : Links, permission : Permissions,
             password : Passwords \union {None}, expires : {"never", "later", "past"},
             max : Limits \union {None}, active : BOOLEAN]
  BY <1>1, JobShape DEF UpdateWrite, Inv
<1>3. \A l : InFlight(l)' \subseteq InFlight(l)
  BY FewerInFlight DEF UpdateWrite, Done, Inv, TypeOK, Idle
<1>4. CASE j.id \notin Rows
  <2>1. UNCHANGED <<link, peak>>
    BY <1>1, <1>4 DEF UpdateWrite
  <2> QED
    BY <1>3, <2>1, Calm DEF Limited, Rows
<1>5. CASE j.id \in Rows
  <2>1. PICK exp : link' = [link EXCEPT ![j.id] = Updated(link[j.id], [j EXCEPT !.expires = exp])]
    BY <1>1, <1>5 DEF UpdateWrite
  <2>2. peak' = [peak EXCEPT ![j.id] = Higher(peak[j.id], j.max)]
    BY <1>1, <1>5 DEF UpdateWrite
  <2>3. PICK i, r, u : i = j.id /\ r = link[i] /\ u = Updated(r, [j EXCEPT !.expires = exp])
    OBVIOUS
  <2>4. i \in Rows /\ i \in Links /\ r \in Link
    BY <1>5, <2>3, Numbers
  <2>5. u.max = j.max /\ u.count = r.count
    BY <1>2, <2>3, <2>4 DEF Updated, Link
  <2>6. Rows' = Rows /\ link'[i] = u /\ \A k \in Rows : k # i => link'[k] = link[k]
    BY <2>1, <2>3, <2>4 DEF Rows
  <2>7. peak'[i] = Higher(peak[i], j.max) /\ \A k \in Rows : k # i => peak'[k] = peak[k]
    BY <2>2, <2>3, <2>4, Numbers DEF Inv, TypeOK
  <2>8. \A k \in Rows : k # i => LimitedAt(k)'
    BY <1>3, <2>6, <2>7, Calm
  <2>9. LimitedAt(i)'
    <3> SUFFICES ASSUME peak'[i] # None
                 PROVE  /\ link'[i].max # None /\ link'[i].max <= peak'[i]
                        /\ link'[i].count + Cardinality(InFlight(i))'
                             <= peak'[i] + Cardinality(Workers) - 1
      BY DEF LimitedAt
    <3>1. PICK S, T : S = InFlight(i) /\ T = InFlight(i)'
      OBVIOUS
    <3>2. S \in SUBSET Workers /\ T \in SUBSET S
      BY <1>3, <3>1 DEF InFlight
    <3>3. /\ Cardinality(Workers) \in Nat /\ Cardinality(S) \in Nat /\ Cardinality(T) \in Nat
          /\ Cardinality(T) <= Cardinality(S)
      BY <3>2, Crowd
    <3>4. Cardinality(InFlight(i))' = Cardinality(T)
      BY <3>1
    <3>5. peak[i] # None /\ j.max # None
      BY <2>7 DEF Higher
    <3>6. j.max \in Nat /\ peak[i] \in Nat /\ r.count \in Nat
      BY <1>2, <2>3, <2>4, <3>5, Numbers, LimitsAssumption
    <3>7. peak'[i] \in Nat /\ j.max <= peak'[i] /\ peak[i] <= peak'[i]
      BY <2>7, <3>5, <3>6 DEF Higher
    <3>8. r.count + Cardinality(S) <= peak[i] + Cardinality(Workers) - 1
      BY <2>3, <2>4, <3>1, <3>5 DEF Limited, LimitedAt
    <3> QED
      BY <2>5, <2>6, <3>3, <3>4, <3>5, <3>6, <3>7, <3>8
  <2> QED
    BY <2>6, <2>8, <2>9 DEF Limited
<1> QED
  BY <1>4, <1>5

(* A download is admitted below the limit, by a request that had none: at most
   all requests are in flight then. *)
LEMMA DownloadCheckLimited ==
  ASSUME Inv, Limited, NEW w \in Workers, NEW l \in Links, NEW pwd, DownloadCheck(w, l, pwd)
  PROVE  Limited'
<1>1. /\ l \in Rows /\ (link[l].max # None => link[l].count < link[l].max)
      /\ link' = link /\ peak' = peak /\ Rows' = Rows
  BY DEF DownloadCheck, Admits, Rows
<1>2. PICK j : j = [op |-> "checked", id |-> l, file |-> link[l].file]
  OBVIOUS
<1>3. job' = [job EXCEPT ![w] = j] /\ j.id = l
  BY <1>2 DEF DownloadCheck
<1>4. ASSUME NEW k \in Rows, k # l PROVE LimitedAt(k)'
  <2>1. InFlight(k)' \subseteq InFlight(k)
    BY <1>3, <1>4 DEF InFlight, Inv, TypeOK
  <2> QED
    BY <1>1, <2>1, Calm
<1>5. LimitedAt(l)'
  <2>1. PICK T : T = InFlight(l)'
    OBVIOUS
  <2>2. T \in SUBSET Workers
    BY <2>1 DEF InFlight
  <2>3. /\ Cardinality(T) \in Nat /\ Cardinality(Workers) \in Nat
        /\ Cardinality(T) <= Cardinality(Workers)
    BY <2>2, Crowd
  <2>4. Cardinality(InFlight(l))' = Cardinality(T)
    BY <2>1
  <2>5. peak[l] # None => link[l].max # None /\ link[l].max <= peak[l]
    BY <1>1 DEF Limited, LimitedAt
  <2> QED
    BY <1>1, <2>3, <2>4, <2>5, Numbers DEF LimitedAt
<1> QED
  BY <1>1, <1>4, <1>5 DEF Limited

(* A download that is counted is in flight no more. *)
LEMMA DownloadCountLimited ==
  ASSUME Inv, Limited, NEW w \in Workers, DownloadCount(w)
  PROVE  Limited'
<1>1. PICK i : i = job[w].id
  OBVIOUS
<1>2. /\ job[w].op = "read" /\ job' = [job EXCEPT ![w] = Idle] /\ peak' = peak
      /\ link' = [l \in Rows |-> IF l = i THEN [link[l] EXCEPT !.count = @ + 1] ELSE link[l]]
  BY <1>1 DEF DownloadCount, Done
<1>3. Rows' = Rows
  BY <1>2 DEF Rows
<1>4. ASSUME NEW l \in Rows, l # i PROVE LimitedAt(l)'
  <2>1. InFlight(l)' \subseteq InFlight(l)
    BY <1>2, FewerInFlight DEF Inv, TypeOK, Idle
  <2>2. link'[l] = link[l]
    BY <1>2, <1>4
  <2> QED
    BY <1>2, <2>1, <2>2, Calm
<1>5. ASSUME i \in Rows PROVE LimitedAt(i)'
  <2>1. PICK S, r : S = InFlight(i) /\ r = link[i]
    OBVIOUS
  <2>2. S \in SUBSET Workers /\ w \in S
    BY <1>1, <1>2, <2>1 DEF InFlight
  <2>3. InFlight(i)' = S \ {w}
    BY <1>2, <2>1 DEF InFlight, Inv, TypeOK, Idle
  <2>4. IsFiniteSet(S) /\ Cardinality(S) \in Nat /\ Cardinality(Workers) \in Nat
    BY <2>2, Crowd
  <2>5. Cardinality(S \ {w}) = Cardinality(S) - 1
    BY <2>2, <2>4, FS_RemoveElement
  <2>6. Cardinality(InFlight(i))' = Cardinality(S) - 1
    BY <2>3, <2>5
  <2>7. r \in Link /\ r.count \in Nat /\ peak[i] \in Nat \union {None}
    BY <1>5, <2>1, Numbers
  <2>8. link'[i] = [r EXCEPT !.count = r.count + 1]
    BY <1>2, <1>5, <2>1
  <2>9. link'[i].max = r.max /\ link'[i].count = r.count + 1
    BY <2>7, <2>8 DEF Link
  <2>10. peak[i] # None =>
           /\ r.max # None /\ r.max <= peak[i]
           /\ r.count + Cardinality(S) <= peak[i] + Cardinality(Workers) - 1
    BY <1>5, <2>1 DEF Limited, LimitedAt
  <2> QED
    BY <1>2, <2>4, <2>6, <2>7, <2>9, <2>10 DEF LimitedAt
<1> QED
  BY <1>3, <1>4, <1>5 DEF Limited

(* Every other step counts nothing and admits nobody. *)
LEMMA CalmStep ==
  ASSUME Inv, Limited, Rows' \subseteq Rows, peak' = peak,
         \A l \in Rows' : link'[l].max = link[l].max /\ link'[l].count = link[l].count,
         \A v \in Workers : job'[v].op \in {"checked", "read"} =>
           job[v].op \in {"checked", "read"} /\ job'[v].id = job[v].id
  PROVE  Limited'
<1> SUFFICES ASSUME NEW l \in Rows' PROVE LimitedAt(l)'
  BY DEF Limited
<1>1. l \in Rows /\ InFlight(l)' \subseteq InFlight(l)
  BY FewerInFlight
<1> QED
  BY <1>1, Calm

LEMMA NextLimited ==
  ASSUME Inv, Limited, [Next]_vars
  PROVE  Limited'
<1>1. ASSUME UNCHANGED vars PROVE Limited'
  BY <1>1, CalmStep DEF vars, Rows
<1>2. ASSUME NEW w \in Workers, NEW l \in Links, NEW perm \in Permissions,
             NEW pwd \in Passwords \union {None}, NEW exp \in {"never", "later", "past"},
             NEW max \in Limits \union {None}, NEW active \in BOOLEAN,
             UpdateRead(w, l, perm, pwd, exp, max, active)
      PROVE  Limited'
  <2>1. \A v \in Workers : job'[v].op \in {"checked", "read"} => job'[v] = job[v]
    BY <1>2 DEF UpdateRead, Inv, TypeOK
  <2> QED
    BY <1>2, <2>1, CalmStep DEF UpdateRead, Rows
<1>3. ASSUME NEW w \in Workers, DownloadRead(w) PROVE Limited'
  <2>1. job[w] \in [op : {"checked", "read"}, id : Links, file : Files]
    BY <1>3, JobShape DEF Inv, DownloadRead
  <2>2. PICK j : j = [job[w] EXCEPT !.op = "read"]
    OBVIOUS
  <2>3. j.id = job[w].id /\ job' = [job EXCEPT ![w] = j]
    BY <1>3, <2>1, <2>2 DEF DownloadRead
  <2>4. \A v \in Workers : job'[v].op \in {"checked", "read"} =>
          job[v].op \in {"checked", "read"} /\ job'[v].id = job[v].id
    BY <2>1, <2>3 DEF Inv, TypeOK
  <2> QED
    BY <1>3, <2>4, CalmStep DEF DownloadRead, Rows
<1>4. ASSUME NEW w \in Workers, Abort(w) PROVE Limited'
  <2>1. \A v \in Workers : job'[v].op \in {"checked", "read"} => job'[v] = job[v]
    BY <1>4 DEF Abort, Done, Inv, TypeOK, Idle
  <2> QED
    BY <1>4, <2>1, CalmStep DEF Abort, Rows
<1>5. ASSUME NEW l \in Links, DeleteShare(l) PROVE Limited'
  <2>1. Rows' \subseteq Rows /\ \A k \in Rows' : link'[k] = link[k]
    BY <1>5 DEF DeleteShare, Rows
  <2> QED
    BY <1>5, <2>1, CalmStep DEF DeleteShare
<1>6. ASSUME NEW l \in Links, Expire(l) PROVE Limited'
  <2>1. PICK r : r = [link[l] EXCEPT !.expires = "past"]
    OBVIOUS
  <2>2. l \in Rows /\ link' = [link EXCEPT ![l] = r]
    BY <1>6, <2>1 DEF Expire
  <2>3. r.max = link[l].max /\ r.count = link[l].count
    BY <2>1, <2>2, Numbers DEF Link
  <2>4. Rows' = Rows /\ \A k \in Rows : link'[k].max = link[k].max /\ link'[k].count = link[k].count
    BY <2>2, <2>3 DEF Rows
  <2> QED
    BY <1>6, <2>4, CalmStep DEF Expire
<1>7. ASSUME NEW f \in Files, FileGone(f) PROVE Limited'
  <2>1. Rows' \subseteq Rows /\ \A k \in Rows' : link'[k] = link[k]
    BY <1>7 DEF FileGone, Rows
  <2> QED
    BY <1>7, <2>1, CalmStep DEF FileGone
<1>8. ASSUME ExpiryTask PROVE Limited'
  <2>1. link' = [l \in Rows |-> IF link[l].expires = "past"
                                  THEN [link[l] EXCEPT !.active = FALSE] ELSE link[l]]
    BY <1>8 DEF ExpiryTask
  <2>2. \A l \in Rows : /\ [link[l] EXCEPT !.active = FALSE].max = link[l].max
                        /\ [link[l] EXCEPT !.active = FALSE].count = link[l].count
    BY Numbers DEF Link
  <2>3. Rows' = Rows /\ \A k \in Rows : link'[k].max = link[k].max /\ link'[k].count = link[k].count
    BY <2>1, <2>2 DEF Rows
  <2> QED
    BY <1>8, <2>3, CalmStep DEF ExpiryTask
<1> QED
  BY <1>1, <1>2, <1>3, <1>4, <1>5, <1>6, <1>7, <1>8, CreateShareLimited, UpdateWriteLimited,
     DownloadCheckLimited, DownloadCountLimited DEF Next

(* download_shared checks max_downloads before it reads the file and counts
   after it: a link is never downloaded more often than its highest limit and
   one per other request in flight. *)
THEOREM SharesOvershootBounded == Spec => []OvershootBounded
<1>1. Init => Limited
  BY DEF Init, Limited, Rows
<1>2. Inv /\ Limited /\ [Next]_vars => Limited'
  BY NextLimited
<1>3. Inv /\ Limited => OvershootBounded
  <2> SUFFICES ASSUME Inv, Limited, NEW l \in Rows, peak[l] # None
               PROVE  link[l].count <= peak[l] + Cardinality(Workers) - 1
    BY DEF OvershootBounded
  <2>1. PICK S : S = InFlight(l)
    OBVIOUS
  <2>2. S \in SUBSET Workers
    BY <2>1 DEF InFlight
  <2>3. Cardinality(S) \in Nat /\ Cardinality(Workers) \in Nat
    BY <2>2, Crowd
  <2>4. link[l].count + Cardinality(S) <= peak[l] + Cardinality(Workers) - 1
    BY <2>1 DEF Limited, LimitedAt
  <2> QED
    BY <2>3, <2>4, Numbers
<1> QED
  BY <1>1, <1>2, <1>3, SharesInvariant, PTL DEF Spec
=============================================================================
