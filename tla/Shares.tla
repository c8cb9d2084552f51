------------------------------- MODULE Shares -------------------------------
(***************************************************************************)
(* Share links: the table share_links, the crate sharing that serves it,   *)
(* and the gateway's hourly task that deactivates expired links.           *)
(*                                                                         *)
(* download_shared checks a link, reads the file and only then counts the  *)
(* download; update_share reads the row and writes all but its counter     *)
(* back.  Neither holds a transaction, so each is one action per           *)
(* statement; the other handlers are one statement each.  Only the owner   *)
(* of a link updates or deletes it (WHERE user_id), and a refused request  *)
(* is not a step.                                                          *)
(***************************************************************************)
EXTENDS Integers, FiniteSets

CONSTANTS Links,      \* ids of share_links; the token of a link is its id
          Files,      \* file_entries that may be shared
          Permissions, \* values of permission; "download" admits downloads
          Passwords,
          Limits,     \* values of max_downloads
          MaxCount,   \* bound: no link is downloaded more often than this
          Workers,    \* requests that may be in flight at once
          None

ASSUME LimitsAssumption == Limits \subseteq Nat
ASSUME NoneAssumption == None \notin Limits \union Passwords
ASSUME CountAssumption == MaxCount \in Nat
ASSUME WorkersAssumption == IsFiniteSet(Workers) /\ Workers # {}

VARIABLES link,       \* share_links: a function from the ids of its rows
          files,      \* files that exist
          fresh,      \* ids not drawn yet
          job,        \* per worker, the request in flight
          served,     \* history: per link, downloads answered with the contents
          peak        \* history: per link, the highest limit it ever had, None if it had none

vars == <<link, files, fresh, job, served, peak>>

Link == [file : Files, permission : Permissions, password : Passwords \union {None},
         expires : {"never", "later", "past"}, max : Limits \union {None},
         count : 0 .. MaxCount, active : BOOLEAN]

Idle == [op |-> "idle"]

Job == {Idle}
  \union [op : {"checked", "read"}, id : Links, file : Files]
  \union [op : {"update"}, id : Links, permission : Permissions,
          password : Passwords \union {None}, expires : {"never", "later", "past"},
          max : Limits \union {None}, active : BOOLEAN]

Rows == DOMAIN link

Init == /\ link = [l \in {} |-> Idle]
        /\ files = Files
        /\ fresh = Links
        /\ job = [w \in Workers |-> Idle]
        /\ served = [l \in Links |-> 0]
        /\ peak = [l \in Links |-> 0]

Done(w) == job' = [job EXCEPT ![w] = Idle]

(* The higher of two limits; None is no limit. *)
Higher(m, n) == IF m = None \/ n = None THEN None ELSE IF n > m THEN n ELSE m

-----------------------------------------------------------------------------
(* create_share; expires_in_hours may be zero or negative. *)
CreateShare(f, perm, pwd, exp, max) ==
  /\ f \in files
  /\ \E l \in fresh :
       /\ fresh' = fresh \ {l}
       /\ link' = [k \in Rows \union {l} |->
                     IF k = l THEN [file |-> f, permission |-> perm, password |-> pwd,
                                    expires |-> exp, max |-> max, count |-> 0,
                                    active |-> TRUE]
                              ELSE link[k]]
       /\ peak' = [peak EXCEPT ![l] = max]
  /\ UNCHANGED <<files, job, served>>

(* update_share: the row is read, and the fields of the request that are given
   replace its own; a limit, a password or an expiry can be set, not lifted ... *)
UpdateRead(w, l, perm, pwd, exp, max, active) ==
  /\ job[w] = Idle
  /\ l \in Rows
  /\ perm \in {link[l].permission} \union Permissions
  /\ pwd \in {link[l].password} \union Passwords
  /\ exp \in {link[l].expires, "later", "past"}
  /\ max \in {link[l].max} \union Limits
  /\ job' = [job EXCEPT ![w] =
       [op |-> "update", id |-> l, permission |-> perm, password |-> pwd,
        expires |-> exp, max |-> max, active |-> active]]
  /\ UNCHANGED <<link, files, fresh, served, peak>>

(* Mutated form of Updated: the counter starts again. *)
Updated_CountReset(row, j) ==
  [row EXCEPT !.permission = j.permission, !.password = j.password, !.count = 0,
              !.expires = j.expires, !.max = j.max, !.active = j.active]

(* The row as the UPDATE leaves it: everything but the counter. *)
Updated(row, j) ==
  [row EXCEPT !.permission = j.permission, !.password = j.password,
              !.expires = j.expires, !.max = j.max, !.active = j.active]

(* An expiry that was ahead when it was read or given may have passed. *)
ByNow(exp) == IF exp = "later" THEN {"later", "past"} ELSE {exp}

(* ... and written back whole, if it still exists. *)
UpdateWrite(w) ==
  /\ job[w].op = "update"
  /\ LET l == job[w].id
     IN  IF l \in Rows
           THEN /\ \E exp \in ByNow(job[w].expires) :
                     link' = [link EXCEPT ![l] = Updated(link[l], [job[w] EXCEPT !.expires = exp])]
                /\ peak' = [peak EXCEPT ![l] = Higher(@, job[w].max)]
           ELSE UNCHANGED <<link, peak>>
  /\ Done(w)
  /\ UNCHANGED <<files, fresh, served>>

(* delete_share *)
DeleteShare(l) ==
  /\ l \in Rows
  /\ link' = [k \in Rows \ {l} |-> link[k]]
  /\ UNCHANGED <<files, fresh, job, served, peak>>

(* Mutated form of Admits: the limit is not looked at. *)
Admits_NoLimit(l, pwd) ==
  /\ l \in Rows
  /\ link[l].active
  /\ link[l].permission = "download"
  /\ link[l].expires # "past"
  /\ link[l].password \in {None, pwd}

(* The conditions under which a link admits a download. *)
Admits(l, pwd) ==
  /\ l \in Rows
  /\ link[l].active
  /\ link[l].permission = "download"
  /\ link[l].expires # "past"
  /\ link[l].max # None => link[l].count < link[l].max
  /\ link[l].password \in {None, pwd}

(* download_shared: the link admits the download ... *)
DownloadCheck(w, l, pwd) ==
  /\ job[w] = Idle
  /\ Admits(l, pwd)
  /\ job' = [job EXCEPT ![w] = [op |-> "checked", id |-> l, file |-> link[l].file]]
  /\ UNCHANGED <<link, files, fresh, served, peak>>

(* ... the file's row and its contents are read ... *)
DownloadRead(w) ==
  /\ job[w].op = "checked"
  /\ job[w].file \in files
  /\ job' = [job EXCEPT ![w].op = "read"]
  /\ UNCHANGED <<link, files, fresh, served, peak>>

(* Mutated form of DownloadCount: counted when it starts and when it ends. *)
DownloadCount_Twice(w) ==
  /\ job[w].op = "read"
  /\ served[job[w].id] < MaxCount
  /\ link' = [l \in Rows |-> IF l = job[w].id THEN [link[l] EXCEPT !.count = @ + 2]
                                             ELSE link[l]]
  /\ served' = [served EXCEPT ![job[w].id] = @ + 1]
  /\ Done(w)
  /\ UNCHANGED <<files, fresh, peak>>

(* ... and the download is counted, if the link still exists, and answered. *)
DownloadCount(w) ==
  /\ job[w].op = "read"
  /\ served[job[w].id] < MaxCount
  /\ link' = [l \in Rows |-> IF l = job[w].id THEN [link[l] EXCEPT !.count = @ + 1]
                                             ELSE link[l]]
  /\ served' = [served EXCEPT ![job[w].id] = @ + 1]
  /\ Done(w)
  /\ UNCHANGED <<files, fresh, peak>>

(* A request fails, or its handler is dropped, at any await. *)
Abort(w) ==
  /\ job[w] # Idle
  /\ Done(w)
  /\ UNCHANGED <<link, files, fresh, served, peak>>

(* Mutated form of ExpiryTask: expires_at > NOW(). *)
ExpiryTask_Reversed ==
  /\ \E l \in Rows : link[l].expires = "later" /\ link[l].active
  /\ link' = [l \in Rows |-> IF link[l].expires = "later"
                               THEN [link[l] EXCEPT !.active = FALSE] ELSE link[l]]
  /\ UNCHANGED <<files, fresh, job, served, peak>>

(* The gateway's share-expiry task. *)
ExpiryTask ==
  /\ \E l \in Rows : link[l].expires = "past" /\ link[l].active
  /\ link' = [l \in Rows |-> IF link[l].expires = "past"
                               THEN [link[l] EXCEPT !.active = FALSE] ELSE link[l]]
  /\ UNCHANGED <<files, fresh, job, served, peak>>

(* The expiry of a link passes. *)
Expire(l) ==
  /\ l \in Rows
  /\ link[l].expires = "later"
  /\ link' = [link EXCEPT ![l].expires = "past"]
  /\ UNCHANGED <<files, fresh, job, served, peak>>

(* The file is purged; share_links go with it (ON DELETE CASCADE). *)
FileGone(f) ==
  /\ f \in files
  /\ files' = files \ {f}
  /\ link' = [l \in {k \in Rows : link[k].file # f} |-> link[l]]
  /\ UNCHANGED <<fresh, job, served, peak>>

Next ==
  \/ \E f \in Files, perm \in Permissions, pwd \in Passwords \union {None},
        exp \in {"never", "later", "past"}, max \in Limits \union {None} :
       CreateShare(f, perm, pwd, exp, max)
  \/ \E w \in Workers, l \in Links, perm \in Permissions,
        pwd \in Passwords \union {None}, exp \in {"never", "later", "past"},
        max \in Limits \union {None}, active \in BOOLEAN :
       UpdateRead(w, l, perm, pwd, exp, max, active)
  \/ \E w \in Workers :
       \/ UpdateWrite(w)
       \/ DownloadRead(w)
       \/ DownloadCount(w)
       \/ Abort(w)
       \/ \E l \in Links, pwd \in Passwords \union {None} : DownloadCheck(w, l, pwd)
  \/ \E l \in Links : DeleteShare(l) \/ Expire(l)
  \/ \E f \in Files : FileGone(f)
  \/ ExpiryTask

Spec == Init /\ [][Next]_vars

(* The hourly task keeps running. *)
FairSpec == Spec /\ WF_vars(ExpiryTask)

-----------------------------------------------------------------------------
(* Properties. *)

(* The table and the requests in flight have the shape the code gives them. *)
TypeOK ==
  /\ Rows \subseteq Links
  /\ link \in [Rows -> Link]
  /\ files \subseteq Files
  /\ fresh \subseteq Links
  /\ job \in [Workers -> Job]
  /\ served \in [Links -> 0 .. MaxCount]
  /\ peak \in [Links -> Nat \union {None}]

(* The counter of a link is exact: no update that was read before a download
   was counted, and no two downloads at once, lose one. *)
CountExact == \A l \in Rows : link[l].count = served[l]

InFlight(l) == {w \in Workers : job[w].op \in {"checked", "read"} /\ job[w].id = l}

(* max_downloads is checked before and counted after the file is read, so it
   can be exceeded, but a link that was always limited is never downloaded
   more often than its highest limit and one per other request in flight. *)
OvershootBounded ==
  \A l \in Rows :
    peak[l] # None => link[l].count <= peak[l] + Cardinality(Workers) - 1

(* A link that has expired is deactivated, or it is extended or deleted: also
   if an update read before the task writes it back active. *)
ExpiredDeactivated ==
  \A l \in Links :
    (l \in Rows /\ link[l].expires = "past")
      ~> (l \in Rows => ~link[l].active \/ link[l].expires # "past")
=============================================================================
