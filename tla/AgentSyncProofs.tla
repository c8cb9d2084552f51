-------------------------- MODULE AgentSyncProofs ---------------------------
(***************************************************************************)
(* Proofs about the watcher, the cache and the sync loop, for any number   *)
(* of files and versions and any capacity of the channel.                  *)
(*                                                                         *)
(* CacheCurrent speaks of a watcher that has caught up.  Its strengthening *)
(* says what is still under way for a file that the cache does not show as *)
(* it is and that was not missed (Due): the scan has it before it, the     *)
(* channel has a modification of it, or it is being read.  Two facts about *)
(* the channel keep that true when an event is taken: a removal of such a  *)
(* file is followed by its modification, and contents that were read       *)
(* before the last write are followed by one as well.                      *)
(*                                                                         *)
(* SyncedIsThere compares versions: what is uploaded is at least as new as *)
(* the entry (UploadCurrent), because a file on disk has the last version  *)
(* written (NewestOnDisk) and the batch holds pending entries only         *)
(* (TodoPending).                                                          *)
(***************************************************************************)
EXTENDS AgentSync, TLAPS

(* The k-th event says that p was written, or removed. *)
Says(k, kind, p) == events[k].kind = kind /\ events[k].path = p

(* A modification of p is in the channel. *)
Announced(p) == \E k \in 1 .. Len(events) : Says(k, "modify", p)

Shown(p) == cache[p] # None /\ cache[p].hash = disk[p]

BeingRead(p) == indexing # None /\ indexing.path = p /\ indexing.hash \in {0, disk[p]}

(* Nobody watches: the channel is closed and no file is being read. *)
Unwatched == scan = None => events = <<>> /\ indexing = None

(* While the agent is down nobody watches. *)
DownUnwatched == loop = Down => scan = None

(* A file is in the cache as it is, or the watcher has yet to come to it. *)
Due == scan # None => \A p \in Paths \ missed : disk[p] # 0 =>
         p \in scan \/ Announced(p) \/ BeingRead(p) \/ Shown(p)

(* A removal of a file that exists and was not missed is followed by a
   modification of it. *)
RemovalsOvertaken ==
  \A p \in Paths \ missed, k \in 1 .. Len(events) :
    disk[p] # 0 /\ Says(k, "remove", p) =>
      \E m \in k + 1 .. Len(events) : Says(m, "modify", p)

(* What was read before the last write is read again. *)
RereadDue ==
  /\ indexing # None /\ indexing.hash # 0 /\ disk[indexing.path] \notin {0, indexing.hash}
  /\ indexing.path \notin missed
  => Announced(indexing.path)

(* A file on disk has the last version written, and nothing that was read of a
   file is newer. *)
NewestOnDisk ==
  \A p \in Paths : /\ disk[p] \in {0, last[p]}
                   /\ cache[p] # None => cache[p].hash <= last[p]
                   /\ indexing # None /\ indexing.path = p => indexing.hash <= last[p]

(* What the batch still holds is pending or gone, and is not what is being
   uploaded. *)
TodoPending ==
  /\ loop.pc \in {"next", "post", "mark"} =>
       \A p \in loop.todo : cache[p] # None => cache[p].status = "pending"
  /\ loop.pc \in {"post", "mark"} => loop.path \notin loop.todo

(* What is being uploaded is as new as its entry. *)
UploadCurrent ==
  loop.pc = "post" /\ loop.path \notin raced /\ cache[loop.path] # None =>
    loop.data >= cache[loop.path].hash

(* What is about to be marked synced is on the server. *)
MarkIsThere ==
  loop.pc = "mark" =>
    /\ remote[NameOf[loop.path]] # None
    /\ remote[NameOf[loop.path]].path = loop.path
    /\ loop.path \notin raced /\ cache[loop.path] # None =>
         remote[NameOf[loop.path]].version >= cache[loop.path].hash

Watched == Unwatched /\ DownUnwatched /\ Due /\ RemovalsOvertaken /\ RereadDue

Uploaded == TodoPending /\ UploadCurrent /\ MarkIsThere /\ SyncedIsThere

Inv == TypeOK /\ Watched /\ NewestOnDisk /\ Uploaded

-----------------------------------------------------------------------------
(* In the first state every file is before the scan. *)
LEMMA InitInv == Init => Inv
<1> SUFFICES ASSUME Init PROVE Inv
  OBVIOUS
<1>0. events = <<>> /\ events \in Seq(Event) /\ Len(events) = 0
  BY DEF Init
<1>1. TypeOK
  BY <1>0, BoundsAssumption DEF Init, TypeOK, Versions, Loop, Event
<1>2. Watched
  BY <1>0, NoneAssumption DEF Init, Watched, Unwatched, DownUnwatched, Due, RemovalsOvertaken, RereadDue, Asleep, Down
<1>3. NewestOnDisk /\ Uploaded
  BY DEF Init, NewestOnDisk, Uploaded, TodoPending, UploadCurrent, MarkIsThere, SyncedIsThere, Asleep
<1> QED
  BY <1>1, <1>2, <1>3 DEF Inv

-----------------------------------------------------------------------------
(* What the channel holds after an event was sent or taken. *)
LEMMA Sent ==
  ASSUME NEW s \in Seq(Event), NEW e \in Event
  PROVE  /\ Append(s, e) \in Seq(Event)
         /\ Len(Append(s, e)) = Len(s) + 1
         /\ \A k \in 1 .. Len(s) : Append(s, e)[k] = s[k]
         /\ Append(s, e)[Len(s) + 1] = e
OBVIOUS

LEMMA Taken ==
  ASSUME NEW s \in Seq(Event), s # <<>>
  PROVE  /\ Tail(s) \in Seq(Event)
         /\ Len(Tail(s)) = Len(s) - 1
         /\ Len(s) \in Nat \ {0}
         /\ Head(s) = s[1] /\ Head(s) \in Event
         /\ \A k \in 1 .. Len(s) - 1 : Tail(s)[k] = s[k + 1]
OBVIOUS

(* The places of sync_loop. *)
LEMMA Places ==
  ASSUME loop \in Loop
  PROVE  /\ loop.pc \in {"asleep", "down", "next", "post", "mark"}
         /\ loop.pc \in {"next", "post", "mark"} => loop.todo \in SUBSET Paths
         /\ loop.pc \in {"post", "mark"} => loop.path \in Paths
         /\ loop.pc = "post" => loop.data \in Versions
         /\ loop = Down <=> loop.pc = "down"
BY DEF Loop, Asleep, Down

LEMMA PlacesMade ==
  ASSUME NEW S \in SUBSET Paths, NEW p \in Paths, NEW v \in Versions
  PROVE  /\ Asleep \in Loop /\ Down \in Loop
         /\ [pc |-> "next", todo |-> S] \in Loop
         /\ [pc |-> "post", todo |-> S, path |-> p, data |-> v] \in Loop
         /\ [pc |-> "mark", todo |-> S, path |-> p] \in Loop
BY DEF Loop

(* Every step keeps the types. *)
LEMMA TypeStep == Inv /\ [Next]_vars => TypeOK'
<1> SUFFICES ASSUME TypeOK, Unwatched, [Next]_vars PROVE TypeOK'
  BY DEF Inv, Watched
<1> USE BoundsAssumption, NameAssumption DEF Versions
<1>a. events \in Seq(Event) /\ Len(events) <= MaxEvents /\ Len(events) \in Nat
  BY DEF TypeOK
<1>0. /\ disk \in [Paths -> Versions] /\ last \in [Paths -> Versions]
      /\ scan \in (SUBSET Paths) \union {None}
      /\ indexing \in Reading \union {None}
      /\ remote \in [Names -> Copy \union {None}]
      /\ missed \in SUBSET Paths /\ raced \in SUBSET Paths
  BY DEF TypeOK
<1>b. ASSUME NEW p \in Paths, Miss(p) PROVE missed' \in SUBSET Paths
  BY <1>0, <1>b DEF Miss
<1>c. <<>> \in Seq(Event) /\ Len(<<>>) = 0
  OBVIOUS
<1>1. ASSUME NEW p \in Paths, UserWrite(p) PROVE TypeOK'
  <2>1. [kind |-> "modify", path |-> p] \in Event
    BY DEF Event
  <2>2. events' \in Seq(Event) /\ Len(events') <= MaxEvents /\ missed' \in SUBSET Paths
    <3>1. PICK e : e = [kind |-> "modify", path |-> p]
      OBVIOUS
    <3>2. e \in Event /\ e.path = p
      BY <2>1, <3>1
    <3>3. CASE UNCHANGED events /\ missed' \subseteq missed \union {p}
      BY <1>0, <1>a, <3>3
    <3>4. CASE /\ Len(events) < MaxEvents /\ events' = Append(events, e)
               /\ missed' = missed \ {p}
      <4>1. events' \in Seq(Event) /\ Len(events') = Len(events) + 1
        BY <1>a, <3>2, <3>4, Sent
      <4> QED
        BY <1>0, <1>a, <3>4, <4>1
    <3> QED
      BY <1>1, <3>1, <3>2, <3>3, <3>4 DEF UserWrite, Notify
  <2> QED
    BY <1>0, <1>1, <2>2 DEF UserWrite, TypeOK
<1>2. ASSUME NEW p \in Paths, UserDelete(p) PROVE TypeOK'
  <2>1. [kind |-> "remove", path |-> p] \in Event
    BY DEF Event
  <2>2. events' \in Seq(Event) /\ Len(events') <= MaxEvents /\ missed' \in SUBSET Paths
    <3>1. PICK e : e = [kind |-> "remove", path |-> p]
      OBVIOUS
    <3>2. e \in Event /\ e.path = p
      BY <2>1, <3>1
    <3>3. CASE UNCHANGED events /\ missed' \subseteq missed \union {p}
      BY <1>0, <1>a, <3>3
    <3>4. CASE /\ Len(events) < MaxEvents /\ events' = Append(events, e)
               /\ missed' = missed \ {p}
      <4>1. events' \in Seq(Event) /\ Len(events') = Len(events) + 1
        BY <1>a, <3>2, <3>4, Sent
      <4> QED
        BY <1>0, <1>a, <3>4, <4>1
    <3> QED
      BY <1>2, <3>1, <3>2, <3>3, <3>4 DEF UserDelete, Notify
  <2> QED
    BY <1>2, <2>2 DEF UserDelete, TypeOK
<1>3. CASE ScanNext
  <2>1. PICK p \in scan : \/ IndexStart(p) /\ UNCHANGED scan
                          \/ PassedOver(p) /\ scan' = scan \ {p}
    BY <1>3 DEF ScanNext
  <2>2. scan \in SUBSET Paths /\ p \in Paths
    BY <1>0, <1>3 DEF ScanNext
  <2>3. /\ indexing' \in Reading \union {None} /\ scan' \in SUBSET Paths
        /\ missed' \in SUBSET Paths
    BY <1>0, <1>b, <2>1, <2>2 DEF IndexStart, PassedOver, Reading
  <2> QED
    BY <1>3, <2>3 DEF ScanNext, TypeOK
<1>4. CASE WatchModify
  <2>1. Tail(events) \in Seq(Event) /\ Len(Tail(events)) <= MaxEvents /\ Head(events).path \in Paths
    <3>1. events # <<>>
      BY <1>4 DEF WatchModify
    <3>2. Tail(events) \in Seq(Event) /\ Len(Tail(events)) = Len(events) - 1 /\ Head(events) \in Event
      BY <1>a, <3>1, Taken
    <3> QED
      BY <1>a, <3>2 DEF Event
  <2>2. indexing' \in Reading \union {None} /\ missed' \in SUBSET Paths
    BY <1>0, <1>b, <1>4, <2>1 DEF WatchModify, IndexStart, PassedOver, Reading
  <2> QED
    BY <1>4, <2>1, <2>2 DEF WatchModify, TypeOK
<1>5. CASE WatchRemove
  <2>1. Tail(events) \in Seq(Event) /\ Len(Tail(events)) <= MaxEvents /\ Head(events).path \in Paths
    <3>1. events # <<>>
      BY <1>5 DEF WatchRemove
    <3>2. Tail(events) \in Seq(Event) /\ Len(Tail(events)) = Len(events) - 1 /\ Head(events) \in Event
      BY <1>a, <3>1, Taken
    <3> QED
      BY <1>a, <3>2 DEF Event
  <2> QED
    BY <1>5, <2>1 DEF WatchRemove, TypeOK
<1>17. CASE ScanFails
  BY <1>17, <1>c DEF ScanFails, WatcherEnds, TypeOK
<1>6. CASE IndexRead
  BY <1>6 DEF IndexRead, TypeOK, Reading
<1>7. CASE IndexFails
  <2>1. scan' \in (SUBSET Paths) \union {None} /\ missed' \in SUBSET Paths
    BY <1>0, <1>b, <1>7 DEF IndexFails, WatcherEnds, Reading
  <2>2. events' \in Seq(Event) /\ Len(events') <= MaxEvents
    <3>1. events' = events \/ events' = <<>>
      BY <1>7 DEF IndexFails, WatcherEnds
    <3>2. CASE events' = events
      BY <1>a, <3>2
    <3>3. CASE events' = <<>>
      BY <3>3
    <3> QED
      BY <3>1, <3>2, <3>3
  <2> QED
    BY <1>7, <2>1, <2>2 DEF IndexFails, TypeOK
<1>8. CASE IndexUpsert
  <2>1. scan \in SUBSET Paths
    BY <1>0, <1>8 DEF IndexUpsert, Unwatched
  <2> QED
    BY <1>8, <2>1 DEF IndexUpsert, TypeOK, Reading, Entry
<1>9. CASE SyncSelect
  <2>1. Pending \subseteq Paths
    BY DEF Pending
  <2> QED
    BY <1>9, <2>1 DEF SyncSelect, TypeOK, Loop
<1>10. ASSUME NEW p \in Paths, SyncSkip(p) \/ SyncRead(p) PROVE TypeOK'
  <2>1. loop.todo \ {p} \in SUBSET Paths /\ disk[p] \in Versions
    BY <1>10, Places DEF SyncSkip, SyncRead, TypeOK
  <2>2. loop' \in Loop
    BY <1>10, <2>1, PlacesMade DEF SyncSkip, SyncRead
  <2> QED
    BY <1>10, <2>2 DEF SyncSkip, SyncRead, TypeOK
<1>11. CASE SyncPost \/ SyncConflict \/ SyncLost
  <2>1. loop.todo \in SUBSET Paths /\ loop.path \in Paths /\ loop.data \in Versions
    BY <1>11, Places DEF SyncPost, SyncConflict, SyncLost, TypeOK
  <2>2. loop' \in Loop
    BY <1>11, <2>1, PlacesMade DEF SyncPost, SyncConflict, SyncLost, Failed
  <2>3. NameOf[loop.path] \in Names /\ [path |-> loop.path, version |-> loop.data] \in Copy
    BY <2>1 DEF Copy
  <2>4. remote' \in [Names -> Copy \union {None}]
    BY <1>0, <1>11, <2>1, <2>3 DEF SyncPost, SyncConflict, SyncLost
  <2> QED
    BY <1>11, <2>2, <2>4 DEF SyncPost, SyncConflict, SyncLost, TypeOK
<1>12. CASE SyncMark
  <2>1. loop.todo \in SUBSET Paths /\ loop.path \in Paths
    BY <1>12, Places DEF SyncMark, TypeOK
  <2>2. loop' \in Loop
    BY <1>12, <2>1 DEF SyncMark, Loop
  <2>3. cache' \in [Paths -> Entry \union {None}]
    <3>1. CASE UNCHANGED cache
      BY <3>1 DEF TypeOK
    <3>2. CASE cache[loop.path] # None /\ cache' = [cache EXCEPT ![loop.path].status = "synced"]
      BY <2>1, <3>2 DEF TypeOK, Entry
    <3> QED
      BY <1>12, <3>1, <3>2 DEF SyncMark
  <2> QED
    BY <1>12, <2>2, <2>3 DEF SyncMark, TypeOK
<1>13. CASE SyncSleep
  BY <1>13 DEF SyncSleep, TypeOK, Loop
<1>14. CASE Crash
  BY <1>14, <1>c DEF Crash, WatcherEnds, TypeOK, Loop
<1>15. CASE Start
  BY <1>15 DEF Start, TypeOK, Loop
<1>16. CASE UNCHANGED vars
  BY <1>16 DEF vars, TypeOK
<1> QED
  BY <1>1, <1>2, <1>3, <1>4, <1>5, <1>6, <1>7, <1>8, <1>9, <1>10, <1>11, <1>12,
     <1>13, <1>14, <1>15, <1>16, <1>17 DEF Next, Watch, Sync

-----------------------------------------------------------------------------
(* A step of sync_loop leaves the watcher and the contents in the cache alone. *)
LEMMA QuietStep ==
  ASSUME Watched, UNCHANGED <<disk, events, scan, indexing, missed>>, DownUnwatched',
         \A p \in Paths : Shown(p) => Shown(p)'
  PROVE  Watched'
<1>1. Unwatched' /\ RemovalsOvertaken' /\ RereadDue'
  BY DEF Watched, Unwatched, RemovalsOvertaken, RereadDue, Announced, Says
<1>2. ASSUME scan' # None, NEW p \in Paths \ missed', disk'[p] # 0
      PROVE  p \in scan' \/ Announced(p)' \/ BeingRead(p)' \/ Shown(p)'
  BY <1>2 DEF Watched, Due, Announced, Says, BeingRead
<1>3. Due'
  BY <1>2 DEF Due
<1> QED
  BY <1>1, <1>3 DEF Watched

(* A write is announced, and announced last. *)
LEMMA WriteStep ==
  ASSUME Inv, NEW q \in Paths, UserWrite(q)
  PROVE  Watched'
<1>1. events \in Seq(Event) /\ Len(events) \in Nat /\ disk \in [Paths -> Versions]
  BY DEF Inv, TypeOK
<1>2. PICK e : e = [kind |-> "modify", path |-> q]
  OBVIOUS
<1>3. e \in Event
  BY <1>2 DEF Event
<1>4. DownUnwatched' /\ Unwatched'
  BY DEF Inv, Watched, DownUnwatched, Unwatched, UserWrite, Notify
<1>5. CASE scan = None
  BY <1>4, <1>5, <1>1 DEF Inv, Watched, Unwatched, UserWrite, Notify, Due, RemovalsOvertaken, RereadDue
<1>6. CASE scan # None /\ events' = Append(events, e) /\ missed' = missed \ {q}
  <2>1. /\ events' = Append(events, e) /\ disk' = [disk EXCEPT ![q] = last[q] + 1]
        /\ UNCHANGED <<scan, indexing, cache>>
    BY <1>6 DEF UserWrite
  <2>2. /\ Len(events') = Len(events) + 1 /\ Len(events) + 1 \in 1 .. Len(events')
        /\ \A k \in 1 .. Len(events) : events'[k] = events[k] /\ k \in 1 .. Len(events')
        /\ events'[Len(events) + 1] = e
    BY <1>1, <1>3, <2>1, Sent
  <2>a. PICK n : n = Len(events) + 1
    OBVIOUS
  <2>3. Says(n, "modify", q)'
    BY <1>2, <2>2, <2>a DEF Says
  <2>4. Announced(q)'
    BY <2>2, <2>3, <2>a DEF Announced
  <2>5. ASSUME NEW p \in Paths, Announced(p) PROVE Announced(p)'
    BY <2>2, <2>5 DEF Announced, Says
  <2>6. ASSUME NEW p \in Paths, p # q PROVE disk'[p] = disk[p]
    BY <1>1, <2>1, <2>6
  <2>7. Due'
    <3> SUFFICES ASSUME NEW p \in Paths \ missed', disk'[p] # 0
                 PROVE  p \in scan' \/ Announced(p)' \/ BeingRead(p)' \/ Shown(p)'
      BY DEF Due
    <3>1. CASE p = q
      BY <2>4, <3>1
    <3>2. CASE p # q
      <4>1. p \in scan \/ Announced(p) \/ BeingRead(p) \/ Shown(p)
        BY <1>6, <2>6, <3>2 DEF Inv, Watched, Due
      <4> QED
        BY <2>1, <2>5, <2>6, <3>2, <4>1 DEF BeingRead, Shown
    <3> QED
      BY <3>1, <3>2
  <2>8. RemovalsOvertaken'
    <3> SUFFICES ASSUME NEW p \in Paths \ missed', NEW k \in 1 .. Len(events'), disk'[p] # 0, Says(k, "remove", p)'
                 PROVE  \E m \in k + 1 .. Len(events') : Says(m, "modify", p)'
      BY DEF RemovalsOvertaken
    <3>1. k \in 1 .. Len(events)
      BY <1>1, <1>2, <2>2 DEF Says
    <3>2. Says(k, "remove", p)
      BY <2>2, <3>1 DEF Says
    <3>3. CASE p = q
      BY <1>1, <2>2, <2>3, <2>a, <3>1, <3>3
    <3>4. CASE p # q
      <4>1. PICK m \in k + 1 .. Len(events) : Says(m, "modify", p)
        BY <1>6, <2>6, <3>1, <3>2, <3>4 DEF Inv, Watched, RemovalsOvertaken
      <4>2. Says(m, "modify", p)' /\ m \in k + 1 .. Len(events')
        BY <1>1, <2>2, <3>1, <4>1 DEF Says
      <4> QED
        BY <4>2
    <3> QED
      BY <3>3, <3>4
  <2>9. RereadDue'
    <3> SUFFICES ASSUME indexing' # None, indexing'.hash # 0, disk'[indexing'.path] \notin {0, indexing'.hash},
                        indexing'.path \notin missed'
                 PROVE  Announced(indexing.path)'
      BY DEF RereadDue
    <3>1. indexing.path \in Paths
      BY <2>1 DEF Inv, TypeOK, Reading
    <3>2. CASE indexing.path = q
      BY <2>4, <3>2, <2>1
    <3>3. CASE indexing.path # q
      <4>1. Announced(indexing.path)
        BY <1>6, <2>1, <2>6, <3>1, <3>3 DEF Inv, Watched, RereadDue
      <4> QED
        BY <2>1, <2>5, <3>1, <4>1
    <3> QED
      BY <3>2, <3>3
  <2> QED
    BY <1>4, <2>7, <2>8, <2>9 DEF Watched
<1>7. CASE /\ scan # None /\ UNCHANGED events
           /\ missed' = {p \in missed \union {q} : disk'[p] # 0}
  <2>1. disk' = [disk EXCEPT ![q] = last[q] + 1] /\ UNCHANGED <<scan, indexing, cache>>
    BY DEF UserWrite
  <2>2. ASSUME NEW p \in Paths \ missed', disk'[p] # 0 PROVE p # q /\ p \notin missed /\ disk'[p] = disk[p]
    BY <1>1, <1>7, <2>1, <2>2
  <2>3. \A p : Announced(p)' <=> Announced(p)
    BY <1>7 DEF Announced, Says
  <2>4. Due'
    BY <1>7, <2>1, <2>2, <2>3 DEF Inv, Watched, Due, BeingRead, Shown
  <2>5. RemovalsOvertaken'
    BY <1>7, <2>2 DEF Inv, Watched, RemovalsOvertaken, Says
  <2>6. RereadDue'
    <3> SUFFICES ASSUME indexing # None, indexing.hash # 0, disk'[indexing.path] \notin {0, indexing.hash},
                        indexing.path \notin missed'
                 PROVE  Announced(indexing.path)
      BY <2>1, <2>3 DEF RereadDue
    <3>1. indexing.path \in Paths
      BY DEF Inv, TypeOK, Reading
    <3> QED
      BY <2>2, <3>1 DEF Inv, Watched, RereadDue
  <2> QED
    BY <1>4, <2>4, <2>5, <2>6 DEF Watched
<1> QED
  BY <1>2, <1>5, <1>6, <1>7 DEF UserWrite, Notify

(* A deletion announces nothing that is needed for other files. *)
LEMMA DeleteStep ==
  ASSUME Inv, NEW q \in Paths, UserDelete(q)
  PROVE  Watched'
<1>1. events \in Seq(Event) /\ Len(events) \in Nat /\ disk \in [Paths -> Versions]
  BY DEF Inv, TypeOK
<1>2. PICK e : e = [kind |-> "remove", path |-> q]
  OBVIOUS
<1>3. e \in Event
  BY <1>2 DEF Event
<1>4. DownUnwatched' /\ Unwatched'
  BY DEF Inv, Watched, DownUnwatched, Unwatched, UserDelete, Notify
<1>5. CASE scan = None
  BY <1>4, <1>5, <1>1 DEF Inv, Watched, Unwatched, UserDelete, Notify, Due, RemovalsOvertaken, RereadDue
<1>6. CASE scan # None /\ events' = Append(events, e) /\ missed' = missed \ {q}
  <2>1. /\ events' = Append(events, e) /\ disk' = [disk EXCEPT ![q] = 0]
        /\ UNCHANGED <<scan, indexing, cache>>
    BY <1>6 DEF UserDelete
  <2>2. /\ Len(events') = Len(events) + 1
        /\ \A k \in 1 .. Len(events) : events'[k] = events[k] /\ k \in 1 .. Len(events')
        /\ events'[Len(events) + 1] = e
    BY <1>1, <1>3, <2>1, Sent
  <2>3. ASSUME NEW p \in Paths, Announced(p) PROVE Announced(p)'
    BY <2>2, <2>3 DEF Announced, Says
  <2>4. ASSUME NEW p \in Paths, disk'[p] # 0 PROVE p # q /\ disk'[p] = disk[p]
    BY <1>1, <2>1, <2>4
  <2>5. Due'
    <3> SUFFICES ASSUME NEW p \in Paths \ missed', disk'[p] # 0
                 PROVE  p \in scan' \/ Announced(p)' \/ BeingRead(p)' \/ Shown(p)'
      BY DEF Due
    <3>1. p \in scan \/ Announced(p) \/ BeingRead(p) \/ Shown(p)
      BY <1>6, <2>4 DEF Inv, Watched, Due
    <3> QED
      BY <2>1, <2>3, <2>4, <3>1 DEF BeingRead, Shown
  <2>6. RemovalsOvertaken'
    <3> SUFFICES ASSUME NEW p \in Paths \ missed', NEW k \in 1 .. Len(events'), disk'[p] # 0, Says(k, "remove", p)'
                 PROVE  \E m \in k + 1 .. Len(events') : Says(m, "modify", p)'
      BY DEF RemovalsOvertaken
    <3>1. k \in 1 .. Len(events)
      BY <1>1, <1>2, <2>2, <2>4 DEF Says
    <3>2. Says(k, "remove", p)
      BY <2>2, <3>1 DEF Says
    <3>3. PICK m \in k + 1 .. Len(events) : Says(m, "modify", p)
      BY <1>6, <2>4, <3>1, <3>2 DEF Inv, Watched, RemovalsOvertaken
    <3>4. Says(m, "modify", p)' /\ m \in k + 1 .. Len(events')
      BY <1>1, <2>2, <3>1, <3>3 DEF Says
    <3> QED
      BY <3>4
  <2>7. RereadDue'
    <3> SUFFICES ASSUME indexing' # None, indexing'.hash # 0, disk'[indexing'.path] \notin {0, indexing'.hash},
                        indexing'.path \notin missed'
                 PROVE  Announced(indexing.path)'
      BY DEF RereadDue
    <3>1. indexing.path \in Paths
      BY <2>1 DEF Inv, TypeOK, Reading
    <3>2. Announced(indexing.path)
      BY <1>6, <2>1, <2>4, <3>1 DEF Inv, Watched, RereadDue
    <3> QED
      BY <2>1, <2>3, <3>1, <3>2
  <2> QED
    BY <1>4, <2>5, <2>6, <2>7 DEF Watched
<1>7. CASE /\ scan # None /\ UNCHANGED events
           /\ missed' = {p \in missed \union {q} : disk'[p] # 0}
  <2>1. disk' = [disk EXCEPT ![q] = 0] /\ UNCHANGED <<scan, indexing, cache>>
    BY DEF UserDelete
  <2>2. ASSUME NEW p \in Paths \ missed', disk'[p] # 0 PROVE p # q /\ p \notin missed /\ disk'[p] = disk[p]
    BY <1>1, <1>7, <2>1, <2>2
  <2>3. \A p : Announced(p)' <=> Announced(p)
    BY <1>7 DEF Announced, Says
  <2>4. Due'
    BY <1>7, <2>1, <2>2, <2>3 DEF Inv, Watched, Due, BeingRead, Shown
  <2>5. RemovalsOvertaken'
    BY <1>7, <2>2 DEF Inv, Watched, RemovalsOvertaken, Says
  <2>6. RereadDue'
    <3> SUFFICES ASSUME indexing # None, indexing.hash # 0, disk'[indexing.path] \notin {0, indexing.hash},
                        indexing.path \notin missed'
                 PROVE  Announced(indexing.path)
      BY <2>1, <2>3 DEF RereadDue
    <3>1. indexing.path \in Paths
      BY DEF Inv, TypeOK, Reading
    <3> QED
      BY <2>2, <3>1 DEF Inv, Watched, RereadDue
  <2> QED
    BY <1>4, <2>4, <2>5, <2>6 DEF Watched
<1> QED
  BY <1>2, <1>5, <1>6, <1>7 DEF UserDelete, Notify

(* The scan comes to a file: it is read, missed, or not there. *)
LEMMA ScanStep ==
  ASSUME Inv, ScanNext
  PROVE  Watched'
<1>1. PICK q \in scan : \/ IndexStart(q) /\ UNCHANGED scan
                        \/ PassedOver(q) /\ scan' = scan \ {q}
  BY DEF ScanNext
<1>2. scan \in SUBSET Paths /\ q \in Paths /\ UNCHANGED <<disk, events, cache, loop>> /\ indexing = None
  BY <1>1 DEF Inv, TypeOK, ScanNext
<1>3. scan' \in SUBSET Paths /\ scan' # None /\ scan # None
  BY <1>1, <1>2, NoneAssumption
<1>4. \A p \in Paths : Announced(p)' <=> Announced(p)
  BY <1>2 DEF Announced, Says
<1>a. /\ missed \subseteq missed'
      /\ q \in scan' \/ q \in missed' \/ disk[q] = 0
  BY <1>1 DEF IndexStart, PassedOver, Miss
<1>5. Unwatched' /\ DownUnwatched' /\ RemovalsOvertaken'
  BY <1>2, <1>3, <1>a DEF Inv, Watched, Unwatched, DownUnwatched, RemovalsOvertaken, Says
<1>6. RereadDue'
  BY <1>1, NoneAssumption DEF IndexStart, PassedOver, RereadDue
<1>7. Due'
  <2> SUFFICES ASSUME NEW p \in Paths \ missed', disk'[p] # 0
               PROVE  p \in scan' \/ Announced(p)' \/ BeingRead(p)' \/ Shown(p)'
    BY DEF Due
  <2>1. p \in scan \/ Announced(p) \/ Shown(p)
    BY <1>2, <1>3, <1>a DEF Inv, Watched, Due, BeingRead
  <2>2. p # q => (p \in scan' <=> p \in scan)
    BY <1>1
  <2> QED
    BY <1>2, <1>4, <1>a, <2>1, <2>2 DEF Shown
<1> QED
  BY <1>5, <1>6, <1>7 DEF Watched

(* The first event is taken: a modification of another file, and one that
   follows a removal, are still in the channel. *)
LEMMA TakeStep ==
  ASSUME Inv, events # <<>>, events' = Tail(events), UNCHANGED disk, missed \subseteq missed'
  PROVE  /\ Head(events).path \in Paths
         /\ \A p \in Paths : Announced(p) =>
              Announced(p)' \/ (Head(events).kind = "modify" /\ Head(events).path = p)
         /\ RemovalsOvertaken'
         /\ Head(events).path \notin missed /\ disk[Head(events).path] # 0 /\ Head(events).kind = "remove" =>
              Announced(Head(events).path)
<1>1. events \in Seq(Event)
  BY DEF Inv, TypeOK
<1>2. /\ Len(events') = Len(events) - 1 /\ Len(events) \in Nat \ {0}
      /\ Head(events) = events[1] /\ Head(events) \in Event
      /\ \A k \in 1 .. Len(events) - 1 : events'[k] = events[k + 1]
  BY <1>1, Taken
<1>3. ASSUME NEW k \in 2 .. Len(events), NEW kind, NEW p, Says(k, kind, p)
      PROVE  Says(k - 1, kind, p)' /\ k - 1 \in 1 .. Len(events')
  <2>1. k - 1 \in 1 .. Len(events) - 1 /\ (k - 1) + 1 = k
    BY <1>2
  <2>2. events'[k - 1] = events[k]
    BY <1>2, <2>1
  <2> QED
    BY <1>2, <1>3, <2>1, <2>2 DEF Says
<1>4. ASSUME NEW p \in Paths, Announced(p)
      PROVE  Announced(p)' \/ (Head(events).kind = "modify" /\ Head(events).path = p)
  <2>1. PICK k \in 1 .. Len(events) : Says(k, "modify", p)
    BY <1>4 DEF Announced
  <2>2. CASE k = 1
    BY <1>2, <2>1, <2>2 DEF Says
  <2>3. CASE k # 1
    <3>1. k \in 2 .. Len(events)
      BY <1>2, <2>3
    <3>2. Says(k - 1, "modify", p)' /\ k - 1 \in 1 .. Len(events')
      BY <1>3, <2>1, <3>1
    <3> QED
      BY <3>2 DEF Announced
  <2> QED
    BY <2>2, <2>3
<1>5. RemovalsOvertaken'
  <2> SUFFICES ASSUME NEW p \in Paths \ missed', NEW k \in 1 .. Len(events'), disk'[p] # 0, Says(k, "remove", p)'
               PROVE  \E m \in k + 1 .. Len(events') : Says(m, "modify", p)'
    BY DEF RemovalsOvertaken
  <2>1. k + 1 \in 1 .. Len(events) /\ k \in 1 .. Len(events) - 1
    BY <1>2
  <2>2. Says(k + 1, "remove", p)
    BY <1>2, <2>1 DEF Says
  <2>3. PICK m \in (k + 1) + 1 .. Len(events) : Says(m, "modify", p)
    BY <2>1, <2>2 DEF Inv, Watched, RemovalsOvertaken
  <2>4. Says(m - 1, "modify", p)' /\ m - 1 \in k + 1 .. Len(events')
    BY <1>2, <1>3, <2>3
  <2> QED
    BY <2>4
<1>6. ASSUME disk[Head(events).path] # 0, Head(events).kind = "remove", Head(events).path \notin missed
      PROVE  Announced(Head(events).path)
  <2>1. Says(1, "remove", Head(events).path) /\ Head(events).path \in Paths /\ 1 \in 1 .. Len(events)
    BY <1>2, <1>6 DEF Says, Event
  <2>2. PICK m \in 1 + 1 .. Len(events) : Says(m, "modify", Head(events).path)
    BY <1>6, <2>1 DEF Inv, Watched, RemovalsOvertaken
  <2> QED
    BY <1>2, <2>2 DEF Announced
<1> QED
  BY <1>2, <1>4, <1>5, <1>6 DEF Event

(* A modification is taken: the file is read, missed, or not there. *)
LEMMA ModifyStep ==
  ASSUME Inv, WatchModify
  PROVE  Watched'
<1>1. /\ events # <<>> /\ events' = Tail(events)
      /\ IndexStart(Head(events).path) \/ PassedOver(Head(events).path)
      /\ scan = {} /\ indexing = None /\ UNCHANGED <<disk, scan, cache, loop>>
  BY DEF WatchModify
<1>2. PICK q : q = Head(events).path
  OBVIOUS
<1>a. missed \subseteq missed'
  BY <1>1 DEF IndexStart, PassedOver, Miss
<1>3. q \in Paths /\ RemovalsOvertaken' /\ \A p \in Paths : Announced(p) => Announced(p)' \/ p = q
  BY <1>1, <1>2, <1>a, TakeStep
<1>4. Unwatched' /\ DownUnwatched' /\ scan # None
  BY <1>1, NoneAssumption DEF Inv, Watched, Unwatched, DownUnwatched
<1>5. RereadDue'
  BY <1>1, NoneAssumption DEF IndexStart, PassedOver, RereadDue
<1>6. Due'
  <2> SUFFICES ASSUME NEW p \in Paths \ missed', disk'[p] # 0
               PROVE  p \in scan' \/ Announced(p)' \/ BeingRead(p)' \/ Shown(p)'
    BY DEF Due
  <2>1. Announced(p) \/ Shown(p)
    BY <1>1, <1>4, <1>a DEF Inv, Watched, Due, BeingRead
  <2>2. CASE p = q
    <3>1. indexing' = [path |-> p, hash |-> 0] /\ [path |-> p, hash |-> 0] \in Reading
      BY <1>1, <1>2, <2>2, BoundsAssumption DEF IndexStart, PassedOver, Miss, Reading, Versions
    <3> QED
      BY <3>1, NoneAssumption DEF BeingRead
  <2>3. CASE p # q
    BY <1>1, <1>3, <2>1, <2>3 DEF Shown
  <2> QED
    BY <2>2, <2>3
<1> QED
  BY <1>3, <1>4, <1>5, <1>6 DEF Watched

(* A removal is taken: the file does not exist, or is announced again. *)
LEMMA RemoveStep ==
  ASSUME Inv, WatchRemove
  PROVE  Watched'
<1>1. /\ events # <<>> /\ events' = Tail(events) /\ Head(events).kind = "remove"
      /\ scan = {} /\ indexing = None /\ UNCHANGED <<disk, scan, indexing, loop, missed>>
  BY DEF WatchRemove
<1>2. PICK q : q = Head(events).path
  OBVIOUS
<1>3. /\ q \in Paths /\ RemovalsOvertaken' /\ \A p \in Paths : Announced(p) => Announced(p)'
      /\ q \notin missed /\ disk[q] # 0 => Announced(q)
  BY <1>1, <1>2, TakeStep
<1>4. Unwatched' /\ DownUnwatched' /\ scan # None /\ RereadDue'
  BY <1>1, NoneAssumption DEF Inv, Watched, Unwatched, DownUnwatched, RereadDue
<1>5. Due'
  <2> SUFFICES ASSUME NEW p \in Paths \ missed', disk'[p] # 0
               PROVE  p \in scan' \/ Announced(p)' \/ BeingRead(p)' \/ Shown(p)'
    BY DEF Due
  <2>1. Announced(p) \/ Shown(p)
    BY <1>1, <1>4 DEF Inv, Watched, Due, BeingRead
  <2>2. CASE p = q
    BY <1>1, <1>3, <2>2
  <2>3. CASE p # q
    <3>1. cache'[p] = cache[p]
      BY <1>2, <2>3 DEF WatchRemove, Inv, TypeOK
    <3> QED
      BY <1>1, <1>3, <2>1, <3>1 DEF Shown
  <2> QED
    BY <2>2, <2>3
<1> QED
  BY <1>3, <1>4, <1>5 DEF Watched

(* The file is read as it is now. *)
LEMMA ReadStep ==
  ASSUME Inv, IndexRead
  PROVE  Watched'
<1>1. /\ indexing \in Reading /\ UNCHANGED <<disk, events, scan, cache, loop>>
      /\ indexing' = [indexing EXCEPT !.hash = disk[indexing.path]]
      /\ disk \in [Paths -> Versions]
  BY DEF Inv, TypeOK, IndexRead
<1>2. indexing' \in Reading /\ indexing'.path = indexing.path /\ indexing'.hash = disk[indexing.path]
  BY <1>1 DEF Reading
<1>3. indexing' # None /\ indexing # None /\ scan # None
  BY <1>1, <1>2, NoneAssumption DEF Inv, Watched, Unwatched
<1>4. \A p \in Paths : Announced(p)' <=> Announced(p)
  BY <1>1 DEF Announced, Says
<1>5. Unwatched' /\ DownUnwatched' /\ RereadDue'
  BY <1>1, <1>2, <1>3 DEF Inv, Watched, Unwatched, DownUnwatched, RereadDue
<1>a. /\ \A p \in Paths : p # indexing.path => (p \in missed' <=> p \in missed)
      /\ indexing.path \in missed /\ indexing.path \notin missed' => ~RemovalQueued(indexing.path)
  BY DEF IndexRead
<1>7. RemovalsOvertaken'
  <2> SUFFICES ASSUME NEW p \in Paths \ missed', NEW k \in 1 .. Len(events), disk[p] # 0, Says(k, "remove", p)
               PROVE  \E m \in k + 1 .. Len(events) : Says(m, "modify", p)
    BY <1>1 DEF RemovalsOvertaken, Says
  <2>1. CASE p \notin missed
    BY <2>1 DEF Inv, Watched, RemovalsOvertaken
  <2>2. CASE p \in missed
    <3>1. p = indexing.path /\ ~RemovalQueued(p)
      BY <1>a, <2>2
    <3>2. events[k] \in Event
      BY DEF Inv, TypeOK
    <3>3. events[k] = [kind |-> "remove", path |-> p]
      BY <3>2 DEF Event, Says
    <3> QED
      BY <3>1, <3>3 DEF RemovalQueued
  <2> QED
    BY <2>1, <2>2
<1>6. Due'
  <2> SUFFICES ASSUME NEW p \in Paths \ missed', disk'[p] # 0
               PROVE  p \in scan' \/ Announced(p)' \/ BeingRead(p)' \/ Shown(p)'
    BY DEF Due
  <2>1. CASE p = indexing.path
    BY <1>1, <1>2, <1>3, <2>1 DEF BeingRead
  <2>2. CASE p # indexing.path
    BY <1>1, <1>3, <1>4, <1>a, <2>2 DEF Inv, Watched, Due, BeingRead, Shown
  <2> QED
    BY <2>1, <2>2
<1> QED
  BY <1>5, <1>6, <1>7 DEF Watched

(* Nobody watches. *)
LEMMA EndStep ==
  ASSUME Inv, WatcherEnds, indexing' = None
  PROVE  Watched'
<1>1. scan' = None /\ events' = <<>> /\ Len(events') = 0
  BY DEF WatcherEnds
<1> QED
  BY <1>1 DEF Watched, Unwatched, DownUnwatched, Due, RemovalsOvertaken, RereadDue

(* A file that cannot be indexed is missed; a scan that meets this ends the
   watcher. *)
LEMMA FailStep ==
  ASSUME Inv, IndexFails
  PROVE  Watched'
<1>1. /\ indexing \in Reading /\ UNCHANGED <<disk, cache, loop>> /\ indexing' = None /\ scan # None
      /\ \/ Miss(indexing.path) /\ UNCHANGED <<scan, events>>
         \/ WatcherEnds
  BY DEF Inv, TypeOK, IndexFails, Watched, Unwatched
<1>2. CASE Miss(indexing.path) /\ UNCHANGED <<scan, events>>
  <2>1. \A p \in Paths : Announced(p)' <=> Announced(p)
    BY <1>2 DEF Announced, Says
  <2>a. missed \subseteq missed' /\ (indexing.path \in missed' \/ disk[indexing.path] = 0)
    BY <1>2 DEF Miss
  <2>2. Unwatched' /\ DownUnwatched' /\ RemovalsOvertaken' /\ RereadDue'
    BY <1>1, <1>2, <2>a DEF Inv, Watched, Unwatched, DownUnwatched, RemovalsOvertaken, Says, RereadDue
  <2>3. Due'
    BY <1>1, <1>2, <2>1, <2>a DEF Inv, Watched, Due, BeingRead, Shown
  <2> QED
    BY <2>2, <2>3 DEF Watched
<1>3. CASE WatcherEnds
  BY <1>1, <1>3, EndStep
<1> QED
  BY <1>1, <1>2, <1>3

(* The entry is written: it shows the file as it is, or the file is announced. *)
LEMMA UpsertStep ==
  ASSUME Inv, IndexUpsert
  PROVE  Watched'
<1>1. /\ indexing \in Reading /\ indexing.hash # 0 /\ UNCHANGED <<disk, events, loop, missed>> /\ indexing' = None
      /\ scan # None /\ scan' = scan \ {indexing.path} /\ scan \in SUBSET Paths
  BY DEF Inv, TypeOK, IndexUpsert, Watched, Unwatched
<1>2. PICK q : q = indexing.path
  OBVIOUS
<1>3. PICK h : h = indexing.hash
  OBVIOUS
<1>4. q \in Paths /\ h \in Versions /\ scan' # None
  BY <1>1, <1>2, <1>3, NoneAssumption DEF Reading
<1>5. /\ cache'[q] = [hash |-> h, status |-> "pending"]
      /\ [hash |-> h, status |-> "pending"] \in Entry
      /\ \A p \in Paths : p # q => cache'[p] = cache[p]
  BY <1>2, <1>3, <1>4 DEF Inv, TypeOK, IndexUpsert, Entry
<1>6. \A p \in Paths : Announced(p)' <=> Announced(p)
  BY <1>1 DEF Announced, Says
<1>7. Unwatched' /\ DownUnwatched' /\ RemovalsOvertaken' /\ RereadDue'
  BY <1>1, <1>4 DEF Inv, Watched, Unwatched, DownUnwatched, RemovalsOvertaken, Says, RereadDue
<1>8. Due'
  <2> SUFFICES ASSUME NEW p \in Paths \ missed', disk'[p] # 0
               PROVE  p \in scan' \/ Announced(p)' \/ BeingRead(p)' \/ Shown(p)'
    BY DEF Due
  <2>1. CASE p = q
    <3>1. CASE disk[q] = h
      BY <1>1, <1>5, <2>1, <3>1, NoneAssumption DEF Shown
    <3>2. CASE disk[q] # h
      <4>1. Announced(indexing.path)
        BY <1>1, <1>2, <1>3, <2>1, <3>2, NoneAssumption DEF Inv, Watched, RereadDue
      <4> QED
        BY <1>2, <1>6, <2>1, <4>1
    <3> QED
      BY <3>1, <3>2
  <2>2. CASE p # q
    <3>1. p \in scan \/ Announced(p) \/ Shown(p)
      BY <1>1, <1>2, <2>2 DEF Inv, Watched, Due, BeingRead
    <3> QED
      BY <1>1, <1>2, <1>5, <1>6, <2>2, <3>1 DEF Shown
  <2> QED
    BY <2>1, <2>2
<1> QED
  BY <1>7, <1>8 DEF Watched

(* Every step keeps what is known of the watcher. *)
LEMMA WatchedStep == Inv /\ [Next]_vars => Watched'
<1> SUFFICES ASSUME Inv, [Next]_vars PROVE Watched'
  OBVIOUS
<1>0. Watched /\ loop \in Loop /\ cache \in [Paths -> Entry \union {None}]
  BY DEF Inv, TypeOK
<1>1. ASSUME NEW p \in Paths, UserWrite(p) \/ UserDelete(p) PROVE Watched'
  BY <1>1, WriteStep, DeleteStep
<1>2. CASE Watch
  BY <1>2, ScanStep, ModifyStep, RemoveStep, ReadStep, FailStep, UpsertStep DEF Watch
<1>11. CASE ScanFails
  <2>1. WatcherEnds /\ indexing' = None
    BY <1>11 DEF ScanFails
  <2> QED
    BY <2>1, EndStep
<1>3. ASSUME UNCHANGED <<disk, events, scan, indexing, cache, missed>>, loop' # Down PROVE Watched'
  BY <1>0, <1>3, QuietStep DEF DownUnwatched, Shown
<1>4. CASE SyncSelect \/ SyncSleep
  BY <1>3, <1>4 DEF SyncSelect, SyncSleep, Asleep, Down
<1>5. ASSUME NEW p \in Paths, SyncSkip(p) \/ SyncRead(p) PROVE Watched'
  BY <1>3, <1>5 DEF SyncSkip, SyncRead, Down
<1>6. CASE SyncPost \/ SyncConflict \/ SyncLost
  BY <1>3, <1>6 DEF SyncPost, SyncConflict, SyncLost, Failed, Down
<1>7. CASE SyncMark
  <2>1. UNCHANGED <<disk, events, scan, indexing, missed>> /\ loop' # Down /\ loop.path \in Paths
    BY <1>0, <1>7, Places DEF SyncMark, Down
  <2>2. ASSUME NEW p \in Paths, Shown(p) PROVE Shown(p)'
    <3>1. cache'[p] \in Entry /\ cache'[p].hash = cache[p].hash
      BY <1>0, <1>7, <2>1, <2>2 DEF SyncMark, Shown, Entry
    <3> QED
      BY <2>1, <2>2, <3>1, NoneAssumption DEF Shown
  <2> QED
    BY <1>0, <2>1, <2>2, QuietStep DEF DownUnwatched
<1>8. CASE Crash
  <2>1. WatcherEnds /\ indexing' = None
    BY <1>8 DEF Crash
  <2> QED
    BY <2>1, EndStep
<1>9. CASE Start
  <2>1. events = <<>> /\ indexing = None
    BY <1>0, <1>9 DEF Start, Watched, DownUnwatched, Unwatched
  <2>2. Len(events') = 0 /\ scan' = Paths /\ indexing' = None /\ loop' # Down
    BY <1>9, <2>1 DEF Start, Asleep, Down
  <2> QED
    BY <2>2, NoneAssumption DEF Watched, Unwatched, DownUnwatched, Due, RemovalsOvertaken, RereadDue
<1>10. CASE UNCHANGED vars
  BY <1>0, <1>10, QuietStep DEF vars, DownUnwatched, Shown, Watched
<1> QED
  BY <1>1, <1>2, <1>4, <1>5, <1>6, <1>7, <1>8, <1>9, <1>10, <1>11 DEF Next, Sync

-----------------------------------------------------------------------------
(* Versions only grow, and what is read of a file is its last one. *)
LEMMA NewestStep == Inv /\ [Next]_vars => NewestOnDisk'
<1> SUFFICES ASSUME Inv, [Next]_vars PROVE NewestOnDisk'
  OBVIOUS
<1>0. /\ disk \in [Paths -> Versions] /\ last \in [Paths -> Versions]
      /\ cache \in [Paths -> Entry \union {None}] /\ indexing \in Reading \union {None}
      /\ loop \in Loop /\ NewestOnDisk
  BY DEF Inv, TypeOK
<1> USE BoundsAssumption DEF Versions
<1>1. ASSUME NEW q \in Paths, UserWrite(q) PROVE NewestOnDisk'
  <2>1. /\ last' = [last EXCEPT ![q] = last[q] + 1] /\ disk' = [disk EXCEPT ![q] = last[q] + 1]
        /\ UNCHANGED <<cache, indexing>>
    BY <1>1 DEF UserWrite
  <2> SUFFICES ASSUME NEW p \in Paths
               PROVE  /\ disk'[p] \in {0, last'[p]}
                      /\ cache[p] # None => cache[p].hash <= last'[p]
                      /\ indexing # None /\ indexing.path = p => indexing.hash <= last'[p]
    BY <2>1 DEF NewestOnDisk
  <2>2. last[p] \in Nat /\ last'[p] \in Nat /\ last[p] <= last'[p] /\ disk'[p] \in {0, last'[p]}
    BY <1>0, <2>1 DEF NewestOnDisk
  <2>3. /\ cache[p] # None => cache[p].hash \in Nat
        /\ indexing # None => indexing.hash \in Nat
    BY <1>0 DEF Entry, Reading
  <2> QED
    BY <1>0, <2>2, <2>3 DEF NewestOnDisk
<1>2. ASSUME NEW q \in Paths, UserDelete(q) PROVE NewestOnDisk'
  BY <1>0, <1>2 DEF UserDelete, NewestOnDisk
<1>3. ASSUME UNCHANGED <<disk, last, cache>>,
             \/ indexing' \in {indexing, None}
             \/ \E p \in Paths : indexing' = [path |-> p, hash |-> 0]
      PROVE  NewestOnDisk'
  BY <1>0, <1>3 DEF NewestOnDisk
<1>4. CASE ScanNext
  <2>1. scan \in SUBSET Paths
    BY <1>4 DEF ScanNext, Inv, TypeOK
  <2> QED
    BY <1>3, <1>4, <2>1 DEF ScanNext, IndexStart, PassedOver
<1>5. CASE WatchModify
  <2>1. Head(events).path \in Paths
    <3>1. events # <<>> /\ events \in Seq(Event)
      BY <1>5 DEF WatchModify, Inv, TypeOK
    <3> QED
      BY <3>1, Taken DEF Event
  <2> QED
    BY <1>3, <1>5, <2>1 DEF WatchModify, IndexStart, PassedOver
<1>6. CASE WatchRemove
  BY <1>0, <1>6 DEF WatchRemove, NewestOnDisk
<1>7. CASE IndexRead
  <2>1. /\ indexing \in Reading /\ UNCHANGED <<disk, last, cache>>
        /\ indexing' = [indexing EXCEPT !.hash = disk[indexing.path]]
    BY <1>0, <1>7 DEF IndexRead
  <2>2. indexing'.path = indexing.path /\ indexing'.hash = disk[indexing.path] /\ indexing.path \in Paths
    BY <2>1 DEF Reading
  <2>3. indexing'.hash <= last[indexing.path]
    BY <1>0, <2>2 DEF NewestOnDisk
  <2> QED
    BY <1>0, <2>1, <2>2, <2>3 DEF NewestOnDisk
<1>8. CASE IndexFails
  BY <1>3, <1>8 DEF IndexFails
<1>9. CASE IndexUpsert
  <2>1. /\ indexing \in Reading /\ UNCHANGED <<disk, last>> /\ indexing # None /\ indexing' = None
        /\ cache' = [cache EXCEPT ![indexing.path] = [hash |-> indexing.hash, status |-> "pending"]]
    BY <1>0, <1>9 DEF IndexUpsert
  <2>2. indexing.path \in Paths /\ indexing.hash <= last[indexing.path]
    BY <1>0, <2>1 DEF Reading, NewestOnDisk
  <2> QED
    BY <1>0, <2>1, <2>2 DEF NewestOnDisk
<1>10. CASE SyncMark
  <2>1. UNCHANGED <<disk, last, indexing>> /\ loop.path \in Paths
    BY <1>0, <1>10, Places DEF SyncMark
  <2>2. ASSUME NEW p \in Paths, cache'[p] # None PROVE cache[p] # None /\ cache'[p].hash = cache[p].hash
    BY <1>0, <1>10, <2>1, <2>2 DEF SyncMark, Entry
  <2> QED
    BY <1>0, <2>1, <2>2 DEF NewestOnDisk
<1>11. CASE ScanFails \/ SyncSelect \/ SyncPost \/ SyncConflict \/ SyncLost \/ SyncSleep \/ Crash \/ Start
  BY <1>3, <1>11 DEF ScanFails, SyncSelect, SyncPost, SyncConflict, SyncLost, SyncSleep, Crash, Start
<1>12. ASSUME NEW p \in Paths, SyncSkip(p) \/ SyncRead(p) PROVE NewestOnDisk'
  BY <1>3, <1>12 DEF SyncSkip, SyncRead
<1>13. CASE UNCHANGED vars
  BY <1>3, <1>13 DEF vars
<1> QED
  BY <1>1, <1>2, <1>4, <1>5, <1>6, <1>7, <1>8, <1>9, <1>10, <1>11, <1>12, <1>13 DEF Next, Watch, Sync

(* A step that leaves the cache, the server and the uploads alone. *)
LEMMA UploadsQuiet ==
  ASSUME Uploaded, UNCHANGED <<cache, remote, raced>>,
         \/ UNCHANGED loop
         \/ loop'.pc \in {"asleep", "down"}
         \/ /\ loop.pc \in {"next", "post", "mark"} /\ loop'.pc = "next"
            /\ loop'.todo \in SUBSET loop.todo
  PROVE  Uploaded'
BY DEF Uploaded, TodoPending, UploadCurrent, MarkIsThere, SyncedIsThere

(* The server keeps what it holds, what is uploaded is as new as its entry or
   the entry was written since, a mark follows an upload that was answered, and
   an entry becomes synced by a mark only. *)
LEMMA UploadedStep == Inv /\ [Next]_vars => Uploaded'
<1> SUFFICES ASSUME Inv, [Next]_vars PROVE Uploaded'
  OBVIOUS
<1>0. /\ loop \in Loop /\ cache \in [Paths -> Entry \union {None}]
      /\ remote \in [Names -> Copy \union {None}] /\ disk \in [Paths -> Versions]
      /\ Uploaded
  BY DEF Inv, TypeOK
<1>1. ASSUME NEW p \in Paths, UserWrite(p) \/ UserDelete(p) PROVE Uploaded'
  BY <1>0, <1>1, UploadsQuiet DEF UserWrite, UserDelete
<1>2. CASE ScanNext \/ WatchModify \/ IndexRead \/ IndexFails \/ ScanFails \/ UNCHANGED vars
  BY <1>0, <1>2, UploadsQuiet DEF ScanNext, WatchModify, IndexRead, IndexFails, ScanFails, vars
<1>3. CASE WatchRemove
  <2>1. UNCHANGED <<loop, remote, raced>>
    BY <1>3 DEF WatchRemove
  <2>2. ASSUME NEW p \in Paths, cache'[p] # None PROVE cache'[p] = cache[p]
    BY <1>0, <1>3, <2>2 DEF WatchRemove
  <2>3. /\ loop.pc \in {"next", "post", "mark"} => loop.todo \in SUBSET Paths
        /\ loop.pc \in {"post", "mark"} => loop.path \in Paths
    BY <1>0, Places
  <2> QED
    BY <1>0, <2>1, <2>2, <2>3 DEF Uploaded, TodoPending, UploadCurrent, MarkIsThere, SyncedIsThere
<1>4. CASE IndexUpsert
  <2>a. PICK q : q = indexing.path
    OBVIOUS
  <2>1. /\ UNCHANGED <<loop, remote>> /\ indexing # None /\ q \in Paths
        /\ raced' = IF Uploading(q) THEN raced \union {q} ELSE raced \ {q}
    BY <1>4, <2>a DEF IndexUpsert, Inv, TypeOK, Reading
  <2>2. /\ \A p \in Paths : p # q => cache'[p] = cache[p]
        /\ cache'[q].status = "pending"
    BY <1>0, <1>4, <2>a, <2>1 DEF IndexUpsert
  <2>3. /\ loop.pc \in {"next", "post", "mark"} => loop.todo \in SUBSET Paths
        /\ loop.pc \in {"post", "mark"} => loop.path \in Paths
    BY <1>0, Places
  <2>4. \A p \in Paths : p # q => (p \in raced' <=> p \in raced)
    BY <2>1
  <2>5. loop.pc \in {"post", "mark"} /\ loop.path = q => q \in raced'
    BY <2>1 DEF Uploading
  <2>6. TodoPending'
    BY <1>0, <2>1, <2>2, <2>3 DEF Uploaded, TodoPending
  <2>7. UploadCurrent'
    BY <1>0, <2>1, <2>2, <2>3, <2>4, <2>5 DEF Uploaded, UploadCurrent
  <2>8. MarkIsThere'
    BY <1>0, <2>1, <2>2, <2>3, <2>4, <2>5 DEF Uploaded, MarkIsThere
  <2>9. SyncedIsThere'
    BY <1>0, <2>1, <2>2, <2>4 DEF Uploaded, SyncedIsThere
  <2> QED
    BY <2>6, <2>7, <2>8, <2>9 DEF Uploaded
<1>5. CASE SyncSelect
  <2>1. PICK S \in SUBSET Pending : loop' = [pc |-> "next", todo |-> S]
    BY <1>5 DEF SyncSelect
  <2>2. UNCHANGED <<cache, remote, raced>> /\ loop'.pc = "next" /\ loop'.todo = S
    BY <1>5, <2>1 DEF SyncSelect
  <2> QED
    BY <1>0, <2>2 DEF Uploaded, TodoPending, UploadCurrent, MarkIsThere, SyncedIsThere, Pending
<1>6. CASE SyncSleep \/ SyncConflict \/ Crash \/ Start
  BY <1>0, <1>6, UploadsQuiet DEF SyncSleep, SyncConflict, Failed, Crash, Start, Asleep, Down
<1>7. ASSUME NEW p \in Paths, SyncSkip(p) PROVE Uploaded'
  BY <1>0, <1>7, UploadsQuiet DEF SyncSkip
<1>8. ASSUME NEW q \in Paths, SyncRead(q) PROVE Uploaded'
  <2>1. /\ loop' = [pc |-> "post", todo |-> loop.todo \ {q}, path |-> q, data |-> disk[q]]
        /\ raced' = raced \ {q} /\ UNCHANGED <<cache, remote>> /\ q \in loop.todo
        /\ loop.pc = "next" /\ disk[q] # 0
    BY <1>8 DEF SyncRead
  <2>2. cache[q] # None => cache[q].status = "pending"
    BY <1>0, <2>1 DEF Uploaded, TodoPending
  <2>3. cache[q] # None => disk[q] >= cache[q].hash
    <3>1. /\ disk[q] = last[q] /\ last[q] \in Nat
          /\ cache[q] # None => cache[q].hash <= last[q] /\ cache[q].hash \in Nat
      BY <2>1, BoundsAssumption DEF Inv, TypeOK, NewestOnDisk, Entry, Versions
    <3> QED
      BY <3>1
  <2>4. TodoPending' /\ UploadCurrent' /\ MarkIsThere'
    BY <1>0, <2>1, <2>3 DEF Uploaded, TodoPending, UploadCurrent, MarkIsThere
  <2>5. SyncedIsThere'
    BY <1>0, <2>1, <2>2 DEF Uploaded, SyncedIsThere
  <2> QED
    BY <2>4, <2>5 DEF Uploaded
<1>9. CASE SyncPost \/ SyncLost
  <2>1. loop.path \in Paths /\ loop.data \in Versions /\ UNCHANGED <<cache, raced>>
    BY <1>0, <1>9, Places DEF SyncPost, SyncLost
  <2>2. [path |-> loop.path, version |-> loop.data] \in Copy /\ NameOf[loop.path] \in Names
    BY <2>1, NameAssumption DEF Copy
  <2>3. ASSUME NEW n \in Names, remote[n] # None PROVE remote'[n] = remote[n]
    BY <1>0, <1>9, <2>3 DEF SyncPost, SyncLost
  <2>4. SyncedIsThere'
    BY <1>0, <2>1, <2>3, NameAssumption DEF Uploaded, SyncedIsThere
  <2>5. CASE SyncPost
    <3>1. /\ remote'[NameOf[loop.path]] = [path |-> loop.path, version |-> loop.data]
          /\ loop' = [pc |-> "mark", todo |-> loop.todo, path |-> loop.path]
      BY <1>0, <2>2, <2>5 DEF SyncPost
    <3>2. TodoPending' /\ UploadCurrent'
      BY <1>0, <2>1, <2>5, <3>1 DEF SyncPost, Uploaded, TodoPending, UploadCurrent
    <3>3. MarkIsThere'
      BY <1>0, <2>1, <2>2, <2>5, <3>1, NoneAssumption DEF SyncPost, Uploaded, UploadCurrent, MarkIsThere
    <3> QED
      BY <2>4, <3>2, <3>3 DEF Uploaded
  <2>6. CASE SyncLost
    <3>1. loop' = [pc |-> "next", todo |-> loop.todo] /\ loop.pc = "post"
      BY <2>6 DEF SyncLost, Failed
    <3>2. TodoPending' /\ UploadCurrent' /\ MarkIsThere'
      BY <1>0, <2>1, <3>1 DEF Uploaded, TodoPending, UploadCurrent, MarkIsThere
    <3> QED
      BY <2>4, <3>2 DEF Uploaded
  <2> QED
    BY <1>9, <2>5, <2>6
<1>10. CASE SyncMark
  <2>1. /\ loop.path \in Paths /\ UNCHANGED <<remote, raced>> /\ loop.pc = "mark"
        /\ loop' = [pc |-> "next", todo |-> loop.todo] /\ loop.todo \in SUBSET Paths
    BY <1>0, <1>10, Places DEF SyncMark
  <2>2. ASSUME NEW p \in Paths, p # loop.path PROVE cache'[p] = cache[p]
    BY <1>0, <1>10, <2>1, <2>2 DEF SyncMark
  <2>3. cache'[loop.path] # None => /\ cache[loop.path] # None
                                    /\ cache'[loop.path].hash = cache[loop.path].hash
    BY <1>0, <1>10, <2>1 DEF SyncMark, Entry
  <2>4. TodoPending' /\ UploadCurrent' /\ MarkIsThere'
    BY <1>0, <2>1, <2>2 DEF Uploaded, TodoPending, UploadCurrent, MarkIsThere
  <2>5. SyncedIsThere'
    BY <1>0, <2>1, <2>2, <2>3 DEF Uploaded, MarkIsThere, SyncedIsThere
  <2> QED
    BY <2>4, <2>5 DEF Uploaded
<1> QED
  BY <1>1, <1>2, <1>3, <1>4, <1>5, <1>6, <1>7, <1>8, <1>9, <1>10 DEF Next, Watch, Sync

-----------------------------------------------------------------------------
(* The inductive invariant: whatever the user, the two tasks, their failures and
   the crashes do, a file that was not missed and that the cache does not show
   as it is on disk is before the scan, in the channel or being read, and what
   is uploaded is as new as its entry. *)
THEOREM AgentSyncInvariant == Spec => []Inv
<1>1. Inv /\ [Next]_vars => Inv'
  BY TypeStep, WatchedStep, NewestStep, UploadedStep DEF Inv
<1> QED
  BY InitInv, <1>1, PTL DEF Spec

(* The cache, the channel, the places of both tasks and the server's folder
   keep their shape, and the channel its capacity (watcher.rs, sync.rs). *)
THEOREM AgentSyncTypeOK == Spec => []TypeOK
<1>1. Inv => TypeOK
  BY DEF Inv
<1> QED
  BY AgentSyncInvariant, <1>1, PTL

(* A watcher that has caught up has every file on disk in the cache with its
   present contents, but for the files whose last change raised no event or
   whose indexing failed (watch_folders, index_file). *)
THEOREM AgentSyncCacheCurrent == Spec => []CacheCurrent
<1>1. Inv => CacheCurrent
  <2> SUFFICES ASSUME Inv, scan = {}, events = <<>>, indexing = None,
                      NEW p \in Paths \ missed, disk[p] # 0
               PROVE  cache[p] # None /\ cache[p].hash = disk[p]
    BY DEF CacheCurrent
  <2>1. Len(events) = 0
    OBVIOUS
  <2>2. scan # None
    BY NoneAssumption
  <2>3. p \in scan \/ Announced(p) \/ BeingRead(p) \/ Shown(p)
    BY <2>2 DEF Inv, Watched, Due
  <2> QED
    BY <2>1, <2>3 DEF Announced, BeingRead, Shown
<1> QED
  BY AgentSyncInvariant, <1>1, PTL

(* mark_synced names a path only: still, no lost answer, no name conflict, no
   edit and no crash makes a path synced that the server does not hold in the
   version of its entry, but for an entry written during the upload. *)
THEOREM AgentSyncSyncedIsThere == Spec => []SyncedIsThere
<1>1. Inv => SyncedIsThere
  BY DEF Inv, Uploaded
<1> QED
  BY AgentSyncInvariant, <1>1, PTL
=============================================================================
