----------------------------- MODULE AgentSync ------------------------------
(***************************************************************************)
(* The agent's background synchronisation: the watcher that indexes local  *)
(* files into the SQLite cache, the sync loop that uploads what is pending *)
(* there, and the server's root folder it uploads to.                      *)
(*                                                                         *)
(* Watcher and sync loop are two tasks that share the cache and nothing    *)
(* else.  The contents of a file are its version, which grows with every   *)
(* write; version 0 is "no file".                                          *)
(***************************************************************************)
EXTENDS Integers, Sequences, FiniteSets

CONSTANTS Paths,       \* files of the watched folders
          Names,       \* base names
          NameOf,      \* NameOf[p]: the base name of path p
          Large,       \* paths whose file exceeds 1 MB and splits into chunks
          MaxVersion,  \* bound: how often any file is written
          Writes,      \* bound: Writes[p], how often path p is written
          MaxEvents,   \* capacity of the watcher's channel (1000)
          Batch,       \* LIMIT of get_pending (100)
          MaxCrashes,  \* bound: how often the agent stops
          None

ASSUME NameAssumption == NameOf \in [Paths -> Names]
ASSUME LargeAssumption == Large \subseteq Paths
ASSUME BoundsAssumption == /\ MaxVersion \in Nat /\ Writes \in [Paths -> 0 .. MaxVersion]
                           /\ MaxEvents \in Nat
                           /\ Batch \in Nat /\ MaxCrashes \in Nat

VARIABLES disk,     \* per path, the version of the file on disk
          last,     \* per path, the last version written
          events,   \* the watcher's channel
          scan,     \* the files the start-up scan has not indexed yet; None if
                    \* the watcher has ended
          indexing, \* the file in index_file: hash 0 until it has been read
          cache,    \* file_cache: hash and status per path, or None
          loop,     \* where sync_loop is
          remote,   \* per base name, what the server's root folder holds
          crashes,  \* how often the agent has stopped
          missed,   \* history: the files whose last change was not noticed or
                    \* whose indexing failed since, while the watcher runs
          raced     \* history: the paths indexed while their upload was under way

vars == <<disk, last, events, scan, indexing, cache, loop, remote, crashes, missed, raced>>

Versions == 0 .. MaxVersion

Entry == [hash : Versions, status : {"pending", "synced"}]

Copy == [path : Paths, version : Versions]

Event == [kind : {"modify", "remove"}, path : Paths]

(* A file in index_file. *)
Reading == [path : Paths, hash : Versions]

(* None is told apart from everything it may stand in for. *)
ASSUME NoneAssumption ==
  /\ \A p \in Paths : p # None
  /\ \A S \in SUBSET Paths : S # None
  /\ \A x \in Entry : x # None
  /\ \A x \in Copy : x # None
  /\ \A x \in Reading : x # None

Asleep == [pc |-> "asleep"]
Down   == [pc |-> "down"]

Loop == {Asleep, Down}
  \union [pc : {"next"}, todo : SUBSET Paths]
  \union [pc : {"post"}, todo : SUBSET Paths, path : Paths, data : Versions]
  \union [pc : {"mark"}, todo : SUBSET Paths, path : Paths]

Up == loop # Down

Init == /\ disk = [p \in Paths |-> 0]
        /\ last = [p \in Paths |-> 0]
        /\ events = <<>>
        /\ scan = Paths
        /\ indexing = None
        /\ cache = [p \in Paths |-> None]
        /\ loop = Asleep
        /\ remote = [n \in Names |-> None]
        /\ crashes = 0
        /\ missed = {}
        /\ raced = {}

-----------------------------------------------------------------------------
(* The user.  Changes made while nobody watches raise no event.  With a full
   channel the notifying thread blocks and the operating system keeps what
   follows: here the user waits, which bounds the outstanding events.  What the
   operating system reports as a change of the directory, an overflow or an
   error is dropped: the change of the file is missed. *)

(* Mutated form of Notify: room for one event more. *)
Notify_OneMore(e) ==
  IF scan # None THEN /\ Len(events) <= MaxEvents
                      /\ events' = Append(events, e)
                      /\ missed' = missed \ {e.path}
                 ELSE UNCHANGED <<events, missed>>

Notify(e) ==
  \/ /\ scan = None
     /\ UNCHANGED <<events, missed>>
  \/ /\ scan # None
     /\ Len(events) < MaxEvents
     /\ events' = Append(events, e)
     /\ missed' = missed \ {e.path}
  \/ /\ scan # None
     /\ missed' = {q \in missed \union {e.path} : disk'[q] # 0}
     /\ UNCHANGED events

UserWrite(p) ==
  /\ last[p] < Writes[p]
  /\ last' = [last EXCEPT ![p] = @ + 1]
  /\ disk' = [disk EXCEPT ![p] = last[p] + 1]
  /\ Notify([kind |-> "modify", path |-> p])
  /\ UNCHANGED <<scan, indexing, cache, loop, remote, crashes, raced>>

UserDelete(p) ==
  /\ disk[p] # 0
  /\ disk' = [disk EXCEPT ![p] = 0]
  /\ Notify([kind |-> "remove", path |-> p])
  /\ UNCHANGED <<last, scan, indexing, cache, loop, remote, crashes, raced>>

-----------------------------------------------------------------------------
(* The watcher: the scan first, then one event at a time. *)

Miss(p) == missed' = IF disk[p] # 0 THEN missed \union {p} ELSE missed

(* Nothing is indexed for p: is_file is false, because the file is gone or
   because it cannot be looked at. *)
PassedOver(p) == indexing' = None /\ Miss(p)

(* index_file starts on a path that is a file by now. *)
IndexStart(p) ==
  /\ disk[p] # 0
  /\ indexing' = [path |-> p, hash |-> 0]
  /\ UNCHANGED missed

(* scan_directory, in the order of the directory. *)
ScanNext ==
  /\ scan \notin {None, {}}
  /\ indexing = None
  /\ \E p \in scan : \/ IndexStart(p) /\ UNCHANGED scan
                     \/ PassedOver(p) /\ scan' = scan \ {p}
  /\ UNCHANGED <<disk, last, events, cache, loop, remote, crashes, raced>>

(* The watcher and its channel are gone until the next start of the agent, which
   scans everything again. *)
WatcherEnds == scan' = None /\ events' = <<>> /\ missed' = {}

(* A folder that cannot be watched or listed ends the watcher. *)
ScanFails ==
  /\ scan \notin {None, {}}
  /\ indexing = None
  /\ WatcherEnds
  /\ UNCHANGED <<disk, last, indexing, cache, loop, remote, crashes, raced>>

(* Mutated form of WatchModify: a file the cache knows is not indexed again. *)
WatchModify_NewOnly ==
  /\ scan = {}
  /\ indexing = None
  /\ events # <<>>
  /\ Head(events).kind = "modify"
  /\ events' = Tail(events)
  /\ LET p == Head(events).path
     IN IF cache[p] = None THEN IndexStart(p) \/ PassedOver(p)
                           ELSE UNCHANGED <<indexing, missed>>
  /\ UNCHANGED <<disk, last, scan, cache, loop, remote, crashes, raced>>

(* Create and Modify. *)
WatchModify ==
  /\ scan = {}
  /\ indexing = None
  /\ events # <<>>
  /\ Head(events).kind = "modify"
  /\ events' = Tail(events)
  /\ LET p == Head(events).path IN IndexStart(p) \/ PassedOver(p)
  /\ UNCHANGED <<disk, last, scan, cache, loop, remote, crashes, raced>>

RemovalQueued(p) == \E i \in 1 .. Len(events) : events[i] = [kind |-> "remove", path |-> p]

(* The file is read and hashed.  What was missed of it is made good, unless a
   removal that is still queued will undo it ... *)
IndexRead ==
  /\ indexing # None
  /\ indexing.hash = 0
  /\ disk[indexing.path] # 0
  /\ indexing' = [indexing EXCEPT !.hash = disk[indexing.path]]
  /\ missed' = IF RemovalQueued(indexing.path) THEN missed ELSE missed \ {indexing.path}
  /\ UNCHANGED <<disk, last, events, scan, cache, loop, remote, crashes, raced>>

(* ... and upserted, pending, whatever it was.  Any of these steps may fail,
   for a file that is gone or one that is there: this is logged for an event,
   and ends the watcher for a scan. *)
IndexFails ==
  /\ indexing # None
  /\ indexing' = None
  /\ IF scan = {} THEN Miss(indexing.path) /\ UNCHANGED <<scan, events>>
                  ELSE WatcherEnds
  /\ UNCHANGED <<disk, last, cache, loop, remote, crashes, raced>>

Uploading(p) == loop.pc \in {"post", "mark"} /\ loop.path = p

(* Mutated form of IndexUpsert: an entry keeps its status. *)
IndexUpsert_KeepStatus ==
  /\ indexing # None
  /\ indexing.hash # 0
  /\ cache' = [cache EXCEPT ![indexing.path] =
                 [hash |-> indexing.hash, status |-> IF @ = None THEN "pending" ELSE @.status]]
  /\ scan' = scan \ {indexing.path}
  /\ indexing' = None
  /\ raced' = IF Uploading(indexing.path) THEN raced \union {indexing.path}
                                            ELSE raced \ {indexing.path}
  /\ UNCHANGED <<disk, last, events, loop, remote, crashes, missed>>

IndexUpsert ==
  /\ indexing # None
  /\ indexing.hash # 0
  /\ cache' = [cache EXCEPT ![indexing.path] = [hash |-> indexing.hash, status |-> "pending"]]
  /\ scan' = scan \ {indexing.path}
  /\ indexing' = None
  /\ raced' = IF Uploading(indexing.path) THEN raced \union {indexing.path}
                                            ELSE raced \ {indexing.path}
  /\ UNCHANGED <<disk, last, events, loop, remote, crashes, missed>>

(* Remove: the entry goes, unless the statement fails; the server is not told. *)
WatchRemove ==
  /\ scan = {}
  /\ indexing = None
  /\ events # <<>>
  /\ Head(events).kind = "remove"
  /\ events' = Tail(events)
  /\ \/ cache' = [cache EXCEPT ![Head(events).path] = None]
     \/ UNCHANGED cache
  /\ UNCHANGED <<disk, last, scan, indexing, loop, remote, crashes, missed, raced>>

-----------------------------------------------------------------------------
(* The sync loop. *)

Pending == {p \in Paths : cache[p] # None /\ cache[p].status = "pending"}

(* get_pending: at most Batch rows, in no particular order. *)
SyncSelect ==
  /\ loop = Asleep
  /\ \E S \in SUBSET Pending :
       /\ Cardinality(S) <= Batch
       /\ S # Pending => Cardinality(S) = Batch
       /\ loop' = [pc |-> "next", todo |-> S]
  /\ UNCHANGED <<disk, last, events, scan, indexing, cache, remote, crashes, missed, raced>>

Failed == loop' = [pc |-> "next", todo |-> loop.todo]

(* upload_file fails for a file that is gone or cannot be read.  So it does for
   a large one: its chunks are stored, and the request that completes the upload
   lacks the total_size the server requires. *)
SyncSkip(p) ==
  /\ loop.pc = "next"
  /\ p \in loop.todo
  /\ loop' = [pc |-> "next", todo |-> loop.todo \ {p}]
  /\ UNCHANGED <<disk, last, events, scan, indexing, cache, remote, crashes, missed, raced>>

(* Otherwise it reads the file as it is now. *)
SyncRead(p) ==
  /\ loop.pc = "next"
  /\ p \in loop.todo
  /\ disk[p] # 0
  /\ p \notin Large
  /\ loop' = [pc |-> "post", todo |-> loop.todo \ {p}, path |-> p, data |-> disk[p]]
  /\ raced' = raced \ {p}
  /\ UNCHANGED <<disk, last, events, scan, indexing, cache, remote, crashes, missed>>

(* The upload: the server stores the file in the root folder and answers with
   its id ... *)
SyncPost ==
  /\ loop.pc = "post"
  /\ remote[NameOf[loop.path]] = None
  /\ remote' = [remote EXCEPT ![NameOf[loop.path]] =
                  [path |-> loop.path, version |-> loop.data]]
  /\ loop' = [pc |-> "mark", todo |-> loop.todo, path |-> loop.path]
  /\ UNCHANGED <<disk, last, events, scan, indexing, cache, crashes, missed, raced>>

(* ... or it refuses a name the folder already holds (the unique key of
   file_entries) ... *)
SyncConflict ==
  /\ loop.pc = "post"
  /\ remote[NameOf[loop.path]] # None
  /\ Failed
  /\ UNCHANGED <<disk, last, events, scan, indexing, cache, remote, crashes, missed, raced>>

(* ... or the request or its answer is lost, or it is refused for another
   reason: the access token has expired, and nothing renews it. *)
SyncLost ==
  /\ loop.pc = "post"
  /\ \/ UNCHANGED remote
     \/ /\ remote[NameOf[loop.path]] = None
        /\ remote' = [remote EXCEPT ![NameOf[loop.path]] =
                        [path |-> loop.path, version |-> loop.data]]
  /\ Failed
  /\ UNCHANGED <<disk, last, events, scan, indexing, cache, crashes, missed, raced>>

(* mark_synced: by path alone, whatever the entry holds by now.  Its failure is
   ignored. *)
SyncMark ==
  /\ loop.pc = "mark"
  /\ \/ UNCHANGED cache
     \/ /\ cache[loop.path] # None
        /\ cache' = [cache EXCEPT ![loop.path].status = "synced"]
  /\ loop' = [pc |-> "next", todo |-> loop.todo]
  /\ UNCHANGED <<disk, last, events, scan, indexing, remote, crashes, missed, raced>>

(* The batch is done; the loop sleeps for sync_interval_secs. *)
SyncSleep ==
  /\ loop.pc = "next"
  /\ loop.todo = {}
  /\ loop' = Asleep
  /\ UNCHANGED <<disk, last, events, scan, indexing, cache, remote, crashes, missed, raced>>

-----------------------------------------------------------------------------
(* The agent stops: the channel and the tasks are lost, the cache is not ... *)
Crash ==
  /\ Up
  /\ crashes < MaxCrashes
  /\ crashes' = crashes + 1
  /\ loop' = Down
  /\ WatcherEnds
  /\ indexing' = None
  /\ UNCHANGED <<disk, last, cache, remote, raced>>

(* Mutated form of Start: no scan. *)
Start_NoScan ==
  /\ loop = Down
  /\ loop' = Asleep
  /\ scan' = {}
  /\ UNCHANGED <<disk, last, events, indexing, cache, remote, crashes, missed, raced>>

(* ... and starts again: the folders are watched first and scanned then. *)
Start ==
  /\ loop = Down
  /\ loop' = Asleep
  /\ scan' = Paths
  /\ UNCHANGED <<disk, last, events, indexing, cache, remote, crashes, missed, raced>>

Watch == ScanNext \/ WatchModify \/ WatchRemove \/ IndexRead \/ IndexFails \/ IndexUpsert

Sync == \/ SyncSelect \/ SyncPost \/ SyncConflict \/ SyncMark \/ SyncSleep
        \/ \E p \in Paths : SyncSkip(p) \/ SyncRead(p)

Next == \/ \E p \in Paths : UserWrite(p) \/ UserDelete(p)
        \/ Watch
        \/ ScanFails
        \/ Sync
        \/ SyncLost
        \/ Crash
        \/ Start

Spec == Init /\ [][Next]_vars

(* The watcher runs on.  Nothing is assumed of the uploads, of the network or
   of whoever starts the agent again. *)
FairSpec == Spec /\ WF_vars(Watch)

-----------------------------------------------------------------------------
(* Properties. *)

(* The tasks and the cache have the shape the code gives them. *)
TypeOK ==
  /\ disk \in [Paths -> Versions]
  /\ last \in [Paths -> Versions]
  /\ events \in Seq(Event)
  /\ Len(events) <= MaxEvents
  /\ scan \in (SUBSET Paths) \union {None}
  /\ indexing \in Reading \union {None}
  /\ cache \in [Paths -> Entry \union {None}]
  /\ loop \in Loop
  /\ remote \in [Names -> Copy \union {None}]
  /\ crashes \in 0 .. MaxCrashes
  /\ missed \in SUBSET Paths
  /\ raced \in SUBSET Paths

(* Once the watcher has caught up, every file on disk is in the cache with its
   present contents: through writes while it hashes, deletions and
   re-creations in any order, and restarts of the agent.  Only a path whose
   last change raised no event, or whose indexing failed, stays behind. *)
CacheCurrent ==
  scan = {} /\ events = <<>> /\ indexing = None =>
    \A p \in Paths \ missed : disk[p] # 0 => cache[p] # None /\ cache[p].hash = disk[p]

(* A path is marked synced only if the server holds this very file, in the
   version the cache holds or a later one: no lost answer, no name conflict, no
   edit and no crash makes it so otherwise.  The exception is a file indexed
   while its upload was under way, which mark_synced cannot tell apart. *)
SyncedIsThere ==
  \A p \in Paths : cache[p] # None /\ cache[p].status = "synced" =>
    /\ remote[NameOf[p]] # None
    /\ remote[NameOf[p]].path = p
    /\ p \notin raced => remote[NameOf[p]].version >= cache[p].hash

(* Contents that stay on disk get into the cache, from where the sync loop takes
   them, unless they were missed or the watcher has ended.  (That they reach the
   server is not guaranteed: see SyncSelect, SyncConflict and SyncLost.) *)
EditsIndexed ==
  \A p \in Paths, v \in Versions \ {0} :
    disk[p] = v ~> \/ disk[p] # v
                   \/ cache[p] # None /\ cache[p].hash = v
                   \/ p \in missed
                   \/ scan = None
=============================================================================
