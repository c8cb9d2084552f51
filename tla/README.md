# Verification of PCOS

TLA+ models of the personal cloud (PCOS) in this repository, checked with TLC on
small instances and, where marked, proved with TLAPS for every value of the
constants. `PROJECT.json` maps every definition to the lines it models and lists
the runs, the mutants, the hazards, the findings and the theorems.

## The system

Three programs that share an HTTP API: a **backend** in Rust (`backend/crates`,
Postgres), an **agent** in Rust (`agent/src`) that runs on the user's machines,
and a **Cloudflare Worker** (`cloudflare/src`, D1, R2 and two Durable Objects),
a second implementation of the control plane. The Flutter frontend is a client.

| Part | State | Operations | What is hard | What makes it correct |
|---|---|---|---|---|
| File tree and trash (`file_metadata`) | `file_entries`, blob store | create folder, upload (single, chunked), rename, move, delete, restore, purge, empty trash, clean-up task | no transactions: checks and writes are separate statements; recursive statements follow `parent_id` only | the tree stays within its owner, contents are lost by a purge only, quota |
| Pairing (`device`) and enrolment (`agent/enroll.rs`) | in-memory `PairingStore`, `devices`, `refresh_tokens` | create, claim, approve, reject, status, redeem | the store's mutex is released while the database is written; code collisions; restarts; client time-outs | one identity per agent, the index leads to live sessions, agents end |
| Share links (`sharing`) and expiry task (`gateway`) | `share_links` | create, update, delete, download, hourly expiry | read-modify-write updates, limit checked before and counted after | exact counter, bounded overshoot, expired links end inactive |
| Watcher, cache, sync loop (`agent`) | SQLite `file_cache`, event channel | scan, index, remove, select pending, upload, mark synced | two tasks on one cache, stale and lost events, files that cannot be read, crash, lost answers, name conflicts | cache follows the disk, nothing falsely synced, edits are indexed |
| Chunking (`agent/delta.rs`) | loop variables | one turn of the loop | boundary at the last byte | chunks tile the file |
| WebDAV, S3, uploads through links (`webdav.rs`, `s3_compat.rs`, `upload_shared`) | the file tree's | PUT, DELETE, MOVE, COPY, MKCOL, PutObject, DeleteObject | look-up by path or name, then statements of their own; contents written in place | the file tree's properties still hold |
| Accounts, sessions, recovery, MFA, roles (`auth`, `user`) | `users`, `refresh_tokens`, `recovery_keys` | register, login, refresh, logout, change password, recover, TOTP set-up, role change, hourly clean-up | no transactions: rotation, recovery and set-up in separate statements | a token is exchanged once; a reset ends old sessions; one first admin; an admin remains |
| Presence hub and tunnel (`DevicePresenceHub.ts`, `connection_manager.rs`) | sockets, pending requests | connect, proxied command, time-out, disconnect, reconnect | 15 s time-out racing a late answer; half-open sockets; crashes on both sides | an answer goes to its own request; commands run at most once and in order |
| File-system handler and LAN server (`fs_handler.rs`, `lan_server.rs`) | the agent's files | list, stat, read, write, delete, mkdir, checksum; ranged LAN reads | length announced before the file is opened and copied; errors after the header are ignored | the files stay a tree; the body is as announced |
| Worker transfers (`cloudflare/src/index.ts`) | transfer rows, R2 parts | init, chunk, finalize | retries, partial failure | a finalized file holds every part |
| Backups (`backup`) | backup directories, rows | create, delete, verify, restore, retention | steps fail one by one, most of them in silence | a completed backup can be restored |
| Transcoding (`streaming`) | `transcode_jobs`, output directories | queue, execute, stream URL | jobs run side by side; restarts; purges | a stream is of its own file |
| Offline queue (`agent/queue.rs`) | queue file | list, enqueue, dequeue, drain | no lock, one temporary file | ordered, nothing lost or doubled |
| Pairing hub (`PairingHub.ts`) | sessions, attempts | as Pairing | attempt limits | limits hold |

The parts interact through the database and through HTTP: enrolment calls the
pairing handlers, the sync loop calls `upload_file`, the gateway's tasks write the
tables of the file tree and of the shares, and deleting an entry cascades to its
share links. All components, with the ones left out and the reason, are in
`PROJECT.json` under `components`.

## Modules

### FileTree (`MCFileTree`, `FileTreeProofs`)

`row` is the table `file_entries`, a function from the ids that exist; `blobs` is
the blob store; `fresh` the ids `Uuid::new_v4` may still draw; `job[w]` what the
request of worker `w` has read so far. `doomed` and `unchecked` are history
variables, read by properties only. A handler that re-checks everything in its
last statement (create folder, move, delete) is one action; upload, rename,
restore, purge and empty trash are one action per statement, and the purge deletes
the contents path by path. `Statement` is the unique key: an UPDATE or INSERT that
breaks it leaves the table as it was. `Descendants` is the recursive CTE, as the
least set closed under `parent_id`; on an entry that lies below itself the CTE does
not return, so the statement is not enabled (`OnCycle`). `Abort` is a crash, or a
client that goes away, at any await. A failed deletion of contents is logged and
ignored by the code (`.ok()`), hence the choice in `PurgeBlob`. A SUM of the used bytes
that fails reads as 0 (`unwrap_or(0)`), so `UploadCheck` may let an upload in whatever the
usage is; if the true usage would have refused it, its entry is `unchecked`.

### Pairing (`MCPairing`, `PairingProofs`)

`session` and `codeToId` are the store; the token index holds exactly the live
sessions and is folded into `IdOf`. `approve[r]` and `redeem[a]` are the handlers
between their two lock sections; the other handlers hold the lock and are one
action. `agent[a]` is `enroll_node_with_code`: claim, at most `MaxPolls` polls,
redemption or the direct attempt at the end; its HTTP client gives up after ten
seconds (`AgentTimeout`), an answer it cannot decode ends it. `Restart` loses the
store and keeps the database. `codeOf` and `delivered` are history.

### Shares (`MCShares`, `SharesProofs`)

`link` is `share_links`. `download_shared` is check, read, count; `update_share` is
read and write of every column but `download_count`. An expiry is `never`, `later`
or `past`; what was `later` when a request read it may have passed when it writes
(`ByNow`). `served` and `peak` are history.

### AgentSync (`MCAgentSync`, `AgentSyncProofs`)

The contents of a file are a version number. `scan`, `indexing` and `events` are
the watcher: the scan at the start file by file, then the channel. `loop` is `sync_loop`
with its `upload_file`; `remote` is the server's root folder by base name. A file above
1 MB that splits into chunks never arrives: the completing request lacks `total_size`,
which the server requires (constant `Large`).

The watcher misses changes. `Notify` may drop an event: the code ignores errors and
overflows of the notifying library, and changes that are reported for a directory only.
`is_file` may say no of a file that is there (`PassedOver`), and any step of `index_file`
may fail (`IndexFails`): for an event this is logged, for the scan it ends the watcher
until the next start of the agent, as `scan_directory(path, db)?` does, and so does a
folder that cannot be listed (`ScanFails`). Two history variables name the exceptions:
`missed` holds the files whose last change was not noticed or not indexed, until a later
event or the next scan makes it good; `raced` the paths that were indexed while their
upload was under way, which `mark_synced` cannot tell apart. `SyncLost` is a request or an
answer that is lost, and a request refused because the access token has expired.

### FrontEnds (`MCFileTree`, `FileTreeProofs`)

Extends `FileTree` with WebDAV, S3 and `upload_shared`; `FrontSpec` interleaves them
with the API. A request is a look-up (`OnPath`, `Resolved`: every folder from the
root down is live) and a later statement. They reuse `UploadStore`, `UploadInsert`
and `RenameUpdate` where the code issues the same statements. What differs from the API
is kept: no quota check (their bytes are `unchecked`), DELETE trashes the entry and
nothing below it, MOVE only renames, a WebDAV PUT may give a folder contents
(kind `filled`), S3 finds an object by the last segment of its key in any folder.
Walking a path is one step; each of its statements reads only rows that later steps
do not rely on. A PUT writes in place, so partial contents are possible but absent
ones are not.

### Accounts (`MCAccounts`, `AccountsProofs`)

`user`, `token` and `key` are the tables `users`, `refresh_tokens` and `recovery_keys`;
a password is the number of its changes (`pwd`), a token carries the password it was
opened under. Every handler is one action per SQL statement. None holds a transaction,
so each property would fail as a plain statement; `stale`, `crossed`, `cut` and
`deposed` record exactly the overlaps and crashes that are to blame, and the
properties say that nothing else is. `Login` reads the row once; a TOTP code that does
not fit refuses the request and is no step.

### AgentFs, Tunnel, RemoteCall, LanServer (`MCTunnel`, `TunnelProofs`)

`AgentFs` is the file-system handler as functions from a disk and a command to a disk
and an answer. `Tunnel` is the agent's loop and the hub's Durable Object over
connections that deliver in order until they break; each direction then keeps some
prefix of what was sent, and both sides learn of it later, so the hub may hold sockets
of several connections. `RemoteCall` is the abstract promise: a call is carried out
at most once, answers are the ones the call itself produced, a refused call is never
carried out, and a caller that was given up knows nothing. `ImplementsRemoteCall` is the
refinement; the mapping forgets connections and sockets and keeps the requests, the
disk and what the agent answered.

`LanServer` adds reads over the LAN on the same disk: the header, opening the file by its
name again, then the copy one cell at a time, with any tunnel command between any two of
these (`Followed`, external: an open file follows what is written in place and keeps its
contents when its name goes). An error of opening ends the read with no body, an error of
seeking leaves the position at the start (`sought`), an error of copying, or the end of
the daemon, ends it early (`LanCut`, `cut`); the code reports none of them.

### Backup (`MCBackup`, `BackupProofs`)

A backup is a directory of payloads, then a manifest, then a row of `backups`. Creating,
removing (delete and retention), verifying and restoring are one action per file or
statement; `Environment` stands for the file tree and the shares, one statement at a
time, and for damage to the backup disk, of a payload or of the manifest. File versions
and share links are both `links`: each is restored by INSERT ... ON CONFLICT DO NOTHING.
The backups `Existing` were made before; the files `InTrash` are in the trash at first.

Most errors are ignored by the code, and each is a choice of its action: a file that
cannot be copied is not listed (`SkipFile`), failed queries read as no versions or no
share links (`CopyLinks`), removing a directory may leave any part of it (`RemoveDir`),
retention goes on when a row stays (`DropRow`), a manifest that is there but cannot be read
or parsed lists no files and is not counted as missing (`VerifyLoad`), a payload is not
read or not written, or written in part (`RestoreSkip`, `RestoreFile`), a row or a link is
not inserted (`RestoreRow`, `RestoreLinks`). History in a request says which: `off`, that
another request or the disk changed what it reads or writes; `blind`, that a verification
did not get at the manifest; `lost`, what an ignored error passed over. `deleted` and
`sweeps` record what was asked for. Damage that turns a manifest into a different one that
parses is outside the model.

### OfflineQueue and Delta (`MCAgentParts`, `AgentPartsProofs`)

`OfflineQueue`: each call reads the whole file, writes the temporary file, renames it;
transfers may share an id, and then one replaces the other. `Sorted` is the stable sort,
as the one rearrangement that keeps the order of equals. `queued` is history, what the
queue should hold; `off` marks a call whose list another call has made out of date, or
that it could not read, and `queued` follows the file when such a call succeeds.
`Delta`: `split_into_chunks`, one action per byte; the rolling hash is left open, so
every content is covered. The two share no state and one run: the queue moves beside
the empty file only. Only the queue's own tests construct it; the daemon does not use it yet.

### Media

`transcode_jobs`, the spawned tasks and what ffmpeg (external) leaves in the output
directories. A path is reduced to whether its file name has a dot; a restart loses
the tasks, and nothing takes their jobs up again.

## Runs

| Run | Instance | Shows |
|---|---|---|
| `filetree` | 2 ids, 2 users, 2 names, 2 workers, sizes 1 and 2, quota 1, all front ends | owners agree, purges and contents, quota, one user per step |
| `filetree_cycle` | as above, API only | violated: a folder is created inside another and one move puts the outer into the inner, although the comment in `move_item` says "itself or its descendants" |
| `pairing` | 2 sessions, 2 codes, 2 devices, 2 agents, 1 approval, 1 poll | index, identities, stored before told, own session |
| `pairing_live` | 1 session, 2 agents, 2 polls, fairness | every agent ends |
| `pairing_single_use` | 1 session, 2 agents | violated: two redemptions of one session overlap |
| `shares` | 1 link, limit 1, 2 workers, 3 downloads, fairness | counter, overshoot, expiry |
| `agentsync` | 2 paths of one name, one of them edited, 2 events, batches of 1, 1 crash, fairness of the watcher | cache, synced, edits indexed |
| `agent_parts` | lengths 0 to 10, chunks of 2 to 4 bytes; 4 transfers of 3 ids and 2 priorities, 2 callers | tiling, at most the last byte missing; queue ordered and exact |
| `accounts` | 2 accounts, 3 tokens, 1 phrase, 2 secrets, 2 workers, 4 requests, 2 password changes | sessions end, tokens exchanged once, admins, MFA |
| `backup` | 2 files, one in the trash, 2 contents, a link and a version, 3 backups, two of them made before, 2 workers, 2 requests, 1 change, keep 0 or 1 | completed backups sound, verdicts, restores, retention |
| `tunnel` | 2 requests, 2 connections, a folder and a file in it, 12 commands, 1 LAN read copied cell by cell, 2 ranges | order, live socket, body as announced, refinement of `RemoteCall` |
| `media` | 2 files, 2 jobs, 2 segments | violated: two jobs share one output directory |

**Why the bounds are enough.** Every hazard that is aimed at is a race of two
requests on one or two objects, so two workers and two objects reach it. With two
ids the file tree has a parent and a child; with two users and two ids any step
that mixes users shows. With quota 1 and size 2 an upload is refused, and a second
one in flight overshoots. Two sessions and two codes cover both a collision of
codes and none. Two versions of a file suffice for an edit during hashing or
upload, and one crash for changes made while the agent is down. The chunk bounds
keep the order 0 < MIN < MAX, and ten bytes hold more than two chunks.
Two refreshes or resets of one account, with a third token for the session they
race with, need four requests. With two backups there at the start, the two requests of
`backup` are any two of create, delete, retention, verify and restore, side by side or one
after the other: a sweep beside a create, a delete or another sweep, a verification or a
restore beside a removal; the third backup is the one created. Batches of one make the sync
loop choose between its two files. Two commands and two connections are what it takes to
answer late, out of order or on the wrong socket; the reader of a broken connection and
its successor are both there. `MaxCount`, `MaxVersion`, `MaxEvents`, `MaxCrashes`,
`MaxPolls`, `MaxEpoch`, `MaxRequests` and `MaxChanges` are the bounds that stand for
unbounded or large numbers. `MaxPolls` and `MaxEvents` exist in the
code (60 and 1000); the others only end the exploration, which is why `shares`,
`accounts` and `backup` do not check deadlock. `agent_parts` does not either: the
chunker's loop ends; nor `media`, whose jobs do. Symmetry is used
in runs of safety properties only.

**Fairness.** `Pairing`: the agent's loop runs on, and a request it waits for is
answered or times out (`reqwest` time-out of ten seconds); nothing is assumed of
owners, of the approval or of the server's uptime. `Shares`: the hourly task runs
again and again (`tokio::time::interval`). `AgentSync`: the watcher handles the next file
or event (`WF_vars(Watch)`, one task without a lock to wait for); nothing is assumed of the
uploads, of the network, of the user or of whoever starts the agent again.

## Proofs

* **`FileTreeProofs`**: for any sets of ids, users, names, sizes and workers, the
  invariants `TypeOK`, `OwnersAgree`, `PurgesOwnPaths`, `DanglingOnlyByPurge` and the
  action property `OneUserPerStep`. A request checks an owner in one statement and
  uses the id in a later one, so none of them is inductive. `Inv` adds `IdsOnce` (an
  id becomes an entry at most once) and `JobOwn` (what a request has read, if it is
  still in the table, still belongs to its user). `Reserved` holds the ids that
  may still become entries, `Settled(i, u)` says that `i` is none of them and is of
  user `u` if it exists; `Frame` says how every step treats ids, owners and
  contents, and keeps `JobOwn` of the requests that do not move. `OneUserPerStep`
  then follows from `OwnersAgree`: what the recursive statements and the
  cascades reach from an entry belongs to its user.
  The second half of the module shows the same five properties for `FrontSpec`, the
  specification the run `filetree` checks, from the same `Inv`. The new cases: MKCOL is a
  `CreateFolder`; the parent a COPY reads from its source is of the same user by
  `OwnersAgree`; a PUT turns a folder into one with contents only after it has stored
  them, so the entry can be downloaded; S3 finds its object among the user's own
  entries. It assumes `PutSizes` is a subset of `Sizes`.
  Two further results are about `FrontSpec`. `QuotaOvershootBounded` counts bytes as
  pairs of an entry and a number, so that a sum of sizes is a cardinality and the theorems
  on finite sets apply. It is not inductive: an upload that passed the check adds its
  bytes later, when the usage is another one. `QuotaKept` counts the bytes of uploads
  in flight in advance: together with the checked bytes in the table they stay within the
  quota and one largest size per other request, since an upload is let in below the quota
  by a request that was not in flight; an upload let in because the SUM failed is among the
`unchecked`. `CyclesOnlyByMove` is the positive side
  of the finding of `filetree_cycle`: a table without a cycle gets one only by a
  `move_item` of an entry to a folder below it. No run checks it; the three ways a statement can
  change the table (entries kept with their parents, one leaf added, one entry moved)
  are a lemma each about the recursive CTE (`TreeKept`, `TreeGrown`, `TreeMoved`).
* **`SharesProofs`**: `TypeOK`, `CountExact` and `OvershootBounded`, with `FreshUnused`: an
  id that is not drawn yet is in no row, no request in flight and no count. `Limited`
  counts the downloads that were admitted and not counted yet in advance: together with
  the counter they stay within the highest limit and one per other request, since a
  download is admitted below the limit by a request that was not in flight.
* **`AgentPartsProofs`**: of `Delta`, `ChunksTile` and `AllButLastByte` for every length and
  all 0 < MIN <= MAX. Of `OfflineQueue`, `QueueOrdered` and `QueueExact` for any transfers,
  ids, priorities and number of callers. `QueueInv` says that every list in the file, in the
  temporary file or in a call's hands is ordered and of different ids, and that a call that
  is not `off` has read the list that is in the file and, once it has written, finds its
  own list in the temporary file (`UpToDate`). The lemmas below it are about the operators: a
  stable sort exists for every list (`SortExists`, by well-founded minima instead of an
  induction over the list), and what `RemoveAt` and the sort do to the elements.
* **`PairingProofs`**: `TypeOK`, `IndexSound`, `NoSharedIdentity`, `SavedAgentIsKnown` and
  `ResultOfOwnSession`. Two agents could share a device only if an identity were handed on
  twice while the lock is released, so `Inv` says where an identity is: a device is in one
  hand at a time, which is a handler between its two lock sections, the result stored in a
  session, or an agent; and every device in a hand that may give it to an agent is in the
  table, with its refresh token once the handler has passed that statement.
  Two theorems are the positive side of the finding of `pairing_single_use`: `UsedIsGone`, a
  session that has enrolled a device is in the store no more, and the action property
  `SingleUseUnlessOverlap`, a second device is delivered only by a direct redemption that
  had passed its first lock section before. Both except a code drawn twice, since an
  approval by code may then store its result in the other session. They are not among the
  listed runs' properties; `UseInv` adds to `Inv` that requests and devices name sessions
  that were made, and that a result is of a session with the code of the one it is
  stored in.
* **`AccountsProofs`**: `TypeOK`, `ResetEndsSessions`, `RefreshOnce`, `OneFirstAdmin`,
  `AdminRemains` and `MfaSecretProved`. Each is about a value read in one statement and used
  in a later one. `JobFits(w)` says for every kind of request what it may still rely on
  before its next statement, or that it carries the mark (`stale`) of the request that
  overtook it; `DrawnOnce` says that a token, phrase or secret is drawn by one request;
  `SessionsExcused` and `ExchangedOnce` say which rows, requests and marks account for a
  session that outlived a reset and for a second exchange.
* **`TunnelProofs`**: `TypeOK`, `InOrder`, `LiveTunnelChosen`, `LanBodyAsAnnounced` and the
  refinement `ImplementsRemoteCall`, all for `LanSpec`, the specification the run `tunnel`
  checks. `Inv` says that only the connection the agent reads is up and holds commands
  (`OneConnection`), that a request is sent once (`SentOnce`), that what has run and what
  waits, in this order, was sent in this order (`InLine`), and that the answers on their way
  and those the callers got are the ones the agent gave (`TrueAnswers`, `Told`). The refinement maps
  a step of the agent's loop to carrying the command out, the arrival of an answer to the
  end of the call, a time-out to giving it up, and everything connections do to a stutter.
  `LanBodyAsAnnounced` is not inductive, since the file is opened after the header: `Held`
  says that until the file is changed the name announced, and then the open file, holds what
  was seen when the header was sent, and that the position is where the part sent ends.
* **`AgentSyncProofs`**: `TypeOK`, `CacheCurrent` and `SyncedIsThere`. `CacheCurrent` speaks
  of a watcher that has caught up; `Watched` says what holds before: a file that was not
  missed and that the cache does not show as it is on disk is ahead of the scan, has an event
  in the channel that no later removal undoes, or is being read and will be announced again if
  it changes (`Due`, `RereadDue`, `RemovalsOvertaken`). `SyncedIsThere` compares versions, so
  `NewestOnDisk` says that a file on disk has the last version written and that nothing read of
  it is newer, `TodoPending` that what a round has still to upload is pending, `UploadCurrent`
  that the version under way is at least the one in the cache unless the path was raced, and
  `MarkIsThere` that a path about to be marked synced has been accepted by the server.
* **`BackupProofs`**: `TypeOK`, `CompletedIsSound`, `VerdictTrue`, `RestoreFaithful` and
  `RetentionKeepsNewest`. `Inv` says what holds half way, with every step that may fail in
  silence: a backup being made is in the hands of one request (`OneMaker`) and holds what the
  request has listed (`MakerFits`), a verification that got at the manifest has judged the
  files it has looked at (`VerifierFits`, `Judged`), a restore has put back the files it counts
  and the rows and links whose INSERT did not fail (`RestorerFits`), and what is being removed
  was asked to be deleted or is beyond what some retention was to keep (`RemoverFits`, `Due`,
  from the cardinality theorems: k rows of a sequence without repetition that come after a
  backup are at least k places). `TableFits` says the same of what was removed: a backup
  that was made and is not in the table was being removed (`GoneDoomed`), and what is
  removed was due (`DoomedDue`); it stays due, since backups are only added.

Each inductive invariant was checked by TLC on the bounds of the module's run before it
was proved, and so were `UsedIsGone` and `SingleUseUnlessOverlap`.

The assumptions are the named ASSUMEs of the modules (`Root` is no id, sizes and
limits are naturals, there is a largest size, the requests in flight are finitely many,
the quota and priorities are naturals, 0 < `MinChunk` <= `MaxChunk`, a session id is no
code, `None` is none of the values it may stand in for, there is some content and some worker, the agent's
folders have two levels); TLC evaluates them in each run.

Model-checked only: liveness (`AgentEnds`, `ExpiredDeactivated`, `EditsIndexed`), which
the prover cannot do. Every invariant and safety property of a passing run is also
stated by a theorem.

## Findings

Three runs end in a counterexample to what a comment says; the quotations are in
`PROJECT.json`: cycles by `move_item`, overlapping redemptions of a single-use session,
and transcoding jobs that share one output directory.

What modelling showed besides, each visible in the action named:

* An entry created below, or moved into, a trashed folder is deleted with it by the
  cascade, although it never was in the trash (`EmptyRows`, `TrashCleanup`).
* A file that is edited after its first upload is posted as a new one and refused by
  the unique key in every round (`SyncConflict`); `docs/SETUP_GUIDE.md:166` says
  "Auto-upload new/modified files". Nor does every new file arrive: `get_pending` takes 100
  rows in no order (`agent/src/db.rs:79`), so rows that fail in every round may crowd out the
  others; the access token expires after 900 seconds, and the agent drops the refresh token it
  is given (`agent/src/enroll.rs:42`); requests have no time-out (`agent/src/sync.rs:9`); two
  files of one name in different folders meet in the server's root folder. No property
  says that files arrive.
* The cache may stay behind the disk with nothing left to handle, after a dropped event or a
  failed indexing, until the file changes again or the agent is started (`Notify`,
  `IndexFails`; `missed` in `CacheCurrent`).
* A failed SUM reads as 0, and the quota check lets the upload in (`UploadCheck`).
* A chunk boundary on the last byte of a file leaves that byte in no chunk (`Cut`,
  `AllButLastByte`).
* Refresh tokens are single-use (`docs/SECURITY.md:6`) except for refreshes that
  overlap; a password reset ends every session (SEC-05 in
  `docs/GAP_ANALYSIS_PHASED_REMEDIATION.md`) except one whose login or refresh is under
  way at that moment (`RefreshOnce`, `ResetEndsSessions` name the exceptions).
  `docs/ADR.md:72` says "if a refresh token is reused, all tokens for that user are
  revoked"; the code refuses the reused token and revokes nothing.
* `verify_backup` calls a backup healthy whose manifest is there but cannot be read or
  parsed (`backup/src/service.rs:620`, `:652`; `VerifyLoad`, `blind`), or whose directory
  vanishes after the manifest was seen; `docs/BACKUP_RECOVERY.md:59` says of it
  "Validates that `manifest.json` is intact and parseable".
* `restore_backup` passes over missing payloads, failed writes and failed INSERTs in silence
  and counts an entry as restored whether or not its INSERT succeeded (`RestoreSkip`,
  `RestoreFile`, `RestoreRow`); it hashes what it reads from the backup, and never the files
  "on active disk" that `docs/BACKUP_RECOVERY.md:76` says it re-verifies.
* A file that cannot be read while a backup is made is not listed, and the backup is still
  completed: `CompletedIsSound` is about the files listed. Nothing ever starts a scheduled
  backup.
* An error after the header of a LAN read is not reported, and the body is shorter than
  announced (`LanOpen`, `LanCut`).
* Playback tokens are signed and not stored, so nothing can revoke them;
  `docs/MEDIA_STREAMING.md:4` calls them revocable.
* A command whose caller got AGENT_TIMEOUT may still be carried out (`GiveUp` and
  `CarryOut` of `RemoteCall`); a caller that retries cannot tell.

## Not modelled

Read-only handlers, logging, metrics, texts, password hashing, encryption and the
contents of tokens; device registration, removal and heartbeat (single statements);
the backend's resumable transfers, which cannot begin (they insert into a column no
migration creates); file versions (nothing inserts them but a restore), placement
policies, family clouds, the sync engine, search, notification (single-statement CRUD
or reports); OIDC, LDAP, SMB and other external services; links inside the agent's
storage roots; the presence broadcast; the frontend. The Worker's API is TypeScript on
D1 and repeats most of the backend's; only its presence hub is modelled. Requests that
are refused are not steps.

## Plan

1. **More of the system**: the Worker's resumable transfers (a finalized file holds
   every part) and `PairingHub` with its attempt limit.
2. **Abstract specifications**: a tree of owned entries that `FileTree` implements, and
   a one-shot enrolment that `Pairing` implements as long as sessions are not approved
   while they are redeemed.
3. **Proofs**: the positive side of the finding of `media`: a playlist leads to segments of
   its own job unless another job was given the same output directory.
