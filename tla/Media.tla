-------------------------------- MODULE Media --------------------------------
(***************************************************************************)
(* Transcoding jobs (backend, crate streaming).                            *)
(*                                                                         *)
(* POST /transcode inserts a row of transcode_jobs and spawns a task that  *)
(* runs ffmpeg over the file's contents into the job's output directory;   *)
(* GET /stream/:id hands out the path of the playlist in that directory.   *)
(* ffmpeg is external: it writes numbered segments one by one, then the    *)
(* playlist, replacing what is there, and may fail at any of them.         *)
(***************************************************************************)
EXTENDS Naturals

CONSTANTS
  Files,      \* ids of file_entries; each has contents and an owner
  Jobs,       \* ids of transcode_jobs
  Segments,   \* how many segments a stream has
  None

VARIABLES
  job,        \* job id -> its row, or None
  task,       \* job id -> the spawned task: where it is, or None
  output,     \* directory -> file of a stream -> the file whose stream it holds, or None
  present     \* the files that still have their row

vars == <<job, task, output, present>>

Statuses == {"pending", "processing", "completed", "failed"}

(* The directories an output_dir can name: one beside each file, and the one
   whose name is the suffix alone. *)
SuffixOnly == "_hls"
Dirs == Files \union {SuffixOnly}

TranscodeJob == [file : Files, status : Statuses, dir : Dirs, playlist : BOOLEAN]

(* The files of a stream: the segments, and the playlist after them. *)
Names == 1 .. Segments + 1

TypeOK ==
  /\ job \in [Jobs -> TranscodeJob \union {None}]
  /\ task \in [Jobs -> [step : {"spawned", "failing"}] \union
                        [step : {"running"}, at : 0 .. Segments + 1, file : Files, dir : Dirs] \union
                        {None}]
  /\ output \in [Dirs -> [Names -> Files \union {None}]]
  /\ present \subseteq Files

Init ==
  /\ job = [j \in Jobs |-> None]
  /\ task = [j \in Jobs |-> None]
  /\ output = [d \in Dirs |-> [n \in Names |-> None]]
  /\ present = Files

-----------------------------------------------------------------------------
(* file_path: user, prefix and file id; ids have no dot. *)
StoragePath(f) == [file |-> f, dotted |-> FALSE]

(* The path without everything after its last dot, and the suffix. *)
OutputDir(path) == IF path.dotted THEN path.file ELSE SuffixOnly

(* queue_transcode: the INSERT. *)
QueueTranscode(j, f) ==
  job' = [job EXCEPT ![j] = [file |-> f, status |-> "pending",
                             dir |-> OutputDir(StoragePath(f)), playlist |-> FALSE]]

(* The handler looks the file up, queues the job and spawns its task. *)
Transcode(j, f) ==
  /\ f \in present
  /\ job[j] = None
  /\ task[j] = None
  /\ QueueTranscode(j, f)
  /\ task' = [task EXCEPT ![j] = [step |-> "spawned"]]
  /\ UNCHANGED <<output, present>>

(* An UPDATE of the job's row: it changes nothing if the row is gone. *)
SetJob(j, status, playlist) ==
  job' = IF job[j] = None THEN job
         ELSE [job EXCEPT ![j].status = status, ![j].playlist = playlist]

At(j, step) == task[j] # None /\ task[j].step = step

(* execute_transcode up to the start of ffmpeg; without a row it ends. *)
ExecuteBegin(j) ==
  /\ At(j, "spawned")
  /\ SetJob(j, "processing", FALSE)
  /\ task' = [task EXCEPT ![j] = IF job[j] = None THEN None
                                 ELSE [step |-> "running", at |-> 0,
                                       file |-> job[j].file, dir |-> job[j].dir]]
  /\ UNCHANGED <<output, present>>

(* ffmpeg writes its next segment, and the playlist after the last one. *)
Ffmpeg(j) ==
  /\ At(j, "running")
  /\ LET n == task[j].at + 1 IN
     /\ n \in Names
     /\ task' = [task EXCEPT ![j].at = n]
     /\ output' = [output EXCEPT ![task[j].dir][n] = task[j].file]
  /\ UNCHANGED <<job, present>>

FfmpegFails(j) ==
  /\ At(j, "running")
  /\ task[j].at <= Segments
  /\ task' = [task EXCEPT ![j] = [step |-> "failing"]]
  /\ UNCHANGED <<job, output, present>>

ExecuteEnd(j) ==
  /\ \/ At(j, "running") /\ task[j].at = Segments + 1 /\ SetJob(j, "completed", TRUE)
     \/ At(j, "failing") /\ SetJob(j, "failed", FALSE)
  /\ task' = [task EXCEPT ![j] = None]
  /\ UNCHANGED <<output, present>>

(* The file's row is purged, and its jobs with it. *)
Purge(f) ==
  /\ f \in present
  /\ present' = present \ {f}
  /\ job' = [j \in Jobs |-> IF job[j] # None /\ job[j].file = f THEN None ELSE job[j]]
  /\ UNCHANGED <<task, output>>

(* The gateway stops: the tasks are lost, and nothing takes their jobs up. *)
Restart ==
  /\ task # [j \in Jobs |-> None]
  /\ task' = [j \in Jobs |-> None]
  /\ UNCHANGED <<job, output, present>>

Next ==
  \/ \E j \in Jobs :
       \/ \E f \in Files : Transcode(j, f)
       \/ ExecuteBegin(j) \/ Ffmpeg(j) \/ FfmpegFails(j) \/ ExecuteEnd(j)
  \/ \E f \in Files : Purge(f)
  \/ Restart

Spec == Init /\ [][Next]_vars

-----------------------------------------------------------------------------
(* The URL that get_stream_url hands out for a completed job leads to the
   stream of that job's file: the playlist and every segment it names were
   made from it.  It does not hold: output_dir cuts the path after its last
   dot, storage paths have none, and all jobs write into one directory. *)
StreamOfOwnFile ==
  \A j \in Jobs : job[j] # None /\ job[j].playlist =>
    \A n \in Names : output[job[j].dir][n] = job[j].file
=============================================================================
