---------------------------- MODULE OfflineQueue ----------------------------
(***************************************************************************)
(* The agent's queue of transfers kept in a file (queue.rs).  Each of its  *)
(* operations reads the whole file, changes the list and saves it by       *)
(* writing a temporary file, always the same one, and renaming it.  There  *)
(* is no lock: calls may overlap.  A file that cannot be read or parsed    *)
(* counts as an empty one.                                                 *)
(***************************************************************************)
EXTENDS Integers, Sequences, FiniteSets, SequencesExt

CONSTANTS Transfers,   \* transfers a caller may ask for
          Id,          \* the id of each: two may carry the same one
          Priority,    \* the priority of each
          Callers      \* calls that may overlap

ASSUME QueueAssumption == /\ Priority \in [Transfers -> Nat]
                          /\ DOMAIN Id = Transfers

VARIABLES queueFile,   \* the list in the file, empty if there is none
          tmpFile,     \* the temporary file: a sequence of at most one list
          call,        \* per caller: the operation in progress
          queued       \* history: what the queue should hold, see QueuedAfter

queueVars == <<queueFile, tmpFile, call, queued>>

Free == [op |-> "none", arg |-> {}, items |-> <<>>, off |-> FALSE, st |-> "none"]

ItemsOf(s) == {s[k] : k \in 1 .. Len(s)}

QueueInit == /\ queueFile = <<>>
             /\ tmpFile = <<>>
             /\ call = [c \in Callers |-> Free]
             /\ queued = {}

(* The positions of the transfers of that id. *)
Positions(items, id) == {k \in 1 .. Len(items) : Id[items[k]] = id}

(* The list without the transfer of that id, if it has one: retain and
   items.remove(pos).  No list of the queue has two of one id (QueueOrdered). *)
Without(items, id) ==
  IF Positions(items, id) = {} THEN items
  ELSE RemoveAt(items, CHOOSE k \in Positions(items, id) : TRUE)

(* sort_by the priority, the highest first: it is stable. *)
InOrder(s, p) == \A i, j \in 1 .. Len(s) :
  i < j => \/ Priority[s[p[i]]] > Priority[s[p[j]]]
           \/ Priority[s[p[i]]] = Priority[s[p[j]]] /\ p[i] < p[j]

Sorted(s) ==
  LET n == Len(s)
      p == CHOOSE q \in Bijection(1 .. n, 1 .. n) : InOrder(s, q)
  IN  [k \in 1 .. n |-> s[p[k]]]

\* Mutant: the new transfer goes to the end.
Enqueued_NotSorted(items, x) == Append(Without(items, Id[x]), x)

(* enqueue: the transfer replaces one of the same id, at its place in the order. *)
Enqueued(items, x) == Sorted(Append(Without(items, Id[x]), x))

(* What a call saves: enqueue, dequeue or drain. *)
Saved(k) ==
  CASE k.op = "enqueue" -> Enqueued(k.items, CHOOSE x \in k.arg : TRUE)
    [] k.op = "dequeue" -> Without(k.items, Id[CHOOSE x \in k.arg : TRUE])
    [] k.op = "drain"   -> <<>>

(* A call begins: list() reads the file, or fails to and goes on with none.  To
   dequeue what is not there ends the call. *)
ListItems(c) ==
  /\ call[c].op = "none"
  /\ \E op \in {"enqueue", "dequeue", "drain"}, x \in Transfers, readable \in BOOLEAN :
       LET items == IF readable THEN queueFile ELSE <<>>
       IN  /\ op = "dequeue" => x \in ItemsOf(items)
           /\ call' = [call EXCEPT ![c] =
                [op |-> op, arg |-> IF op = "drain" THEN ItemsOf(items) ELSE {x},
                 items |-> items, off |-> items # queueFile, st |-> "read"]]
  /\ UNCHANGED <<queueFile, tmpFile, queued>>

(* Caller c goes on with k; what those others have read or written is out of date. *)
Overtake(c, k, others) ==
  call' = [d \in Callers |-> IF d = c THEN k
                             ELSE IF d \in others THEN [call[d] EXCEPT !.off = TRUE]
                             ELSE call[d]]

(* save(): the temporary file is written, over what another call wrote there ... *)
WriteTmp(c) ==
  /\ call[c].st = "read"
  /\ tmpFile' = <<Saved(call[c])>>
  /\ Overtake(c, [call[c] EXCEPT !.st = "written"], {d \in Callers : call[d].st = "written"})
  /\ UNCHANGED <<queueFile, queued>>

(* What the queue should hold after call k succeeded: what it held, with the
   call's transfer in the place of one of its id, or without what the call took
   out; whatever it holds now, if k saved a list out of date or not read. *)
QueuedAfter(k) ==
  IF k.off THEN ItemsOf(queueFile')
  ELSE IF k.op # "enqueue" THEN queued \ k.arg
  ELSE {y \in queued : \A x \in k.arg : Id[y] # Id[x]} \union k.arg

\* Mutant: a call that takes out transfers forgets the rename.
Rename_OnlyAdds(c) ==
  /\ call[c].st = "written" /\ tmpFile # <<>>
  /\ queueFile' = IF call[c].op = "enqueue" THEN tmpFile[1] ELSE queueFile
  /\ tmpFile' = <<>>
  /\ queued' = QueuedAfter(call[c])
  /\ Overtake(c, Free, {d \in Callers : call[d].op # "none"})

(* ... and renamed: the call has succeeded. *)
Rename(c) ==
  /\ call[c].st = "written" /\ tmpFile # <<>>
  /\ queueFile' = tmpFile[1]
  /\ tmpFile' = <<>>
  /\ queued' = QueuedAfter(call[c])
  /\ Overtake(c, Free, {d \in Callers : call[d].op # "none"})

(* The temporary file is gone, or a write fails, or the agent stops. *)
CallFails(c) ==
  /\ call[c].op # "none"
  /\ call' = [call EXCEPT ![c] = Free]
  /\ UNCHANGED <<queueFile, tmpFile, queued>>

QueueNext == \E c \in Callers : ListItems(c) \/ WriteTmp(c) \/ Rename(c) \/ CallFails(c)

QueueSpec == QueueInit /\ [][QueueNext]_queueVars

-----------------------------------------------------------------------------
(* A list of transfers of different ids, the highest priority first. *)
Ordered(s) == \A i, j \in 1 .. Len(s) :
  i < j => /\ Id[s[i]] # Id[s[j]]
           /\ Priority[s[i]] >= Priority[s[j]]

(* Whatever calls overlap, fail or cannot read the file, the queue stays a list
   of transfers of different ids, the highest priority first. *)
QueueOrdered == Ordered(queueFile)

(* The queue holds exactly what was enqueued and neither replaced nor taken out
   since, crashes and failed saves included, but for the calls that saved a list
   that another call had changed, or that they could not read. *)
QueueExact == ItemsOf(queueFile) = queued
=============================================================================
