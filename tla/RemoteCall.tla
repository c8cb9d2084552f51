---------------------------- MODULE RemoteCall ------------------------------
(***************************************************************************)
(* What the tunnel to an agent promises to a caller, abstractly: a call is *)
(* carried out at most once, at some moment after it was made; a caller    *)
(* who gets an answer gets the one his own command produced when it was    *)
(* carried out; a refused call is never carried out; a caller whose call   *)
(* was given up knows nothing, and the command may still be carried out.   *)
(***************************************************************************)
EXTENDS AgentFs

VARIABLES call,    \* per request: its state, its command, its outcome, its answer
          disk     \* the agent's files

abstractVars == <<call, disk>>

NoCall == [st |-> "idle", cmd |-> None, outcome |-> None, answer |-> None]

AbstractInit == /\ call = [r \in Requests |-> NoCall]
                /\ disk = [p \in {} |-> Dir]

Invoke(r) ==
  /\ call[r].st = "idle"
  /\ \E c \in Commands, st \in {"open", "refused"} :
       call' = [call EXCEPT ![r].st = st, ![r].cmd = c]
  /\ UNCHANGED disk

CarryOut(r) ==
  /\ call[r].st \in {"open", "givenup"}
  /\ call[r].outcome = None
  /\ LET a == HandleFsCommand(disk, call[r].cmd, r)
     IN  /\ disk' = a.disk
         /\ call' = [call EXCEPT ![r].outcome = [ok |-> a.ok, val |-> a.val]]

Return(r) ==
  /\ call[r].st = "open"
  /\ call[r].outcome # None
  /\ call' = [call EXCEPT ![r].st = "returned", ![r].answer = call[r].outcome]
  /\ UNCHANGED disk

\* Any number of callers may be given up at once: the hub is restarted.
GiveUp(R) ==
  /\ \A r \in R : call[r].st = "open"
  /\ call' = [r \in Requests |->
                IF r \in R THEN [call[r] EXCEPT !.st = "givenup"] ELSE call[r]]
  /\ UNCHANGED disk

AbstractNext ==
  \/ \E r \in Requests : Invoke(r) \/ CarryOut(r) \/ Return(r)
  \/ \E R \in SUBSET Requests : GiveUp(R)

AbstractSpec == AbstractInit /\ [][AbstractNext]_abstractVars
=============================================================================
