---------------------------- MODULE MCAgentParts ----------------------------
(***************************************************************************)
(* The chunker and the offline queue of one agent.  They share no state,   *)
(* so their product shows no more than each of them: the queue moves       *)
(* beside the empty file only.                                             *)
(***************************************************************************)
EXTENDS Delta, OfflineQueue, TLC
CONSTANTS t1, t2, t3, t4, a1, a2

MCPriority == [t \in {t1, t2, t3, t4} |-> IF t = t1 THEN 0 ELSE 1]
MCId == [t \in {t1, t2, t3, t4} |-> IF t = t1 THEN t2 ELSE t]
Symmetry == Permutations({t3, t4}) \union Permutations({a1, a2})

AgentInit == Init /\ QueueInit

AgentSpec ==
  /\ AgentInit
  /\ [][(Next /\ UNCHANGED queueVars) \/ (len = 0 /\ QueueNext /\ UNCHANGED vars)]_<<vars, queueVars>>
=============================================================================
