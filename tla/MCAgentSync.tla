---------------------------- MODULE MCAgentSync -----------------------------
(* AgentSync on small instances. *)
EXTENDS AgentSync

CONSTANTS p1, p2, n1

(* Files of the same base name in different folders. *)
SameName == [p \in Paths |-> n1]

(* One of them is edited. *)
Edited == [p \in Paths |-> IF p = p1 THEN 2 ELSE 1]
=============================================================================
