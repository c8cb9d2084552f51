------------------------------- MODULE Tunnel -------------------------------
(***************************************************************************)
(* The tunnel between the control plane and an agent: the outbound loop of *)
(* connection_manager.rs, which connects, handles one command at a time    *)
(* and reconnects, and the hub it talks to (DevicePresenceHub.ts), which   *)
(* sends a command on the newest socket, waits 15 seconds for the answer   *)
(* with its id and ignores what comes later.  A connection delivers in     *)
(* order; when it breaks, each direction has delivered some prefix of what *)
(* was sent, and neither side knows at once.                               *)
(***************************************************************************)
EXTENDS AgentFs

CONSTANTS Conns       \* names for the connections open at one time

ASSUME ConnsAssumption == None \notin Conns

VARIABLES
  wire,       \* per connection: is it up, and what travels to the agent and to the hub
  sockets,    \* the hub's sockets of the device, oldest first
  cur,        \* the connection the agent's loop reads, or None
  req,        \* per request: its state, its command, its answer
  disk,       \* the files of the agent
  outcome,    \* history: what the agent answered to a request, once it handled it
  sent,       \* history: the requests in the order the hub sent them
  ran         \* history: the requests in the order the agent handled them

vars == <<wire, sockets, cur, req, disk, outcome, sent, ran>>

NoWire == [up |-> FALSE, toAgent |-> <<>>, toHub |-> <<>>]

Prefixes(s) == {SubSeq(s, 1, n) : n \in 0 .. Len(s)}

(* s without its k-th element. *)
Without(s, k) == [j \in 1 .. Len(s) - 1 |-> IF j < k THEN s[j] ELSE s[j + 1]]

IsMember(s, x) == \E k \in 1 .. Len(s) : s[k] = x

Init ==
  /\ wire = [c \in Conns |-> NoWire]
  /\ sockets = <<>>
  /\ cur = None
  /\ req = [r \in Requests |-> [st |-> "idle", cmd |-> None, answer |-> None]]
  /\ disk = [p \in {} |-> Dir]
  /\ outcome = [r \in Requests |-> None]
  /\ sent = <<>>
  /\ ran = <<>>

-----------------------------------------------------------------------------
(* The agent *)

(* connect_async: a name is used again once both sides have let go of it. *)
Connect(c) ==
  /\ cur = None
  /\ ~wire[c].up /\ wire[c].toHub = <<>> /\ ~IsMember(sockets, c)
  /\ wire' = [wire EXCEPT ![c] = [NoWire EXCEPT !.up = TRUE]]
  /\ sockets' = Append(sockets, c)
  /\ cur' = c
  /\ UNCHANGED <<req, disk, outcome, sent, ran>>

(* The agent handles command r of connection c to its end, leaving rest in the
   queue, and sends the answer, which is lost if the connection has broken. *)
Handle(c, r, rest) ==
  LET a == HandleFsCommand(disk, req[r].cmd, r)
      answer == [ok |-> a.ok, val |-> a.val]
  IN  /\ disk' = a.disk
      /\ outcome' = [outcome EXCEPT ![r] = answer]
      /\ ran' = Append(ran, r)
      /\ wire' = [wire EXCEPT ![c].toAgent = rest,
                              ![c].toHub = IF wire[c].up
                                             THEN Append(@, [id |-> r, answer |-> answer])
                                             ELSE @]
      /\ UNCHANGED <<sockets, cur, req, sent>>

\* Mutant: commands are handled in tasks of their own, in any order.
AgentHandle_Spawned ==
  /\ cur # None
  /\ LET queue == wire[cur].toAgent
     IN  \E k \in 1 .. Len(queue) :
           Handle(cur, queue[k], SubSeq(queue, 1, k - 1) \o SubSeq(queue, k + 1, Len(queue)))

(* The loop takes one command at a time, in the order they arrive. *)
AgentHandle ==
  /\ cur # None
  /\ wire[cur].toAgent # <<>>
  /\ Handle(cur, Head(wire[cur].toAgent), Tail(wire[cur].toAgent))

(* Close or Err ends the inner loop; the agent will connect again. *)
AgentSeesClose ==
  /\ cur # None
  /\ ~wire[cur].up /\ wire[cur].toAgent = <<>>
  /\ cur' = None
  /\ UNCHANGED <<wire, sockets, req, disk, outcome, sent, ran>>

(* The daemon dies: what it had not read is lost, and the hub gets a prefix
   of what it sent. *)
AgentCrash ==
  /\ cur # None
  /\ \E s \in Prefixes(wire[cur].toHub) :
       wire' = [wire EXCEPT ![cur] = [NoWire EXCEPT !.toHub = s]]
  /\ cur' = None
  /\ UNCHANGED <<sockets, req, disk, outcome, sent, ran>>

-----------------------------------------------------------------------------
(* The hub *)

(* The socket a command is sent on: the one added last. *)
\* Mutant: the one added first.
Chosen_First == sockets[1]
Chosen == sockets[Len(sockets)]

Asked(r, cmd, st) == req' = [req EXCEPT ![r].st = st, ![r].cmd = cmd]

(* /proxy/fs without a socket: STORAGE_NODE_OFFLINE. *)
ProxyOffline(r, cmd) ==
  /\ req[r].st = "idle"
  /\ sockets = <<>>
  /\ Asked(r, cmd, "refused")
  /\ UNCHANGED <<wire, sockets, cur, disk, outcome, sent, ran>>

(* /proxy/fs: the request is registered and the command sent; on a broken
   connection it is lost. *)
ProxySend(r, cmd) ==
  /\ req[r].st = "idle"
  /\ sockets # <<>>
  /\ Asked(r, cmd, "open")
  /\ sent' = Append(sent, r)
  /\ wire' = IF wire[Chosen].up
                THEN [wire EXCEPT ![Chosen].toAgent = Append(@, r)]
                ELSE wire
  /\ UNCHANGED <<sockets, cur, disk, outcome, ran>>

(* ... or the send throws: TRANSPORT_ERROR, and the request is taken back. *)
ProxyFails(r, cmd) ==
  /\ req[r].st = "idle"
  /\ sockets # <<>> /\ ~wire[Chosen].up
  /\ Asked(r, cmd, "refused")
  /\ UNCHANGED <<wire, sockets, cur, disk, outcome, sent, ran>>

\* Mutant: an answer resolves whichever request is pending.
Resolved_AnyPending(msg) ==
  LET open == {r \in Requests : req[r].st = "open"}
  IN  IF open = {} THEN req
      ELSE LET r == CHOOSE x \in open : TRUE
           IN  [req EXCEPT ![r].st = "returned", ![r].answer = msg.answer]

(* The listener of a socket: an answer resolves the request with its id if
   that is still pending, and is ignored otherwise. *)
Resolved(msg) ==
  IF req[msg.id].st = "open"
    THEN [req EXCEPT ![msg.id].st = "returned", ![msg.id].answer = msg.answer]
    ELSE req

HubReceive(c) ==
  /\ wire[c].toHub # <<>>
  /\ req' = Resolved(Head(wire[c].toHub))
  /\ wire' = [wire EXCEPT ![c].toHub = Tail(@)]
  /\ UNCHANGED <<sockets, cur, disk, outcome, sent, ran>>

(* AGENT_TIMEOUT after 15 seconds. *)
Timeout(r) ==
  /\ req[r].st = "open"
  /\ req' = [req EXCEPT ![r].st = "givenup"]
  /\ UNCHANGED <<wire, sockets, cur, disk, outcome, sent, ran>>

(* The close event of a socket comes after its messages; the others keep
   their order. *)
HubSeesClose(c) ==
  /\ ~wire[c].up /\ wire[c].toHub = <<>>
  /\ \E k \in 1 .. Len(sockets) :
       /\ sockets[k] = c
       /\ sockets' = Without(sockets, k)
  /\ UNCHANGED <<wire, cur, req, disk, outcome, sent, ran>>

(* /disconnect, when the owner revokes the device: every socket is closed
   and forgotten.  Their listeners still get what was on its way. *)
Disconnect ==
  /\ sockets # <<>>
  /\ sockets' = <<>>
  /\ wire' = [c \in Conns |-> [wire[c] EXCEPT !.up = FALSE]]
  /\ UNCHANGED <<cur, req, disk, outcome, sent, ran>>

(* The Durable Object is evicted: its maps and its callers' requests go. *)
HubRestart ==
  /\ sockets # <<>>
  /\ sockets' = <<>>
  /\ wire' = [c \in Conns |-> [wire[c] EXCEPT !.up = FALSE, !.toHub = <<>>]]
  /\ req' = [r \in Requests |->
               IF req[r].st = "open" THEN [req[r] EXCEPT !.st = "givenup"] ELSE req[r]]
  /\ UNCHANGED <<cur, disk, outcome, sent, ran>>

-----------------------------------------------------------------------------
(* The network breaks a connection. *)
Break(c) ==
  /\ wire[c].up
  /\ \E s \in Prefixes(wire[c].toAgent), t \in Prefixes(wire[c].toHub) :
       wire' = [wire EXCEPT ![c] = [up |-> FALSE, toAgent |-> s, toHub |-> t]]
  /\ UNCHANGED <<sockets, cur, req, disk, outcome, sent, ran>>

Next ==
  \/ AgentHandle \/ AgentSeesClose \/ AgentCrash \/ Disconnect \/ HubRestart
  \/ \E c \in Conns : Connect(c) \/ HubReceive(c) \/ HubSeesClose(c) \/ Break(c)
  \/ \E r \in Requests :
       \/ Timeout(r)
       \/ \E cmd \in Commands : ProxyOffline(r, cmd) \/ ProxySend(r, cmd) \/ ProxyFails(r, cmd)

Spec == Init /\ [][Next]_vars

-----------------------------------------------------------------------------
(* Types; the answers that travel are the agent's own, and the files it keeps
   make a tree: whatever exists lies in a folder, after any sequence of writes,
   deletions and mkdirs. *)
TypeOK ==
  /\ \A c \in Conns :
       /\ wire[c].up \in BOOLEAN /\ wire[c].toAgent \in Seq(Requests)
       /\ \A k \in 1 .. Len(wire[c].toHub) :
            wire[c].toHub[k].answer = outcome[wire[c].toHub[k].id]
  /\ sockets \in Seq(Conns)
  /\ cur \in Conns \union {None}
  /\ \A r \in Requests :
       /\ req[r].st \in {"idle", "open", "returned", "refused", "givenup"}
       /\ req[r].cmd \in Commands \union {None}
       /\ req[r].answer \in {None, outcome[r]}
  /\ DOMAIN disk \subseteq Paths
  /\ TreeOf(disk)
  /\ sent \in Seq(Requests) /\ ran \in Seq(Requests)

(* Commands take effect in the order the hub sent them, each at most once, over
   any number of broken and renewed connections: the agent reads one connection
   at a time and never goes back to an earlier one. *)
InOrder ==
  \A i, j \in 1 .. Len(ran) :
    i < j => \E k, l \in 1 .. Len(sent) : k < l /\ sent[k] = ran[i] /\ sent[l] = ran[j]

(* While the agent's connection is up, it is the one the hub sends commands on,
   whatever half-open sockets of earlier connections the hub still holds. *)
LiveTunnelChosen ==
  cur # None /\ wire[cur].up => sockets # <<>> /\ Chosen = cur

(* The tunnel implements the abstract remote call: answers belong to their own
   request and to the state its command met, late answers are ignored, no
   command is carried out twice, and none that was refused. *)
R == INSTANCE RemoteCall WITH
       call <- [r \in Requests |-> [st |-> req[r].st, cmd |-> req[r].cmd,
                                    outcome |-> outcome[r], answer |-> req[r].answer]]

ImplementsRemoteCall == R!AbstractSpec
=============================================================================
