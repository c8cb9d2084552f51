------------------------------ MODULE Pairing -------------------------------
(***************************************************************************)
(* Device pairing: the in-memory PairingStore of the backend, the handlers *)
(* that create, claim, approve, reject and redeem a session, and the       *)
(* agents that enrol with a code (agent/src/enroll.rs).                    *)
(*                                                                         *)
(* The store is behind a mutex.  approve_pairing_session and               *)
(* redeem_pairing_session release it while they write the device and its   *)
(* refresh token to the database and take it again afterwards, so each is  *)
(* one action per lock section and per statement.  The other handlers hold *)
(* it throughout and are one action each.  A refused request is not a step *)
(* of the server.                                                          *)
(***************************************************************************)
EXTENDS Integers, FiniteSets

CONSTANTS Sessions,   \* session UUIDs; the enrollment token of s is s itself
          Codes,      \* six-digit pairing codes, drawn at random
          Devices,    \* device UUIDs
          Users,
          Agents,     \* clients that enrol
          Approvals,  \* approve requests that may be in flight at once
          MaxPolls,   \* status polls before the agent falls back (60)
          None

ASSUME NoneAssumption == None \notin Sessions \union Codes \union Devices \union Agents
ASSUME KeyAssumption == Sessions \intersect Codes = {}
ASSUME PollsAssumption == MaxPolls \in Nat

VARIABLES session,    \* PairingStore.sessions: a function from live session ids
          codeToId,   \* PairingStore.code_to_id: a function from indexed codes
          devices,    \* table devices: a function from the ids of its rows
          tokens,     \* devices whose refresh token has been stored
          approve,    \* per approve request in flight, what it has read
          redeem,     \* per agent, the redeem request the server works on
          agent,      \* per agent, where enroll_node_with_code is
          codeOf,     \* history: the code every session ever made has drawn
          delivered   \* history: devices whose tokens a redemption returned

store == <<session, codeToId>>
db    == <<devices, tokens>>
vars  == <<session, codeToId, devices, tokens, approve, redeem, agent, codeOf,
           delivered>>

Keys == Codes \union Sessions

Status == {"pending_redeem", "pending_approval", "approved", "rejected"}

Session == [user : Users, code : Codes, status : Status,
            candidate : Agents \union {None}, result : Devices \union {None},
            expired : BOOLEAN]

Idle == [op |-> "idle"]

ApproveJob == {Idle}
  \union [op : {"candidate"}, key : Keys, sid : Sessions, user : Users]
  \union [op : {"device", "token"}, key : Keys, sid : Sessions, user : Users,
          dev : Devices]

RedeemJob == {Idle}
  \union [op : {"session"}, sid : Sessions, user : Users]
  \union [op : {"device", "token"}, sid : Sessions, user : Users, dev : Devices]

Agent == [pc : {"off", "poll", "redeem", "fallback", "saved", "failed"},
          key : Keys \union {None}, polls : 0 .. MaxPolls,
          dev : Devices \union {None}]

Init == /\ session = [s \in {} |-> Idle]
        /\ codeToId = [c \in {} |-> None]
        /\ devices = [d \in {} |-> Idle]
        /\ tokens = {}
        /\ approve = [r \in Approvals |-> Idle]
        /\ redeem = [a \in Agents |-> Idle]
        /\ agent = [a \in Agents |-> [pc |-> "off", key |-> None, polls |-> 0, dev |-> None]]
        /\ codeOf = [s \in Sessions |-> None]
        /\ delivered = {}

-----------------------------------------------------------------------------
(* PairingStore *)

Live == DOMAIN session

(* get_by_key, get_mut_by_key: the code index first, then the token index,
   which holds exactly the live sessions. *)
IdOf(k) == IF k \in DOMAIN codeToId THEN codeToId[k] ELSE k

Found(k) == IdOf(k) \in Live

(* Mutated form of Removed: the code stays in the index. *)
Removed_CodeKept(S) ==
  /\ session' = [s \in Live \ S |-> session[s]]
  /\ UNCHANGED codeToId

(* remove: the session goes, and with it whatever its code is indexed to. *)
Removed(S) ==
  /\ session' = [s \in Live \ S |-> session[s]]
  /\ codeToId' = [c \in DOMAIN codeToId \ {session[s].code : s \in S} |-> codeToId[c]]

Usable(k) == Found(k) /\ ~session[IdOf(k)].expired

Set(s, r) == session' = [session EXCEPT ![s] = r]

(* The row a device gets; sid remembers the session it was made from. *)
WithDevice(d, u, s) ==
  [e \in DOMAIN devices \union {d} |->
     IF e = d THEN [user |-> u, sid |-> s] ELSE devices[e]]

-----------------------------------------------------------------------------
(* The server's handlers. *)

(* create_pairing_session: expired sessions are swept, and the new one takes
   over its code in the index, whoever had it. *)
Create(u, c) ==
  \E s \in Sessions :
    LET kept  == {t \in Live : ~session[t].expired}
        codes == DOMAIN codeToId \ {session[t].code : t \in Live \ kept}
    IN  /\ codeOf[s] = None
        /\ codeOf' = [codeOf EXCEPT ![s] = c]
        /\ session' = [t \in kept \union {s} |->
                         IF t = s THEN [user |-> u, code |-> c,
                                        status |-> "pending_redeem", candidate |-> None,
                                        result |-> None, expired |-> FALSE]
                                  ELSE session[t]]
        /\ codeToId' = [d \in codes \union {c} |-> IF d = c THEN s ELSE codeToId[d]]
        /\ UNCHANGED <<db, approve, redeem, agent, delivered>>

(* claim_pairing_session: the last claim wins, and an approval or a refusal
   that was there before is overwritten; redeem_result is kept.  (The branch
   on failed_attempts is dead: nothing increments it.) *)
Claimed(k, a) ==
  Set(IdOf(k), [session[IdOf(k)] EXCEPT !.candidate = a, !.status = "pending_approval"])

(* approve_pairing_session with approved = false. *)
Reject(u, k) ==
  /\ Usable(k)
  /\ session[IdOf(k)].user = u
  /\ Set(IdOf(k), [session[IdOf(k)] EXCEPT !.status = "rejected"])
  /\ UNCHANGED <<codeToId, db, approve, redeem, agent, codeOf, delivered>>

(* approve_pairing_session with approved = true: the first lock section. *)
ApproveBegin(r, u, k) ==
  /\ approve[r] = Idle
  /\ Usable(k)
  /\ session[IdOf(k)].user = u
  /\ session[IdOf(k)].candidate # None
  /\ approve' = [approve EXCEPT ![r] =
       [op |-> "candidate", key |-> k, sid |-> IdOf(k), user |-> session[IdOf(k)].user]]
  /\ UNCHANGED <<store, db, redeem, agent, codeOf, delivered>>

(* INSERT INTO devices *)
ApproveDevice(r) ==
  /\ approve[r].op = "candidate"
  /\ \E d \in Devices \ DOMAIN devices :
       /\ devices' = WithDevice(d, approve[r].user, approve[r].sid)
       /\ approve' = [approve EXCEPT ![r] =
            [op |-> "device", key |-> approve[r].key, sid |-> approve[r].sid,
             user |-> approve[r].user, dev |-> d]]
  /\ UNCHANGED <<store, tokens, redeem, agent, codeOf, delivered>>

(* INSERT INTO refresh_tokens *)
ApproveToken(r) ==
  /\ approve[r].op = "device"
  /\ tokens' = tokens \union {approve[r].dev}
  /\ approve' = [approve EXCEPT ![r].op = "token"]
  /\ UNCHANGED <<store, devices, redeem, agent, codeOf, delivered>>

(* Mutated form of ApproveStore: the result goes to some session of the owner. *)
ApproveStore_AnySession(r) ==
  /\ approve[r].op = "token"
  /\ \E s \in Live :
       /\ session[s].user = approve[r].user
       /\ Set(s, [session[s] EXCEPT !.status = "approved", !.result = approve[r].dev])
  /\ approve' = [approve EXCEPT ![r] = Idle]
  /\ UNCHANGED <<codeToId, db, redeem, agent, codeOf, delivered>>

(* The second lock section looks the session up again by the caller's key. *)
ApproveStore(r) ==
  /\ approve[r].op = "token"
  /\ IF Found(approve[r].key)
       THEN Set(IdOf(approve[r].key),
                [session[IdOf(approve[r].key)] EXCEPT !.status = "approved",
                                                      !.result = approve[r].dev])
       ELSE UNCHANGED session
  /\ approve' = [approve EXCEPT ![r] = Idle]
  /\ UNCHANGED <<codeToId, db, redeem, agent, codeOf, delivered>>

(* The handler is dropped at an await: what it wrote stays. *)
ApproveAbort(r) ==
  /\ approve[r] # Idle
  /\ approve' = [approve EXCEPT ![r] = Idle]
  /\ UNCHANGED <<store, db, redeem, agent, codeOf, delivered>>

-----------------------------------------------------------------------------
(* redeem_pairing_session, for agent a.  An answer reaches the agent if it is
   still waiting for one. *)

Waiting(a) == agent[a].pc \in {"redeem", "fallback"}

Answer(a, d) ==
  /\ delivered' = delivered \union {d}
  /\ agent' = IF Waiting(a) THEN [agent EXCEPT ![a].pc = "saved", ![a].dev = d] ELSE agent

(* An error sends a polling agent back to its loop and ends one that was in
   its last, direct attempt. *)
Refusal(a) ==
  agent' = [agent EXCEPT ![a].pc = IF @ = "redeem" THEN "poll"
                                   ELSE IF @ = "fallback" THEN "failed" ELSE @]

(* The first lock section refuses ... *)
RedeemRefused(a) ==
  /\ Waiting(a)
  /\ redeem[a] = Idle
  /\ LET k == agent[a].key
     IN  Usable(k) =>
           \/ session[IdOf(k)].status = "rejected"
           \/ session[IdOf(k)].result = None /\ session[IdOf(k)].status = "pending_approval"
  /\ Refusal(a)
  /\ UNCHANGED <<store, db, approve, redeem, codeOf, delivered>>

(* Mutated form of RedeemResult: the session is not consumed. *)
RedeemResult_NotConsumed(a) ==
  LET k == agent[a].key
  IN  /\ Waiting(a)
      /\ redeem[a] = Idle
      /\ Usable(k)
      /\ session[IdOf(k)].status # "rejected"
      /\ session[IdOf(k)].result # None
      /\ Answer(a, session[IdOf(k)].result)
      /\ UNCHANGED <<store, db, approve, redeem, codeOf>>

(* ... or returns the result an approval has stored, and removes the session ... *)
RedeemResult(a) ==
  LET k == agent[a].key
  IN  /\ Waiting(a)
      /\ redeem[a] = Idle
      /\ Usable(k)
      /\ session[IdOf(k)].status # "rejected"
      /\ session[IdOf(k)].result # None
      /\ Answer(a, session[IdOf(k)].result)
      /\ Removed({IdOf(k)})
      /\ UNCHANGED <<db, approve, redeem, codeOf>>

(* ... or goes on to enrol the device directly. *)
RedeemBegin(a) ==
  LET k == agent[a].key
  IN  /\ Waiting(a)
      /\ redeem[a] = Idle
      /\ Usable(k)
      /\ session[IdOf(k)].status \notin {"rejected", "pending_approval"}
      /\ session[IdOf(k)].result = None
      /\ redeem' = [redeem EXCEPT ![a] = [op |-> "session", sid |-> IdOf(k),
                                          user |-> session[IdOf(k)].user]]
      /\ UNCHANGED <<store, db, approve, agent, codeOf, delivered>>

RedeemDevice(a) ==
  /\ redeem[a].op = "session"
  /\ \E d \in Devices \ DOMAIN devices :
       /\ devices' = WithDevice(d, redeem[a].user, redeem[a].sid)
       /\ redeem' = [redeem EXCEPT ![a] = [op |-> "device", sid |-> redeem[a].sid,
                                           user |-> redeem[a].user, dev |-> d]]
  /\ UNCHANGED <<store, tokens, approve, agent, codeOf, delivered>>

RedeemToken(a) ==
  /\ redeem[a].op = "device"
  /\ tokens' = tokens \union {redeem[a].dev}
  /\ redeem' = [redeem EXCEPT ![a].op = "token"]
  /\ UNCHANGED <<store, devices, approve, agent, codeOf, delivered>>

(* Mutated form of RedeemEnd: the answer does not wait for the token. *)
RedeemEnd_Early(a) ==
  /\ redeem[a].op \in {"device", "token"}
  /\ Answer(a, redeem[a].dev)
  /\ Removed({redeem[a].sid} \intersect Live)
  /\ redeem' = [redeem EXCEPT ![a] = Idle]
  /\ UNCHANGED <<db, approve, codeOf>>

(* The second lock section removes the session by its id, if it is still
   there, and the handler answers either way. *)
RedeemEnd(a) ==
  /\ redeem[a].op = "token"
  /\ Answer(a, redeem[a].dev)
  /\ Removed({redeem[a].sid} \intersect Live)
  /\ redeem' = [redeem EXCEPT ![a] = Idle]
  /\ UNCHANGED <<db, approve, codeOf>>

-----------------------------------------------------------------------------
(* The agent: enroll_node_with_code. *)

(* It claims the session, if the request gets through and is accepted, and
   starts polling in any case but one: it cannot decode the answer. *)
AgentClaim(a, k) ==
  /\ agent[a].pc = "off"
  /\ Found(k)
  /\ \/ /\ Usable(k) /\ Claimed(k, a)
        /\ \E pc \in {"poll", "failed"} : agent' = [agent EXCEPT ![a].pc = pc, ![a].key = k]
     \/ /\ UNCHANGED session
        /\ agent' = [agent EXCEPT ![a].pc = "poll", ![a].key = k]
  /\ UNCHANGED <<codeToId, db, approve, redeem, codeOf, delivered>>

(* What get_pairing_status reports; an expired session is reported as such. *)
StatusOf(k) == IF Usable(k) THEN session[IdOf(k)].status ELSE "unknown"

(* What the agent does with it; an answer it cannot decode ends it. *)
AfterPoll(seen) == IF seen = "approved" THEN "redeem"
                   ELSE IF seen \in {"rejected", "garbled"} THEN "failed" ELSE "poll"

(* Mutated forms of AgentPoll: one poll too many; a count that starts again
   with every error. *)
AgentPoll_OneMore(a) ==
  /\ agent[a].pc = "poll"
  /\ agent[a].polls <= MaxPolls
  /\ \E seen \in {StatusOf(agent[a].key), "unknown", "garbled"} :
       agent' = [agent EXCEPT ![a].polls = @ + 1, ![a].pc = AfterPoll(seen)]
  /\ UNCHANGED <<store, db, approve, redeem, codeOf, delivered>>

AgentPoll_CountRestarts(a) ==
  /\ agent[a].pc = "poll"
  /\ agent[a].polls < MaxPolls
  /\ \E seen \in {StatusOf(agent[a].key), "unknown", "garbled"} :
       agent' = [agent EXCEPT ![a].polls = IF seen = "unknown" THEN 0 ELSE @ + 1,
                              ![a].pc = AfterPoll(seen)]
  /\ UNCHANGED <<store, db, approve, redeem, codeOf, delivered>>

(* One turn of the polling loop; an error of the poll itself is ignored. *)
AgentPoll(a) ==
  /\ agent[a].pc = "poll"
  /\ agent[a].polls < MaxPolls
  /\ \E seen \in {StatusOf(agent[a].key), "unknown", "garbled"} :
       agent' = [agent EXCEPT ![a].polls = @ + 1, ![a].pc = AfterPoll(seen)]
  /\ UNCHANGED <<store, db, approve, redeem, codeOf, delivered>>

(* After the last poll it tries to redeem directly. *)
AgentFallback(a) ==
  /\ agent[a].pc = "poll"
  /\ agent[a].polls = MaxPolls
  /\ agent' = [agent EXCEPT ![a].pc = "fallback"]
  /\ UNCHANGED <<store, db, approve, redeem, codeOf, delivered>>

(* The request times out or the answer is lost: the agent gives up, the server
   may finish. *)
AgentTimeout(a) ==
  /\ Waiting(a)
  /\ agent' = [agent EXCEPT ![a].pc = "failed"]
  /\ redeem' \in {redeem, [redeem EXCEPT ![a] = Idle]}
  /\ UNCHANGED <<store, db, approve, codeOf, delivered>>

-----------------------------------------------------------------------------
(* A session's time to live runs out. *)
Expire(s) ==
  /\ s \in Live
  /\ ~session[s].expired
  /\ Set(s, [session[s] EXCEPT !.expired = TRUE])
  /\ UNCHANGED <<codeToId, db, approve, redeem, agent, codeOf, delivered>>

(* The server restarts: the store is memory only, the database is not, and
   clients with a request in flight see it fail. *)
Restart ==
  /\ session' = [s \in {} |-> Idle]
  /\ codeToId' = [c \in {} |-> None]
  /\ approve' = [r \in Approvals |-> Idle]
  /\ redeem' = [a \in Agents |-> Idle]
  /\ agent' = [a \in Agents |-> IF Waiting(a) THEN [agent[a] EXCEPT !.pc = "failed"] ELSE agent[a]]
  /\ UNCHANGED <<db, codeOf, delivered>>

ApproveStep(r) == ApproveDevice(r) \/ ApproveToken(r) \/ ApproveStore(r)

RedeemStep(a) == RedeemRefused(a) \/ RedeemResult(a) \/ RedeemBegin(a)
                   \/ RedeemDevice(a) \/ RedeemToken(a) \/ RedeemEnd(a)

AgentStep(a) == AgentPoll(a) \/ AgentFallback(a)

Next ==
  \/ \E u \in Users :
       \/ \E c \in Codes : Create(u, c)
       \/ \E k \in Keys : Reject(u, k)
       \/ \E k \in Keys, r \in Approvals : ApproveBegin(r, u, k)
  \/ \E r \in Approvals : ApproveStep(r) \/ ApproveAbort(r)
  \/ \E a \in Agents :
       \/ RedeemStep(a)
       \/ AgentStep(a)
       \/ AgentTimeout(a)
       \/ \E k \in Keys : AgentClaim(a, k)
  \/ \E s \in Sessions : Expire(s)
  \/ Restart

Spec == Init /\ [][Next]_vars

(* The agent's loop runs on, and the server finishes what it has started: the
   agent never waits longer than its client's ten-second timeout. *)
FairSpec ==
  /\ Spec
  /\ \A a \in Agents : WF_vars(AgentStep(a)) /\ WF_vars(RedeemStep(a) \/ AgentTimeout(a))

-----------------------------------------------------------------------------
(* Properties. *)

(* The store, the tables and the agents have the shape the code gives them. *)
TypeOK ==
  /\ Live \subseteq Sessions
  /\ session \in [Live -> Session]
  /\ DOMAIN codeToId \subseteq Codes
  /\ codeToId \in [DOMAIN codeToId -> Sessions]
  /\ DOMAIN devices \subseteq Devices
  /\ devices \in [DOMAIN devices -> [user : Users, sid : Sessions]]
  /\ tokens \subseteq Devices
  /\ approve \in [Approvals -> ApproveJob]
  /\ redeem \in [Agents -> RedeemJob]
  /\ agent \in [Agents -> Agent]
  /\ codeOf \in [Sessions -> Codes \union {None}]
  /\ delivered \subseteq Devices

(* A code in the index always leads to a live session that shows this code,
   through collisions, sweeps, redemptions and removals of either session. *)
IndexSound ==
  \A c \in DOMAIN codeToId :
    codeToId[c] \in Live /\ session[codeToId[c]].code = c

(* Two agents never end up with the same device identity: what an approval
   stored is handed out by one redemption only, and a direct enrolment makes
   its own device. *)
NoSharedIdentity ==
  \A a, b \in Agents :
    agent[a].dev # None /\ agent[a].dev = agent[b].dev => a = b

(* An agent that saved its configuration is known to the server: the device
   exists and its refresh token was stored before the answer went out. *)
SavedAgentIsKnown ==
  \A a \in Agents : agent[a].pc = "saved" =>
    agent[a].dev \in DOMAIN devices /\ agent[a].dev \in tokens

Reused(c) == \E s, t \in Sessions : s # t /\ codeOf[s] = c /\ codeOf[t] = c

(* The result an approval stores in a session is the device made for that
   session, although the second lock section looks the session up by the
   caller's key again; only a code that was drawn twice can lead elsewhere. *)
ResultOfOwnSession ==
  \A s \in Live :
    session[s].result # None /\ ~Reused(session[s].code)
      => devices[session[s].result].sid = s

(* An agent that has started ends: enrolled or told that it failed. *)
AgentEnds ==
  \A a \in Agents : agent[a].pc # "off" ~> agent[a].pc \in {"saved", "failed"}

(* What redeem_pairing_session says of itself, "Invalidate pairing session
   immediately (single use)": one session enrols one device. *)
SingleUse ==
  \A d, e \in delivered : devices[d].sid = devices[e].sid => d = e
=============================================================================
