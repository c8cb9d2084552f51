--------------------------- MODULE PairingProofs ----------------------------
(***************************************************************************)
(* Proofs about Pairing, for any number of sessions, codes, devices, users *)
(* and agents, and of requests in flight.                                  *)
(*                                                                         *)
(* approve_pairing_session and redeem_pairing_session let go of the store  *)
(* between their two lock sections.  What makes an identity end with one   *)
(* agent is that it is never in two hands: a device is held by the request *)
(* that made it, then by the session whose result it is, then by the agent *)
(* it was given to, and every step passes it on or drops it.               *)
(***************************************************************************)
EXTENDS Pairing, TLAPS

(* Whoever may hold a device, and the device it holds. *)
Holder == ({"approve"} \X Approvals) \union ({"redeem"} \X Agents)
            \union ({"session"} \X Sessions) \union ({"agent"} \X Agents)

Holds(h, d) ==
  \/ h[1] = "approve" /\ approve[h[2]].op \in {"device", "token"} /\ approve[h[2]].dev = d
  \/ h[1] = "redeem" /\ redeem[h[2]].op \in {"device", "token"} /\ redeem[h[2]].dev = d
  \/ h[1] = "session" /\ h[2] \in Live /\ session[h[2]].result = d
  \/ h[1] = "agent" /\ agent[h[2]].dev = d

OneHolder ==
  \A d \in Devices : \A g, h \in Holder : Holds(g, d) /\ Holds(h, d) => g = h

(* Who has a token stored for the device it holds. *)
Settled(h) ==
  \/ h[1] = "approve" /\ approve[h[2]].op = "token"
  \/ h[1] = "redeem" /\ redeem[h[2]].op = "token"
  \/ h[1] \in {"session", "agent"}

(* What is held is in the database. *)
HeldIsKnown ==
  \A d \in Devices : \A h \in Holder : Holds(h, d) =>
    d \in DOMAIN devices /\ (Settled(h) => d \in tokens)

SavedHolds == \A a \in Agents : agent[a].pc = "saved" => agent[a].dev \in Devices

CodesRecorded == \A s \in Live : codeOf[s] = session[s].code

(* The key of an approval is the id of its session or a code it has drawn, and
   the device it made names that session. *)
ApprovalOf(r) ==
  approve[r] # Idle =>
    /\ \/ approve[r].key = approve[r].sid
       \/ approve[r].key \in Codes /\ codeOf[approve[r].sid] = approve[r].key
    /\ approve[r].op \in {"device", "token"} =>
         devices[approve[r].dev].sid = approve[r].sid

(* The inductive invariant. *)
Inv ==
  /\ TypeOK
  /\ IndexSound
  /\ CodesRecorded
  /\ OneHolder
  /\ HeldIsKnown
  /\ SavedHolds
  /\ \A r \in Approvals : ApprovalOf(r)
  /\ ResultOfOwnSession


(* What the database loses: nothing. *)
DbGrows ==
  /\ \A d \in DOMAIN devices : d \in DOMAIN devices' /\ devices'[d] = devices[d]
  /\ \A d \in tokens : d \in tokens'

(* A step after which nobody holds what it did not hold before. *)
NothingGained ==
  \A d \in Devices : \A h \in Holder :
    Holds(h, d)' => Holds(h, d) /\ (Settled(h)' => Settled(h))

-----------------------------------------------------------------------------
(* What TypeOK says of requests in flight and of the agents. *)
LEMMA ApproveFields ==
  ASSUME TypeOK, NEW r \in Approvals
  PROVE  /\ approve[r] # Idle =>
              approve[r].key \in Keys /\ approve[r].sid \in Sessions /\ approve[r].user \in Users
         /\ approve[r].op \in {"device", "token"} =>
              approve[r] \in [op : {"device", "token"}, key : Keys, sid : Sessions,
                              user : Users, dev : Devices]
         /\ approve[r] # Idle <=> approve[r].op # "idle"
         /\ approve[r].op \in {"idle", "candidate", "device", "token"}
<1>1. approve[r] \in ApproveJob
  BY DEF TypeOK
<1> QED
  BY <1>1 DEF ApproveJob, Idle

LEMMA RedeemFields ==
  ASSUME TypeOK, NEW a \in Agents
  PROVE  /\ redeem[a] # Idle => redeem[a].sid \in Sessions /\ redeem[a].user \in Users
         /\ redeem[a].op \in {"device", "token"} =>
              redeem[a] \in [op : {"device", "token"}, sid : Sessions, user : Users,
                             dev : Devices]
         /\ redeem[a] # Idle <=> redeem[a].op # "idle"
         /\ redeem[a].op \in {"idle", "session", "device", "token"}
<1>1. redeem[a] \in RedeemJob
  BY DEF TypeOK
<1> QED
  BY <1>1 DEF RedeemJob, Idle

(* A key that is found is the id of a session or a code in the index. *)
LEMMA KeyLeads ==
  ASSUME TypeOK, IndexSound, NEW k \in Keys, Found(k)
  PROVE  /\ IdOf(k) \in Live /\ IdOf(k) \in Sessions /\ session[IdOf(k)] \in Session
         /\ \/ IdOf(k) = k
            \/ k \in Codes /\ session[IdOf(k)].code = k
BY KeyAssumption DEF TypeOK, IndexSound, Found, IdOf, Keys

(* A device that passes into the hands of g, and of nobody else. *)
LEMMA HolderStep ==
  ASSUME Inv, DbGrows, NEW g \in Holder, NEW e \in Devices,
         \A d \in Devices : \A h \in Holder :
           Holds(h, d)' => \/ d # e /\ Holds(h, d) /\ (Settled(h)' => Settled(h))
                           \/ d = e /\ h = g,
         e \in DOMAIN devices',
         Settled(g)' => e \in tokens'
  PROVE  OneHolder' /\ HeldIsKnown'
<1>1. OneHolder'
  BY DEF Inv, OneHolder
<1>2. HeldIsKnown'
  BY DEF Inv, HeldIsKnown, DbGrows
<1> QED
  BY <1>1, <1>2

LEMMA NothingGainedStep ==
  ASSUME Inv, DbGrows, NothingGained
  PROVE  OneHolder' /\ HeldIsKnown'
<1>1. OneHolder'
  BY DEF Inv, OneHolder, NothingGained
<1>2. HeldIsKnown'
  BY DEF Inv, HeldIsKnown, DbGrows, NothingGained
<1> QED
  BY <1>1, <1>2

(* Sessions whose results stay or go: results are of their own session still. *)
LEMMA ResultsKept ==
  ASSUME Inv, DbGrows,
         \A s \in Live' :
           session'[s].result # None =>
             /\ s \in Live
             /\ session'[s].result = session[s].result
             /\ session'[s].code = session[s].code,
         \A s \in Sessions : codeOf[s] # None => codeOf'[s] = codeOf[s]
  PROVE  ResultOfOwnSession'
<1>1. ASSUME NEW c \in Codes, Reused(c) PROVE Reused(c)'
  BY <1>1, NoneAssumption DEF Reused
<1> SUFFICES ASSUME NEW s \in Live', session'[s].result # None, ~Reused(session[s].code)'
             PROVE  devices'[session'[s].result].sid = s
  BY DEF ResultOfOwnSession
<1>2. /\ s \in Live /\ s \in Sessions /\ session[s] \in Session
      /\ session'[s].result = session[s].result /\ session'[s].code = session[s].code
  BY DEF Inv, TypeOK
<1>3. session[s].code \in Codes /\ session[s].result \in Devices
  BY <1>2 DEF Session
<1>4. ~Reused(session[s].code)
  BY <1>1, <1>2, <1>3
<1>5. devices[session[s].result].sid = s
  BY <1>2, <1>4 DEF Inv, ResultOfOwnSession
<1>6. session[s].result \in DOMAIN devices
  <2>1. <<"session", s>> \in Holder /\ Holds(<<"session", s>>, session[s].result)
    BY <1>2 DEF Holder, Holds
  <2> QED
    BY <1>3, <2>1 DEF Inv, HeldIsKnown
<1> QED
  BY <1>2, <1>5, <1>6 DEF DbGrows

(* Approvals that stay as they are, or end. *)
LEMMA ApprovalsKept ==
  ASSUME Inv, DbGrows,
         \A r \in Approvals : approve'[r] \in {approve[r], Idle},
         \A s \in Sessions : codeOf[s] # None => codeOf'[s] = codeOf[s]
  PROVE  \A r \in Approvals : ApprovalOf(r)'
<1> SUFFICES ASSUME NEW r \in Approvals, approve'[r] = approve[r], approve[r] # Idle
             PROVE  ApprovalOf(r)'
  BY DEF ApprovalOf
<1>1. ApprovalOf(r) /\ TypeOK
  BY DEF Inv
<1>2. approve[r].sid \in Sessions /\ approve[r].key \in Keys
  BY <1>1, ApproveFields
<1>3. ASSUME approve[r].op \in {"device", "token"}
      PROVE  approve[r].dev \in DOMAIN devices
  <2>1. /\ <<"approve", r>> \in Holder /\ Holds(<<"approve", r>>, approve[r].dev)
        /\ approve[r].dev \in Devices
    BY <1>1, <1>3, ApproveFields DEF Holder, Holds
  <2> QED
    BY <2>1 DEF Inv, HeldIsKnown
<1> QED
  BY <1>1, <1>2, <1>3, NoneAssumption DEF ApprovalOf, DbGrows

(* A device's record in the session is none of the request's: a step that keeps
   every session's code and result, ends requests at most, and moves agents
   without giving them a device. *)
LEMMA QuietStep ==
  ASSUME Inv, UNCHANGED <<codeToId, devices, tokens, codeOf, delivered>>,
         session' \in [Live -> Session],
         \A s \in Live : /\ session'[s].code = session[s].code
                         /\ session'[s].result = session[s].result,
         approve' \in [Approvals -> ApproveJob],
         \A r \in Approvals : approve'[r] \in {approve[r], Idle},
         redeem' \in [Agents -> RedeemJob],
         \A a \in Agents : redeem'[a].op \in {"device", "token"} => redeem'[a] = redeem[a],
         agent' \in [Agents -> Agent],
         \A a \in Agents : /\ agent'[a].dev = agent[a].dev
                           /\ agent'[a].pc = "saved" => agent[a].pc = "saved"
  PROVE  Inv'
<1>1. DOMAIN session' = Live /\ Live' = Live
  BY DEF Live
<1>2. TypeOK'
  BY <1>1 DEF Inv, TypeOK
<1>3. IndexSound' /\ CodesRecorded'
  BY <1>1 DEF Inv, IndexSound, CodesRecorded
<1>4. DbGrows
  BY DEF DbGrows
<1>5. NothingGained
  <2> SUFFICES ASSUME NEW d \in Devices, NEW h \in Holder, Holds(h, d)'
               PROVE  Holds(h, d) /\ (Settled(h)' => Settled(h))
    BY DEF NothingGained
  <2>1. CASE h \in {"approve"} \X Approvals
    BY <2>1 DEF Holds, Settled, Idle
  <2>2. CASE h \in {"redeem"} \X Agents
    BY <2>2 DEF Holds, Settled
  <2>3. CASE h \in {"session"} \X Sessions
    BY <1>1, <2>3 DEF Holds, Settled
  <2>4. CASE h \in {"agent"} \X Agents
    BY <2>4 DEF Holds, Settled
  <2> QED
    BY <2>1, <2>2, <2>3, <2>4 DEF Holder
<1>6. OneHolder' /\ HeldIsKnown'
  BY <1>4, <1>5, NothingGainedStep
<1>7. SavedHolds'
  BY DEF Inv, SavedHolds
<1>8. \A r \in Approvals : ApprovalOf(r)'
  BY <1>4, ApprovalsKept
<1>9. ResultOfOwnSession'
  BY <1>1, <1>4, ResultsKept
<1> QED
  BY <1>2, <1>3, <1>6, <1>7, <1>8, <1>9 DEF Inv

-----------------------------------------------------------------------------
(* The handlers that hold the lock throughout *)
LEMMA CreateStep ==
  ASSUME Inv, NEW u \in Users, NEW c \in Codes, Create(u, c)
  PROVE  Inv'
<1> DEFINE kept == {t \in Live : ~session[t].expired}
           codes == DOMAIN codeToId \ {session[t].code : t \in Live \ kept}
           new == [user |-> u, code |-> c, status |-> "pending_redeem", candidate |-> None,
                   result |-> None, expired |-> FALSE]
<1>1. PICK s \in Sessions :
        /\ codeOf[s] = None
        /\ codeOf' = [codeOf EXCEPT ![s] = c]
        /\ session' = [t \in kept \union {s} |-> IF t = s THEN new ELSE session[t]]
        /\ codeToId' = [d \in codes \union {c} |-> IF d = c THEN s ELSE codeToId[d]]
  BY DEF Create
<1>2. UNCHANGED <<devices, tokens, approve, redeem, agent, delivered>>
  BY DEF Create, db
<1>3. s \notin Live
  BY <1>1, NoneAssumption DEF Inv, CodesRecorded, TypeOK, Session
<1>4. new \in Session /\ new.code = c /\ new.result = None
  BY DEF Session, Status
<1> HIDE DEF new
<1>5. /\ Live' = kept \union {s} /\ session'[s] = new
      /\ \A t \in kept : t # s /\ session'[t] = session[t] /\ session'[t] \in Session
  BY <1>1, <1>3 DEF Live, Inv, TypeOK
<1>6. /\ DOMAIN codeToId' = codes \union {c} /\ codeToId'[c] = s
      /\ \A d \in codes : d # c => codeToId'[d] = codeToId[d]
  BY <1>1
<1>7. codeOf' \in [Sessions -> Codes \union {None}]
      /\ \A t \in Sessions : t # s => codeOf'[t] = codeOf[t]
  BY <1>1 DEF Inv, TypeOK
<1>8. TypeOK'
  BY <1>1, <1>2, <1>4, <1>5, <1>6, <1>7 DEF Inv, TypeOK
<1>9. IndexSound'
  <2> SUFFICES ASSUME NEW d \in codes, d # c
               PROVE  codeToId[d] \in kept /\ session[codeToId[d]].code = d
    BY <1>4, <1>5, <1>6 DEF IndexSound
  <2> QED
    BY DEF Inv, IndexSound
<1>10. CodesRecorded'
  BY <1>1, <1>4, <1>5, <1>7 DEF Inv, TypeOK, CodesRecorded
<1>11. DbGrows
  BY <1>2 DEF DbGrows
<1>12. NothingGained
  BY <1>2, <1>4, <1>5, NoneAssumption DEF NothingGained, Holds, Settled
<1>13. OneHolder' /\ HeldIsKnown'
  BY <1>11, <1>12, NothingGainedStep
<1>14. SavedHolds'
  BY <1>2 DEF Inv, SavedHolds
<1>15. \A r \in Approvals : ApprovalOf(r)'
  BY <1>1, <1>2, <1>7, <1>11, ApprovalsKept
<1>16. ResultOfOwnSession'
  BY <1>1, <1>4, <1>5, <1>7, <1>11, ResultsKept
<1> QED
  BY <1>8, <1>9, <1>10, <1>13, <1>14, <1>15, <1>16 DEF Inv

LEMMA RejectStep ==
  ASSUME Inv, NEW u \in Users, NEW k \in Keys, Reject(u, k)
  PROVE  Inv'
<1>1. IdOf(k) \in Live /\ session[IdOf(k)] \in Session
  BY KeyLeads DEF Reject, Usable, Inv
<1>2. [session[IdOf(k)] EXCEPT !.status = "rejected"] \in Session
  BY <1>1 DEF Session, Status
<1>3. session' = [session EXCEPT ![IdOf(k)] = [session[IdOf(k)] EXCEPT !.status = "rejected"]]
  BY DEF Reject, Set
<1>4. /\ session' \in [Live -> Session]
      /\ \A s \in Live : session'[s].code = session[s].code
                         /\ session'[s].result = session[s].result
  BY <1>1, <1>2, <1>3 DEF Inv, TypeOK, Session
<1> QED
  BY <1>4, QuietStep DEF Reject, db, Inv, TypeOK

LEMMA ExpireStep ==
  ASSUME Inv, NEW s \in Sessions, Expire(s)
  PROVE  Inv'
<1>1. s \in Live /\ session[s] \in Session
  BY DEF Expire, Inv, TypeOK
<1>2. [session[s] EXCEPT !.expired = TRUE] \in Session
  BY <1>1 DEF Session
<1>3. /\ session' \in [Live -> Session]
      /\ \A t \in Live : session'[t].code = session[t].code
                         /\ session'[t].result = session[t].result
  BY <1>1, <1>2 DEF Inv, TypeOK, Session, Expire, Set
<1> QED
  BY <1>3, QuietStep DEF Expire, db, Inv, TypeOK

-----------------------------------------------------------------------------
(* approve_pairing_session *)
LEMMA ApproveBeginStep ==
  ASSUME Inv, NEW r \in Approvals, NEW u \in Users, NEW k \in Keys, ApproveBegin(r, u, k)
  PROVE  Inv'
<1> DEFINE J == [op |-> "candidate", key |-> k, sid |-> IdOf(k), user |-> session[IdOf(k)].user]
<1>1. UNCHANGED <<session, codeToId, devices, tokens, redeem, agent, codeOf, delivered>>
  BY DEF ApproveBegin, store, db
<1>2. /\ IdOf(k) \in Live /\ IdOf(k) \in Sessions /\ session[IdOf(k)] \in Session
      /\ IdOf(k) = k \/ (k \in Codes /\ session[IdOf(k)].code = k)
  BY KeyLeads DEF ApproveBegin, Usable, Inv
<1>3. J \in ApproveJob /\ J.op = "candidate" /\ J.key = k /\ J.sid = IdOf(k)
  BY <1>2 DEF ApproveJob, Session
<1>4. approve' = [approve EXCEPT ![r] = J]
  BY DEF ApproveBegin
<1> HIDE DEF J
<1>5. /\ approve' \in [Approvals -> ApproveJob] /\ approve'[r] = J
      /\ \A q \in Approvals : q # r => approve'[q] = approve[q]
  BY <1>3, <1>4 DEF Inv, TypeOK
<1>6. TypeOK' /\ IndexSound' /\ CodesRecorded' /\ SavedHolds'
  BY <1>1, <1>5 DEF Inv, TypeOK, Live, IndexSound, CodesRecorded, SavedHolds
<1>7. DbGrows
  BY <1>1 DEF DbGrows
<1>8. NothingGained
  BY <1>1, <1>3, <1>5 DEF NothingGained, Holder, Holds, Settled, Live
<1>9. OneHolder' /\ HeldIsKnown'
  BY <1>7, <1>8, NothingGainedStep
<1>10. ApprovalOf(r)'
  <2>1. codeOf'[J.sid] = session[J.sid].code
    BY <1>1, <1>2, <1>3 DEF Inv, CodesRecorded
  <2> QED
    BY <1>2, <1>3, <1>5, <2>1 DEF ApprovalOf
<1>11. \A q \in Approvals : ApprovalOf(q)'
  BY <1>1, <1>5, <1>10 DEF Inv, ApprovalOf
<1>12. ResultOfOwnSession'
  BY <1>1, <1>7, ResultsKept DEF Live
<1> QED
  BY <1>6, <1>9, <1>11, <1>12 DEF Inv

(* A row of a new device is added. *)
LEMMA DeviceAdded ==
  ASSUME Inv, NEW d \in Devices \ DOMAIN devices, NEW u \in Users, NEW s \in Sessions,
         devices' = WithDevice(d, u, s), tokens' = tokens
  PROVE  /\ DbGrows
         /\ DOMAIN devices' = DOMAIN devices \union {d}
         /\ DOMAIN devices' \subseteq Devices
         /\ devices' \in [DOMAIN devices' -> [user : Users, sid : Sessions]]
         /\ devices'[d].sid = s
         /\ \A h \in Holder : ~Holds(h, d)
<1>1. /\ DOMAIN devices' = DOMAIN devices \union {d} /\ devices'[d] = [user |-> u, sid |-> s]
      /\ \A e \in DOMAIN devices : e # d /\ devices'[e] = devices[e]
  BY DEF WithDevice
<1>2. DbGrows
  BY <1>1 DEF DbGrows
<1>3. /\ DOMAIN devices' \subseteq Devices
      /\ devices' \in [DOMAIN devices' -> [user : Users, sid : Sessions]]
  BY <1>1 DEF WithDevice, Inv, TypeOK
<1>4. \A h \in Holder : ~Holds(h, d)
  BY DEF Inv, HeldIsKnown
<1> QED
  BY <1>1, <1>2, <1>3, <1>4

LEMMA ApproveDeviceStep ==
  ASSUME Inv, NEW r \in Approvals, ApproveDevice(r)
  PROVE  Inv'
<1>1. UNCHANGED <<session, codeToId, tokens, redeem, agent, codeOf, delivered>>
      /\ approve[r].op = "candidate"
  BY DEF ApproveDevice, store
<1>2. PICK d \in Devices \ DOMAIN devices :
        /\ devices' = WithDevice(d, approve[r].user, approve[r].sid)
        /\ approve' = [approve EXCEPT ![r] =
             [op |-> "device", key |-> approve[r].key, sid |-> approve[r].sid,
              user |-> approve[r].user, dev |-> d]]
  BY DEF ApproveDevice
<1> DEFINE J == [op |-> "device", key |-> approve[r].key, sid |-> approve[r].sid,
                 user |-> approve[r].user, dev |-> d]
<1>3. approve[r] # Idle /\ approve[r].key \in Keys /\ approve[r].sid \in Sessions
      /\ approve[r].user \in Users
  BY <1>1, ApproveFields DEF Inv
<1>4. /\ J \in ApproveJob /\ J.op = "device" /\ J.key = approve[r].key
      /\ J.sid = approve[r].sid /\ J.dev = d /\ J # Idle
  BY <1>3 DEF ApproveJob, Idle
<1>5. approve' = [approve EXCEPT ![r] = J]
  BY <1>2
<1> HIDE DEF J
<1>6. /\ approve' \in [Approvals -> ApproveJob] /\ approve'[r] = J
      /\ \A q \in Approvals : q # r => approve'[q] = approve[q]
  BY <1>4, <1>5 DEF Inv, TypeOK
<1>7. /\ DbGrows /\ DOMAIN devices' = DOMAIN devices \union {d}
      /\ DOMAIN devices' \subseteq Devices
      /\ devices' \in [DOMAIN devices' -> [user : Users, sid : Sessions]]
      /\ devices'[d].sid = approve[r].sid
      /\ \A h \in Holder : ~Holds(h, d)
  BY <1>1, <1>2, <1>3, DeviceAdded
<1>8. TypeOK' /\ IndexSound' /\ CodesRecorded' /\ SavedHolds'
  BY <1>1, <1>6, <1>7 DEF Inv, TypeOK, Live, IndexSound, CodesRecorded, SavedHolds
<1>9. OneHolder' /\ HeldIsKnown'
  <2>1. <<"approve", r>> \in Holder /\ ~Settled(<<"approve", r>>)'
    BY <1>4, <1>6 DEF Holder, Settled
  <2>2. ASSUME NEW e \in Devices, NEW h \in Holder, Holds(h, e)'
        PROVE  \/ e # d /\ Holds(h, e) /\ (Settled(h)' => Settled(h))
               \/ e = d /\ h = <<"approve", r>>
    <3>1. CASE h = <<"approve", r>>
      BY <1>4, <1>6, <2>2, <3>1 DEF Holds
    <3>2. CASE h # <<"approve", r>>
      <4>1. Holds(h, e) /\ (Settled(h)' => Settled(h))
        BY <1>1, <1>6, <2>2, <3>2 DEF Holder, Holds, Settled, Live
      <4> QED
        BY <1>7, <4>1
    <3> QED
      BY <3>1, <3>2
  <2> QED
    BY <1>7, <2>1, <2>2, HolderStep
<1>10. ApprovalOf(r)'
  BY <1>1, <1>3, <1>4, <1>6, <1>7 DEF ApprovalOf, Inv
<1>11. \A q \in Approvals : ApprovalOf(q)'
  <2> SUFFICES ASSUME NEW q \in Approvals, q # r, approve[q] # Idle PROVE ApprovalOf(q)'
    BY <1>6, <1>10 DEF ApprovalOf
  <2>1. ASSUME approve[q].op \in {"device", "token"} PROVE approve[q].dev \in DOMAIN devices
    <3>1. <<"approve", q>> \in Holder /\ Holds(<<"approve", q>>, approve[q].dev)
          /\ approve[q].dev \in Devices
      BY <2>1, ApproveFields DEF Holder, Holds, Inv
    <3> QED
      BY <3>1 DEF Inv, HeldIsKnown
  <2> QED
    BY <1>1, <1>6, <1>7, <2>1 DEF ApprovalOf, Inv, DbGrows
<1>12. ResultOfOwnSession'
  BY <1>1, <1>7, ResultsKept DEF Live
<1> QED
  BY <1>8, <1>9, <1>11, <1>12 DEF Inv

LEMMA ApproveTokenStep ==
  ASSUME Inv, NEW r \in Approvals, ApproveToken(r)
  PROVE  Inv'
<1>1. /\ UNCHANGED <<session, codeToId, devices, redeem, agent, codeOf, delivered>>
      /\ approve[r].op = "device" /\ tokens' = tokens \union {approve[r].dev}
      /\ approve' = [approve EXCEPT ![r].op = "token"]
  BY DEF ApproveToken, store
<1> DEFINE J == [approve[r] EXCEPT !.op = "token"]
<1>2. approve[r] \in [op : {"device", "token"}, key : Keys, sid : Sessions,
                      user : Users, dev : Devices]
  BY <1>1, ApproveFields DEF Inv
<1>3. /\ J \in ApproveJob /\ J.op = "token" /\ J.key = approve[r].key
      /\ J.sid = approve[r].sid /\ J.dev = approve[r].dev /\ approve[r].dev \in Devices
      /\ J # Idle /\ approve[r] # Idle
  BY <1>2 DEF ApproveJob, Idle
<1>4. approve' = [approve EXCEPT ![r] = J]
  BY <1>1 DEF Inv, TypeOK
<1> HIDE DEF J
<1>5. /\ approve' \in [Approvals -> ApproveJob] /\ approve'[r] = J
      /\ \A q \in Approvals : q # r => approve'[q] = approve[q]
  BY <1>3, <1>4 DEF Inv, TypeOK
<1>6. TypeOK' /\ IndexSound' /\ CodesRecorded' /\ SavedHolds'
  BY <1>1, <1>3, <1>5 DEF Inv, TypeOK, Live, IndexSound, CodesRecorded, SavedHolds
<1>7. DbGrows
  BY <1>1 DEF DbGrows
<1>8. OneHolder' /\ HeldIsKnown'
  <2>1. /\ <<"approve", r>> \in Holder /\ Holds(<<"approve", r>>, approve[r].dev)
        /\ approve[r].dev \in DOMAIN devices'
    BY <1>1, <1>3 DEF Holder, Holds, Inv, HeldIsKnown
  <2>2. ASSUME NEW e \in Devices, NEW h \in Holder, Holds(h, e)'
        PROVE  \/ e # approve[r].dev /\ Holds(h, e) /\ (Settled(h)' => Settled(h))
               \/ e = approve[r].dev /\ h = <<"approve", r>>
    <3>1. CASE h = <<"approve", r>>
      BY <1>3, <1>5, <2>2, <3>1 DEF Holds
    <3>2. CASE h # <<"approve", r>>
      <4>1. Holds(h, e) /\ (Settled(h)' => Settled(h))
        BY <1>1, <1>5, <2>2, <3>2 DEF Holder, Holds, Settled, Live
      <4> QED
        BY <2>1, <3>2, <4>1 DEF Inv, OneHolder
    <3> QED
      BY <3>1, <3>2
  <2> QED
    BY <1>1, <1>3, <1>7, <2>1, <2>2, HolderStep
<1>9. \A q \in Approvals : ApprovalOf(q)'
  BY <1>1, <1>3, <1>5 DEF Inv, ApprovalOf
<1>10. ResultOfOwnSession'
  BY <1>1, <1>7, ResultsKept DEF Live
<1> QED
  BY <1>6, <1>8, <1>9, <1>10 DEF Inv

LEMMA ApproveAbortStep ==
  ASSUME Inv, NEW r \in Approvals, ApproveAbort(r)
  PROVE  Inv'
<1>1. approve' \in [Approvals -> ApproveJob] /\ \A q \in Approvals : approve'[q] \in {approve[q], Idle}
  BY DEF ApproveAbort, Inv, TypeOK, ApproveJob
<1> QED
  BY <1>1, QuietStep DEF ApproveAbort, store, db, Inv, TypeOK, Live

(* The result reaches the session the key leads to by now, if any. *)
LEMMA ApproveStoreStep ==
  ASSUME Inv, NEW r \in Approvals, ApproveStore(r)
  PROVE  Inv'
<1> DEFINE k == approve[r].key
           d == approve[r].dev
<1>1. /\ UNCHANGED <<codeToId, devices, tokens, redeem, agent, codeOf, delivered>>
      /\ approve[r].op = "token" /\ approve' = [approve EXCEPT ![r] = Idle]
  BY DEF ApproveStore, db
<1>2. /\ approve' \in [Approvals -> ApproveJob] /\ approve'[r] = Idle
      /\ \A q \in Approvals : q # r => approve'[q] = approve[q]
  BY <1>1 DEF Inv, TypeOK, ApproveJob
<1>3. d \in Devices /\ k \in Keys /\ approve[r].sid \in Sessions /\ approve[r] # Idle
  BY <1>1, ApproveFields DEF Inv
<1>4. CASE ~Found(k)
  BY <1>1, <1>2, <1>4, QuietStep DEF ApproveStore, Inv, TypeOK, Live
<1>5. CASE Found(k)
  <2> DEFINE s == IdOf(k)
             x == [session[s] EXCEPT !.status = "approved", !.result = d]
  <2>1. /\ s \in Live /\ s \in Sessions /\ session[s] \in Session
        /\ s = k \/ (k \in Codes /\ session[s].code = k)
    BY <1>3, <1>5, KeyLeads DEF Inv
  <2>2. session' = [session EXCEPT ![s] = x]
    BY <1>5 DEF ApproveStore, Set
  <2>3. x \in Session /\ x.code = session[s].code /\ x.result = d
    BY <1>3, <2>1 DEF Session, Status
  <2> HIDE DEF x, s
  <2>4. /\ Live' = Live /\ session' \in [Live -> Session] /\ session'[s] = x
        /\ \A t \in Live : t # s => session'[t] = session[t]
    BY <2>1, <2>2, <2>3 DEF Inv, TypeOK, Live
  <2>5. TypeOK' /\ IndexSound' /\ CodesRecorded' /\ SavedHolds'
    BY <1>1, <1>2, <2>1, <2>3, <2>4 DEF Inv, TypeOK, IndexSound, CodesRecorded, SavedHolds
  <2>6. DbGrows
    BY <1>1 DEF DbGrows
  <2>7. /\ <<"approve", r>> \in Holder /\ Holds(<<"approve", r>>, d)
        /\ <<"session", s>> \in Holder /\ Settled(<<"approve", r>>)
    BY <1>1, <2>1 DEF Holder, Holds, Settled
  <2>8. d \in DOMAIN devices' /\ d \in tokens'
    BY <1>1, <1>3, <2>7 DEF Inv, HeldIsKnown
  <2>9. OneHolder' /\ HeldIsKnown'
    <3>1. ASSUME NEW e \in Devices, NEW h \in Holder, Holds(h, e)'
          PROVE  \/ e # d /\ Holds(h, e) /\ (Settled(h)' => Settled(h))
                 \/ e = d /\ h = <<"session", s>>
      <4>1. CASE h = <<"session", s>>
        BY <2>3, <2>4, <3>1, <4>1 DEF Holds
      <4>2. CASE h # <<"session", s>>
        <5>1. Holds(h, e) /\ (Settled(h)' => Settled(h)) /\ h # <<"approve", r>>
          BY <1>1, <1>2, <2>4, <3>1, <4>2 DEF Holder, Holds, Settled, Idle
        <5> QED
          BY <2>7, <5>1 DEF Inv, OneHolder
      <4> QED
        BY <4>1, <4>2
    <3> QED
      BY <1>3, <2>6, <2>7, <2>8, <3>1, HolderStep
  <2>10. \A q \in Approvals : ApprovalOf(q)'
    BY <1>1, <1>2, <2>6, ApprovalsKept
  <2>11. ASSUME ~Reused(session[s].code) PROVE devices[d].sid = s
    <3>1. codeOf[s] = session[s].code /\ ApprovalOf(r)
      BY <2>1 DEF Inv, CodesRecorded
    <3>2. approve[r].sid = s
      BY <1>3, <2>1, <2>11, <3>1, KeyAssumption DEF ApprovalOf, Reused
    <3> QED
      BY <1>1, <1>3, <3>1, <3>2 DEF ApprovalOf
  <2>12. ResultOfOwnSession'
    <3>1. ASSUME NEW c PROVE Reused(c)' <=> Reused(c)
      BY <1>1 DEF Reused
    <3> SUFFICES ASSUME NEW t \in Live, session'[t].result # None, ~Reused(session[t].code)
                 PROVE  devices[session'[t].result].sid = t
      BY <1>1, <2>3, <2>4, <3>1 DEF ResultOfOwnSession
    <3> QED
      BY <2>3, <2>4, <2>11 DEF Inv, ResultOfOwnSession
  <2> QED
    BY <2>5, <2>9, <2>10, <2>12 DEF Inv
<1> QED
  BY <1>4, <1>5

-----------------------------------------------------------------------------
(* redeem_pairing_session *)

(* Sessions are removed together with what their codes are indexed to. *)
LEMMA RemovedStep ==
  ASSUME Inv, NEW S \in SUBSET Live, Removed(S), UNCHANGED codeOf
  PROVE  /\ Live' = Live \ S /\ \A s \in Live \ S : session'[s] = session[s]
         /\ Live' \subseteq Sessions /\ session' \in [Live' -> Session]
         /\ DOMAIN codeToId' \subseteq Codes
         /\ codeToId' \in [DOMAIN codeToId' -> Sessions]
         /\ IndexSound' /\ CodesRecorded'
<1>1. Live' = Live \ S /\ \A s \in Live \ S : session'[s] = session[s]
  BY DEF Removed, Live
<1>2. /\ DOMAIN codeToId' = DOMAIN codeToId \ {session[s].code : s \in S}
      /\ \A c \in DOMAIN codeToId' : codeToId'[c] = codeToId[c]
  BY DEF Removed
<1>3. /\ Live' \subseteq Sessions /\ session' \in [Live' -> Session]
      /\ DOMAIN codeToId' \subseteq Codes /\ codeToId' \in [DOMAIN codeToId' -> Sessions]
  BY <1>1, <1>2 DEF Removed, Inv, TypeOK
<1>4. IndexSound' /\ CodesRecorded'
  BY <1>1, <1>2 DEF Inv, IndexSound, CodesRecorded
<1> QED
  BY <1>1, <1>2, <1>3, <1>4

(* The agent gets device d from holder g, if it still waits. *)
LEMMA AnswerStep ==
  ASSUME Inv, NEW a \in Agents, NEW d \in Devices, Answer(a, d)
  PROVE  /\ agent' \in [Agents -> Agent]
         /\ delivered' \subseteq Devices
         /\ \A b \in Agents : b # a => agent'[b] = agent[b]
         /\ agent'[a].dev \in {d, agent[a].dev}
         /\ SavedHolds'
<1>1. agent[a] \in Agent /\ agent \in [Agents -> Agent]
  BY DEF Inv, TypeOK
<1>2. [agent[a] EXCEPT !.pc = "saved", !.dev = d] \in Agent
  BY <1>1 DEF Agent
<1>3. CASE Waiting(a)
  <2>1. agent' = [agent EXCEPT ![a] = [agent[a] EXCEPT !.pc = "saved", !.dev = d]]
    BY <1>1, <1>3 DEF Answer
  <2>2. agent' \in [Agents -> Agent] /\ agent'[a].dev = d
        /\ \A b \in Agents : b # a => agent'[b] = agent[b]
    BY <1>1, <1>2, <2>1 DEF Agent
  <2> QED
    BY <2>2 DEF Answer, Inv, SavedHolds, TypeOK
<1>4. CASE ~Waiting(a)
  BY <1>1, <1>4 DEF Answer, Inv, SavedHolds, TypeOK
<1> QED
  BY <1>3, <1>4

LEMMA RedeemResultStep ==
  ASSUME Inv, NEW a \in Agents, RedeemResult(a)
  PROVE  Inv'
<1> DEFINE k == agent[a].key
           s == IdOf(k)
           d == session[s].result
<1>1. /\ UNCHANGED <<devices, tokens, approve, redeem, codeOf>>
      /\ Answer(a, d) /\ Removed({s}) /\ s \in Live /\ d # None
  BY DEF RedeemResult, db, Usable, Found
<1>2. s \in Sessions /\ d \in Devices
  BY <1>1 DEF Inv, TypeOK, Session
<1> HIDE DEF k, s
<1>3. /\ Live' = Live \ {s} /\ \A t \in Live \ {s} : session'[t] = session[t]
      /\ Live' \subseteq Sessions /\ session' \in [Live' -> Session]
      /\ DOMAIN codeToId' \subseteq Codes /\ codeToId' \in [DOMAIN codeToId' -> Sessions]
      /\ IndexSound' /\ CodesRecorded'
  BY <1>1, RemovedStep
<1>4. /\ agent' \in [Agents -> Agent] /\ delivered' \subseteq Devices
      /\ \A b \in Agents : b # a => agent'[b] = agent[b]
      /\ agent'[a].dev \in {d, agent[a].dev} /\ SavedHolds'
  BY <1>1, <1>2, AnswerStep
<1>5. TypeOK'
  BY <1>1, <1>3, <1>4 DEF Inv, TypeOK
<1>6. DbGrows
  BY <1>1 DEF DbGrows
<1>7. /\ <<"session", s>> \in Holder /\ Holds(<<"session", s>>, d)
      /\ <<"agent", a>> \in Holder /\ Settled(<<"session", s>>)
  BY <1>1, <1>2 DEF Holder, Holds, Settled
<1>8. d \in DOMAIN devices' /\ d \in tokens'
  BY <1>1, <1>2, <1>7 DEF Inv, HeldIsKnown
<1>9. OneHolder' /\ HeldIsKnown'
  <2>1. ASSUME NEW e \in Devices, NEW h \in Holder, Holds(h, e)'
        PROVE  \/ e # d /\ Holds(h, e) /\ (Settled(h)' => Settled(h))
               \/ e = d /\ h = <<"agent", a>>
    <3>1. CASE h = <<"agent", a>> /\ e = d
      BY <3>1
    <3>2. CASE ~(h = <<"agent", a>> /\ e = d)
      <4>1. Holds(h, e) /\ (Settled(h)' => Settled(h)) /\ h # <<"session", s>>
        BY <1>1, <1>3, <1>4, <2>1, <3>2 DEF Holder, Holds, Settled
      <4> QED
        BY <1>7, <4>1 DEF Inv, OneHolder
    <3> QED
      BY <3>1, <3>2
  <2> QED
    BY <1>2, <1>6, <1>7, <1>8, <2>1, HolderStep
<1>10. \A q \in Approvals : ApprovalOf(q)'
  BY <1>1, <1>6, ApprovalsKept
<1>11. ResultOfOwnSession'
  BY <1>1, <1>3, <1>6, ResultsKept
<1> QED
  BY <1>3, <1>4, <1>5, <1>9, <1>10, <1>11 DEF Inv

LEMMA RedeemBeginStep ==
  ASSUME Inv, NEW a \in Agents, RedeemBegin(a)
  PROVE  Inv'
<1> DEFINE s == IdOf(agent[a].key)
           J == [op |-> "session", sid |-> s, user |-> session[s].user]
<1>1. s \in Sessions /\ session[s] \in Session
  BY DEF RedeemBegin, Usable, Found, Inv, TypeOK
<1>2. J \in RedeemJob /\ J.op = "session"
  BY <1>1 DEF RedeemJob, Session
<1>3. redeem' = [redeem EXCEPT ![a] = J]
  BY DEF RedeemBegin
<1> HIDE DEF J
<1>4. redeem' \in [Agents -> RedeemJob]
      /\ \A b \in Agents : redeem'[b].op \in {"device", "token"} => redeem'[b] = redeem[b]
  BY <1>2, <1>3 DEF Inv, TypeOK
<1> QED
  BY <1>4, QuietStep DEF RedeemBegin, store, db, Inv, TypeOK, Live

LEMMA RedeemDeviceStep ==
  ASSUME Inv, NEW a \in Agents, RedeemDevice(a)
  PROVE  Inv'
<1>1. /\ UNCHANGED <<session, codeToId, tokens, approve, agent, codeOf, delivered>>
      /\ redeem[a].op = "session"
  BY DEF RedeemDevice, store
<1>2. PICK d \in Devices \ DOMAIN devices :
        /\ devices' = WithDevice(d, redeem[a].user, redeem[a].sid)
        /\ redeem' = [redeem EXCEPT ![a] = [op |-> "device", sid |-> redeem[a].sid,
                                            user |-> redeem[a].user, dev |-> d]]
  BY DEF RedeemDevice
<1> DEFINE J == [op |-> "device", sid |-> redeem[a].sid, user |-> redeem[a].user, dev |-> d]
<1>3. redeem[a].sid \in Sessions /\ redeem[a].user \in Users
  BY <1>1, RedeemFields DEF Inv
<1>4. J \in RedeemJob /\ J.op = "device" /\ J.dev = d
  BY <1>3 DEF RedeemJob
<1>5. redeem' = [redeem EXCEPT ![a] = J]
  BY <1>2
<1> HIDE DEF J
<1>6. /\ redeem' \in [Agents -> RedeemJob] /\ redeem'[a] = J
      /\ \A b \in Agents : b # a => redeem'[b] = redeem[b]
  BY <1>4, <1>5 DEF Inv, TypeOK
<1>7. /\ DbGrows /\ DOMAIN devices' = DOMAIN devices \union {d}
      /\ DOMAIN devices' \subseteq Devices
      /\ devices' \in [DOMAIN devices' -> [user : Users, sid : Sessions]]
      /\ \A h \in Holder : ~Holds(h, d)
  BY <1>1, <1>2, <1>3, DeviceAdded
<1>8. TypeOK' /\ IndexSound' /\ CodesRecorded' /\ SavedHolds'
  BY <1>1, <1>6, <1>7 DEF Inv, TypeOK, Live, IndexSound, CodesRecorded, SavedHolds
<1>9. OneHolder' /\ HeldIsKnown'
  <2>1. <<"redeem", a>> \in Holder /\ ~Settled(<<"redeem", a>>)'
    BY <1>4, <1>6 DEF Holder, Settled
  <2>2. ASSUME NEW e \in Devices, NEW h \in Holder, Holds(h, e)'
        PROVE  \/ e # d /\ Holds(h, e) /\ (Settled(h)' => Settled(h))
               \/ e = d /\ h = <<"redeem", a>>
    <3>1. CASE h = <<"redeem", a>>
      BY <1>4, <1>6, <2>2, <3>1 DEF Holds
    <3>2. CASE h # <<"redeem", a>>
      <4>1. Holds(h, e) /\ (Settled(h)' => Settled(h))
        BY <1>1, <1>6, <2>2, <3>2 DEF Holder, Holds, Settled, Live
      <4> QED
        BY <1>7, <4>1
    <3> QED
      BY <3>1, <3>2
  <2> QED
    BY <1>7, <2>1, <2>2, HolderStep
<1>10. \A q \in Approvals : ApprovalOf(q)'
  BY <1>1, <1>7, ApprovalsKept
<1>11. ResultOfOwnSession'
  BY <1>1, <1>7, ResultsKept DEF Live
<1> QED
  BY <1>8, <1>9, <1>10, <1>11 DEF Inv

LEMMA RedeemTokenStep ==
  ASSUME Inv, NEW a \in Agents, RedeemToken(a)
  PROVE  Inv'
<1>1. /\ UNCHANGED <<session, codeToId, devices, approve, agent, codeOf, delivered>>
      /\ redeem[a].op = "device" /\ tokens' = tokens \union {redeem[a].dev}
      /\ redeem' = [redeem EXCEPT ![a].op = "token"]
  BY DEF RedeemToken, store
<1> DEFINE J == [redeem[a] EXCEPT !.op = "token"]
<1>2. redeem[a] \in [op : {"device", "token"}, sid : Sessions, user : Users, dev : Devices]
  BY <1>1, RedeemFields DEF Inv
<1>3. /\ J \in RedeemJob /\ J.op = "token" /\ J.dev = redeem[a].dev
      /\ redeem[a].dev \in Devices
  BY <1>2 DEF RedeemJob
<1>4. redeem' = [redeem EXCEPT ![a] = J]
  BY <1>1 DEF Inv, TypeOK
<1> HIDE DEF J
<1>5. /\ redeem' \in [Agents -> RedeemJob] /\ redeem'[a] = J
      /\ \A b \in Agents : b # a => redeem'[b] = redeem[b]
  BY <1>3, <1>4 DEF Inv, TypeOK
<1>6. TypeOK' /\ IndexSound' /\ CodesRecorded' /\ SavedHolds'
  BY <1>1, <1>3, <1>5 DEF Inv, TypeOK, Live, IndexSound, CodesRecorded, SavedHolds
<1>7. DbGrows
  BY <1>1 DEF DbGrows
<1>8. OneHolder' /\ HeldIsKnown'
  <2>1. /\ <<"redeem", a>> \in Holder /\ Holds(<<"redeem", a>>, redeem[a].dev)
        /\ redeem[a].dev \in DOMAIN devices'
    BY <1>1, <1>3 DEF Holder, Holds, Inv, HeldIsKnown
  <2>2. ASSUME NEW e \in Devices, NEW h \in Holder, Holds(h, e)'
        PROVE  \/ e # redeem[a].dev /\ Holds(h, e) /\ (Settled(h)' => Settled(h))
               \/ e = redeem[a].dev /\ h = <<"redeem", a>>
    <3>1. CASE h = <<"redeem", a>>
      BY <1>3, <1>5, <2>2, <3>1 DEF Holds
    <3>2. CASE h # <<"redeem", a>>
      <4>1. Holds(h, e) /\ (Settled(h)' => Settled(h))
        BY <1>1, <1>5, <2>2, <3>2 DEF Holder, Holds, Settled, Live
      <4> QED
        BY <2>1, <3>2, <4>1 DEF Inv, OneHolder
    <3> QED
      BY <3>1, <3>2
  <2> QED
    BY <1>1, <1>3, <1>7, <2>1, <2>2, HolderStep
<1>9. \A q \in Approvals : ApprovalOf(q)'
  BY <1>1, <1>7, ApprovalsKept
<1>10. ResultOfOwnSession'
  BY <1>1, <1>7, ResultsKept DEF Live
<1> QED
  BY <1>6, <1>8, <1>9, <1>10 DEF Inv

LEMMA RedeemEndStep ==
  ASSUME Inv, NEW a \in Agents, RedeemEnd(a)
  PROVE  Inv'
<1> DEFINE S == {redeem[a].sid} \intersect Live
           d == redeem[a].dev
<1>1. /\ UNCHANGED <<devices, tokens, approve, codeOf>>
      /\ redeem[a].op = "token" /\ redeem' = [redeem EXCEPT ![a] = Idle]
      /\ Answer(a, d) /\ Removed(S)
  BY DEF RedeemEnd, db
<1>2. d \in Devices /\ S \in SUBSET Live
  BY <1>1, RedeemFields DEF Inv
<1> HIDE DEF S
<1>3. /\ Live' = Live \ S /\ \A t \in Live \ S : session'[t] = session[t]
      /\ Live' \subseteq Sessions /\ session' \in [Live' -> Session]
      /\ DOMAIN codeToId' \subseteq Codes /\ codeToId' \in [DOMAIN codeToId' -> Sessions]
      /\ IndexSound' /\ CodesRecorded'
  BY <1>1, <1>2, RemovedStep
<1>4. /\ agent' \in [Agents -> Agent] /\ delivered' \subseteq Devices
      /\ \A b \in Agents : b # a => agent'[b] = agent[b]
      /\ agent'[a].dev \in {d, agent[a].dev} /\ SavedHolds'
  BY <1>1, <1>2, AnswerStep
<1>5. /\ redeem' \in [Agents -> RedeemJob] /\ redeem'[a] = Idle
      /\ \A b \in Agents : b # a => redeem'[b] = redeem[b]
  BY <1>1 DEF Inv, TypeOK, RedeemJob
<1>6. TypeOK'
  BY <1>1, <1>3, <1>4, <1>5 DEF Inv, TypeOK
<1>7. DbGrows
  BY <1>1 DEF DbGrows
<1>8. /\ <<"redeem", a>> \in Holder /\ Holds(<<"redeem", a>>, d)
      /\ <<"agent", a>> \in Holder /\ Settled(<<"redeem", a>>)
  BY <1>1, <1>2 DEF Holder, Holds, Settled
<1>9. d \in DOMAIN devices' /\ d \in tokens'
  BY <1>1, <1>2, <1>8 DEF Inv, HeldIsKnown
<1>10. OneHolder' /\ HeldIsKnown'
  <2>1. ASSUME NEW e \in Devices, NEW h \in Holder, Holds(h, e)'
        PROVE  \/ e # d /\ Holds(h, e) /\ (Settled(h)' => Settled(h))
               \/ e = d /\ h = <<"agent", a>>
    <3>1. CASE h = <<"agent", a>> /\ e = d
      BY <3>1
    <3>2. CASE ~(h = <<"agent", a>> /\ e = d)
      <4>1. Holds(h, e) /\ (Settled(h)' => Settled(h)) /\ h # <<"redeem", a>>
        BY <1>1, <1>3, <1>4, <1>5, <2>1, <3>2 DEF Holder, Holds, Settled, Idle
      <4> QED
        BY <1>8, <4>1 DEF Inv, OneHolder
    <3> QED
      BY <3>1, <3>2
  <2> QED
    BY <1>2, <1>7, <1>8, <1>9, <2>1, HolderStep
<1>11. \A q \in Approvals : ApprovalOf(q)'
  BY <1>1, <1>7, ApprovalsKept
<1>12. ResultOfOwnSession'
  BY <1>1, <1>3, <1>7, ResultsKept
<1> QED
  BY <1>3, <1>4, <1>6, <1>10, <1>11, <1>12 DEF Inv

-----------------------------------------------------------------------------
(* The agent, and the server's restart *)

(* A step of agent a that gives it no device. *)
LEMMA AgentMoves ==
  ASSUME Inv, NEW a \in Agents, NEW x \in Agent,
         x.dev = agent[a].dev, x.pc = "saved" => agent[a].pc = "saved",
         agent' = [agent EXCEPT ![a] = x]
  PROVE  /\ agent' \in [Agents -> Agent]
         /\ \A b \in Agents : /\ agent'[b].dev = agent[b].dev
                              /\ agent'[b].pc = "saved" => agent[b].pc = "saved"
BY DEF Inv, TypeOK

LEMMA RedeemRefusedStep ==
  ASSUME Inv, NEW a \in Agents, RedeemRefused(a)
  PROVE  Inv'
<1> DEFINE x == [agent[a] EXCEPT !.pc = IF agent[a].pc = "redeem" THEN "poll"
                                        ELSE IF agent[a].pc = "fallback" THEN "failed"
                                        ELSE agent[a].pc]
<1>1. agent[a] \in Agent /\ agent \in [Agents -> Agent]
  BY DEF Inv, TypeOK
<1>2. x \in Agent /\ x.dev = agent[a].dev /\ (x.pc = "saved" => agent[a].pc = "saved")
  BY <1>1 DEF Agent
<1>3. agent' = [agent EXCEPT ![a] = x]
  BY <1>1 DEF RedeemRefused, Refusal
<1> HIDE DEF x
<1> QED
  BY <1>2, <1>3, AgentMoves, QuietStep DEF RedeemRefused, store, db, Inv, TypeOK, Live

LEMMA AgentPollStep ==
  ASSUME Inv, NEW a \in Agents, AgentPoll(a)
  PROVE  Inv'
<1>1. PICK seen : agent' = [agent EXCEPT ![a].polls = @ + 1, ![a].pc = AfterPoll(seen)]
  BY DEF AgentPoll
<1> DEFINE x == [agent[a] EXCEPT !.polls = agent[a].polls + 1, !.pc = AfterPoll(seen)]
<1>2. agent[a] \in Agent /\ agent \in [Agents -> Agent] /\ agent[a].polls < MaxPolls
  BY DEF Inv, TypeOK, AgentPoll
<1>3. AfterPoll(seen) \in {"redeem", "failed", "poll"}
  BY DEF AfterPoll
<1>4. agent[a].polls + 1 \in 0 .. MaxPolls
  BY <1>2, PollsAssumption DEF Agent
<1>5. x \in Agent /\ x.dev = agent[a].dev /\ x.pc # "saved"
  BY <1>2, <1>3, <1>4 DEF Agent
<1>6. agent' = [agent EXCEPT ![a] = x]
  BY <1>1, <1>2
<1> HIDE DEF x
<1> QED
  BY <1>5, <1>6, AgentMoves, QuietStep DEF AgentPoll, store, db, Inv, TypeOK, Live

LEMMA AgentFallbackStep ==
  ASSUME Inv, NEW a \in Agents, AgentFallback(a)
  PROVE  Inv'
<1> DEFINE x == [agent[a] EXCEPT !.pc = "fallback"]
<1>1. agent[a] \in Agent /\ agent \in [Agents -> Agent]
  BY DEF Inv, TypeOK
<1>2. x \in Agent /\ x.dev = agent[a].dev /\ x.pc # "saved"
  BY <1>1 DEF Agent
<1>3. agent' = [agent EXCEPT ![a] = x]
  BY <1>1 DEF AgentFallback
<1> HIDE DEF x
<1> QED
  BY <1>2, <1>3, AgentMoves, QuietStep DEF AgentFallback, store, db, Inv, TypeOK, Live

LEMMA AgentTimeoutStep ==
  ASSUME Inv, NEW a \in Agents, AgentTimeout(a)
  PROVE  Inv'
<1> DEFINE x == [agent[a] EXCEPT !.pc = "failed"]
<1>1. agent[a] \in Agent /\ agent \in [Agents -> Agent]
  BY DEF Inv, TypeOK
<1>2. x \in Agent /\ x.dev = agent[a].dev /\ x.pc # "saved"
  BY <1>1 DEF Agent
<1>3. agent' = [agent EXCEPT ![a] = x]
  BY <1>1 DEF AgentTimeout
<1> HIDE DEF x
<1>4. redeem' \in [Agents -> RedeemJob]
      /\ \A b \in Agents : redeem'[b].op \in {"device", "token"} => redeem'[b] = redeem[b]
  BY DEF AgentTimeout, Inv, TypeOK, RedeemJob, Idle
<1> QED
  BY <1>2, <1>3, <1>4, AgentMoves, QuietStep DEF AgentTimeout, store, db, Inv, TypeOK, Live

LEMMA AgentClaimStep ==
  ASSUME Inv, NEW a \in Agents, NEW k \in Keys, AgentClaim(a, k)
  PROVE  Inv'
<1>1. agent[a] \in Agent /\ agent \in [Agents -> Agent]
  BY DEF Inv, TypeOK
<1>2. PICK pc \in {"poll", "failed"} : agent' = [agent EXCEPT ![a].pc = pc, ![a].key = k]
  BY DEF AgentClaim
<1> DEFINE x == [agent[a] EXCEPT !.pc = pc, !.key = k]
<1>3. x \in Agent /\ x.dev = agent[a].dev /\ x.pc # "saved"
  BY <1>1 DEF Agent
<1>4. agent' = [agent EXCEPT ![a] = x]
  BY <1>1, <1>2
<1> HIDE DEF x
<1>5. /\ session' \in [Live -> Session]
      /\ \A s \in Live : session'[s].code = session[s].code
                         /\ session'[s].result = session[s].result
  <2>1. CASE UNCHANGED session
    BY <2>1 DEF Inv, TypeOK, Live
  <2>2. CASE Claimed(k, a)
    <3> DEFINE s == IdOf(k)
               y == [session[s] EXCEPT !.candidate = a, !.status = "pending_approval"]
    <3>1. s \in Live /\ session[s] \in Session
      BY KeyLeads DEF AgentClaim, Inv
    <3>2. y \in Session /\ y.code = session[s].code /\ y.result = session[s].result
      BY <3>1 DEF Session, Status
    <3>3. session' = [session EXCEPT ![s] = y]
      BY <2>2 DEF Claimed, Set
    <3> HIDE DEF y, s
    <3> QED
      BY <3>1, <3>2, <3>3 DEF Inv, TypeOK
  <2> QED
    BY <2>1, <2>2 DEF AgentClaim
<1> QED
  BY <1>3, <1>4, <1>5, AgentMoves, QuietStep DEF AgentClaim, db, Inv, TypeOK

LEMMA RestartStep ==
  ASSUME Inv, Restart
  PROVE  Inv'
<1>1. UNCHANGED <<devices, tokens, codeOf, delivered>> /\ Live' = {} /\ DOMAIN codeToId' = {}
  BY DEF Restart, db, Live
<1>2. /\ approve' = [r \in Approvals |-> Idle] /\ redeem' = [a \in Agents |-> Idle]
      /\ session' \in [{} -> Session] /\ codeToId' \in [{} -> Sessions]
  BY DEF Restart
<1>3. ASSUME NEW a \in Agents
      PROVE  /\ agent'[a] \in Agent /\ agent'[a].dev = agent[a].dev
             /\ agent'[a].pc = "saved" => agent[a].pc = "saved"
  <2>1. agent[a] \in Agent
    BY DEF Inv, TypeOK
  <2> QED
    BY <2>1 DEF Restart, Agent
<1>4. agent' \in [Agents -> Agent]
  BY <1>3 DEF Restart
<1>5. TypeOK'
  BY <1>1, <1>2, <1>4 DEF Inv, TypeOK, ApproveJob, RedeemJob
<1>6. IndexSound' /\ CodesRecorded' /\ SavedHolds' /\ ResultOfOwnSession'
  BY <1>1, <1>3 DEF Inv, IndexSound, CodesRecorded, SavedHolds, ResultOfOwnSession
<1>7. DbGrows
  BY <1>1 DEF DbGrows
<1>8. NothingGained
  BY <1>1, <1>2, <1>3 DEF NothingGained, Holder, Holds, Settled, Idle
<1>9. OneHolder' /\ HeldIsKnown'
  BY <1>7, <1>8, NothingGainedStep
<1>10. \A r \in Approvals : ApprovalOf(r)'
  BY <1>2 DEF ApprovalOf
<1> QED
  BY <1>5, <1>6, <1>9, <1>10 DEF Inv

-----------------------------------------------------------------------------
LEMMA InvInit == Init => Inv
<1> SUFFICES ASSUME Init PROVE Inv
  OBVIOUS
<1>1. Live = {} /\ DOMAIN codeToId = {} /\ DOMAIN devices = {}
  BY DEF Init, Live
<1>2. \A a \in Agents : agent[a] \in Agent /\ agent[a].dev = None /\ agent[a].pc = "off"
  BY PollsAssumption DEF Init, Agent
<1>3. TypeOK
  BY <1>1, <1>2 DEF Init, TypeOK, ApproveJob, RedeemJob
<1>4. \A d \in Devices : \A h \in Holder : ~Holds(h, d)
  BY <1>1, <1>2, NoneAssumption DEF Init, Holder, Holds, Idle
<1> QED
  BY <1>1, <1>2, <1>3, <1>4
  DEF Inv, Init, IndexSound, CodesRecorded, OneHolder, HeldIsKnown, SavedHolds, ApprovalOf,
      ResultOfOwnSession

LEMMA InvNext == Inv /\ [Next]_vars => Inv'
<1> SUFFICES ASSUME Inv, [Next]_vars PROVE Inv'
  OBVIOUS
<1>1. CASE UNCHANGED vars
  BY <1>1, QuietStep DEF vars, Inv, TypeOK, Live
<1>2. ASSUME NEW r \in Approvals, ApproveStep(r) \/ ApproveAbort(r)
      PROVE  Inv'
  BY <1>2, ApproveDeviceStep, ApproveTokenStep, ApproveStoreStep, ApproveAbortStep DEF ApproveStep
<1>3. ASSUME NEW a \in Agents, RedeemStep(a)
      PROVE  Inv'
  BY <1>3, RedeemRefusedStep, RedeemResultStep, RedeemBeginStep, RedeemDeviceStep,
     RedeemTokenStep, RedeemEndStep DEF RedeemStep
<1>4. ASSUME NEW a \in Agents, AgentStep(a) \/ AgentTimeout(a) \/ \E k \in Keys : AgentClaim(a, k)
      PROVE  Inv'
  BY <1>4, AgentPollStep, AgentFallbackStep, AgentTimeoutStep, AgentClaimStep DEF AgentStep
<1> QED
  BY <1>1, <1>2, <1>3, <1>4, CreateStep, RejectStep, ApproveBeginStep, ExpireStep, RestartStep
  DEF Next

(* The inductive invariant: a device is in one hand at a time, and what is held
   is in the database, through aborted handlers, timeouts and restarts. *)
THEOREM PairingInvariant == Spec => []Inv
BY InvInit, InvNext, PTL DEF Spec

(* The store, the tables and the agents keep their shape. *)
THEOREM PairingTypeOK == Spec => []TypeOK
<1>1. Inv => TypeOK
  BY DEF Inv
<1> QED
  BY PairingInvariant, <1>1, PTL

(* PairingStore.code_to_id never leads to a session that is gone or shows
   another code, although codes are drawn again and sessions are swept. *)
THEOREM PairingIndexSound == Spec => []IndexSound
<1>1. Inv => IndexSound
  BY DEF Inv
<1> QED
  BY PairingInvariant, <1>1, PTL

(* No two agents get the same device identity, whichever of approve and redeem
   made it and wherever a handler was cut short. *)
THEOREM PairingNoSharedIdentity == Spec => []NoSharedIdentity
<1>1. Inv => NoSharedIdentity
  <2> SUFFICES ASSUME Inv, NEW a \in Agents, NEW b \in Agents, agent[a].dev # None,
                      agent[a].dev = agent[b].dev
               PROVE  a = b
    BY DEF NoSharedIdentity
  <2>1. agent[a].dev \in Devices
    BY DEF Inv, TypeOK, Agent
  <2>2. /\ <<"agent", a>> \in Holder /\ Holds(<<"agent", a>>, agent[a].dev)
        /\ <<"agent", b>> \in Holder /\ Holds(<<"agent", b>>, agent[a].dev)
    BY DEF Holder, Holds
  <2>3. <<"agent", a>> = <<"agent", b>>
    BY <2>1, <2>2 DEF Inv, OneHolder
  <2> QED
    BY <2>3
<1> QED
  BY PairingInvariant, <1>1, PTL

(* An agent that wrote its configuration has a device and a refresh token in the
   database, whatever failed, timed out or was restarted on the way. *)
THEOREM PairingSavedAgentIsKnown == Spec => []SavedAgentIsKnown
<1>1. Inv => SavedAgentIsKnown
  <2> SUFFICES ASSUME Inv, NEW a \in Agents, agent[a].pc = "saved"
               PROVE  agent[a].dev \in DOMAIN devices /\ agent[a].dev \in tokens
    BY DEF SavedAgentIsKnown
  <2>1. agent[a].dev \in Devices
    BY DEF Inv, SavedHolds
  <2>2. /\ <<"agent", a>> \in Holder /\ Holds(<<"agent", a>>, agent[a].dev)
        /\ Settled(<<"agent", a>>)
    BY DEF Holder, Holds, Settled
  <2> QED
    BY <2>1, <2>2 DEF Inv, HeldIsKnown
<1> QED
  BY PairingInvariant, <1>1, PTL

(* The second lock section of an approval puts the result into the session it
   was made for, or into one that has drawn the same code. *)
THEOREM PairingResultOfOwnSession == Spec => []ResultOfOwnSession
<1>1. Inv => ResultOfOwnSession
  BY DEF Inv
<1> QED
  BY PairingInvariant, <1>1, PTL

-----------------------------------------------------------------------------
(* Single use.  redeem_pairing_session removes the session in its second lock
   section, after it has made a device, so two redemptions of one session may
   both succeed.  The session is gone once the first has answered, and so only a
   redemption that was under way then can be the second. *)

(* The session that device was made from. *)
SessionOf(d) == devices[d].sid

(* A session that has enrolled a device is in the store no more, unless its code
   was drawn twice: a result then may reach the other session. *)
UsedIsGone ==
  \A d \in delivered : ~Reused(codeOf[SessionOf(d)]) => SessionOf(d) \notin Live

(* A session enrols a second device only by a redemption that has read the
   session before the first removed it. *)
SingleUseUnlessOverlap ==
  [][\A d \in delivered' \ delivered, e \in delivered :
       SessionOf(d)' = SessionOf(e) /\ ~Reused(codeOf[SessionOf(e)])
         => \E a \in Agents : redeem[a].op = "token" /\ redeem[a].sid = SessionOf(e)]_vars

(* What requests and devices refer to are sessions that were made once, and a
   redemption's device is of its own session. *)
Made(s) == s \in Sessions /\ codeOf[s] # None

MadeOnly ==
  /\ \A r \in Approvals : approve[r] # Idle => Made(approve[r].sid)
  /\ \A a \in Agents : redeem[a] # Idle => Made(redeem[a].sid)
  /\ \A d \in DOMAIN devices : Made(SessionOf(d))
  /\ delivered \subseteq DOMAIN devices

RedeemOf(a) == redeem[a].op \in {"device", "token"} => SessionOf(redeem[a].dev) = redeem[a].sid

(* A result is of the session it is stored in, or of one with the same code. *)
ResultOf(s) == session[s].result # None => codeOf[SessionOf(session[s].result)] = codeOf[s]

(* The inductive invariant, beside Inv. *)
UseInv ==
  /\ MadeOnly
  /\ \A a \in Agents : RedeemOf(a)
  /\ \A s \in Live : ResultOf(s)
  /\ UsedIsGone

(* A step of the store: no session comes back. *)
NoneReturns ==
  /\ \A s \in Sessions : Made(s) => codeOf'[s] = codeOf[s]
  /\ \A s \in Live' : Made(s) => s \in Live

(* Requests go on with their session, or begin with a live one. *)
RequestsGoOn ==
  /\ \A r \in Approvals : approve'[r] # Idle =>
       approve'[r].sid \in Live \/ (approve[r] # Idle /\ approve'[r].sid = approve[r].sid)
  /\ \A a \in Agents : redeem'[a] # Idle =>
       redeem'[a].sid \in Live \/ (redeem[a] # Idle /\ redeem'[a].sid = redeem[a].sid)

(* Results stay in their session, or are of one with its code. *)
ResultsFit ==
  \A s \in Live' : session'[s].result # None =>
    \/ s \in Live /\ session'[s].result = session[s].result
    \/ ResultOf(s)'

LEMMA LiveIsMade ==
  ASSUME Inv, NEW s \in Live
  PROVE  Made(s)
<1>1. s \in Sessions /\ session[s] \in Session /\ codeOf[s] = session[s].code
  BY DEF Inv, TypeOK, CodesRecorded
<1> QED
  BY <1>1, NoneAssumption DEF Session, Made

LEMMA RedeemedIsKnown ==
  ASSUME Inv, NEW a \in Agents, redeem[a].op \in {"device", "token"}
  PROVE  redeem[a].dev \in DOMAIN devices
<1>1. /\ <<"redeem", a>> \in Holder /\ Holds(<<"redeem", a>>, redeem[a].dev)
      /\ redeem[a].dev \in Devices
  BY RedeemFields DEF Inv, Holder, Holds
<1> QED
  BY <1>1 DEF Inv, HeldIsKnown

LEMMA ResultIsKnown ==
  ASSUME Inv, NEW s \in Live, session[s].result # None
  PROVE  session[s].result \in DOMAIN devices
<1>1. /\ <<"session", s>> \in Holder /\ Holds(<<"session", s>>, session[s].result)
      /\ session[s].result \in Devices
  BY DEF Inv, TypeOK, Session, Holder, Holds
<1> QED
  BY <1>1 DEF Inv, HeldIsKnown

LEMMA ResultsStep ==
  ASSUME Inv, UseInv, DbGrows, NoneReturns, ResultsFit
  PROVE  \A s \in Live' : ResultOf(s)'
<1> SUFFICES ASSUME NEW s \in Live', session'[s].result # None, s \in Live,
                    session'[s].result = session[s].result
             PROVE  codeOf'[devices'[session[s].result].sid] = codeOf'[s]
  BY DEF ResultsFit, ResultOf, SessionOf
<1>1. /\ session[s].result \in DOMAIN devices /\ Made(s)
      /\ Made(devices[session[s].result].sid)
  BY ResultIsKnown, LiveIsMade DEF UseInv, MadeOnly, SessionOf
<1>2. codeOf[devices[session[s].result].sid] = codeOf[s]
  BY DEF UseInv, ResultOf, SessionOf
<1> QED
  BY <1>1, <1>2 DEF DbGrows, NoneReturns, Made

LEMMA MadeStep ==
  ASSUME Inv, MadeOnly, DbGrows, NoneReturns, RequestsGoOn,
         \A d \in DOMAIN devices' \ DOMAIN devices : Made(devices'[d].sid),
         delivered' \subseteq DOMAIN devices
  PROVE  MadeOnly'
<1>1. \A s : Made(s) => Made(s)'
  BY DEF Made, NoneReturns
<1>2. \A s \in Live : Made(s)
  BY LiveIsMade
<1>3. \A r \in Approvals : approve'[r] # Idle => Made(approve'[r].sid)
  BY <1>2 DEF MadeOnly, RequestsGoOn
<1>4. \A a \in Agents : redeem'[a] # Idle => Made(redeem'[a].sid)
  BY <1>2 DEF MadeOnly, RequestsGoOn
<1>5. \A d \in DOMAIN devices' : Made(devices'[d].sid)
  BY DEF MadeOnly, DbGrows, SessionOf
<1>6. delivered' \subseteq DOMAIN devices'
  BY DEF DbGrows
<1> QED
  BY <1>1, <1>3, <1>4, <1>5, <1>6 DEF MadeOnly, SessionOf, Made

(* What was gone stays gone. *)
LEMMA GoneStays ==
  ASSUME Inv, UseInv, DbGrows, NoneReturns, NEW d \in delivered, ~Reused(codeOf[SessionOf(d)])'
  PROVE  SessionOf(d)' \notin Live'
<1>1. d \in DOMAIN devices /\ Made(SessionOf(d)) /\ SessionOf(d)' = SessionOf(d)
  BY DEF UseInv, MadeOnly, DbGrows, SessionOf
<1>2. codeOf'[SessionOf(d)] = codeOf[SessionOf(d)]
  BY <1>1 DEF NoneReturns, Made
<1>3. ~Reused(codeOf[SessionOf(d)])
  <2> SUFFICES ASSUME NEW s \in Sessions, NEW t \in Sessions, s # t,
                      codeOf[s] = codeOf[SessionOf(d)], codeOf[t] = codeOf[SessionOf(d)]
               PROVE  FALSE
    BY DEF Reused
  <2>1. codeOf'[s] = codeOf[s] /\ codeOf'[t] = codeOf[t]
    BY <1>1 DEF NoneReturns, Made
  <2> QED
    BY <1>1, <1>2, <2>1 DEF Reused
<1> QED
  BY <1>1, <1>3 DEF UseInv, UsedIsGone, NoneReturns

(* A step that delivers nothing. *)
LEMMA NothingDelivered ==
  ASSUME Inv, UseInv, DbGrows, NoneReturns, RequestsGoOn, ResultsFit,
         \A d \in DOMAIN devices' \ DOMAIN devices : Made(devices'[d].sid),
         delivered' = delivered,
         \A a \in Agents : redeem'[a].op \in {"device", "token"} =>
           \/ /\ redeem[a].op \in {"device", "token"}
              /\ redeem'[a].sid = redeem[a].sid /\ redeem'[a].dev = redeem[a].dev
           \/ devices'[redeem'[a].dev].sid = redeem'[a].sid
  PROVE  UseInv'
<1>1. MadeOnly'
  BY MadeStep DEF UseInv, MadeOnly
<1>2. \A a \in Agents : RedeemOf(a)'
  BY RedeemedIsKnown DEF UseInv, RedeemOf, SessionOf, DbGrows
<1>3. UsedIsGone'
  BY GoneStays DEF UsedIsGone
<1>4. \A s \in Live' : ResultOf(s)'
  BY ResultsStep
<1> QED
  BY <1>1, <1>2, <1>3, <1>4 DEF UseInv

(* ... and leaves devices and requests alone, or ends requests. *)
LEMMA RequestsEnd ==
  ASSUME Inv, UseInv, NoneReturns, ResultsFit, UNCHANGED <<devices, tokens, delivered>>,
         \A r \in Approvals : approve'[r] \in {approve[r], Idle},
         \A a \in Agents : redeem'[a] \in {redeem[a], Idle}
  PROVE  UseInv'
<1>1. DbGrows /\ RequestsGoOn
  BY DEF DbGrows, RequestsGoOn
<1>2. \A a \in Agents : redeem'[a].op \in {"device", "token"} => redeem'[a] = redeem[a]
  BY DEF Idle
<1> QED
  BY <1>1, <1>2, NothingDelivered

LEMMA UseInit == Init => UseInv
BY DEF Init, UseInv, MadeOnly, RedeemOf, UsedIsGone, Live, Idle

(* The result of an approval goes to its session, or to one with the code the
   owner has typed. *)
LEMMA StoredFits ==
  ASSUME Inv, UseInv, NEW r \in Approvals, ApproveStore(r)
  PROVE  NoneReturns /\ ResultsFit
<1> DEFINE k == approve[r].key
           d == approve[r].dev
<1>1. UNCHANGED <<devices, codeOf>> /\ approve[r].op = "token"
  BY DEF ApproveStore, db
<1>2. /\ approve[r] # Idle /\ k \in Keys /\ approve[r].sid \in Sessions
      /\ k = approve[r].sid \/ (k \in Codes /\ codeOf[approve[r].sid] = k)
      /\ devices[d].sid = approve[r].sid
  BY <1>1, ApproveFields DEF Inv, ApprovalOf
<1>3. CASE ~Found(k)
  <2>1. session' = session
    BY <1>3 DEF ApproveStore
  <2> QED
    BY <1>1, <2>1 DEF NoneReturns, ResultsFit, Live
<1>4. CASE Found(k)
  <2> DEFINE s == IdOf(k)
             x == [session[s] EXCEPT !.status = "approved", !.result = d]
  <2>1. /\ s \in Live /\ session[s] \in Session
        /\ s = k \/ (k \in Codes /\ session[s].code = k)
    BY <1>2, <1>4, KeyLeads DEF Inv
  <2>2. session' = [session EXCEPT ![s] = x] /\ x.result = d
    BY <1>4, <2>1 DEF ApproveStore, Set, Session
  <2>3. codeOf[s] = session[s].code /\ s \in Sessions
    BY <2>1 DEF Inv, CodesRecorded, TypeOK
  <2>4. codeOf[devices[d].sid] = codeOf[s]
    BY <1>2, <2>1, <2>3, KeyAssumption
  <2> HIDE DEF x, s
  <2>5. /\ Live' = Live /\ session'[s].result = d
        /\ \A t \in Live : t # s => session'[t] = session[t]
    BY <2>1, <2>2 DEF Inv, TypeOK, Live
  <2> QED
    BY <1>1, <2>4, <2>5 DEF NoneReturns, ResultsFit, ResultOf, SessionOf
<1> QED
  BY <1>3, <1>4

(* Steps that touch neither the devices nor the requests in flight, or end some. *)
LEMMA QuietUse ==
  ASSUME Inv, UseInv,
         \/ \E u \in Users, c \in Codes : Create(u, c)
         \/ \E u \in Users, k \in Keys : Reject(u, k)
         \/ \E r \in Approvals : ApproveAbort(r) \/ ApproveStore(r)
         \/ \E a \in Agents : \/ RedeemRefused(a) \/ AgentStep(a) \/ AgentTimeout(a)
                             \/ \E k \in Keys : AgentClaim(a, k)
         \/ \E s \in Sessions : Expire(s)
         \/ Restart
         \/ UNCHANGED vars
  PROVE  UseInv'
<1>0. TypeOK
  BY DEF Inv
<1>1. UNCHANGED <<devices, tokens, delivered>>
  BY DEF Create, Reject, ApproveAbort, ApproveStore, RedeemRefused, AgentStep, AgentPoll,
         AgentFallback, AgentTimeout, AgentClaim, Expire, Restart, vars, db
<1>2. \A r \in Approvals : approve'[r] \in {approve[r], Idle}
  BY <1>0 DEF TypeOK, Create, Reject, ApproveAbort, ApproveStore, RedeemRefused, AgentStep,
         AgentPoll, AgentFallback, AgentTimeout, AgentClaim, Expire, Restart, vars
<1>3. \A a \in Agents : redeem'[a] \in {redeem[a], Idle}
  BY <1>0 DEF TypeOK, Create, Reject, ApproveAbort, ApproveStore, RedeemRefused, AgentStep,
         AgentPoll, AgentFallback, AgentTimeout, AgentClaim, Expire, Restart, vars
<1>4. NoneReturns /\ ResultsFit
  <2>1. ASSUME NEW u \in Users, NEW c \in Codes, Create(u, c) PROVE NoneReturns /\ ResultsFit
    <3> DEFINE kept == {t \in Live : ~session[t].expired}
               new == [user |-> u, code |-> c, status |-> "pending_redeem", candidate |-> None,
                       result |-> None, expired |-> FALSE]
    <3>1. PICK s \in Sessions :
            /\ codeOf[s] = None /\ codeOf' = [codeOf EXCEPT ![s] = c]
            /\ session' = [t \in kept \union {s} |-> IF t = s THEN new ELSE session[t]]
      BY <2>1 DEF Create
    <3>2. new.result = None
      OBVIOUS
    <3> HIDE DEF new
    <3>3. /\ Live' \subseteq Live \union {s} /\ session'[s] = new
          /\ \A t \in Live' : t # s => session'[t] = session[t]
      BY <3>1 DEF Live
    <3> QED
      BY <1>0, <3>1, <3>2, <3>3 DEF NoneReturns, ResultsFit, Made, TypeOK
  <2>2. ASSUME Restart PROVE NoneReturns /\ ResultsFit
    BY <2>2 DEF Restart, NoneReturns, ResultsFit, Live
  <2>3. ASSUME UNCHANGED <<codeOf, session>> PROVE NoneReturns /\ ResultsFit
    BY <2>3 DEF NoneReturns, ResultsFit, Live
  <2>4. ASSUME NEW s \in Live, NEW x, Set(s, x), codeOf' = codeOf, x.result = session[s].result
        PROVE  NoneReturns /\ ResultsFit
    BY <1>0, <2>4 DEF NoneReturns, ResultsFit, Live, Set, TypeOK
  <2>5. ASSUME NEW u \in Users, NEW k \in Keys, Reject(u, k) PROVE NoneReturns /\ ResultsFit
    <3>1. IdOf(k) \in Live /\ session[IdOf(k)] \in Session
      BY <1>0, <2>5 DEF Reject, Usable, Found, TypeOK
    <3>2. [session[IdOf(k)] EXCEPT !.status = "rejected"].result = session[IdOf(k)].result
      BY <3>1 DEF Session
    <3> QED
      BY <2>4, <2>5, <3>1, <3>2 DEF Reject
  <2>6. ASSUME NEW r \in Approvals, ApproveAbort(r) PROVE NoneReturns /\ ResultsFit
    BY <2>3, <2>6 DEF ApproveAbort, store
  <2>7. ASSUME NEW r \in Approvals, ApproveStore(r) PROVE NoneReturns /\ ResultsFit
    BY <2>7, StoredFits
  <2>8. ASSUME NEW a \in Agents, RedeemRefused(a) \/ AgentStep(a) \/ AgentTimeout(a)
        PROVE  NoneReturns /\ ResultsFit
    BY <2>3, <2>8 DEF RedeemRefused, AgentStep, AgentPoll, AgentFallback, AgentTimeout, store
  <2>9. ASSUME NEW a \in Agents, NEW k \in Keys, AgentClaim(a, k)
        PROVE  NoneReturns /\ ResultsFit
    <3>1. IdOf(k) \in Live /\ session[IdOf(k)] \in Session
      BY <1>0, <2>9 DEF AgentClaim, Found, TypeOK
    <3>2. [session[IdOf(k)] EXCEPT !.candidate = a, !.status = "pending_approval"].result
            = session[IdOf(k)].result
      BY <3>1 DEF Session
    <3> QED
      BY <2>3, <2>4, <2>9, <3>1, <3>2 DEF AgentClaim, Claimed
  <2>10. ASSUME NEW s \in Sessions, Expire(s) PROVE NoneReturns /\ ResultsFit
    <3>1. s \in Live /\ session[s] \in Session
      BY <1>0, <2>10 DEF Expire, TypeOK
    <3>2. [session[s] EXCEPT !.expired = TRUE].result = session[s].result
      BY <3>1 DEF Session
    <3> QED
      BY <2>4, <2>10, <3>1, <3>2 DEF Expire
  <2> QED
    BY <2>1, <2>2, <2>3, <2>5, <2>6, <2>7, <2>8, <2>9, <2>10 DEF vars
<1> QED
  BY <1>1, <1>2, <1>3, <1>4, RequestsEnd

(* A request that goes on or begins. *)
LEMMA ApproveUse ==
  ASSUME Inv, UseInv, NEW r \in Approvals,
         (\E u \in Users, k \in Keys : ApproveBegin(r, u, k)) \/ ApproveDevice(r) \/ ApproveToken(r)
  PROVE  UseInv'
<1>1. UNCHANGED <<session, redeem, codeOf, delivered>> /\ approve \in [Approvals -> ApproveJob]
  BY DEF ApproveBegin, ApproveDevice, ApproveToken, store, Inv, TypeOK
<1>2. NoneReturns /\ ResultsFit
  BY <1>1 DEF NoneReturns, ResultsFit, Live
<1>3. CASE \E u \in Users, k \in Keys : ApproveBegin(r, u, k)
  <2>1. PICK k \in Keys : /\ IdOf(k) \in Live
                          /\ approve' = [approve EXCEPT ![r] =
                               [op |-> "candidate", key |-> k, sid |-> IdOf(k),
                                user |-> session[IdOf(k)].user]]
    BY <1>3 DEF ApproveBegin, Usable, Found
  <2>2. RequestsGoOn
    BY <1>1, <2>1 DEF RequestsGoOn
  <2>3. UNCHANGED <<devices, tokens>> /\ DbGrows
    BY <1>3 DEF ApproveBegin, db, DbGrows
  <2> QED
    BY <1>1, <1>2, <2>2, <2>3, NothingDelivered
<1>4. CASE ApproveDevice(r)
  <2>1. approve[r] # Idle /\ tokens' = tokens /\ Made(approve[r].sid)
    BY <1>4 DEF ApproveDevice, Idle, UseInv, MadeOnly
  <2>2. PICK d \in Devices \ DOMAIN devices :
          /\ devices' = WithDevice(d, approve[r].user, approve[r].sid)
          /\ approve' = [approve EXCEPT ![r] =
               [op |-> "device", key |-> approve[r].key, sid |-> approve[r].sid,
                user |-> approve[r].user, dev |-> d]]
    BY <1>4 DEF ApproveDevice
  <2>3. /\ DbGrows
        /\ \A e \in DOMAIN devices' \ DOMAIN devices : devices'[e].sid = approve[r].sid
    BY <2>1, <2>2 DEF WithDevice, DbGrows
  <2>4. RequestsGoOn
    BY <1>1, <2>1, <2>2 DEF RequestsGoOn
  <2> QED
    BY <1>1, <1>2, <2>1, <2>3, <2>4, NothingDelivered
<1>5. CASE ApproveToken(r)
  <2>1. /\ approve' = [approve EXCEPT ![r].op = "token"] /\ approve[r].op = "device"
        /\ devices' = devices /\ DbGrows
    BY <1>5 DEF ApproveToken, DbGrows
  <2>2. approve[r] # Idle /\ approve'[r].sid = approve[r].sid
        /\ \A q \in Approvals : q # r => approve'[q] = approve[q]
    BY <1>1, <2>1, ApproveFields DEF Inv, Idle
  <2>3. RequestsGoOn
    BY <1>1, <2>2 DEF RequestsGoOn
  <2> QED
    BY <1>1, <1>2, <2>1, <2>3, NothingDelivered
<1> QED
  BY <1>3, <1>4, <1>5

LEMMA RedeemUse ==
  ASSUME Inv, UseInv, NEW a \in Agents, RedeemBegin(a) \/ RedeemDevice(a) \/ RedeemToken(a)
  PROVE  UseInv'
<1>1. UNCHANGED <<session, approve, codeOf, delivered>> /\ redeem \in [Agents -> RedeemJob]
  BY DEF RedeemBegin, RedeemDevice, RedeemToken, store, Inv, TypeOK
<1>2. NoneReturns /\ ResultsFit
  BY <1>1 DEF NoneReturns, ResultsFit, Live
<1>3. CASE RedeemBegin(a)
  <2> DEFINE J == [op |-> "session", sid |-> IdOf(agent[a].key),
                   user |-> session[IdOf(agent[a].key)].user]
  <2>1. J.sid \in Live /\ J.op = "session" /\ redeem' = [redeem EXCEPT ![a] = J]
    BY <1>3 DEF RedeemBegin, Usable, Found
  <2> HIDE DEF J
  <2>2. RequestsGoOn
    BY <1>1, <2>1 DEF RequestsGoOn
  <2>3. UNCHANGED <<devices, tokens>> /\ DbGrows
    BY <1>3 DEF RedeemBegin, db, DbGrows
  <2>4. \A b \in Agents : redeem'[b].op \in {"device", "token"} => redeem'[b] = redeem[b]
    BY <1>1, <2>1
  <2> QED
    BY <1>1, <1>2, <2>2, <2>3, <2>4, NothingDelivered
<1>4. CASE RedeemDevice(a)
  <2>1. redeem[a] # Idle /\ tokens' = tokens /\ Made(redeem[a].sid)
    BY <1>4 DEF RedeemDevice, Idle, UseInv, MadeOnly
  <2>2. PICK d \in Devices \ DOMAIN devices :
          /\ devices' = WithDevice(d, redeem[a].user, redeem[a].sid)
          /\ redeem' = [redeem EXCEPT ![a] = [op |-> "device", sid |-> redeem[a].sid,
                                              user |-> redeem[a].user, dev |-> d]]
    BY <1>4 DEF RedeemDevice
  <2>3. /\ DbGrows /\ devices'[d].sid = redeem[a].sid
        /\ \A e \in DOMAIN devices' \ DOMAIN devices : devices'[e].sid = redeem[a].sid
    BY <2>1, <2>2 DEF WithDevice, DbGrows
  <2>4. /\ redeem'[a].sid = redeem[a].sid /\ redeem'[a].dev = d
        /\ \A b \in Agents : b # a => redeem'[b] = redeem[b]
    BY <1>1, <2>2
  <2>5. RequestsGoOn
    BY <1>1, <2>1, <2>4 DEF RequestsGoOn
  <2> QED
    BY <1>1, <1>2, <2>1, <2>3, <2>4, <2>5, NothingDelivered
<1>5. CASE RedeemToken(a)
  <2>1. /\ redeem' = [redeem EXCEPT ![a].op = "token"] /\ redeem[a].op = "device"
        /\ devices' = devices /\ DbGrows
    BY <1>5 DEF RedeemToken, DbGrows
  <2>2. /\ redeem[a] # Idle /\ redeem'[a].sid = redeem[a].sid /\ redeem'[a].dev = redeem[a].dev
        /\ \A b \in Agents : b # a => redeem'[b] = redeem[b]
    BY <1>1, <2>1, RedeemFields DEF Inv, Idle
  <2>3. RequestsGoOn
    BY <1>1, <2>2 DEF RequestsGoOn
  <2> QED
    BY <1>1, <1>2, <2>1, <2>2, <2>3, NothingDelivered
<1> QED
  BY <1>3, <1>4, <1>5

(* The two ways to deliver a device remove the session it was made from. *)
LEMMA ResultUse ==
  ASSUME Inv, UseInv, NEW a \in Agents, RedeemResult(a)
  PROVE  UseInv'
<1> DEFINE s == IdOf(agent[a].key)
           d == session[s].result
<1>1. /\ UNCHANGED <<devices, tokens, approve, redeem, codeOf>>
      /\ s \in Live /\ d # None /\ Live' = Live \ {s} /\ delivered' = delivered \union {d}
      /\ \A t \in Live' : session'[t] = session[t]
  BY DEF RedeemResult, db, Usable, Found, Removed, Answer, Live
<1>2. d \in DOMAIN devices
  BY <1>1, ResultIsKnown
<1> HIDE DEF s
<1>3. DbGrows /\ NoneReturns /\ RequestsGoOn /\ ResultsFit
  BY <1>1 DEF DbGrows, NoneReturns, RequestsGoOn, ResultsFit
<1>4. MadeOnly' /\ \A t \in Live' : ResultOf(t)'
  BY <1>1, <1>2, <1>3, MadeStep, ResultsStep DEF UseInv, MadeOnly
<1>5. \A b \in Agents : RedeemOf(b)'
  BY <1>1 DEF UseInv, RedeemOf, SessionOf
<1>6. ~Reused(codeOf[SessionOf(d)]) => SessionOf(d) \notin Live'
  <2>1. codeOf[SessionOf(d)] = codeOf[s] /\ SessionOf(d) \in Sessions /\ s \in Sessions
    BY <1>1, <1>2 DEF UseInv, MadeOnly, Made, ResultOf, Inv, TypeOK
  <2> QED
    BY <1>1, <2>1 DEF Reused
<1>7. UsedIsGone'
  BY <1>1, <1>3, <1>6, GoneStays DEF UsedIsGone, Reused, SessionOf
<1> QED
  BY <1>4, <1>5, <1>7 DEF UseInv

LEMMA EndUse ==
  ASSUME Inv, UseInv, NEW a \in Agents, RedeemEnd(a)
  PROVE  UseInv'
<1> DEFINE s == redeem[a].sid
           d == redeem[a].dev
<1>1. /\ UNCHANGED <<devices, tokens, approve, codeOf>> /\ redeem[a].op = "token"
      /\ Live' = Live \ {s} /\ delivered' = delivered \union {d}
      /\ \A t \in Live' : session'[t] = session[t]
      /\ redeem' = [redeem EXCEPT ![a] = Idle]
  BY DEF RedeemEnd, db, Removed, Answer, Live
<1>2. d \in DOMAIN devices /\ SessionOf(d) = s
  BY <1>1, RedeemedIsKnown DEF UseInv, RedeemOf
<1>3. redeem'[a] = Idle /\ \A b \in Agents : b # a => redeem'[b] = redeem[b]
  BY <1>1 DEF Inv, TypeOK
<1>4. DbGrows /\ NoneReturns /\ RequestsGoOn /\ ResultsFit
  BY <1>1, <1>3 DEF DbGrows, NoneReturns, RequestsGoOn, ResultsFit
<1>5. MadeOnly' /\ \A t \in Live' : ResultOf(t)'
  BY <1>1, <1>2, <1>4, MadeStep, ResultsStep DEF UseInv, MadeOnly
<1>6. \A b \in Agents : RedeemOf(b)'
  BY <1>1, <1>3 DEF UseInv, RedeemOf, SessionOf, Idle
<1>7. UsedIsGone'
  BY <1>1, <1>2, <1>4, GoneStays DEF UsedIsGone, SessionOf
<1> QED
  BY <1>5, <1>6, <1>7 DEF UseInv

LEMMA UseNext == Inv /\ UseInv /\ [Next]_vars => UseInv'
<1> SUFFICES ASSUME Inv, UseInv, [Next]_vars PROVE UseInv'
  OBVIOUS
<1>1. ASSUME NEW r \in Approvals, ApproveStep(r) PROVE UseInv'
  BY <1>1, ApproveUse, QuietUse DEF ApproveStep
<1>2. ASSUME NEW a \in Agents, RedeemStep(a) PROVE UseInv'
  BY <1>2, RedeemUse, ResultUse, EndUse, QuietUse DEF RedeemStep
<1> QED
  BY <1>1, <1>2, ApproveUse, QuietUse DEF Next

(* Once a session has enrolled a device, no code and no token leads to it any
   more: redeem_pairing_session and the redemption of a stored result remove it,
   and neither an approval in flight nor a restart brings it back. *)
THEOREM PairingUsedIsGone == Spec => []UsedIsGone
<1>1. UseInv => UsedIsGone
  BY DEF UseInv
<1> QED
  BY <1>1, UseInit, UseNext, PairingInvariant, PTL DEF Spec

(* A session enrols two devices, which "single use" in redeem_pairing_session
   excludes, only if the redemptions overlap: the second was already past its
   first lock section when the first removed the session. *)
THEOREM PairingSingleUseUnlessOverlap == Spec => SingleUseUnlessOverlap
<1> DEFINE Overlaps == \A d \in delivered' \ delivered, e \in delivered :
       SessionOf(d)' = SessionOf(e) /\ ~Reused(codeOf[SessionOf(e)])
         => \E a \in Agents : redeem[a].op = "token" /\ redeem[a].sid = SessionOf(e)
<1>1. Inv /\ UseInv /\ [Next]_vars => [Overlaps]_vars
  <2> SUFFICES ASSUME Inv, UseInv, Next,
                      NEW d \in delivered' \ delivered, NEW e \in delivered,
                      SessionOf(d)' = SessionOf(e), ~Reused(codeOf[SessionOf(e)])
               PROVE  \E a \in Agents : redeem[a].op = "token" /\ redeem[a].sid = SessionOf(e)
    OBVIOUS
  <2>1. PICK a \in Agents : RedeemResult(a) \/ RedeemEnd(a)
    <3>1. delivered' # delivered
      OBVIOUS
    <3> QED
      BY <3>1 DEF Next, Create, Reject, ApproveBegin, ApproveStep, ApproveDevice, ApproveToken,
        ApproveStore, ApproveAbort, RedeemStep, RedeemRefused, RedeemBegin, RedeemDevice,
        RedeemToken, AgentStep, AgentPoll, AgentFallback, AgentTimeout, AgentClaim, Expire, Restart
  <2>2. CASE RedeemEnd(a)
    <3>1. redeem[a].op = "token" /\ d = redeem[a].dev /\ devices' = devices
      BY <2>2 DEF RedeemEnd, Answer, db
    <3> QED
      BY <3>1 DEF UseInv, RedeemOf, SessionOf
  <2>3. CASE RedeemResult(a)
    <3> DEFINE s == IdOf(agent[a].key)
    <3>1. s \in Live /\ d = session[s].result /\ d # None /\ devices' = devices
      BY <2>3 DEF RedeemResult, Usable, Found, Answer, db
    <3> HIDE DEF s
    <3>2. /\ codeOf[SessionOf(d)] = codeOf[s] /\ s \in Sessions /\ SessionOf(d) = SessionOf(e)
          /\ SessionOf(e) \in Sessions
      BY <3>1, ResultIsKnown DEF UseInv, ResultOf, MadeOnly, Made, SessionOf, Inv, TypeOK
    <3>3. SessionOf(e) \notin Live
      BY DEF UseInv, UsedIsGone
    <3> QED
      BY <3>1, <3>2, <3>3 DEF Reused
  <2> QED
    BY <2>1, <2>2, <2>3
<1> QED
  BY <1>1, UseInit, UseNext, PairingInvariant, PTL DEF Spec, SingleUseUnlessOverlap
=============================================================================
