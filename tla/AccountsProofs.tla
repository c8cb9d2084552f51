--------------------------- MODULE AccountsProofs ---------------------------
(***************************************************************************)
(* Proofs about Accounts, for any number of accounts, tokens, phrases and  *)
(* secrets, and of requests in flight.                                     *)
(*                                                                         *)
(* A handler reads a row in one statement and acts on it in a later one.   *)
(* The invariant says, per request in flight, what it still may rely on:   *)
(* all of it as long as nothing it has read was overwritten (stale is      *)
(* empty), and which excuse it carries otherwise.                          *)
(***************************************************************************)
EXTENDS Accounts, TLAPS

(* A session or a request of user u opened under password e: if the password
   has changed since, the reset is not over, or was cut short, or swept it. *)
Excused(u, e, stale) ==
  e < user[u].pwd => Resetting(u) \/ u \in cut \/ "swept" \in stale

(* Refresh token f is used up: it cannot be read again, and whoever has read it
   knows that another was faster. *)
Spent(f) ==
  /\ f \notin fresh
  /\ f \in Rows => ~token[f].live
  /\ \A w \in Workers : job[w].op = "refresh" /\ job[w].arg = f => "taken" \in job[w].stale

(* The rows and the requests that exchanged f and were not overtaken. *)
RowOf(t, f)     == token[t].from = f /\ "taken" \notin token[t].stale
RequestOf(w, f) == job[w].op = "issue" /\ job[w].arg = f /\ "taken" \notin job[w].stale

ExchangedOnce ==
  \A f \in Tokens :
    /\ \A t \in Rows : RowOf(t, f) => Spent(f)
    /\ \A w \in Workers : RequestOf(w, f) => Spent(f)
    /\ \A s, t \in Rows : RowOf(s, f) /\ RowOf(t, f) => s = t
    /\ \A v, w \in Workers : RequestOf(v, f) /\ RequestOf(w, f) => v = w
    /\ \A t \in Rows, w \in Workers : ~(RowOf(t, f) /\ RequestOf(w, f))

(* What the request of worker w relies on. *)
Registering(w) ==
  job[w].op = "register" =>
    /\ job[w].user \in Users /\ job[w].arg \in Roles /\ job[w].epoch = 0
    /\ job[w].arg = "user" => Accts # {}
    /\ job[w].arg = "admin" /\ job[w].stale = {} => Accts = {}

OfAccount(w) == job[w].op \notin {"idle", "register"} => job[w].user \in Accts

Issuing(w) ==
  /\ job[w].op = "issue" => job[w].arg \in Tokens \union {None}
  /\ job[w].op = "refresh" => job[w].arg \in Tokens
  /\ job[w].op \in {"issue", "refresh"} =>
       /\ job[w].arg \notin fresh
       /\ Excused(job[w].user, job[w].epoch, job[w].stale)

Recovering(w) == job[w].op \in {"recover", "consume"} => job[w].arg \in DOMAIN key

SettingUp(w) ==
  /\ job[w].op = "setup" /\ job[w].stale = {} => ~user[job[w].user].mfa
  /\ job[w].op = "enable" /\ job[w].stale = {} =>
       user[job[w].user].totp = job[w].arg /\ job[w].arg \in proved

Administering(w) ==
  /\ job[w].op = "demote" => job[w].arg # job[w].user
  /\ job[w].op \in {"promote", "demote"} /\ job[w].stale = {} =>
       user[job[w].user].role = "admin"

JobFits(w) == /\ Registering(w) /\ OfAccount(w) /\ Issuing(w) /\ Recovering(w)
              /\ SettingUp(w) /\ Administering(w)

(* What is drawn is not drawn again. *)
DrawnOnce == \A x \in fresh : x \notin Rows /\ x \notin DOMAIN key

SessionsExcused ==
  \A t \in Rows : token[t].live => Excused(token[t].user, token[t].epoch, token[t].stale)

(* The inductive invariant. *)
Inv ==
  /\ TypeOK
  /\ DrawnOnce
  /\ SessionsExcused
  /\ ExchangedOnce
  /\ OneFirstAdmin
  /\ AdminRemains
  /\ MfaSecretProved
  /\ \A w \in Workers : JobFits(w)

(* What a step leaves of the request of another worker. *)
SameRequest(v) ==
  /\ job'[v] \in Job
  /\ job'[v].op = job[v].op /\ job'[v].user = job[v].user
  /\ job'[v].arg = job[v].arg /\ job'[v].epoch = job[v].epoch
  /\ \A m \in job[v].stale : m \in job'[v].stale

(* Request j learns that it was overtaken. *)
Mark(j, m) == [j EXCEPT !.stale = @ \union {m}]

-----------------------------------------------------------------------------
LEMMA IdleJob == Idle \in Job /\ Idle.op = "idle"
BY BoundsAssumption DEF Idle, Job, Ops, Args, Epochs

LEMMA IdleFits ==
  ASSUME NEW w \in Workers, job'[w].op = "idle"
  PROVE  JobFits(w)'
BY DEF JobFits, Registering, OfAccount, Issuing, Recovering, SettingUp, Administering

LEMMA Marked ==
  ASSUME NEW j \in Job, NEW m \in {"swept", "taken"}
  PROVE  /\ Mark(j, m) \in Job /\ Mark(j, m).op = j.op /\ Mark(j, m).user = j.user
         /\ Mark(j, m).arg = j.arg /\ Mark(j, m).epoch = j.epoch
         /\ Mark(j, m).stale = j.stale \union {m}
BY DEF Job, Mark

(* A request relies on the same after a step that keeps what it has read, or
   marks it. *)
LEMMA JobKept ==
  ASSUME Inv, NEW v \in Workers, SameRequest(v),
         Accts \subseteq Accts', fresh' \subseteq fresh, DOMAIN key \subseteq DOMAIN key',
         proved \subseteq proved',
         job[v].op = "register" => Accts' = Accts \/ job'[v].stale # {},
         job[v].op \in {"issue", "refresh"} =>
           Excused(job[v].user, job[v].epoch, job[v].stale)',
         job[v].op = "setup" =>
           \/ job'[v].stale # {}
           \/ user'[job[v].user].mfa => user[job[v].user].mfa,
         job[v].op = "enable" =>
           \/ job'[v].stale # {}
           \/ user'[job[v].user].totp = user[job[v].user].totp,
         job[v].op \in {"promote", "demote"} =>
           \/ job'[v].stale # {}
           \/ user[job[v].user].role = "admin" => user'[job[v].user].role = "admin"
  PROVE  JobFits(v)'
<1>1. JobFits(v) /\ job[v] \in Job
  BY DEF Inv, TypeOK
<1>2. job[v].stale # {} => job'[v].stale # {}
  BY DEF SameRequest
<1>3. Registering(v)'
  BY <1>1, <1>2 DEF JobFits, Registering, SameRequest
<1>4. OfAccount(v)'
  BY <1>1 DEF JobFits, OfAccount, SameRequest
<1>5. Issuing(v)'
  BY <1>1 DEF JobFits, Issuing, SameRequest
<1>6. Recovering(v)'
  BY <1>1 DEF JobFits, Recovering, SameRequest
<1>7. SettingUp(v)'
  BY <1>1, <1>2 DEF JobFits, SettingUp, SameRequest
<1>8. Administering(v)'
  BY <1>1, <1>2 DEF JobFits, Administering, SameRequest
<1> QED
  BY <1>3, <1>4, <1>5, <1>6, <1>7, <1>8 DEF JobFits

(* Exchanges stay single in a step that adds none. *)
LEMMA ExchangeKept ==
  ASSUME Inv, fresh' \subseteq fresh, Rows' \subseteq Rows,
         \A t \in Rows' : /\ token'[t].from = token[t].from
                          /\ token'[t].stale = token[t].stale
                          /\ token'[t].live => token[t].live,
         \A w \in Workers :
           /\ job'[w].op = "issue" /\ job'[w].arg \in Tokens =>
                job[w].op = "issue" /\ job'[w].arg = job[w].arg
                  /\ \A m \in job[w].stale : m \in job'[w].stale
           /\ job'[w].op = "refresh" =>
                job[w].op = "refresh" /\ job'[w].arg = job[w].arg
                  /\ \A m \in job[w].stale : m \in job'[w].stale
  PROVE  ExchangedOnce'
<1>1. ASSUME NEW f \in Tokens, Spent(f) PROVE Spent(f)'
  BY <1>1 DEF Spent
<1>2. ASSUME NEW f \in Tokens, NEW t \in Rows', RowOf(t, f)' PROVE t \in Rows /\ RowOf(t, f)
  BY <1>2 DEF RowOf
<1>3. ASSUME NEW f \in Tokens, NEW w \in Workers, RequestOf(w, f)' PROVE RequestOf(w, f)
  BY <1>3 DEF RequestOf
<1>4. ExchangedOnce
  BY DEF Inv
<1> QED
  BY <1>1, <1>2, <1>3, <1>4 DEF ExchangedOnce

-----------------------------------------------------------------------------
(* The first statement of a request, which reads. *)
LEMMA BeginStep ==
  ASSUME Inv, NEW w \in Workers, job[w].op = "idle", NEW J \in Job,
         job' = [v \in Workers |-> IF v = w THEN J ELSE job[v]],
         UNCHANGED <<user, token, key, fresh, crossed, cut, deposed>>,
         proved \subseteq proved', proved' \subseteq Secrets,
         left' \in 0 .. MaxRequests,
         J.op = "issue" => J.arg = None,
         J.op = "refresh" => J.arg \in Rows /\ token[J.arg].live,
         JobFits(w)'
  PROVE  Inv'
<1>1. /\ job'[w] = J /\ \A v \in Workers : v # w => job'[v] = job[v]
      /\ job' \in [Workers -> Job] /\ job \in [Workers -> Job]
  BY DEF Inv, TypeOK
<1>2. Accts' = Accts /\ Rows' = Rows
  BY DEF Accts, Rows
<1>3. TypeOK' /\ DrawnOnce' /\ OneFirstAdmin' /\ AdminRemains' /\ MfaSecretProved'
  BY <1>1, <1>2 DEF Inv, TypeOK, DrawnOnce, OneFirstAdmin, AdminRemains, MfaSecretProved
<1>4. \A u : Resetting(u) => Resetting(u)'
  BY <1>1 DEF Resetting
<1>5. ASSUME NEW u, NEW e, NEW st, Excused(u, e, st)
      PROVE  e < user[u].pwd => Resetting(u)' \/ u \in cut' \/ "swept" \in st
  BY <1>4, <1>5 DEF Excused
<1>6. SessionsExcused'
  BY <1>2, <1>5 DEF Inv, SessionsExcused, Excused
<1>7. ExchangedOnce'
  <2>1. ASSUME NEW f \in Tokens, Spent(f) PROVE Spent(f)'
    BY <1>1, <1>2, <2>1 DEF Spent
  <2>2. ASSUME NEW f \in Tokens, NEW v \in Workers, RequestOf(v, f)' PROVE RequestOf(v, f)
    BY <1>1, <2>2, NoneAssumption DEF RequestOf
  <2>3. ASSUME NEW f \in Tokens, NEW t \in Rows PROVE RowOf(t, f)' <=> RowOf(t, f)
    BY DEF RowOf
  <2>4. ExchangedOnce
    BY DEF Inv
  <2> QED
    BY <1>2, <2>1, <2>2, <2>3, <2>4 DEF ExchangedOnce
<1>8. ASSUME NEW v \in Workers, v # w PROVE JobFits(v)'
  <2>1. SameRequest(v)
    BY <1>1, <1>8 DEF SameRequest
  <2>2. job[v].op \in {"issue", "refresh"} => Excused(job[v].user, job[v].epoch, job[v].stale)'
    BY <1>1, <1>5, <1>8 DEF Inv, JobFits, Issuing, Excused
  <2> QED
    BY <1>2, <2>1, <2>2, JobKept
<1> QED
  BY <1>3, <1>6, <1>7, <1>8 DEF Inv

LEMMA BeginJob ==
  ASSUME NEW w \in Workers, NEW op, NEW u, NEW arg, NEW e, Begin(w, op, u, arg, e)
  PROVE  /\ job[w].op = "idle"
         /\ job' = [v \in Workers |->
              IF v = w THEN [op |-> op, user |-> u, arg |-> arg, epoch |-> e, stale |-> {}]
              ELSE job[v]]
BY DEF Begin, Step, Nobody

LEMMA RegisterCountStep ==
  ASSUME Inv, left' \in 0 .. MaxRequests, NEW w \in Workers, NEW u \in Users, RegisterCount(w, u)
  PROVE  Inv'
<1> DEFINE J == [op |-> "register", user |-> u, arg |-> IF Accts = {} THEN "admin" ELSE "user",
                 epoch |-> 0, stale |-> {}]
           K == [op |-> "register", user |-> u, arg |-> "admin", epoch |-> 0,
                 stale |-> {"taken"}]
<1>1. job[w].op = "idle" /\ UNCHANGED <<user, token, key, fresh, proved, crossed, cut, deposed>>
  BY DEF RegisterCount
<1>2. /\ J \in Job /\ J.op = "register" /\ J.user = u /\ J.epoch = 0
      /\ J.arg = IF Accts = {} THEN "admin" ELSE "user"
  BY BoundsAssumption DEF Job, Ops, Args, Roles, Epochs
<1>3. /\ K \in Job /\ K.op = "register" /\ K.user = u /\ K.epoch = 0 /\ K.arg = "admin"
      /\ K.stale # {}
  BY BoundsAssumption DEF Job, Ops, Args, Roles, Epochs
<1>4. \/ job' = [v \in Workers |-> IF v = w THEN J ELSE job[v]]
      \/ job' = [v \in Workers |-> IF v = w THEN K ELSE job[v]]
  BY BeginJob DEF RegisterCount, Step, Nobody
<1> HIDE DEF J, K
<1>5. PICK L \in {J, K} : job' = [v \in Workers |-> IF v = w THEN L ELSE job[v]]
  BY <1>4
<1>6. JobFits(w)'
  BY <1>1, <1>2, <1>3, <1>5
  DEF JobFits, Registering, OfAccount, Issuing, Recovering, SettingUp, Administering, Accts, Roles
<1> QED
  BY <1>1, <1>2, <1>3, <1>5, <1>6, BeginStep DEF Inv, TypeOK

LEMMA LoginStep ==
  ASSUME Inv, left' \in 0 .. MaxRequests, NEW w \in Workers, NEW u \in Users, Login(w, u)
  PROVE  Inv'
<1> DEFINE J == [op |-> "issue", user |-> u, arg |-> None, epoch |-> user[u].pwd, stale |-> {}]
<1>1. /\ u \in Accts /\ user[u] \in User
      /\ UNCHANGED <<user, token, key, fresh, proved, crossed, cut, deposed>>
  BY DEF Login, Inv, TypeOK
<1>2. J \in Job /\ J.op = "issue" /\ J.user = u /\ J.arg = None /\ J.epoch = user[u].pwd
  BY <1>1 DEF Job, Ops, Args, User
<1>3. job[w].op = "idle" /\ job' = [v \in Workers |-> IF v = w THEN J ELSE job[v]]
  BY BeginJob DEF Login
<1> HIDE DEF J
<1>4. user[u].pwd \in Int /\ None \notin fresh
  BY <1>1, NoneAssumption, BoundsAssumption DEF User, Epochs, Inv, TypeOK
<1>5. JobFits(w)'
  BY <1>1, <1>2, <1>3, <1>4
  DEF JobFits, Registering, OfAccount, Issuing, Recovering, SettingUp, Administering, Accts, Excused
<1> QED
  BY <1>1, <1>2, <1>3, <1>5, BeginStep DEF Inv, TypeOK

LEMMA RefreshReadStep ==
  ASSUME Inv, left' \in 0 .. MaxRequests, NEW w \in Workers, NEW t \in Tokens, RefreshRead(w, t)
  PROVE  Inv'
<1> DEFINE J == [op |-> "refresh", user |-> token[t].user, arg |-> t, epoch |-> token[t].epoch,
                 stale |-> token[t].stale \ {"taken"}]
<1>1. /\ t \in Rows /\ token[t] \in Token /\ token[t].live /\ token[t].user \in Accts
      /\ job[w].op = "idle"
      /\ UNCHANGED <<user, token, key, fresh, proved, crossed, cut, deposed>>
  BY DEF RefreshRead, Inv, TypeOK
<1>2. /\ J \in Job /\ J.op = "refresh" /\ J.user = token[t].user /\ J.arg = t
      /\ J.epoch = token[t].epoch /\ J.stale = token[t].stale \ {"taken"}
  BY <1>1 DEF Job, Ops, Args, Token
<1>3. job' = [v \in Workers |-> IF v = w THEN J ELSE job[v]]
  BY DEF RefreshRead, Step, Nobody
<1> HIDE DEF J
<1>4. t \notin fresh /\ Excused(token[t].user, token[t].epoch, token[t].stale)
  BY <1>1 DEF Inv, DrawnOnce, SessionsExcused
<1>5. Resetting(token[t].user) => Resetting(token[t].user)'
  BY <1>1, <1>3 DEF Resetting
<1>6. Issuing(w)'
  BY <1>1, <1>2, <1>3, <1>4, <1>5 DEF Issuing, Excused
<1>7. JobFits(w)'
  BY <1>1, <1>2, <1>3, <1>6
  DEF JobFits, Registering, OfAccount, Recovering, SettingUp, Administering, Accts
<1> QED
  BY <1>1, <1>2, <1>3, <1>7, BeginStep DEF Inv, TypeOK

(* The requests that read a row of the account they are about. *)
LEMMA ReadAccountStep ==
  ASSUME Inv, left' \in 0 .. MaxRequests, NEW w \in Workers, NEW u \in Accts,
         NEW op \in {"change", "recover", "setup", "enable", "disable", "promote", "demote"},
         NEW arg \in Args, NEW e \in Epochs, Begin(w, op, u, arg, e),
         UNCHANGED <<user, token, key, fresh, crossed, cut, deposed>>,
         proved \subseteq proved', proved' \subseteq Secrets,
         op = "recover" => arg \in DOMAIN key,
         op = "setup" => ~user[u].mfa,
         op = "enable" => user[u].totp = arg /\ arg \in proved',
         op = "demote" => arg # u,
         op \in {"promote", "demote"} => user[u].role = "admin"
  PROVE  Inv'
<1> DEFINE J == [op |-> op, user |-> u, arg |-> arg, epoch |-> e, stale |-> {}]
<1>1. J \in Job /\ J.op = op /\ J.user = u /\ J.arg = arg
  BY DEF Job, Ops, Inv, TypeOK
<1>2. job[w].op = "idle" /\ job' = [v \in Workers |-> IF v = w THEN J ELSE job[v]]
  BY BeginJob
<1> HIDE DEF J
<1>3. JobFits(w)'
  BY <1>1, <1>2
  DEF JobFits, Registering, OfAccount, Issuing, Recovering, SettingUp, Administering, Accts
<1> QED
  BY <1>1, <1>2, <1>3, BeginStep

LEMMA RequestStep ==
  ASSUME Inv, left' \in 0 .. MaxRequests, NEW w \in Workers, Request(w)
  PROVE  Inv'
<1>1. /\ \A u \in Accts : /\ user[u] \in User /\ user[u].pwd \in Epochs /\ u \in Args
                          /\ user[u].totp # None => user[u].totp \in Secrets /\ user[u].totp \in Args
      /\ None \in Args /\ 0 \in Epochs /\ proved \subseteq Secrets
      /\ \A k \in Keys : k \in Args
      /\ \A u \in Users : u \in Args
  BY BoundsAssumption DEF Inv, TypeOK, User, Args, Epochs
<1>2. ASSUME NEW u \in Users, RegisterCount(w, u) \/ Login(w, u) PROVE Inv'
  BY <1>2, RegisterCountStep, LoginStep
<1>3. ASSUME NEW t \in Tokens, RefreshRead(w, t) PROVE Inv'
  BY <1>3, RefreshReadStep
<1>4. ASSUME NEW u \in Users, ChangeCheck(w, u) PROVE Inv'
  BY <1>1, <1>4, ReadAccountStep DEF ChangeCheck
<1>5. ASSUME NEW u \in Users, SetupCheck(w, u) PROVE Inv'
  BY <1>1, <1>5, ReadAccountStep DEF SetupCheck
<1>6. ASSUME NEW u \in Users, VerifyRead(w, u) PROVE Inv'
  BY <1>1, <1>6, ReadAccountStep DEF VerifyRead, VerifyTotp
<1>7. ASSUME NEW u \in Users, DisableRead(w, u) PROVE Inv'
  BY <1>1, <1>7, ReadAccountStep DEF DisableRead, VerifyTotp
<1>8. ASSUME NEW u \in Users, NEW k \in Keys, RecoverCheck(w, u, k) PROVE Inv'
  BY <1>1, <1>8, ReadAccountStep DEF RecoverCheck, ValidPhrase
<1>9. ASSUME NEW u \in Users, NEW a \in Users, NEW op \in {"promote", "demote"},
             RoleCheck(w, a, u, op)
      PROVE  Inv'
  BY <1>1, <1>9, ReadAccountStep DEF RoleCheck, RequireAdmin
<1> QED
  BY <1>2, <1>3, <1>4, <1>5, <1>6, <1>7, <1>8, <1>9 DEF Request

-----------------------------------------------------------------------------
(* Steps that change no account and open no session: rows are revoked or
   deleted, requests end, go on, or learn that they were overtaken. *)
LEMMA QuietStep ==
  ASSUME Inv, TypeOK', DrawnOnce', UNCHANGED <<user, proved, crossed, deposed>>,
         fresh' \subseteq fresh, Rows' \subseteq Rows, DOMAIN key \subseteq DOMAIN key',
         \A t \in Rows' : /\ token'[t].user = token[t].user
                          /\ token'[t].epoch = token[t].epoch
                          /\ token'[t].from = token[t].from
                          /\ token'[t].stale = token[t].stale
                          /\ token'[t].live => token[t].live,
         \A v \in Workers :
           \/ SameRequest(v)
           \/ job'[v].op = "idle"
           \/ job[v].op = "consume" /\ job'[v].op = "sweep" /\ job'[v].user = job[v].user,
         cut \subseteq cut',
         \A u \in Accts : Resetting(u) => Resetting(u)' \/ u \in cut'
  PROVE  Inv'
<1>1. Accts' = Accts
  BY DEF Accts
<1>2. OneFirstAdmin' /\ AdminRemains' /\ MfaSecretProved'
  BY <1>1 DEF Inv, OneFirstAdmin, AdminRemains, MfaSecretProved
<1>4. ASSUME NEW t \in Rows', token'[t].live
      PROVE  Excused(token[t].user, token[t].epoch, token[t].stale)'
  <2>1. t \in Rows /\ token[t].live /\ token[t].user \in Accts
    BY <1>4 DEF Inv, TypeOK
  <2>2. Excused(token[t].user, token[t].epoch, token[t].stale)
    BY <2>1 DEF Inv, SessionsExcused
  <2> QED
    BY <1>4, <2>1, <2>2 DEF Excused
<1>5. SessionsExcused'
  BY <1>4 DEF SessionsExcused
<1>6. ExchangedOnce'
  <2>1. \A v \in Workers : job'[v].op \in {"issue", "refresh"} => SameRequest(v)
    OBVIOUS
  <2> QED
    BY <2>1, ExchangeKept DEF SameRequest
<1>7. ASSUME NEW v \in Workers PROVE JobFits(v)'
  <2>1. CASE job'[v].op = "idle"
    BY <2>1, IdleFits
  <2>2. CASE job[v].op = "consume" /\ job'[v].op = "sweep" /\ job'[v].user = job[v].user
    <3>1. job[v].user \in Accts
      BY <2>2 DEF Inv, JobFits, OfAccount
    <3> QED
      BY <1>1, <2>2, <3>1
      DEF JobFits, Registering, OfAccount, Issuing, Recovering, SettingUp, Administering
  <2>3. CASE SameRequest(v)
    <3>1. ASSUME job[v].op \in {"issue", "refresh"}
          PROVE  Excused(job[v].user, job[v].epoch, job[v].stale)'
      <4>1. job[v].user \in Accts /\ Excused(job[v].user, job[v].epoch, job[v].stale)
        BY <3>1 DEF Inv, JobFits, OfAccount, Issuing
      <4> QED
        BY <2>3, <4>1 DEF Excused, SameRequest
    <3> QED
      BY <1>1, <2>3, <3>1, JobKept
  <2> QED
    BY <2>1, <2>2, <2>3
<1> QED
  BY <1>2, <1>5, <1>6, <1>7 DEF Inv

(* Worker w goes on with J, and the requests of M learn that they were overtaken. *)
LEMMA StepJob ==
  ASSUME Inv, NEW w \in Workers, NEW J \in Job, NEW m \in {"swept", "taken"}, NEW M,
         job' = [v \in Workers |->
                   IF v = w THEN J ELSE IF v \in M THEN Mark(job[v], m) ELSE job[v]]
  PROVE  /\ job' \in [Workers -> Job] /\ job'[w] = J
         /\ \A v \in Workers : v # w =>
              /\ SameRequest(v)
              /\ v \in M => m \in job'[v].stale
              /\ v \notin M => job'[v] = job[v]
<1>1. ASSUME NEW v \in Workers, v # w
      PROVE  SameRequest(v) /\ (v \in M => m \in job'[v].stale) /\ (v \notin M => job'[v] = job[v])
  <2>1. job[v] \in Job
    BY DEF Inv, TypeOK
  <2>2. job'[v] = IF v \in M THEN Mark(job[v], m) ELSE job[v]
    BY <1>1
  <2> QED
    BY <2>1, <2>2, Marked DEF SameRequest
<1>2. job'[w] = J
  OBVIOUS
<1> QED
  BY <1>1, <1>2 DEF SameRequest

(* A request that is done. *)
LEMMA DoneJob ==
  ASSUME Inv, NEW w \in Workers, Done(w)
  PROVE  /\ job' \in [Workers -> Job] /\ job'[w].op = "idle"
         /\ \A v \in Workers : v # w => job'[v] = job[v] /\ SameRequest(v)
<1>1. job' = [v \in Workers |-> IF v = w THEN Idle ELSE job[v]]
  BY DEF Done, Step, Nobody
<1>2. job \in [Workers -> Job]
  BY DEF Inv, TypeOK
<1> QED
  BY <1>1, <1>2, IdleJob DEF SameRequest

LEMMA RevokedRows ==
  ASSUME Inv, NEW S
  PROVE  /\ DOMAIN Revoked(S) = Rows
         /\ \A t \in Rows : /\ Revoked(S)[t] \in Token
                            /\ Revoked(S)[t].user = token[t].user
                            /\ Revoked(S)[t].epoch = token[t].epoch
                            /\ Revoked(S)[t].from = token[t].from
                            /\ Revoked(S)[t].stale = token[t].stale
                            /\ Revoked(S)[t].live => token[t].live /\ t \notin S
<1>1. DOMAIN Revoked(S) = Rows
  BY DEF Revoked
<1>2. ASSUME NEW t \in Rows
      PROVE  /\ Revoked(S)[t] \in Token
             /\ Revoked(S)[t].user = token[t].user /\ Revoked(S)[t].epoch = token[t].epoch
             /\ Revoked(S)[t].from = token[t].from /\ Revoked(S)[t].stale = token[t].stale
             /\ Revoked(S)[t].live => token[t].live /\ t \notin S
  <2>1. token[t] \in Token
    BY DEF Inv, TypeOK
  <2>2. Revoked(S)[t] = IF t \in S THEN [token[t] EXCEPT !.live = FALSE] ELSE token[t]
    BY DEF Revoked
  <2> QED
    BY <2>1, <2>2 DEF Token
<1> QED
  BY <1>1, <1>2

(* Rows are revoked, and the table keeps its shape. *)
LEMMA RevokedStep ==
  ASSUME Inv, NEW S, token' = Revoked(S)
  PROVE  /\ Rows' = Rows /\ token' \in [Rows -> Token]
         /\ \A t \in Rows : /\ token'[t].user = token[t].user
                            /\ token'[t].epoch = token[t].epoch
                            /\ token'[t].from = token[t].from
                            /\ token'[t].stale = token[t].stale
                            /\ token'[t].live => token[t].live /\ t \notin S
<1>1. Rows' = Rows
  BY RevokedRows DEF Rows
<1>2. token' = [t \in Rows |-> token'[t]]
  BY DEF Revoked
<1> QED
  BY <1>1, <1>2, RevokedRows

LEMMA LogoutStep ==
  ASSUME Inv, UNCHANGED left, NEW t \in Tokens, Logout(t)
  PROVE  Inv'
<1>1. UNCHANGED <<user, key, fresh, proved, crossed, cut, deposed>> /\ token' = Revoked({t})
  BY DEF Logout
<1>2. ASSUME NEW v \in Workers PROVE SameRequest(v)
  <2>1. job[v] \in Job
    BY DEF Inv, TypeOK
  <2>2. job'[v] \in {job[v], Mark(job[v], "taken")}
    BY DEF Logout, Mark
  <2> QED
    BY <2>1, <2>2, Marked DEF SameRequest
<1>3. job' \in [Workers -> Job]
  BY <1>2 DEF Logout, SameRequest
<1>4. TypeOK' /\ DrawnOnce'
  BY <1>1, <1>3, RevokedStep DEF Inv, TypeOK, DrawnOnce, Accts
<1>5. \A u : Resetting(u) => Resetting(u)'
  BY <1>2 DEF Resetting, SameRequest
<1> QED
  BY <1>1, <1>2, <1>4, <1>5, RevokedStep, QuietStep

LEMMA ExpireStep ==
  ASSUME Inv, UNCHANGED left, NEW t \in Tokens, Expire(t)
  PROVE  Inv'
<1>1. UNCHANGED <<user, key, fresh, job, proved, crossed, cut, deposed>> /\ token' = Revoked({t})
  BY DEF Expire
<1>2. \A v \in Workers : SameRequest(v)
  BY <1>1 DEF SameRequest, Inv, TypeOK
<1>3. TypeOK' /\ DrawnOnce'
  BY <1>1, RevokedStep DEF Inv, TypeOK, DrawnOnce, Accts
<1>4. \A u : Resetting(u) => Resetting(u)'
  BY <1>1 DEF Resetting
<1> QED
  BY <1>1, <1>2, <1>3, <1>4, RevokedStep, QuietStep

LEMMA CleanTokensStep ==
  ASSUME Inv, UNCHANGED left, CleanTokens
  PROVE  Inv'
<1>1. UNCHANGED <<user, key, fresh, job, proved, crossed, cut, deposed>>
  BY DEF CleanTokens
<1>2. Rows' \subseteq Rows /\ \A t \in Rows' : token'[t] = token[t]
  BY DEF CleanTokens, Rows
<1>3. token' = [t \in Rows' |-> token'[t]]
  BY DEF CleanTokens, Rows
<1>4. \A v \in Workers : SameRequest(v)
  BY <1>1 DEF SameRequest, Inv, TypeOK
<1>5. TypeOK'
  BY <1>1, <1>2, <1>3 DEF Inv, TypeOK, Accts
<1>6. DrawnOnce'
  BY <1>1, <1>2 DEF Inv, DrawnOnce
<1>7. \A u : Resetting(u) => Resetting(u)'
  BY <1>1 DEF Resetting
<1> QED
  BY <1>1, <1>2, <1>4, <1>5, <1>6, <1>7, QuietStep

LEMMA GenerateRecoveryPhraseStep ==
  ASSUME Inv, UNCHANGED left, NEW u \in Users, GenerateRecoveryPhrase(u)
  PROVE  Inv'
<1>1. UNCHANGED <<user, token, job, proved, crossed, cut, deposed>>
  BY DEF GenerateRecoveryPhrase
<1>2. PICK k \in Keys : /\ k \in fresh /\ fresh' = fresh \ {k}
                        /\ key' = Added(key, k, [user |-> u, used |-> FALSE])
  BY DEF GenerateRecoveryPhrase, Draw
<1>3. /\ DOMAIN key' = DOMAIN key \union {k} /\ DOMAIN key' \subseteq Keys
      /\ key' \in [DOMAIN key' -> Key]
  BY <1>2 DEF Added, Key, Inv, TypeOK
<1>4. DrawnOnce'
  BY <1>1, <1>2, <1>3 DEF Inv, DrawnOnce, Rows
<1>5. \A v \in Workers : SameRequest(v)
  BY <1>1 DEF SameRequest, Inv, TypeOK
<1>6. TypeOK'
  BY <1>1, <1>2, <1>3, <1>4 DEF Inv, TypeOK, DrawnOnce, Accts, Rows
<1>7. \A v : Resetting(v) => Resetting(v)'
  BY <1>1 DEF Resetting
<1> QED
  BY <1>1, <1>2, <1>3, <1>4, <1>5, <1>6, <1>7, QuietStep DEF Rows

LEMMA AbortStep ==
  ASSUME Inv, UNCHANGED left, NEW w \in Workers, Abort(w)
  PROVE  Inv'
<1>1. /\ UNCHANGED <<user, token, key, fresh, proved, crossed, deposed>> /\ Done(w)
      /\ cut' = cut \union {u \in {job[w].user} : job[w].op \in {"consume", "sweep"}}
  BY DEF Abort
<1>2. /\ job' \in [Workers -> Job] /\ job'[w].op = "idle"
      /\ \A v \in Workers : v # w => job'[v] = job[v] /\ SameRequest(v)
  BY <1>1, DoneJob
<1>3. job[w].op \in {"consume", "sweep"} => job[w].user \in Users
  BY DEF Inv, JobFits, OfAccount, TypeOK
<1>4. TypeOK' /\ DrawnOnce'
  BY <1>1, <1>2, <1>3 DEF Inv, TypeOK, DrawnOnce, Accts, Rows
<1>5. \A u : Resetting(u) => Resetting(u)' \/ u \in cut'
  BY <1>1, <1>2 DEF Resetting
<1> QED
  BY <1>1, <1>2, <1>4, <1>5, QuietStep DEF Rows

LEMMA RecoverConsumeStep ==
  ASSUME Inv, UNCHANGED left, NEW w \in Workers, RecoverConsume(w)
  PROVE  Inv'
<1> DEFINE J == [job[w] EXCEPT !.op = "sweep"]
           M == {v \in Workers : job[v].op = "recover" /\ job[v].arg = job[w].arg}
<1>1. /\ UNCHANGED <<user, token, fresh, proved, crossed, cut, deposed>>
      /\ job[w].op = "consume" /\ key' = [key EXCEPT ![job[w].arg].used = TRUE]
  BY DEF RecoverConsume
<1>2. J \in Job /\ J.op = "sweep" /\ J.user = job[w].user
  BY DEF Job, Ops, Inv, TypeOK
<1>3. job' = [v \in Workers |->
                IF v = w THEN J ELSE IF v \in M THEN Mark(job[v], "taken") ELSE job[v]]
  BY DEF RecoverConsume, Step, Mark
<1> HIDE DEF J, M
<1>4. /\ job' \in [Workers -> Job] /\ job'[w] = J
      /\ \A v \in Workers : v # w => SameRequest(v)
  BY <1>2, <1>3, StepJob
<1>5. job[w].arg \in DOMAIN key /\ key[job[w].arg] \in Key
  BY <1>1 DEF Inv, JobFits, Recovering, TypeOK
<1>6. DOMAIN key' = DOMAIN key /\ key' \in [DOMAIN key -> Key]
  BY <1>1, <1>5 DEF Inv, TypeOK, Key
<1>7. TypeOK' /\ DrawnOnce'
  BY <1>1, <1>4, <1>6 DEF Inv, TypeOK, DrawnOnce, Accts, Rows
<1>8. \A u : Resetting(u) => Resetting(u)'
  BY <1>1, <1>2, <1>4 DEF Resetting, SameRequest
<1> QED
  BY <1>1, <1>2, <1>4, <1>6, <1>7, <1>8, QuietStep DEF Rows

-----------------------------------------------------------------------------
(* Steps that change accounts and leave the sessions alone: a password only
   changes while its reset is under way. *)
LEMMA AccountStep ==
  ASSUME Inv, TypeOK', DrawnOnce', OneFirstAdmin', AdminRemains', MfaSecretProved',
         UNCHANGED <<token, key, cut, proved>>, fresh' \subseteq fresh, Accts \subseteq Accts',
         NEW w \in Workers, JobFits(w)', job'[w].op # "refresh",
         job'[w].op = "issue" => job'[w].arg \notin Tokens,
         \A u \in Accts :
           Resetting(u)' \/ (~Resetting(u) /\ user'[u].pwd = user[u].pwd),
         \A v \in Workers : v # w =>
           /\ SameRequest(v)
           /\ job[v].op = "register" => Accts' = Accts \/ job'[v].stale # {}
           /\ job[v].op = "setup" =>
                job'[v].stale # {} \/ (user'[job[v].user].mfa => user[job[v].user].mfa)
           /\ job[v].op = "enable" =>
                job'[v].stale # {} \/ user'[job[v].user].totp = user[job[v].user].totp
           /\ job[v].op \in {"promote", "demote"} =>
                \/ job'[v].stale # {}
                \/ user[job[v].user].role = "admin" => user'[job[v].user].role = "admin"
  PROVE  Inv'
<1>1. Rows' = Rows
  BY DEF Rows
<1>2. ASSUME NEW u \in Accts, NEW e, NEW st, NEW st2, Excused(u, e, st),
             \A m \in st : m \in st2
      PROVE  e < user'[u].pwd => Resetting(u)' \/ u \in cut' \/ "swept" \in st2
  BY <1>2 DEF Excused
<1>3. SessionsExcused'
  <2>1. ASSUME NEW t \in Rows, token[t].live
        PROVE  token[t].user \in Accts /\ Excused(token[t].user, token[t].epoch, token[t].stale)
    BY <2>1 DEF Inv, TypeOK, SessionsExcused
  <2> QED
    BY <1>1, <1>2, <2>1 DEF SessionsExcused, Excused
<1>4. ExchangedOnce'
  BY <1>1, ExchangeKept DEF SameRequest
<1>5. ASSUME NEW v \in Workers, v # w PROVE JobFits(v)'
  <2>1. ASSUME job[v].op \in {"issue", "refresh"}
        PROVE  Excused(job[v].user, job[v].epoch, job[v].stale)'
    <3>1. job[v].user \in Accts /\ Excused(job[v].user, job[v].epoch, job[v].stale)
      BY <2>1 DEF Inv, JobFits, OfAccount, Issuing
    <3>2. SameRequest(v)
      BY <1>5
    <3> QED
      BY <1>2, <3>1, <3>2 DEF Excused, SameRequest
  <2> QED
    BY <1>5, <2>1, JobKept
<1> QED
  BY <1>3, <1>4, <1>5 DEF Inv

LEMMA RegisterInsertStep ==
  ASSUME Inv, UNCHANGED left, NEW w \in Workers, RegisterInsert(w)
  PROVE  Inv'
<1> PICK u : u = job[w].user
  OBVIOUS
<1> DEFINE J == [job[w] EXCEPT !.op = "issue", !.arg = None, !.stale = {}]
           M == {v \in Workers : job[v].op = "register"}
           b == job[w].arg = "admin" /\ job[w].stale = {}
           R == [role |-> job[w].arg, pwd |-> 0, totp |-> None, mfa |-> FALSE,
                 first |-> b]
<1>1. /\ UNCHANGED <<token, key, fresh, proved, crossed, cut, deposed>>
      /\ job[w].op = "register" /\ job[w] \in Job
  BY DEF RegisterInsert, Inv, TypeOK
<1>2. /\ u \in Users /\ job[w].arg \in Roles /\ job[w].epoch = 0
      /\ job[w].arg = "user" => Accts # {}
      /\ job[w].arg = "admin" /\ job[w].stale = {} => Accts = {}
  BY <1>1 DEF Inv, JobFits, Registering
<1>3. CASE u \in Accts
  <2>1. Done(w) /\ UNCHANGED user
    BY <1>3 DEF RegisterInsert
  <2>2. /\ job' \in [Workers -> Job] /\ job'[w].op = "idle"
        /\ \A v \in Workers : v # w => job'[v] = job[v] /\ SameRequest(v)
    BY <2>1, DoneJob
  <2>3. TypeOK' /\ DrawnOnce'
    BY <1>1, <2>1, <2>2 DEF Inv, TypeOK, DrawnOnce, Accts, Rows
  <2>4. \A x : Resetting(x) => Resetting(x)'
    BY <1>1, <2>2 DEF Resetting
  <2> QED
    BY <1>1, <2>1, <2>2, <2>3, <2>4, QuietStep DEF Rows
<1>4. CASE u \notin Accts
  <2>1. /\ J \in Job /\ J.op = "issue" /\ J.user = u /\ J.arg = None /\ J.epoch = 0
        /\ J.stale = {}
    BY <1>1, <1>2 DEF Job, Ops, Args
  <2>2. /\ R \in User /\ R.role = job[w].arg /\ R.pwd = 0 /\ R.mfa = FALSE
        /\ R.first => job[w].arg = "admin" /\ job[w].stale = {}
    <3>1. b \in BOOLEAN /\ (b => job[w].arg = "admin" /\ job[w].stale = {})
      OBVIOUS
    <3> HIDE DEF b
    <3> QED
      BY <1>2, <3>1, BoundsAssumption DEF User, Epochs
  <2>3. job' = [v \in Workers |->
                  IF v = w THEN J ELSE IF v \in M THEN Mark(job[v], "taken") ELSE job[v]]
    BY <1>4 DEF RegisterInsert, Step, Mark
  <2>4. user' = Added(user, u, R)
    BY <1>4 DEF RegisterInsert
  <2>5. \A v \in Workers : v \in M <=> job[v].op = "register"
    OBVIOUS
  <2> HIDE DEF J, M, R
  <2>6. /\ job' \in [Workers -> Job] /\ job'[w] = J
        /\ \A v \in Workers : v # w =>
             /\ SameRequest(v)
             /\ v \in M => "taken" \in job'[v].stale
             /\ v \notin M => job'[v] = job[v]
    BY <2>1, <2>3, StepJob
  <2>7. /\ Accts' = Accts \union {u} /\ user'[u] = R
        /\ \A x \in Accts : user'[x] = user[x]
        /\ user' \in [Accts' -> User]
    BY <1>4, <2>2, <2>4 DEF Added, Accts, Inv, TypeOK
  <2>8. TypeOK' /\ DrawnOnce'
    BY <1>1, <1>2, <2>6, <2>7 DEF Inv, TypeOK, DrawnOnce, Rows
  <2>9. OneFirstAdmin'
    BY <1>2, <2>2, <2>7 DEF Inv, OneFirstAdmin
  <2>10. AdminRemains'
    <3>1. CASE job[w].arg = "admin"
      BY <2>2, <2>7, <3>1 DEF AdminRemains
    <3>2. CASE job[w].arg = "user"
      BY <1>1, <1>2, <2>7, <3>2 DEF Inv, AdminRemains
    <3> QED
      BY <1>2, <3>1, <3>2 DEF Roles
  <2>11. MfaSecretProved'
    BY <1>1, <2>2, <2>7 DEF Inv, MfaSecretProved
  <2>12. None \notin fresh
    BY NoneAssumption DEF Inv, TypeOK
  <2>13. JobFits(w)'
    <3>1. ~(0 < user'[u].pwd)
      BY <2>2, <2>7
    <3> QED
      BY <1>1, <2>1, <2>6, <2>7, <2>12, <3>1
      DEF JobFits, Registering, OfAccount, Issuing, Recovering, SettingUp, Administering, Excused
  <2>14. \A x : Resetting(x) => Resetting(x)'
    BY <1>1, <2>6 DEF Resetting, SameRequest
  <2>15. \A v \in Workers : job[v].op \notin {"idle", "register"} => job[v].user \in Accts
    BY DEF Inv, JobFits, OfAccount
  <2>16. \A v \in Workers : v # w =>
           /\ SameRequest(v)
           /\ job[v].op = "register" => Accts' = Accts \/ job'[v].stale # {}
           /\ job[v].op = "setup" =>
                job'[v].stale # {} \/ (user'[job[v].user].mfa => user[job[v].user].mfa)
           /\ job[v].op = "enable" =>
                job'[v].stale # {} \/ user'[job[v].user].totp = user[job[v].user].totp
           /\ job[v].op \in {"promote", "demote"} =>
                \/ job'[v].stale # {}
                \/ user[job[v].user].role = "admin" => user'[job[v].user].role = "admin"
    BY <2>5, <2>6, <2>7, <2>15
  <2> QED
    BY <1>1, <2>1, <2>6, <2>7, <2>8, <2>9, <2>10, <2>11, <2>13, <2>14, <2>16, AccountStep,
       NoneAssumption
<1> QED
  BY <1>3, <1>4

LEMMA PasswordUpdateStep ==
  ASSUME Inv, UNCHANGED left, NEW w \in Workers, PasswordUpdate(w)
  PROVE  Inv'
<1> PICK u : u = job[w].user
  OBVIOUS
<1> DEFINE J == [job[w] EXCEPT !.op = IF @ = "recover" THEN "consume" ELSE "sweep"]
           M == {}
<1>1. /\ UNCHANGED <<token, key, fresh, proved, crossed, cut, deposed>>
      /\ job[w].op \in {"change", "recover"} /\ job[w] \in Job
      /\ user[u].pwd < MaxEpoch /\ user' = [user EXCEPT ![u].pwd = @ + 1]
  BY DEF PasswordUpdate, Inv, TypeOK
<1>2. u \in Accts /\ u \in Users /\ user[u] \in User /\ user \in [Accts -> User]
  BY <1>1 DEF Inv, JobFits, OfAccount, TypeOK
<1>3. /\ J \in Job /\ J.user = u /\ J.arg = job[w].arg /\ J.op \in {"consume", "sweep"}
      /\ J.op = "consume" => job[w].op = "recover"
  BY <1>1 DEF Job, Ops
<1>4. job' = [v \in Workers |->
                IF v = w THEN J ELSE IF v \in M THEN Mark(job[v], "taken") ELSE job[v]]
  BY DEF PasswordUpdate, Step, Nobody
<1> HIDE DEF J, M
<1>5. /\ job' \in [Workers -> Job] /\ job'[w] = J
      /\ \A v \in Workers : v # w => SameRequest(v)
  BY <1>3, <1>4, StepJob
<1>6. /\ Accts' = Accts /\ user' \in [Accts -> User]
      /\ \A x \in Accts :
           /\ user'[x].role = user[x].role /\ user'[x].totp = user[x].totp
           /\ user'[x].mfa = user[x].mfa /\ user'[x].first = user[x].first
           /\ x # u => user'[x] = user[x]
  <2>1. user[u].pwd \in Int /\ user[u].pwd + 1 \in Epochs
    BY <1>1, <1>2, BoundsAssumption DEF User, Epochs
  <2>2. user' = [x \in Accts |-> IF x = u THEN [user[u] EXCEPT !.pwd = @ + 1] ELSE user[x]]
    BY <1>1, <1>2
  <2>3. Accts' = Accts
    BY <2>2 DEF Accts
  <2> QED
    BY <1>2, <2>1, <2>2, <2>3 DEF User
<1>7. TypeOK' /\ DrawnOnce'
  BY <1>1, <1>5, <1>6 DEF Inv, TypeOK, DrawnOnce, Rows
<1>8. OneFirstAdmin' /\ AdminRemains' /\ MfaSecretProved'
  BY <1>1, <1>6 DEF Inv, OneFirstAdmin, AdminRemains, MfaSecretProved
<1>9. JobFits(w)'
  <2>1. job[w].op = "recover" => job[w].arg \in DOMAIN key
    BY DEF Inv, JobFits, Recovering
  <2> QED
    BY <1>1, <1>2, <1>3, <1>5, <1>6, <2>1
    DEF JobFits, Registering, OfAccount, Issuing, Recovering, SettingUp, Administering
<1>10. \A x : (Resetting(x) => Resetting(x)') /\ Resetting(u)'
  BY <1>1, <1>3, <1>5 DEF Resetting, SameRequest
<1>11. \A v \in Workers : job[v].op \notin {"idle", "register"} => job[v].user \in Accts
  BY DEF Inv, JobFits, OfAccount
<1> QED
  BY <1>1, <1>3, <1>5, <1>6, <1>7, <1>8, <1>9, <1>10, <1>11, AccountStep

(* A row of users changes in a column that is not the password. *)
LEMMA ColumnSet ==
  ASSUME Inv, NEW u \in Accts, NEW R \in User, R.pwd = user[u].pwd, R.first = user[u].first,
         user' = [x \in Accts |-> IF x = u THEN R ELSE user[x]]
  PROVE  /\ Accts' = Accts /\ user' \in [Accts -> User] /\ user'[u] = R
         /\ \A x \in Accts : user'[x].pwd = user[x].pwd /\ user'[x].first = user[x].first
         /\ \A x \in Accts : x # u => user'[x] = user[x]
         /\ OneFirstAdmin'
<1>1. Accts' = Accts
  BY DEF Accts
<1>2. user \in [Accts -> User] /\ OneFirstAdmin
  BY DEF Inv, TypeOK
<1> QED
  BY <1>1, <1>2 DEF OneFirstAdmin

LEMMA SetupStoreStep ==
  ASSUME Inv, UNCHANGED left, NEW w \in Workers, SetupStore(w)
  PROVE  Inv'
<1> PICK u : u = job[w].user
  OBVIOUS
<1> DEFINE M == {v \in Workers : job[v].op \in {"enable", "disable"} /\ job[v].user = u}
<1>1. /\ UNCHANGED <<token, key, proved, cut, deposed>> /\ job[w].op = "setup"
      /\ crossed' = crossed \union {x \in {u} : job[w].stale # {}}
  BY DEF SetupStore
<1>2. PICK s \in Secrets : fresh' = fresh \ {s} /\ user' = [user EXCEPT ![u].totp = s]
  BY DEF SetupStore, GenerateTotpSecret, Draw
<1>3. u \in Accts /\ u \in Users /\ user[u] \in User /\ user \in [Accts -> User]
  BY <1>1 DEF Inv, JobFits, OfAccount, TypeOK
<1> DEFINE R == [user[u] EXCEPT !.totp = s]
<1>4. /\ R \in User /\ R.pwd = user[u].pwd /\ R.first = user[u].first /\ R.mfa = user[u].mfa
      /\ R.role = user[u].role
  BY <1>3 DEF User
<1>5. user' = [x \in Accts |-> IF x = u THEN R ELSE user[x]]
  BY <1>2, <1>3
<1>6. job' = [v \in Workers |->
                IF v = w THEN Idle ELSE IF v \in M THEN Mark(job[v], "taken") ELSE job[v]]
  BY DEF SetupStore, Step, Mark
<1>7. \A v \in Workers : job[v].op = "enable" /\ job[v].user = u => v \in M
  OBVIOUS
<1> HIDE DEF M, R
<1>8. /\ job' \in [Workers -> Job] /\ job'[w] = Idle
      /\ \A v \in Workers : v # w => SameRequest(v) /\ (v \in M => "taken" \in job'[v].stale)
  BY <1>6, IdleJob, StepJob
<1>9. /\ Accts' = Accts /\ user' \in [Accts -> User] /\ user'[u] = R
      /\ \A x \in Accts : user'[x].pwd = user[x].pwd
      /\ \A x \in Accts : x # u => user'[x] = user[x]
      /\ OneFirstAdmin'
  BY <1>3, <1>4, <1>5, ColumnSet
<1>10. TypeOK' /\ DrawnOnce'
  BY <1>1, <1>2, <1>3, <1>8, <1>9 DEF Inv, TypeOK, DrawnOnce, Rows
<1>11. AdminRemains'
  BY <1>1, <1>4, <1>9 DEF Inv, AdminRemains
<1>12. MfaSecretProved'
  <2>1. job[w].stale = {} => ~user[u].mfa
    BY <1>1 DEF Inv, JobFits, SettingUp
  <2> QED
    BY <1>1, <1>4, <1>9, <2>1 DEF Inv, MfaSecretProved
<1>13. \A x : Resetting(x) => Resetting(x)'
  BY <1>1, <1>8 DEF Resetting, SameRequest
<1>14. \A v \in Workers : job[v].op \notin {"idle", "register"} => job[v].user \in Accts
  BY DEF Inv, JobFits, OfAccount
<1>15. JobFits(w)' /\ job'[w].op = "idle"
  BY <1>8, IdleJob, IdleFits
<1>16. \A x \in Accts : Resetting(x)' \/ (~Resetting(x) /\ user'[x].pwd = user[x].pwd)
  BY <1>9, <1>13
<1>17. ASSUME NEW v \in Workers, v # w
       PROVE  /\ SameRequest(v)
              /\ job[v].op = "register" => Accts' = Accts \/ job'[v].stale # {}
              /\ job[v].op = "setup" =>
                   job'[v].stale # {} \/ (user'[job[v].user].mfa => user[job[v].user].mfa)
              /\ job[v].op = "enable" =>
                   job'[v].stale # {} \/ user'[job[v].user].totp = user[job[v].user].totp
              /\ job[v].op \in {"promote", "demote"} =>
                   \/ job'[v].stale # {}
                   \/ user[job[v].user].role = "admin" => user'[job[v].user].role = "admin"
  <2>1. SameRequest(v) /\ (v \in M => job'[v].stale # {})
    BY <1>8, <1>17
  <2>2. job[v].user \in Accts /\ job[v].user # u => user'[job[v].user] = user[job[v].user]
    BY <1>9
  <2>3. job[v].user = u => /\ user'[job[v].user].mfa = user[job[v].user].mfa
                          /\ user'[job[v].user].role = user[job[v].user].role
    BY <1>4, <1>9
  <2> QED
    BY <1>7, <1>9, <1>14, <1>17, <2>1, <2>2, <2>3
<1>18. /\ UNCHANGED <<token, key, cut, proved>> /\ fresh' \subseteq fresh /\ Accts \subseteq Accts'
       /\ OneFirstAdmin' /\ job'[w].op # "refresh" /\ job'[w].op # "issue"
  BY <1>1, <1>2, <1>9, <1>15
<1> QED
  BY <1>10, <1>11, <1>12, <1>15, <1>16, <1>17, <1>18, AccountStep

LEMMA VerifyEnableStep ==
  ASSUME Inv, UNCHANGED left, NEW w \in Workers, VerifyEnable(w)
  PROVE  Inv'
<1> PICK u : u = job[w].user
  OBVIOUS
<1> DEFINE M == {v \in Workers : job[v].op = "setup" /\ job[v].user = u}
           R == [user[u] EXCEPT !.mfa = TRUE]
<1>1. /\ UNCHANGED <<token, key, fresh, proved, cut, deposed>> /\ job[w].op = "enable"
      /\ crossed' = crossed \union {x \in {u} : job[w].stale # {}}
      /\ user' = [user EXCEPT ![u].mfa = TRUE]
  BY DEF VerifyEnable
<1>2. u \in Accts /\ u \in Users /\ user[u] \in User /\ user \in [Accts -> User]
  BY <1>1 DEF Inv, JobFits, OfAccount, TypeOK
<1>3. /\ R \in User /\ R.pwd = user[u].pwd /\ R.first = user[u].first /\ R.totp = user[u].totp
      /\ R.role = user[u].role
  BY <1>2 DEF User
<1>4. user' = [x \in Accts |-> IF x = u THEN R ELSE user[x]]
  BY <1>1, <1>2
<1>5. job' = [v \in Workers |->
                IF v = w THEN Idle ELSE IF v \in M THEN Mark(job[v], "taken") ELSE job[v]]
  BY DEF VerifyEnable, Step, Mark
<1>6. \A v \in Workers : job[v].op = "setup" /\ job[v].user = u => v \in M
  OBVIOUS
<1> HIDE DEF M, R
<1>7. /\ job' \in [Workers -> Job] /\ job'[w] = Idle
      /\ \A v \in Workers : v # w => SameRequest(v) /\ (v \in M => "taken" \in job'[v].stale)
  BY <1>5, IdleJob, StepJob
<1>8. /\ Accts' = Accts /\ user' \in [Accts -> User] /\ user'[u] = R
      /\ \A x \in Accts : user'[x].pwd = user[x].pwd
      /\ \A x \in Accts : x # u => user'[x] = user[x]
      /\ OneFirstAdmin'
  BY <1>2, <1>3, <1>4, ColumnSet
<1>9. TypeOK' /\ DrawnOnce'
  BY <1>1, <1>2, <1>7, <1>8 DEF Inv, TypeOK, DrawnOnce, Rows
<1>10. AdminRemains'
  BY <1>1, <1>3, <1>8 DEF Inv, AdminRemains
<1>11. MfaSecretProved'
  <2>1. job[w].stale = {} => user[u].totp \in proved
    BY <1>1 DEF Inv, JobFits, SettingUp
  <2> QED
    BY <1>1, <1>3, <1>8, <2>1 DEF Inv, MfaSecretProved
<1>12. \A x : Resetting(x) => Resetting(x)'
  BY <1>1, <1>7 DEF Resetting, SameRequest
<1>13. \A v \in Workers : job[v].op \notin {"idle", "register"} => job[v].user \in Accts
  BY DEF Inv, JobFits, OfAccount
<1>14. JobFits(w)' /\ job'[w].op = "idle"
  BY <1>7, IdleJob, IdleFits
<1>15. \A v \in Workers : v # w =>
         /\ SameRequest(v)
         /\ job[v].op = "register" => Accts' = Accts \/ job'[v].stale # {}
         /\ job[v].op = "setup" =>
              job'[v].stale # {} \/ (user'[job[v].user].mfa => user[job[v].user].mfa)
         /\ job[v].op = "enable" =>
              job'[v].stale # {} \/ user'[job[v].user].totp = user[job[v].user].totp
         /\ job[v].op \in {"promote", "demote"} =>
              \/ job'[v].stale # {}
              \/ user[job[v].user].role = "admin" => user'[job[v].user].role = "admin"
  BY <1>3, <1>6, <1>7, <1>8, <1>13
<1> QED
  BY <1>1, <1>7, <1>8, <1>9, <1>10, <1>11, <1>12, <1>14, <1>15, AccountStep

LEMMA DisableStoreStep ==
  ASSUME Inv, UNCHANGED left, NEW w \in Workers, DisableStore(w)
  PROVE  Inv'
<1> PICK u : u = job[w].user
  OBVIOUS
<1> DEFINE M == {v \in Workers : job[v].op = "enable" /\ job[v].user = u}
           R == [user[u] EXCEPT !.mfa = FALSE, !.totp = None]
<1>1. /\ UNCHANGED <<token, key, fresh, proved, crossed, cut, deposed>> /\ job[w].op = "disable"
      /\ user' = [user EXCEPT ![u].mfa = FALSE, ![u].totp = None]
  BY DEF DisableStore
<1>2. u \in Accts /\ u \in Users /\ user[u] \in User /\ user \in [Accts -> User]
  BY <1>1 DEF Inv, JobFits, OfAccount, TypeOK
<1>3. /\ R \in User /\ R.pwd = user[u].pwd /\ R.first = user[u].first /\ ~R.mfa
      /\ R.role = user[u].role
  BY <1>2 DEF User
<1>4. user' = [x \in Accts |-> IF x = u THEN R ELSE user[x]]
  BY <1>1, <1>2 DEF User
<1>5. job' = [v \in Workers |->
                IF v = w THEN Idle ELSE IF v \in M THEN Mark(job[v], "taken") ELSE job[v]]
  BY DEF DisableStore, Step, Mark
<1>6. \A v \in Workers : job[v].op = "enable" /\ job[v].user = u => v \in M
  OBVIOUS
<1> HIDE DEF M, R
<1>7. /\ job' \in [Workers -> Job] /\ job'[w] = Idle
      /\ \A v \in Workers : v # w => SameRequest(v) /\ (v \in M => "taken" \in job'[v].stale)
  BY <1>5, IdleJob, StepJob
<1>8. /\ Accts' = Accts /\ user' \in [Accts -> User] /\ user'[u] = R
      /\ \A x \in Accts : user'[x].pwd = user[x].pwd
      /\ \A x \in Accts : x # u => user'[x] = user[x]
      /\ OneFirstAdmin'
  BY <1>2, <1>3, <1>4, ColumnSet
<1>9. TypeOK' /\ DrawnOnce'
  BY <1>1, <1>2, <1>7, <1>8 DEF Inv, TypeOK, DrawnOnce, Rows
<1>10. AdminRemains' /\ MfaSecretProved'
  BY <1>1, <1>3, <1>8 DEF Inv, AdminRemains, MfaSecretProved
<1>11. \A x : Resetting(x) => Resetting(x)'
  BY <1>1, <1>7 DEF Resetting, SameRequest
<1>12. \A v \in Workers : job[v].op \notin {"idle", "register"} => job[v].user \in Accts
  BY DEF Inv, JobFits, OfAccount
<1>13. JobFits(w)' /\ job'[w].op = "idle"
  BY <1>7, IdleJob, IdleFits
<1>14. \A v \in Workers : v # w =>
         /\ SameRequest(v)
         /\ job[v].op = "register" => Accts' = Accts \/ job'[v].stale # {}
         /\ job[v].op = "setup" =>
              job'[v].stale # {} \/ (user'[job[v].user].mfa => user[job[v].user].mfa)
         /\ job[v].op = "enable" =>
              job'[v].stale # {} \/ user'[job[v].user].totp = user[job[v].user].totp
         /\ job[v].op \in {"promote", "demote"} =>
              \/ job'[v].stale # {}
              \/ user[job[v].user].role = "admin" => user'[job[v].user].role = "admin"
  BY <1>3, <1>6, <1>7, <1>8, <1>12
<1> QED
  BY <1>1, <1>7, <1>8, <1>9, <1>10, <1>11, <1>13, <1>14, AccountStep

LEMMA RoleUpdateStep ==
  ASSUME Inv, UNCHANGED left, NEW w \in Workers, RoleUpdate(w)
  PROVE  Inv'
<1> PICK u : u = job[w].arg
  OBVIOUS
<1> DEFINE role == IF job[w].op = "demote" THEN "user" ELSE "admin"
           M == {v \in Workers : /\ job[w].op = "demote"
                                 /\ job[v].op \in {"promote", "demote"} /\ job[v].user = u}
           R == [user[u] EXCEPT !.role = role]
<1>1. /\ UNCHANGED <<token, key, fresh, proved, crossed, cut>>
      /\ job[w].op \in {"promote", "demote"}
  BY DEF RoleUpdate
<1>2. CASE u \notin Accts
  <2>1. Done(w) /\ UNCHANGED <<user, deposed>>
    BY <1>2 DEF RoleUpdate
  <2>2. /\ job' \in [Workers -> Job] /\ job'[w].op = "idle"
        /\ \A v \in Workers : v # w => job'[v] = job[v] /\ SameRequest(v)
    BY <2>1, DoneJob
  <2>3. TypeOK' /\ DrawnOnce'
    BY <1>1, <2>1, <2>2 DEF Inv, TypeOK, DrawnOnce, Accts, Rows
  <2>4. \A x : Resetting(x) => Resetting(x)'
    BY <1>1, <2>2 DEF Resetting
  <2> QED
    BY <1>1, <2>1, <2>2, <2>3, <2>4, QuietStep DEF Rows
<1>3. CASE u \in Accts
  <2>1. /\ user' = [user EXCEPT ![u].role = role] /\ deposed' = (deposed \/ job[w].stale # {})
    BY <1>3 DEF RoleUpdate
  <2>2. user[u] \in User /\ user \in [Accts -> User] /\ role \in Roles
    BY <1>3 DEF Inv, TypeOK, Roles
  <2>3. /\ R \in User /\ R.pwd = user[u].pwd /\ R.first = user[u].first /\ R.role = role
        /\ R.mfa = user[u].mfa /\ R.totp = user[u].totp
    BY <2>2 DEF User
  <2>4. user' = [x \in Accts |-> IF x = u THEN R ELSE user[x]]
    BY <1>3, <2>1, <2>2
  <2>5. job' = [v \in Workers |->
                  IF v = w THEN Idle ELSE IF v \in M THEN Mark(job[v], "taken") ELSE job[v]]
    BY <1>3 DEF RoleUpdate, Step, Mark
  <2>6. \A v \in Workers : job[v].op \in {"promote", "demote"} /\ job[v].user = u =>
          v \in M \/ role = "admin"
    OBVIOUS
  <2>7. role = "user" => job[w].op = "demote"
    OBVIOUS
  <2>8. role \in {"user", "admin"}
    OBVIOUS
  <2> HIDE DEF M, R, role
  <2>9. /\ job' \in [Workers -> Job] /\ job'[w] = Idle
        /\ \A v \in Workers : v # w => SameRequest(v) /\ (v \in M => "taken" \in job'[v].stale)
    BY <2>5, IdleJob, StepJob
  <2>10. /\ Accts' = Accts /\ user' \in [Accts -> User] /\ user'[u] = R
         /\ \A x \in Accts : user'[x].pwd = user[x].pwd
         /\ \A x \in Accts : x # u => user'[x] = user[x]
         /\ OneFirstAdmin'
    BY <1>3, <2>3, <2>4, ColumnSet
  <2>11. TypeOK' /\ DrawnOnce'
    <3>1. deposed' \in BOOLEAN
      BY <2>1
    <3> QED
      BY <1>1, <2>9, <2>10, <3>1 DEF Inv, TypeOK, DrawnOnce, Rows
  <2>12. AdminRemains'
    <3>1. /\ job[w].user \in Accts
          /\ job[w].op = "demote" => u # job[w].user
          /\ job[w].stale = {} => user[job[w].user].role = "admin"
      BY <1>1 DEF Inv, JobFits, OfAccount, Administering
    <3> QED
      BY <1>3, <2>1, <2>3, <2>7, <2>8, <2>10, <3>1 DEF AdminRemains
  <2>13. MfaSecretProved'
    BY <1>1, <2>3, <2>10 DEF Inv, MfaSecretProved
  <2>14. \A x : Resetting(x) => Resetting(x)'
    BY <1>1, <2>9 DEF Resetting, SameRequest
  <2>15. \A v \in Workers : job[v].op \notin {"idle", "register"} => job[v].user \in Accts
    BY DEF Inv, JobFits, OfAccount
  <2>16. JobFits(w)' /\ job'[w].op = "idle"
    BY <2>9, IdleJob, IdleFits
  <2> QED
    BY <1>1, <2>3, <2>6, <2>9, <2>10, <2>11, <2>12, <2>13, <2>14, <2>15, <2>16, AccountStep
<1> QED
  BY <1>2, <1>3

-----------------------------------------------------------------------------
(* Sessions are opened, exchanged and ended. *)

(* The claim to have exchanged a token passes from the request to its row. *)
LEMMA StoreRefreshTokenStep ==
  ASSUME Inv, UNCHANGED left, NEW w \in Workers, StoreRefreshToken(w)
  PROVE  Inv'
<1> DEFINE R == GenerateTokenPair(w)
<1>1. /\ UNCHANGED <<user, key, proved, crossed, cut, deposed>> /\ Done(w)
      /\ job[w].op = "issue" /\ job[w] \in Job
  BY DEF StoreRefreshToken, Inv, TypeOK
<1>2. PICK t \in Tokens : t \in fresh /\ fresh' = fresh \ {t} /\ token' = Added(token, t, R)
  BY DEF StoreRefreshToken, Draw
<1>3. /\ job[w].user \in Accts /\ job[w].arg \in Tokens \union {None}
      /\ Excused(job[w].user, job[w].epoch, job[w].stale)
  BY <1>1 DEF Inv, JobFits, OfAccount, Issuing
<1>4. /\ R \in Token /\ R.user = job[w].user /\ R.epoch = job[w].epoch /\ R.from = job[w].arg
      /\ R.stale = job[w].stale
  BY <1>1, <1>3 DEF GenerateTokenPair, Token, Job, Inv, TypeOK
<1> HIDE DEF R
<1>5. /\ Rows' = Rows \union {t} /\ token'[t] = R /\ \A x \in Rows : token'[x] = token[x]
      /\ token' \in [Rows' -> Token] /\ t \notin Rows /\ t \notin DOMAIN key
  <2>1. t \notin Rows /\ t \notin DOMAIN key
    BY <1>2 DEF Inv, DrawnOnce
  <2>2. token \in [Rows -> Token]
    BY DEF Inv, TypeOK
  <2> QED
    BY <1>2, <1>4, <2>1, <2>2 DEF Added, Rows
<1>6. /\ job' \in [Workers -> Job] /\ job'[w].op = "idle"
      /\ \A v \in Workers : v # w => job'[v] = job[v] /\ SameRequest(v)
  BY <1>1, DoneJob
<1>7. Accts' = Accts
  BY <1>1 DEF Accts
<1>8. DrawnOnce'
  BY <1>1, <1>2, <1>5 DEF Inv, DrawnOnce
<1>9. TypeOK'
  BY <1>1, <1>2, <1>3, <1>4, <1>5, <1>6, <1>7, <1>8 DEF Inv, TypeOK, DrawnOnce
<1>10. OneFirstAdmin' /\ AdminRemains' /\ MfaSecretProved'
  BY <1>1, <1>7 DEF Inv, OneFirstAdmin, AdminRemains, MfaSecretProved
<1>11. \A x : Resetting(x) => Resetting(x)'
  BY <1>1, <1>6 DEF Resetting
<1>12. ASSUME NEW u, NEW e, NEW st, Excused(u, e, st)
       PROVE  e < user'[u].pwd => Resetting(u)' \/ u \in cut' \/ "swept" \in st
  BY <1>1, <1>11, <1>12 DEF Excused
<1>13. SessionsExcused'
  <2>1. \A x \in Rows : token[x].live => Excused(token[x].user, token[x].epoch, token[x].stale)
    BY DEF Inv, SessionsExcused
  <2> QED
    BY <1>3, <1>4, <1>5, <1>12, <2>1 DEF SessionsExcused, Excused
<1>14. ExchangedOnce'
  <2>1. ASSUME NEW f \in Tokens, Spent(f) PROVE Spent(f)'
    BY <1>2, <1>5, <1>6, <2>1 DEF Spent
  <2>2. ASSUME NEW f \in Tokens PROVE /\ RowOf(t, f)' <=> RequestOf(w, f)
                                      /\ ~RequestOf(w, f)'
    BY <1>1, <1>4, <1>5, <1>6 DEF RowOf, RequestOf
  <2>3. ASSUME NEW f \in Tokens, NEW x \in Rows PROVE RowOf(x, f)' <=> RowOf(x, f)
    BY <1>5 DEF RowOf
  <2>4. ASSUME NEW f \in Tokens, NEW v \in Workers, v # w
        PROVE  RequestOf(v, f)' <=> RequestOf(v, f)
    BY <1>6, <2>4 DEF RequestOf
  <2>5. ExchangedOnce
    BY DEF Inv
  <2> QED
    BY <1>5, <2>1, <2>2, <2>3, <2>4, <2>5 DEF ExchangedOnce
<1>15. ASSUME NEW v \in Workers PROVE JobFits(v)'
  <2>1. CASE v = w
    BY <1>6, <2>1, IdleFits
  <2>2. CASE v # w
    <3>1. job[v].op \in {"issue", "refresh"} =>
            Excused(job[v].user, job[v].epoch, job[v].stale)'
      BY <1>6, <1>12, <2>2 DEF Inv, JobFits, Issuing, Excused
    <3> QED
      BY <1>1, <1>2, <1>6, <1>7, <2>2, <3>1, JobKept
  <2> QED
    BY <2>1, <2>2
<1> QED
  BY <1>8, <1>9, <1>10, <1>13, <1>14, <1>15 DEF Inv

(* A token that was exchanged is spent: a row or request that exchanged it
   before would have marked this one. *)
LEMMA RefreshRevokeStep ==
  ASSUME Inv, UNCHANGED left, NEW w \in Workers, RefreshRevoke(w)
  PROVE  Inv'
<1> PICK f0 : f0 = job[w].arg
  OBVIOUS
<1> DEFINE J == [job[w] EXCEPT !.op = "issue"]
           M == {v \in Workers : job[v].op = "refresh" /\ job[v].arg = f0}
<1>1. /\ UNCHANGED <<user, key, fresh, proved, crossed, cut, deposed>>
      /\ job[w].op = "refresh" /\ job[w] \in Job /\ token' = Revoked({f0})
  BY DEF RefreshRevoke, Inv, TypeOK
<1>2. /\ f0 \in Tokens /\ f0 \notin fresh /\ job[w].user \in Accts
      /\ Excused(job[w].user, job[w].epoch, job[w].stale)
  BY <1>1 DEF Inv, JobFits, Issuing, OfAccount
<1>3. /\ J \in Job /\ J.op = "issue" /\ J.user = job[w].user /\ J.arg = f0
      /\ J.epoch = job[w].epoch /\ J.stale = job[w].stale
  BY <1>1 DEF Job, Ops
<1>4. job' = [v \in Workers |->
                IF v = w THEN J ELSE IF v \in M THEN Mark(job[v], "taken") ELSE job[v]]
  BY DEF RefreshRevoke, Step, Mark
<1>5. \A v \in Workers : v \in M <=> job[v].op = "refresh" /\ job[v].arg = f0
  OBVIOUS
<1> HIDE DEF J, M
<1>6. /\ job' \in [Workers -> Job] /\ job'[w] = J
      /\ \A v \in Workers : v # w =>
           /\ SameRequest(v)
           /\ v \in M => "taken" \in job'[v].stale
           /\ v \notin M => job'[v] = job[v]
  BY <1>3, <1>4, StepJob
<1>7. /\ Rows' = Rows /\ token' \in [Rows -> Token]
      /\ \A t \in Rows : /\ token'[t].user = token[t].user
                         /\ token'[t].epoch = token[t].epoch
                         /\ token'[t].from = token[t].from
                         /\ token'[t].stale = token[t].stale
                         /\ token'[t].live => token[t].live /\ t # f0
  BY <1>1, RevokedStep
<1>8. Accts' = Accts
  BY <1>1 DEF Accts
<1>9. TypeOK' /\ DrawnOnce'
  BY <1>1, <1>6, <1>7, <1>8 DEF Inv, TypeOK, DrawnOnce
<1>10. OneFirstAdmin' /\ AdminRemains' /\ MfaSecretProved'
  BY <1>1, <1>8 DEF Inv, OneFirstAdmin, AdminRemains, MfaSecretProved
<1>11. \A x : Resetting(x) => Resetting(x)'
  BY <1>1, <1>6 DEF Resetting, SameRequest
<1>12. ASSUME NEW u, NEW e, NEW st, NEW st2, Excused(u, e, st), \A m \in st : m \in st2
       PROVE  e < user'[u].pwd => Resetting(u)' \/ u \in cut' \/ "swept" \in st2
  BY <1>1, <1>11, <1>12 DEF Excused
<1>13. SessionsExcused'
  <2>1. \A x \in Rows : token[x].live => Excused(token[x].user, token[x].epoch, token[x].stale)
    BY DEF Inv, SessionsExcused
  <2> QED
    BY <1>7, <1>12, <2>1 DEF SessionsExcused, Excused
<1>14. ExchangedOnce'
  <2>1. ASSUME NEW f \in Tokens, Spent(f) PROVE Spent(f)'
    <3>1. f \notin fresh' /\ (f \in Rows' => ~token'[f].live)
      BY <1>1, <1>7, <2>1 DEF Spent
    <3>2. ASSUME NEW v \in Workers, job'[v].op = "refresh", job'[v].arg = f
          PROVE  "taken" \in job'[v].stale
      <4>1. v # w
        BY <1>3, <1>6, <3>2
      <4>2. SameRequest(v)
        BY <1>6, <4>1
      <4> QED
        BY <2>1, <3>2, <4>2 DEF Spent, SameRequest
    <3> QED
      BY <3>1, <3>2 DEF Spent
  <2>2. Spent(f0)'
    <3>1. f0 \notin fresh' /\ (f0 \in Rows' => ~token'[f0].live)
      BY <1>1, <1>2, <1>7
    <3>2. ASSUME NEW v \in Workers, job'[v].op = "refresh", job'[v].arg = f0
          PROVE  "taken" \in job'[v].stale
      <4>1. v # w
        BY <1>3, <1>6, <3>2
      <4>2. SameRequest(v) /\ (v \in M => "taken" \in job'[v].stale)
        BY <1>6, <4>1
      <4> QED
        BY <1>5, <3>2, <4>2 DEF SameRequest
    <3> QED
      BY <3>1, <3>2 DEF Spent
  <2>3. ASSUME NEW f \in Tokens, NEW t \in Rows PROVE RowOf(t, f)' <=> RowOf(t, f)
    BY <1>7 DEF RowOf
  <2>4. ASSUME NEW f \in Tokens, NEW v \in Workers, v # w, RequestOf(v, f)'
        PROVE  RequestOf(v, f)
    BY <1>6, <2>4 DEF RequestOf, SameRequest
  <2>5. ASSUME NEW f \in Tokens, RequestOf(w, f)'
        PROVE  /\ f = f0 /\ ~Spent(f0)
    BY <1>1, <1>3, <1>6, <2>5 DEF RequestOf, Spent
  <2>6. ExchangedOnce
    BY DEF Inv
  <2> QED
    BY <1>7, <2>1, <2>2, <2>3, <2>4, <2>5, <2>6 DEF ExchangedOnce
<1>15. JobFits(w)'
  <2>1. Issuing(w)'
    BY <1>1, <1>2, <1>3, <1>6, <1>12 DEF Issuing, Excused
  <2> QED
    BY <1>2, <1>3, <1>6, <1>8, <2>1
    DEF JobFits, Registering, OfAccount, Recovering, SettingUp, Administering
<1>16. ASSUME NEW v \in Workers, v # w PROVE JobFits(v)'
  <2>1. SameRequest(v)
    BY <1>6, <1>16
  <2>2. job[v].op \in {"issue", "refresh"} =>
          Excused(job[v].user, job[v].epoch, job[v].stale)'
    BY <1>12, <2>1 DEF Inv, JobFits, Issuing, Excused, SameRequest
  <2> QED
    BY <1>1, <1>8, <2>1, <2>2, JobKept
<1> QED
  BY <1>9, <1>10, <1>13, <1>14, <1>15, <1>16 DEF Inv

(* The end of a password reset. *)
LEMMA RevokeAllStep ==
  ASSUME Inv, UNCHANGED left, NEW w \in Workers, RevokeAll(w)
  PROVE  Inv'
<1> PICK u : u = job[w].user
  OBVIOUS
<1> DEFINE M == {v \in Workers : job[v].op \in {"issue", "refresh"} /\ job[v].user = u}
           S == {t \in Rows : token[t].user = u}
<1>1. /\ UNCHANGED <<user, key, fresh, proved, crossed, deposed>> /\ cut' = cut \ {u}
      /\ job[w].op = "sweep" /\ token' = Revoked(S)
  BY DEF RevokeAll
<1>2. job' = [v \in Workers |->
                IF v = w THEN Idle ELSE IF v \in M THEN Mark(job[v], "swept") ELSE job[v]]
  BY DEF RevokeAll, Step, Mark
<1>3. /\ \A v \in Workers : job[v].op \in {"issue", "refresh"} /\ job[v].user = u => v \in M
      /\ \A t \in Rows : t \in S <=> token[t].user = u
  OBVIOUS
<1> HIDE DEF M, S
<1>4. /\ job' \in [Workers -> Job] /\ job'[w] = Idle
      /\ \A v \in Workers : v # w => SameRequest(v) /\ (v \in M => "swept" \in job'[v].stale)
  BY <1>2, IdleJob, StepJob
<1>5. /\ Rows' = Rows /\ token' \in [Rows -> Token]
      /\ \A t \in Rows : /\ token'[t].user = token[t].user
                         /\ token'[t].epoch = token[t].epoch
                         /\ token'[t].from = token[t].from
                         /\ token'[t].stale = token[t].stale
                         /\ token'[t].live => token[t].live /\ t \notin S
  BY <1>1, RevokedStep
<1>6. Accts' = Accts
  BY <1>1 DEF Accts
<1>7. TypeOK' /\ DrawnOnce'
  BY <1>1, <1>4, <1>5, <1>6 DEF Inv, TypeOK, DrawnOnce
<1>8. OneFirstAdmin' /\ AdminRemains' /\ MfaSecretProved'
  BY <1>1, <1>6 DEF Inv, OneFirstAdmin, AdminRemains, MfaSecretProved
<1>9. \A x : x # u /\ Resetting(x) => Resetting(x)'
  BY <1>1, <1>4 DEF Resetting, SameRequest
<1>10. ASSUME NEW x, x # u, NEW e, NEW st, NEW st2, Excused(x, e, st), \A m \in st : m \in st2
       PROVE  e < user'[x].pwd => Resetting(x)' \/ x \in cut' \/ "swept" \in st2
  BY <1>1, <1>9, <1>10 DEF Excused
<1>11. SessionsExcused'
  <2>1. \A t \in Rows : token[t].live => Excused(token[t].user, token[t].epoch, token[t].stale)
    BY DEF Inv, SessionsExcused
  <2>2. ASSUME NEW t \in Rows, token'[t].live
        PROVE  Excused(token[t].user, token[t].epoch, token[t].stale)'
    <3>1. token[t].live /\ token[t].user # u
      BY <1>3, <1>5, <2>2
    <3>2. Excused(token[t].user, token[t].epoch, token[t].stale)
      BY <2>1, <3>1
    <3> QED
      BY <1>5, <1>10, <3>1, <3>2 DEF Excused
  <2> QED
    BY <1>5, <2>2 DEF SessionsExcused
<1>12. job'[w].op = "idle"
  BY <1>4, IdleJob
<1>13. ExchangedOnce'
  BY <1>1, <1>4, <1>5, <1>12, ExchangeKept DEF SameRequest
<1>14. ASSUME NEW v \in Workers PROVE JobFits(v)'
  <2>1. CASE v = w
    BY <1>12, <2>1, IdleFits
  <2>2. CASE v # w
    <3>1. SameRequest(v) /\ (v \in M => "swept" \in job'[v].stale)
      BY <1>4, <2>2
    <3>2. job[v].op \in {"issue", "refresh"} =>
            Excused(job[v].user, job[v].epoch, job[v].stale)'
      <4>1. CASE job[v].user = u
        BY <1>3, <3>1, <4>1 DEF Excused
      <4>2. CASE job[v].user # u
        BY <1>10, <3>1, <4>2 DEF Inv, JobFits, Issuing, Excused, SameRequest
      <4> QED
        BY <4>1, <4>2
    <3> QED
      BY <1>1, <1>6, <3>1, <3>2, JobKept
  <2> QED
    BY <2>1, <2>2
<1> QED
  BY <1>7, <1>8, <1>11, <1>13, <1>14 DEF Inv

-----------------------------------------------------------------------------
LEMMA InvInit == Init => Inv
<1> SUFFICES ASSUME Init PROVE Inv
  OBVIOUS
<1>1. Accts = {} /\ Rows = {} /\ DOMAIN key = {}
  BY DEF Init, Accts, Rows
<1>2. \A w \in Workers : job[w] = Idle /\ job[w].op = "idle"
  BY IdleJob DEF Init
<1>3. TypeOK
  <2>1. user \in [Accts -> User] /\ token \in [Rows -> Token] /\ key \in [DOMAIN key -> Key]
    BY <1>1 DEF Init
  <2>2. job \in [Workers -> Job]
    BY IdleJob DEF Init
  <2>3. fresh \subseteq (Tokens \ Rows) \union (Keys \ DOMAIN key) \union Secrets
    BY <1>1 DEF Init
  <2>4. left \in 0 .. MaxRequests
    BY BoundsAssumption DEF Init
  <2>5. proved = {} /\ crossed = {} /\ cut = {} /\ deposed \in BOOLEAN
    BY DEF Init
  <2> QED
    BY <1>1, <2>1, <2>2, <2>3, <2>4, <2>5 DEF TypeOK
<1>4. DrawnOnce /\ SessionsExcused /\ OneFirstAdmin /\ AdminRemains /\ MfaSecretProved
  BY <1>1 DEF DrawnOnce, SessionsExcused, OneFirstAdmin, AdminRemains, MfaSecretProved
<1>5. ExchangedOnce
  BY <1>1, <1>2 DEF ExchangedOnce, RequestOf
<1>6. \A w \in Workers : JobFits(w)
  BY <1>2
  DEF JobFits, Registering, OfAccount, Issuing, Recovering, SettingUp, Administering
<1> QED
  BY <1>3, <1>4, <1>5, <1>6 DEF Inv

LEMMA InvNext == Inv /\ [Next]_vars => Inv'
<1> SUFFICES ASSUME Inv, [Next]_vars PROVE Inv'
  OBVIOUS
<1>1. ASSUME NEW w \in Workers, left > 0, left' = left - 1, Request(w) PROVE Inv'
  <2>1. left' \in 0 .. MaxRequests
    BY <1>1, BoundsAssumption DEF Inv, TypeOK
  <2> QED
    BY <1>1, <2>1, RequestStep
<1>2. ASSUME UNCHANGED left, NEW w \in Workers, Continue(w) PROVE Inv'
  BY <1>2, RegisterInsertStep, StoreRefreshTokenStep, RefreshRevokeStep, PasswordUpdateStep,
     RecoverConsumeStep, RevokeAllStep, SetupStoreStep, VerifyEnableStep, DisableStoreStep,
     RoleUpdateStep, AbortStep DEF Continue
<1>3. ASSUME UNCHANGED left, NEW t \in Tokens, Logout(t) \/ Expire(t) PROVE Inv'
  BY <1>3, LogoutStep, ExpireStep
<1>4. ASSUME UNCHANGED left, NEW u \in Users, GenerateRecoveryPhrase(u) PROVE Inv'
  BY <1>4, GenerateRecoveryPhraseStep
<1>5. ASSUME UNCHANGED left, CleanTokens PROVE Inv'
  BY <1>5, CleanTokensStep
<1>6. CASE UNCHANGED vars
  <2>1. \A v \in Workers : SameRequest(v)
    BY <1>6 DEF vars, SameRequest, Inv, TypeOK
  <2>2. TypeOK' /\ DrawnOnce'
    BY <1>6 DEF vars, Inv, TypeOK, DrawnOnce, Accts, Rows
  <2>3. \A u : Resetting(u) => Resetting(u)'
    BY <1>6 DEF vars, Resetting
  <2> QED
    BY <1>6, <2>1, <2>2, <2>3, QuietStep DEF vars, Rows
<1> QED
  BY <1>1, <1>2, <1>3, <1>4, <1>5, <1>6 DEF Next

(* Every reachable state of the accounts satisfies the inductive invariant:
   what the handlers of auth and user rely on between two statements holds, or
   the request carries the mark of the one that overtook it. *)
THEOREM AccountsInvariant == Spec => []Inv
BY InvInit, InvNext, PTL DEF Spec

(* The tables and the requests keep their shape, and no token is stored twice. *)
THEOREM AccountsTypeOK == Spec => []TypeOK
<1>1. Inv => TypeOK
  BY DEF Inv
<1> QED
  BY <1>1, AccountsInvariant, PTL

(* change_password and verify_recovery_phrase end every session begun under an
   earlier password, but those opened or refreshed beside the last statement,
   and unless they were cut short. *)
THEOREM AccountsResetEndsSessions == Spec => []ResetEndsSessions
<1>1. Inv => ResetEndsSessions
  BY DEF Inv, SessionsExcused, Excused, ResetEndsSessions
<1> QED
  BY <1>1, AccountsInvariant, PTL

(* refresh exchanges a token once, unless two requests overlap. *)
THEOREM AccountsRefreshOnce == Spec => []RefreshOnce
<1>1. Inv => RefreshOnce
  <2> SUFFICES ASSUME Inv, NEW t \in Rows, NEW s \in Rows, t # s,
                      token[t].from = token[s].from, token[t].from # None,
                      "taken" \notin token[t].stale, "taken" \notin token[s].stale
               PROVE  FALSE
    BY DEF RefreshOnce
  <2>1. token[t].from \in Tokens
    BY DEF Inv, TypeOK, Token
  <2> QED
    BY <2>1 DEF Inv, ExchangedOnce, RowOf
<1> QED
  BY <1>1, AccountsInvariant, PTL

(* register makes one admin, unless two registrations overlap or the count of
   the accounts fails. *)
THEOREM AccountsOneFirstAdmin == Spec => []OneFirstAdmin
<1>1. Inv => OneFirstAdmin
  BY DEF Inv
<1> QED
  BY <1>1, AccountsInvariant, PTL

(* update_role never removes the last admin, unless the admin who asked was
   demoted between the check and the update. *)
THEOREM AccountsAdminRemains == Spec => []AdminRemains
<1>1. Inv => AdminRemains
  BY DEF Inv
<1> QED
  BY <1>1, AccountsInvariant, PTL

(* MFA is never on with a secret the user has not shown to hold, unless two of
   the user's MFA requests overlap. *)
THEOREM AccountsMfaSecretProved == Spec => []MfaSecretProved
<1>1. Inv => MfaSecretProved
  BY DEF Inv
<1> QED
  BY <1>1, AccountsInvariant, PTL
=============================================================================
