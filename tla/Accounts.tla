------------------------------ MODULE Accounts ------------------------------
(***************************************************************************)
(* Accounts and sessions of the backend: the tables users, refresh_tokens  *)
(* and recovery_keys, the handlers of the crates auth and user that change *)
(* them, and the gateway's hourly clean-up of tokens.                      *)
(*                                                                         *)
(* No handler holds a transaction: each is one action per SQL statement,   *)
(* job[w] is the request of worker w between two of them.  job[w].stale    *)
(* records that what the request has read was overwritten since: "swept",  *)
(* a password reset revoked the sessions of its user; "taken", any other   *)
(* row it relies on changed.  No handler sees it: the properties say what  *)
(* the code guarantees as long as it is empty, and so, where the missing   *)
(* transactions show.  A refused request is not a step.                    *)
(***************************************************************************)
EXTENDS Integers, FiniteSets

CONSTANTS Users,      \* accounts, one per e-mail address
          Tokens,     \* refresh tokens; the row of a token is found by its hash
          Keys,       \* recovery phrases
          Secrets,    \* TOTP secrets
          MaxEpoch,   \* bound: no password is changed more often than this
          MaxRequests, \* bound: requests of several statements that are begun
          Workers,    \* requests that may be in flight at once
          None

ASSUME BoundsAssumption == MaxEpoch \in Nat /\ MaxRequests \in Nat
ASSUME NoneAssumption == None \notin Users \union Tokens \union Keys \union Secrets

VARIABLES user,       \* users: a function from the registered accounts
          token,      \* refresh_tokens: a function from the rows
          key,        \* recovery_keys: a function from the rows
          fresh,      \* tokens, phrases and secrets not drawn yet
          job,        \* per worker, the request in flight
          left,       \* requests that may still be begun
          proved,     \* history: secrets a right code was presented for
          crossed,    \* history: users two of whose MFA requests overlapped
          cut,        \* history: users whose last password reset was cut short
          deposed     \* history: a role was changed by an admin who no longer was one

vars == <<user, token, key, fresh, job, left, proved, crossed, cut, deposed>>

Roles == {"admin", "user"}   \* "viewer" differs from "user" in nothing modelled

Epochs == 0 .. MaxEpoch      \* the password in force: how often it was changed

User  == [role : Roles, pwd : Epochs, totp : Secrets \union {None}, mfa : BOOLEAN,
          first : BOOLEAN]   \* first: history, became admin by an exact count
Token == [user : Users, live : BOOLEAN, epoch : Epochs,
          from : Tokens \union {None}, stale : SUBSET {"swept", "taken"}]
Key   == [user : Users, used : BOOLEAN]

Ops == {"idle", "register", "login", "refresh", "issue", "change", "recover", "consume",
        "sweep", "setup", "enable", "disable", "promote", "demote"}

Args == Users \union Tokens \union Keys \union Secrets \union Roles \union {None}

Job == [op : Ops, user : Users \union {None}, arg : Args, epoch : Epochs,
        stale : SUBSET {"swept", "taken"}]

Idle == [op |-> "idle", user |-> None, arg |-> None, epoch |-> 0, stale |-> {}]

Init == /\ user = [u \in {} |-> Idle]
        /\ token = [t \in {} |-> Idle]
        /\ key = [k \in {} |-> Idle]
        /\ fresh = Tokens \union Keys \union Secrets
        /\ job = [w \in Workers |-> Idle]
        /\ left = MaxRequests
        /\ proved = {}
        /\ crossed = {}
        /\ cut = {}
        /\ deposed = FALSE

Accts == DOMAIN user
Rows  == DOMAIN token

-----------------------------------------------------------------------------
(* A row is added to a table. *)
Added(table, k, r) == [x \in DOMAIN table \union {k} |-> IF x = k THEN r ELSE table[x]]

(* Worker w goes on with j; the requests in flight that what marks have read
   what this statement overwrites. *)
Step(w, j, mark, what(_)) ==
  job' = [v \in Workers |->
            IF v = w THEN j
            ELSE IF what(job[v]) THEN [job[v] EXCEPT !.stale = @ \union {mark}]
            ELSE job[v]]

Nobody(j) == FALSE

Begin(w, op, u, arg, epoch) ==
  /\ job[w].op = "idle"
  /\ Step(w, [op |-> op, user |-> u, arg |-> arg, epoch |-> epoch, stale |-> {}],
          "taken", Nobody)

Done(w) == Step(w, Idle, "taken", Nobody)

(* x is drawn from S at random, and not drawn before. *)
Draw(S, x) == x \in fresh \intersect S /\ fresh' = fresh \ {x}

-----------------------------------------------------------------------------
(* Registration and sessions. *)

(* Mutated form of RegisterCount: everybody is the first. *)
RegisterCount_AlwaysAdmin(w, u) ==
  /\ u \notin Accts
  /\ Begin(w, "register", u, "admin", 0)
  /\ UNCHANGED <<user, token, key, fresh, proved, crossed, cut, deposed>>

(* register: the address is free, and the role follows from the number of
   accounts.  A failed query counts as no accounts. *)
RegisterCount(w, u) ==
  /\ u \notin Accts
  /\ job[w].op = "idle"
  /\ \/ Begin(w, "register", u, IF Accts = {} THEN "admin" ELSE "user", 0)
     \/ Step(w, [op |-> "register", user |-> u, arg |-> "admin", epoch |-> 0,
                 stale |-> {"taken"}], "taken", Nobody)
  /\ UNCHANGED <<user, token, key, fresh, proved, crossed, cut, deposed>>

(* The INSERT, refused when the address is taken by now. *)
RegisterInsert(w) ==
  /\ job[w].op = "register"
  /\ LET u == job[w].user
     IN  IF u \in Accts
           THEN Done(w) /\ UNCHANGED user
           ELSE /\ user' = Added(user, u,
                     [role |-> job[w].arg, pwd |-> 0, totp |-> None, mfa |-> FALSE,
                      first |-> job[w].arg = "admin" /\ job[w].stale = {}])
                /\ Step(w, [job[w] EXCEPT !.op = "issue", !.arg = None, !.stale = {}], "taken",
                        LAMBDA j : j.op = "register")
  /\ UNCHANGED <<token, key, fresh, proved, crossed, cut, deposed>>

(* login: the row is read and its password verified.  Then, if MFA is on, the
   code, which only refuses. *)
Login(w, u) ==
  /\ u \in Accts
  /\ Begin(w, "issue", u, None, user[u].pwd)
  /\ UNCHANGED <<user, token, key, fresh, proved, crossed, cut, deposed>>

(* generate_token_pair: the refresh token names its user and expires; the
   access token is not kept. *)
GenerateTokenPair(w) ==
  [user |-> job[w].user, live |-> TRUE, epoch |-> job[w].epoch,
   from |-> job[w].arg, stale |-> job[w].stale]

(* Mutated form of StoreRefreshToken: a token may be drawn again, as if it had
   no identifier of its own. *)
StoreRefreshToken_Again(w) ==
  /\ job[w].op = "issue"
  /\ \E t \in fresh \intersect Tokens : token' = Added(token, t, GenerateTokenPair(w))
  /\ Done(w)
  /\ UNCHANGED <<user, key, fresh, proved, crossed, cut, deposed>>

(* store_refresh_token: the end of register, login and refresh. *)
StoreRefreshToken(w) ==
  /\ job[w].op = "issue"
  /\ \E t \in Tokens : Draw(Tokens, t) /\ token' = Added(token, t, GenerateTokenPair(w))
  /\ Done(w)
  /\ UNCHANGED <<user, key, proved, crossed, cut, deposed>>

(* refresh: the token is in the table and neither revoked nor expired ... *)
RefreshRead(w, t) ==
  /\ t \in Rows
  /\ token[t].live
  /\ job[w].op = "idle"
  /\ Step(w, [op |-> "refresh", user |-> token[t].user, arg |-> t, epoch |-> token[t].epoch,
              stale |-> token[t].stale \ {"taken"}], "taken", Nobody)
  /\ UNCHANGED <<user, token, key, fresh, proved, crossed, cut, deposed>>

Revoked(S) == [t \in Rows |-> IF t \in S THEN [token[t] EXCEPT !.live = FALSE] ELSE token[t]]

(* Mutated form of RefreshRevoke: the row stays as it is. *)
RefreshRevoke_Kept(w) ==
  /\ job[w].op = "refresh"
  /\ Step(w, [job[w] EXCEPT !.op = "issue"], "taken",
          LAMBDA j : j.op = "refresh" /\ j.arg = job[w].arg)
  /\ UNCHANGED <<user, token, key, fresh, proved, crossed, cut, deposed>>

(* ... and is revoked by the id of its row, which may be revoked or gone by
   now; the new pair follows in any case. *)
RefreshRevoke(w) ==
  /\ job[w].op = "refresh"
  /\ token' = Revoked({job[w].arg})
  /\ Step(w, [job[w] EXCEPT !.op = "issue"], "taken",
          LAMBDA j : j.op = "refresh" /\ j.arg = job[w].arg)
  /\ UNCHANGED <<user, key, fresh, proved, crossed, cut, deposed>>

(* logout, by the token alone. *)
Logout(t) ==
  /\ t \in Rows
  /\ token' = Revoked({t})
  /\ job' = [v \in Workers |-> IF job[v].op = "refresh" /\ job[v].arg = t
                                 THEN [job[v] EXCEPT !.stale = @ \union {"taken"}]
                                 ELSE job[v]]
  /\ UNCHANGED <<user, key, fresh, proved, crossed, cut, deposed>>

(* Seven days go by: the token is as good as revoked. *)
Expire(t) ==
  /\ t \in Rows
  /\ token[t].live
  /\ token' = Revoked({t})
  /\ UNCHANGED <<user, key, fresh, job, proved, crossed, cut, deposed>>

(* The hourly task: DELETE of what is expired or revoked. *)
CleanTokens ==
  /\ \E t \in Rows : ~token[t].live
  /\ token' = [t \in {r \in Rows : token[r].live} |-> token[t]]
  /\ UNCHANGED <<user, key, fresh, job, proved, crossed, cut, deposed>>

-----------------------------------------------------------------------------
(* Password changes. *)

(* change_password: the current password is verified. *)
ChangeCheck(w, u) ==
  /\ u \in Accts
  /\ Begin(w, "change", u, None, user[u].pwd)
  /\ UNCHANGED <<user, token, key, fresh, proved, crossed, cut, deposed>>

(* generate_recovery_phrase; earlier phrases stay good. *)
GenerateRecoveryPhrase(u) ==
  /\ u \in Accts
  /\ \E k \in Keys : Draw(Keys, k) /\ key' = Added(key, k, [user |-> u, used |-> FALSE])
  /\ UNCHANGED <<user, token, job, proved, crossed, cut, deposed>>

(* A phrase with a right checksum was generated, or its hash is in no row. *)
ValidPhrase(k) == k \in DOMAIN key

(* verify_recovery_phrase: the phrase is the user's and unused. *)
RecoverCheck(w, u, k) ==
  /\ u \in Accts
  /\ ValidPhrase(k)
  /\ key[k].user = u /\ ~key[k].used
  /\ Begin(w, "recover", u, k, user[u].pwd)
  /\ UNCHANGED <<user, token, key, fresh, proved, crossed, cut, deposed>>

(* Both handlers set the new password, by user id. *)
PasswordUpdate(w) ==
  /\ job[w].op \in {"change", "recover"}
  /\ user[job[w].user].pwd < MaxEpoch
  /\ user' = [user EXCEPT ![job[w].user].pwd = @ + 1]
  /\ Step(w, [job[w] EXCEPT !.op = IF @ = "recover" THEN "consume" ELSE "sweep"],
          "taken", Nobody)
  /\ UNCHANGED <<token, key, fresh, proved, crossed, cut, deposed>>

(* The phrase is marked as used, by id. *)
RecoverConsume(w) ==
  /\ job[w].op = "consume"
  /\ key' = [key EXCEPT ![job[w].arg].used = TRUE]
  /\ Step(w, [job[w] EXCEPT !.op = "sweep"], "taken",
          LAMBDA j : j.op = "recover" /\ j.arg = job[w].arg)
  /\ UNCHANGED <<user, token, fresh, proved, crossed, cut, deposed>>

(* Mutated form of RevokeAll: only the session of the oldest password. *)
RevokeAll_OneSession(w) ==
  /\ job[w].op = "sweep"
  /\ LET S == {t \in Rows : token[t].user = job[w].user /\ token[t].live}
     IN  token' = IF S = {} THEN token ELSE Revoked({CHOOSE t \in S : TRUE})
  /\ cut' = cut \ {job[w].user}
  /\ Step(w, Idle, "swept",
          LAMBDA j : j.op \in {"issue", "refresh"} /\ j.user = job[w].user)
  /\ UNCHANGED <<user, key, fresh, proved, crossed, deposed>>

(* Both handlers end by revoking every token of the user. *)
RevokeAll(w) ==
  /\ job[w].op = "sweep"
  /\ token' = Revoked({t \in Rows : token[t].user = job[w].user})
  /\ cut' = cut \ {job[w].user}
  /\ Step(w, Idle, "swept",
          LAMBDA j : j.op \in {"issue", "refresh"} /\ j.user = job[w].user)
  /\ UNCHANGED <<user, key, fresh, proved, crossed, deposed>>

-----------------------------------------------------------------------------
(* Two-factor authentication. *)

(* setup_totp: MFA is not on ... *)
SetupCheck(w, u) ==
  /\ u \in Accts
  /\ ~user[u].mfa
  /\ Begin(w, "setup", u, None, 0)
  /\ UNCHANGED <<user, token, key, fresh, proved, crossed, cut, deposed>>

GenerateTotpSecret(s) == Draw(Secrets, s)

(* ... and a new secret replaces the old one, whatever mfa is by now. *)
SetupStore(w) ==
  /\ job[w].op = "setup"
  /\ \E s \in Secrets : GenerateTotpSecret(s) /\ user' = [user EXCEPT ![job[w].user].totp = s]
  /\ crossed' = crossed \union {u \in {job[w].user} : job[w].stale # {}}
  /\ Step(w, Idle, "taken", LAMBDA j : j.op \in {"enable", "disable"} /\ j.user = job[w].user)
  /\ UNCHANGED <<token, key, proved, cut, deposed>>

(* verify_totp: a code made from secret s is presented, within a step of the
   clock; one that does not fit only refuses the request. *)
VerifyTotp(s) == proved' = proved \union {s}

(* Mutated form of VerifyRead: any code will do. *)
VerifyRead_AnyCode(w, u) ==
  /\ u \in Accts
  /\ user[u].totp # None
  /\ Begin(w, "enable", u, user[u].totp, 0)
  /\ UNCHANGED <<user, token, key, fresh, proved, crossed, cut, deposed>>

(* verify_totp_setup: the code fits the secret in force ... *)
VerifyRead(w, u) ==
  /\ u \in Accts
  /\ user[u].totp # None
  /\ Begin(w, "enable", u, user[u].totp, 0)
  /\ VerifyTotp(user[u].totp)
  /\ UNCHANGED <<user, token, key, fresh, crossed, cut, deposed>>

(* ... and MFA is on, with the secret the row holds by now. *)
VerifyEnable(w) ==
  /\ job[w].op = "enable"
  /\ user' = [user EXCEPT ![job[w].user].mfa = TRUE]
  /\ crossed' = crossed \union {u \in {job[w].user} : job[w].stale # {}}
  /\ Step(w, Idle, "taken", LAMBDA j : j.op = "setup" /\ j.user = job[w].user)
  /\ UNCHANGED <<token, key, fresh, proved, cut, deposed>>

(* disable_totp: MFA is on and the code fits ... *)
DisableRead(w, u) ==
  /\ u \in Accts
  /\ user[u].mfa
  /\ user[u].totp # None
  /\ Begin(w, "disable", u, user[u].totp, 0)
  /\ VerifyTotp(user[u].totp)
  /\ UNCHANGED <<user, token, key, fresh, crossed, cut, deposed>>

(* ... and MFA is off and the secret gone. *)
DisableStore(w) ==
  /\ job[w].op = "disable"
  /\ user' = [user EXCEPT ![job[w].user].mfa = FALSE, ![job[w].user].totp = None]
  /\ Step(w, Idle, "taken", LAMBDA j : j.op = "enable" /\ j.user = job[w].user)
  /\ UNCHANGED <<token, key, fresh, proved, crossed, cut, deposed>>

-----------------------------------------------------------------------------
(* Administration. *)

(* The role is read from the table, not from the access token. *)
RequireAdmin(a) == a \in Accts /\ user[a].role = "admin"

(* Mutated form of RoleCheck: an admin may step down. *)
RoleCheck_StepDown(w, a, u, op) ==
  /\ RequireAdmin(a)
  /\ Begin(w, op, a, u, 0)
  /\ UNCHANGED <<user, token, key, fresh, proved, crossed, cut, deposed>>

(* update_role: the caller is an admin and does not remove his own role ... *)
RoleCheck(w, a, u, op) ==
  /\ RequireAdmin(a)
  /\ ~(u = a /\ op = "demote")
  /\ Begin(w, op, a, u, 0)
  /\ UNCHANGED <<user, token, key, fresh, proved, crossed, cut, deposed>>

(* ... and the role is set by user id. *)
RoleUpdate(w) ==
  /\ job[w].op \in {"promote", "demote"}
  /\ LET u == job[w].arg
         down == job[w].op = "demote"
     IN  IF u \in Accts
           THEN /\ user' = [user EXCEPT ![u].role = IF down THEN "user" ELSE "admin"]
                /\ deposed' = (deposed \/ job[w].stale # {})
                /\ Step(w, Idle, "taken",
                        LAMBDA j : down /\ j.op \in {"promote", "demote"} /\ j.user = u)
           ELSE Done(w) /\ UNCHANGED <<user, deposed>>
  /\ UNCHANGED <<token, key, fresh, proved, crossed, cut>>

(* The server stops or the client goes away at an await: what was done stays. *)
Abort(w) ==
  /\ job[w].op # "idle"
  /\ Done(w)
  /\ cut' = cut \union {u \in {job[w].user} : job[w].op \in {"consume", "sweep"}}
  /\ UNCHANGED <<user, token, key, fresh, proved, crossed, deposed>>

Request(w) ==
  \/ \E u \in Users :
       \/ RegisterCount(w, u)
       \/ Login(w, u)
       \/ ChangeCheck(w, u)
       \/ SetupCheck(w, u)
       \/ VerifyRead(w, u)
       \/ DisableRead(w, u)
       \/ \E k \in Keys : RecoverCheck(w, u, k)
       \/ \E a \in Users, op \in {"promote", "demote"} : RoleCheck(w, a, u, op)
  \/ \E t \in Tokens : RefreshRead(w, t)

Continue(w) ==
  \/ RegisterInsert(w)
  \/ StoreRefreshToken(w)
  \/ RefreshRevoke(w)
  \/ PasswordUpdate(w)
  \/ RecoverConsume(w)
  \/ RevokeAll(w)
  \/ SetupStore(w)
  \/ VerifyEnable(w)
  \/ DisableStore(w)
  \/ RoleUpdate(w)
  \/ Abort(w)

Next ==
  \/ \E w \in Workers : left > 0 /\ left' = left - 1 /\ Request(w)
  \/ UNCHANGED left /\ (\E w \in Workers : Continue(w))
  \/ UNCHANGED left /\ (\E t \in Tokens : Logout(t) \/ Expire(t))
  \/ UNCHANGED left /\ (\E u \in Users : GenerateRecoveryPhrase(u))
  \/ UNCHANGED left /\ CleanTokens

Spec == Init /\ [][Next]_vars

-----------------------------------------------------------------------------
(* Properties. *)

(* The tables and the requests in flight have the shape the code gives them,
   what a row refers to exists, and no two rows hold the same token. *)
TypeOK ==
  /\ Accts \subseteq Users /\ user \in [Accts -> User]
  /\ Rows \subseteq Tokens /\ token \in [Rows -> Token]
  /\ DOMAIN key \subseteq Keys /\ key \in [DOMAIN key -> Key]
  /\ \A t \in Rows : token[t].user \in Accts
  /\ fresh \subseteq (Tokens \ Rows) \union (Keys \ DOMAIN key) \union Secrets
  /\ job \in [Workers -> Job]
  /\ left \in 0 .. MaxRequests
  /\ proved \subseteq Secrets
  /\ crossed \subseteq Users
  /\ cut \subseteq Users
  /\ deposed \in BOOLEAN

(* A password reset of user u is between its UPDATE and its last statement. *)
Resetting(u) == \E w \in Workers : job[w].op \in {"consume", "sweep"} /\ job[w].user = u

(* A session begun under an earlier password survives its change only until
   the handler has revoked it, if the handler was cut short, or if the session
   was being opened or refreshed at that very moment: change_password and
   verify_recovery_phrase end all others (SEC-05). *)
ResetEndsSessions ==
  \A t \in Rows :
    token[t].live /\ token[t].epoch < user[token[t].user].pwd =>
      \/ Resetting(token[t].user)
      \/ token[t].user \in cut
      \/ "swept" \in token[t].stale

(* A refresh token is exchanged twice only by requests that overlap: of two
   tokens drawn from the same one, one was drawn by a refresh whose token
   another request had revoked after it was read. *)
RefreshOnce ==
  \A t, s \in Rows :
    t # s /\ token[t].from = token[s].from /\ token[t].from # None =>
      "taken" \in token[t].stale \union token[s].stale

(* Only the first account is made an admin by registering: a second one needs
   a registration that ran beside the first, or a count that failed. *)
OneFirstAdmin == \A u, v \in Accts : user[u].first /\ user[v].first => u = v

(* The cloud keeps an administrator, although each may take the role from any
   other: all are gone only if one was removed by an admin who had lost the
   role since require_admin looked. *)
AdminRemains ==
  Accts # {} /\ ~deposed => \E u \in Accts : user[u].role = "admin"

(* Login asks for codes of a secret only if the user has shown to hold it:
   MFA is never on without a secret, or with one no code was presented for,
   unless two MFA requests of the user overlapped. *)
MfaSecretProved ==
  \A u \in Accts \ crossed : user[u].mfa => user[u].totp \in proved
=============================================================================
