------------------------------ MODULE Accounts ------------------------------
(***************************************************************************)
(* User accounts, login sessions and two-factor enrolment of PM2 Manager:  *)
(* the auth and user controllers, authService, the user and session        *)
(* repositories, the auth and CSRF guards, first-run bootstrap and the     *)
(* create-admin command.                                                   *)
(*                                                                         *)
(* The server is one Node.js process over a synchronous SQLite connection, *)
(* so a handler runs atomically up to an `await' of real asynchronous work *)
(* (argon2 in the thread pool, the QR encoder).  A handler without such an *)
(* await is one action; one with it is a ...Begin action, which reads the  *)
(* session and the user row and leaves a request in `inflight', and a      *)
(* ...Finish action, which acts on what was read.  Requests that fail a    *)
(* check made on what they read change nothing here and are left out, as   *)
(* are the entries in the activity log, which nothing here reads and whose *)
(* failure record swallows.                                                *)
(***************************************************************************)
EXTENDS Naturals, FiniteSets

CONSTANTS
    Uid,        \* values of users.id
    Sid,        \* session ids the store can issue
    Req,        \* slots for requests (and CLI runs) in flight: bounds concurrency
    Name,       \* usernames as spelled
    NoCase,     \* [Name -> ...]: what COLLATE NOCASE compares
    AdminName,  \* config.admin.username
    Password,
    Secret,     \* TOTP secrets
    None        \* undefined / NULL

ASSUME ConstantsAssumption ==
    /\ AdminName \in Name
    /\ Password # {} /\ Secret # {}
    /\ None \notin Uid /\ None \notin Secret

VARIABLES
    phase,     \* the server process: "down", "booting", "up"
    users,     \* table users: a function on the ids of its rows
    sessions,  \* table sessions: a function on the ids of its rows
    inflight,  \* suspended handlers: a function on the Req slots in use
    issuedIds, \* ids AUTOINCREMENT has handed out
    owner      \* for each session id ever stored, the user it was issued to

vars == <<phase, users, sessions, inflight, issuedIds, owner>>

-----------------------------------------------------------------------------
(* Data.  argon2 and otplib are used only through hash/verify.             *)

Hash(plain) == [argon2id |-> plain]
VerifyPassword(hashed, plain) == hashed = Hash(plain)

Code(secret) == [totp |-> secret]
VerifyToken(token, secret) == token = Code(secret)

UserRecord == [username: Name, password_hash: {Hash(p) : p \in Password},
               totp_secret: Secret \cup {None}, totp_enabled: BOOLEAN,
               is_admin: BOOLEAN]

(* SessionData; isAdmin is session.user.isAdmin, FALSE when there is no     *)
(* user; csrf says whether csrfSecret is set.                              *)
SessionData == [user: Uid \cup {None}, isAdmin: BOOLEAN,
                pending2fa: Uid \cup {None},
                pendingTotpSecret: Secret \cup {None}, csrf: BOOLEAN]

EmptySession == [user |-> None, isAdmin |-> FALSE, pending2fa |-> None,
                 pendingTotpSecret |-> None, csrf |-> FALSE]

(* What a suspended handler still holds: the part of the row or of the     *)
(* loaded session it uses after its await.                                 *)
LoginReq  == [op: {"login"}, sid: Sid, sess: SessionData,
              id: Uid, isAdmin: BOOLEAN, totp: BOOLEAN]
SetupReq  == [op: {"setup"}, sid: Sid, sess: SessionData]
WriteReq  == [op: {"changePassword", "cliReset"}, id: Uid,
              hash: {Hash(p) : p \in Password}, isAdmin: BOOLEAN]
DisableReq == [op: {"disable"}, id: Uid]
CreateReq == [op: {"create", "cliCreate", "boot"},
              username: Name, hash: {Hash(p) : p \in Password}, isAdmin: BOOLEAN]

Request == LoginReq \cup SetupReq \cup WriteReq \cup DisableReq \cup CreateReq

-----------------------------------------------------------------------------
(* Partial functions as tables.                                            *)

Put(f, k, v) == [x \in DOMAIN f \cup {k} |-> IF x = k THEN v ELSE f[x]]
Drop(f, K)   == [x \in DOMAIN f \ K |-> f[x]]

(* userRepository *)
FindByUsername(n) == {i \in DOMAIN users : NoCase[users[i].username] = NoCase[n]}
Admins == {i \in DOMAIN users : users[i].is_admin}

UpdatePassword(id, hash) ==
    users' = [i \in DOMAIN users |->
                IF i = id THEN [users[i] EXCEPT !.password_hash = hash] ELSE users[i]]

SetTotp(id, secret, enabled) ==
    users' = [i \in DOMAIN users |->
                IF i = id THEN [users[i] EXCEPT !.totp_secret = secret,
                                                !.totp_enabled = enabled]
                          ELSE users[i]]

(* INSERT INTO users: the id is fresh, username is UNIQUE as spelled.       *)
UniqueViolation(n) == \E i \in DOMAIN users : users[i].username = n

(* Mutant: ids are not AUTOINCREMENT.                                      *)
InsertUserReusing(id, n, hash, isAdmin) ==
    /\ id \in Uid \ DOMAIN users
    /\ users' = Put(users, id, [username |-> n, password_hash |-> hash,
                                totp_secret |-> None, totp_enabled |-> FALSE,
                                is_admin |-> isAdmin])
    /\ issuedIds' = issuedIds \cup {id}

InsertUser(id, n, hash, isAdmin) ==
    /\ id \in Uid \ issuedIds
    /\ users' = Put(users, id, [username |-> n, password_hash |-> hash,
                                totp_secret |-> None, totp_enabled |-> FALSE,
                                is_admin |-> isAdmin])
    /\ issuedIds' = issuedIds \cup {id}

(* sessionRepository.deleteByUserId matches session.user, not pending2fa.   *)
SessionsOf(id) == {s \in DOMAIN sessions : sessions[s].user = id}

(* Mutant: the user is attached to the session id the visitor came with.   *)
EstablishSessionInPlace(old, id, isAdmin) ==
    /\ sessions' = Put(sessions, old, [EmptySession EXCEPT !.user = id, !.isAdmin = isAdmin])
    /\ owner' = owner

(* regenerate, attach the user, save: establishSession.                    *)
EstablishSession(old, id, isAdmin) ==
    \E new \in Sid \ DOMAIN owner :
        /\ sessions' = Put(Drop(sessions, {old}), new,
                           [EmptySession EXCEPT !.user = id, !.isAdmin = isAdmin])
        /\ owner' = Put(owner, new, id)

(* The store's set(): INSERT OR REPLACE of the session a request holds.     *)
SaveSession(s, sess) == sessions' = Put(sessions, s, sess)

-----------------------------------------------------------------------------
(* Route guards.                                                           *)

Serving == phase = "up"
Mutating(s) == Serving /\ s \in DOMAIN sessions /\ sessions[s].csrf   \* csrfProtection
RequireAuth(s) == Mutating(s) /\ sessions[s].user # None
RequireAdmin(s) == RequireAuth(s) /\ sessions[s].isAdmin

Suspend(r, req) == r \in Req \ DOMAIN inflight /\ inflight' = Put(inflight, r, req)
Resume(r, op) == r \in DOMAIN inflight /\ inflight[r].op = op /\ inflight' = Drop(inflight, {r})

-----------------------------------------------------------------------------
(* GET /csrf-token: gives the session a secret, and a visitor a session.   *)
CsrfToken ==
    /\ Serving
    /\ \/ \E s \in DOMAIN sessions :
            /\ ~sessions[s].csrf
            /\ SaveSession(s, [sessions[s] EXCEPT !.csrf = TRUE])
            /\ UNCHANGED owner
       \/ \E s \in Sid \ DOMAIN owner :
            /\ SaveSession(s, [EmptySession EXCEPT !.csrf = TRUE])
            /\ owner' = Put(owner, s, None)
    /\ UNCHANGED <<phase, users, inflight, issuedIds>>

(* POST /login, up to the await of argon2: the row is read here.           *)
LoginBegin(r, s, n, p) ==
    /\ Mutating(s)
    /\ \E i \in FindByUsername(n) :
         /\ VerifyPassword(users[i].password_hash, p)
         /\ Suspend(r, [op |-> "login", sid |-> s, sess |-> sessions[s], id |-> i,
                        isAdmin |-> users[i].is_admin, totp |-> users[i].totp_enabled])
    /\ UNCHANGED <<phase, users, sessions, issuedIds, owner>>

(* The password was right and the row asked for TOTP: save the challenge.  *)
LoginChallenge(r) ==
    /\ Resume(r, "login")
    /\ inflight[r].totp
    /\ SaveSession(inflight[r].sid, [inflight[r].sess EXCEPT !.pending2fa = inflight[r].id])
    /\ UNCHANGED <<phase, users, issuedIds, owner>>

(* Mutant: the TOTP flag of the row is not looked at.                      *)
LoginSuccessNoTotp(r) ==
    /\ Resume(r, "login")
    /\ EstablishSession(inflight[r].sid, inflight[r].id, inflight[r].isAdmin)
    /\ UNCHANGED <<phase, users, issuedIds>>

LoginSuccess(r) ==
    /\ Resume(r, "login")
    /\ ~inflight[r].totp
    /\ EstablishSession(inflight[r].sid, inflight[r].id, inflight[r].isAdmin)
    /\ UNCHANGED <<phase, users, issuedIds>>

(* Mutant: a challenge is answered without loading the account again.      *)
VerifyTwoFactorUnread(s, token) ==
    /\ Mutating(s)
    /\ sessions[s].pending2fa # None
    /\ EstablishSession(s, sessions[s].pending2fa, FALSE)
    /\ UNCHANGED <<phase, users, inflight, issuedIds>>

(* POST /2fa *)
AcceptsCode(id, token) ==
    /\ id \in DOMAIN users
    /\ users[id].totp_secret # None
    /\ VerifyToken(token, users[id].totp_secret)

VerifyTwoFactor(s, token) ==
    /\ Mutating(s)
    /\ LET id == sessions[s].pending2fa IN
         /\ id # None
         /\ AcceptsCode(id, token)
         /\ EstablishSession(s, id, users[id].is_admin)
    /\ UNCHANGED <<phase, users, inflight, issuedIds>>

(* POST /logout: works, and destroys the session, without a user too.      *)
Logout(s) ==
    /\ Mutating(s)
    /\ sessions' = Drop(sessions, {s})
    /\ UNCHANGED <<phase, users, inflight, issuedIds, owner>>

-----------------------------------------------------------------------------
(* Mutant: the new password goes to the table without being hashed.        *)
ChangePasswordPlain(r, s, current, new) ==
    /\ RequireAuth(s)
    /\ sessions[s].user \in DOMAIN users
    /\ VerifyPassword(users[sessions[s].user].password_hash, current)
    /\ Suspend(r, [op |-> "changePassword", id |-> sessions[s].user,
                   hash |-> new, isAdmin |-> FALSE])
    /\ UNCHANGED <<phase, users, sessions, issuedIds, owner>>

(* POST /change-password *)
ChangePasswordBegin(r, s, current, new) ==
    /\ RequireAuth(s)
    /\ sessions[s].user \in DOMAIN users
    /\ VerifyPassword(users[sessions[s].user].password_hash, current)
    /\ Suspend(r, [op |-> "changePassword", id |-> sessions[s].user,
                   hash |-> Hash(new), isAdmin |-> FALSE])
    /\ UNCHANGED <<phase, users, sessions, issuedIds, owner>>

ChangePasswordFinish(r) ==
    /\ Resume(r, "changePassword")
    /\ UpdatePassword(inflight[r].id, inflight[r].hash)
    /\ UNCHANGED <<phase, sessions, issuedIds, owner>>

(* POST /2fa/setup: the candidate secret sits in the loaded session until   *)
(* the QR code is rendered; the response then saves that session.          *)
SetupTwoFactorBegin(r, s, secret) ==
    /\ RequireAuth(s)
    /\ sessions[s].user \in DOMAIN users
    /\ ~users[sessions[s].user].totp_enabled
    /\ Suspend(r, [op |-> "setup", sid |-> s,
                   sess |-> [sessions[s] EXCEPT !.pendingTotpSecret = secret]])
    /\ UNCHANGED <<phase, users, sessions, issuedIds, owner>>

SetupTwoFactorFinish(r) ==
    /\ Resume(r, "setup")
    /\ SaveSession(inflight[r].sid, inflight[r].sess)
    /\ UNCHANGED <<phase, users, issuedIds, owner>>

(* POST /2fa/enable *)
EnableTwoFactor(s, token) ==
    /\ RequireAuth(s)
    /\ LET id == sessions[s].user
           secret == sessions[s].pendingTotpSecret
       IN /\ secret # None
          /\ VerifyToken(token, secret)
          /\ SetTotp(id, secret, TRUE)
    /\ SaveSession(s, [sessions[s] EXCEPT !.pendingTotpSecret = None])
    /\ UNCHANGED <<phase, inflight, issuedIds, owner>>

(* POST /2fa/disable *)
DisableTwoFactorBegin(r, s, p) ==
    /\ RequireAuth(s)
    /\ sessions[s].user \in DOMAIN users
    /\ VerifyPassword(users[sessions[s].user].password_hash, p)
    /\ Suspend(r, [op |-> "disable", id |-> sessions[s].user])
    /\ UNCHANGED <<phase, users, sessions, issuedIds, owner>>

DisableTwoFactorFinish(r) ==
    /\ Resume(r, "disable")
    /\ SetTotp(inflight[r].id, None, FALSE)
    /\ UNCHANGED <<phase, sessions, issuedIds, owner>>

-----------------------------------------------------------------------------
(* POST /api/users: the name is checked, then the password is hashed.      *)
CreateUserBegin(r, s, n, p, isAdmin) ==
    /\ RequireAdmin(s)
    /\ FindByUsername(n) = {}
    /\ Suspend(r, [op |-> "create", username |-> n,
                   hash |-> Hash(p), isAdmin |-> isAdmin])
    /\ UNCHANGED <<phase, users, sessions, issuedIds, owner>>

CreateUserFinish(r) ==
    /\ Resume(r, "create")
    /\ \/ /\ UniqueViolation(inflight[r].username)
          /\ UNCHANGED <<users, issuedIds>>
       \/ /\ ~UniqueViolation(inflight[r].username)
          /\ \E id \in Uid :
               InsertUser(id, inflight[r].username, inflight[r].hash, inflight[r].isAdmin)
    /\ UNCHANGED <<phase, sessions, owner>>

(* Mutant: "not yourself" is taken to protect the last administrator.       *)
MayRemoveOthers(s, id) ==
    /\ RequireAdmin(s)
    /\ id # sessions[s].user
    /\ id \in DOMAIN users

(* DELETE /api/users/:id.  The two DELETEs are separate transactions.      *)
MayRemove(s, id) ==
    /\ RequireAdmin(s)
    /\ id # sessions[s].user
    /\ id \in DOMAIN users
    /\ users[id].is_admin => Cardinality(Admins) # 1

RemoveUser(s, id) ==
    /\ MayRemove(s, id)
    /\ users' = Drop(users, {id})
    /\ sessions' = Drop(sessions, SessionsOf(id))
    /\ UNCHANGED <<phase, inflight, issuedIds, owner>>

(* The process dies between them.                                          *)
CliRequests == {r \in DOMAIN inflight : inflight[r].op \in {"cliReset", "cliCreate"}}

CrashInRemove(s, id) ==
    /\ MayRemove(s, id)
    /\ users' = Drop(users, {id})
    /\ phase' = "down"
    /\ inflight' = Drop(inflight, DOMAIN inflight \ CliRequests)
    /\ UNCHANGED <<sessions, issuedIds, owner>>

-----------------------------------------------------------------------------
(* The idle timeout: the row is no longer found, and is swept.             *)
ExpireSession(s) ==
    /\ s \in DOMAIN sessions
    /\ sessions' = Drop(sessions, {s})
    /\ UNCHANGED <<phase, users, inflight, issuedIds, owner>>

(* The server process stops: its suspended handlers are gone, the database *)
(* stays, and a CLI run is a process of its own.                           *)
Crash ==
    /\ phase # "down"
    /\ phase' = "down"
    /\ inflight' = Drop(inflight, DOMAIN inflight \ CliRequests)
    /\ UNCHANGED <<users, sessions, issuedIds, owner>>

(* bootstrap / ensureInitialAdmin *)
Boot ==
    /\ phase = "down"
    /\ DOMAIN users # {}
    /\ phase' = "up"
    /\ UNCHANGED <<users, sessions, inflight, issuedIds, owner>>

FirstBootBegin(r, p) ==
    /\ phase = "down"
    /\ DOMAIN users = {}
    /\ phase' = "booting"
    /\ Suspend(r, [op |-> "boot", username |-> AdminName,
                   hash |-> Hash(p), isAdmin |-> TRUE])
    /\ UNCHANGED <<users, sessions, issuedIds, owner>>

FirstBootFinish(r) ==
    /\ Resume(r, "boot")
    /\ \/ /\ UniqueViolation(inflight[r].username)     \* bootstrap().catch: exit(1)
          /\ phase' = "down"
          /\ UNCHANGED <<users, issuedIds>>
       \/ /\ ~UniqueViolation(inflight[r].username)
          /\ phase' = "up"
          /\ \E id \in Uid : InsertUser(id, inflight[r].username, inflight[r].hash, TRUE)
    /\ UNCHANGED <<sessions, owner>>

(* create-admin.ts <username> <password> [--admin], a second process.      *)
CliResetBegin(r, n, p, isAdmin) ==
    /\ \E i \in FindByUsername(n) :
         Suspend(r, [op |-> "cliReset", id |-> i, hash |-> Hash(p), isAdmin |-> isAdmin])
    /\ UNCHANGED <<phase, users, sessions, issuedIds, owner>>

(* Mutant: --admin changes the flag of an existing account.                *)
CliResetPromoting(r) ==
    /\ Resume(r, "cliReset")
    /\ users' = [i \in DOMAIN users |->
                   IF i = inflight[r].id
                     THEN [users[i] EXCEPT !.password_hash = inflight[r].hash,
                                           !.is_admin = @ \/ inflight[r].isAdmin]
                     ELSE users[i]]
    /\ UNCHANGED <<phase, sessions, issuedIds, owner>>

CliResetFinish(r) ==
    /\ Resume(r, "cliReset")
    /\ UpdatePassword(inflight[r].id, inflight[r].hash)
    /\ UNCHANGED <<phase, sessions, issuedIds, owner>>

CliCreateBegin(r, n, p, isAdmin) ==
    /\ FindByUsername(n) = {}
    /\ Suspend(r, [op |-> "cliCreate", username |-> n,
                   hash |-> Hash(p), isAdmin |-> isAdmin])
    /\ UNCHANGED <<phase, users, sessions, issuedIds, owner>>

CliCreateFinish(r) ==
    /\ Resume(r, "cliCreate")
    /\ \/ /\ UniqueViolation(inflight[r].username)
          /\ UNCHANGED <<users, issuedIds>>
       \/ /\ ~UniqueViolation(inflight[r].username)
          /\ \E id \in Uid :
               InsertUser(id, inflight[r].username, inflight[r].hash, inflight[r].isAdmin)
    /\ UNCHANGED <<phase, sessions, owner>>

-----------------------------------------------------------------------------
Empty == [x \in {} |-> x]

Init ==
    /\ phase = "down"
    /\ users = Empty
    /\ sessions = Empty
    /\ inflight = Empty
    /\ issuedIds = {}
    /\ owner = Empty

SessionStep ==
    \/ CsrfToken
    \/ \E r \in Req : \E s \in Sid, n \in Name, p \in Password : LoginBegin(r, s, n, p)
    \/ \E r \in Req : LoginChallenge(r)
    \/ \E r \in Req : LoginSuccess(r)
    \/ \E s \in Sid, sec \in Secret : VerifyTwoFactor(s, Code(sec))
    \/ \E s \in Sid : Logout(s)
    \/ \E s \in Sid : ExpireSession(s)

AccountStep ==
    \/ \E r \in Req, s \in Sid, p, q \in Password : ChangePasswordBegin(r, s, p, q)
    \/ \E r \in Req : ChangePasswordFinish(r)
    \/ \E r \in Req, s \in Sid, sec \in Secret : SetupTwoFactorBegin(r, s, sec)
    \/ \E r \in Req : SetupTwoFactorFinish(r)
    \/ \E s \in Sid, sec \in Secret : EnableTwoFactor(s, Code(sec))
    \/ \E r \in Req, s \in Sid, p \in Password : DisableTwoFactorBegin(r, s, p)
    \/ \E r \in Req : DisableTwoFactorFinish(r)

AdminStep ==
    \/ \E r \in Req, s \in Sid, n \in Name, p \in Password, a \in BOOLEAN :
          CreateUserBegin(r, s, n, p, a)
    \/ \E r \in Req : CreateUserFinish(r)
    \/ \E s \in Sid, id \in Uid : RemoveUser(s, id)
    \/ \E s \in Sid, id \in Uid : CrashInRemove(s, id)

OperatorStep ==
    \/ Crash
    \/ Boot
    \/ \E r \in Req, p \in Password : FirstBootBegin(r, p)
    \/ \E r \in Req : FirstBootFinish(r)
    \/ \E r \in Req, n \in Name, p \in Password, a \in BOOLEAN : CliResetBegin(r, n, p, a)
    \/ \E r \in Req : CliResetFinish(r)
    \/ \E r \in Req, n \in Name, p \in Password, a \in BOOLEAN : CliCreateBegin(r, n, p, a)
    \/ \E r \in Req : CliCreateFinish(r)

Next == SessionStep \/ AccountStep \/ AdminStep \/ OperatorStep

Spec == Init /\ [][Next]_vars

-----------------------------------------------------------------------------
(* Properties.                                                             *)

(* The in-flight handlers that will store a session they read earlier.     *)
Holding == {r \in DOMAIN inflight : inflight[r].op \in {"login", "setup"}}

(* Every variable stays in its type; a user row has an id AUTOINCREMENT has *)
(* handed out, and a session id in the store or held by a suspended handler *)
(* has been issued.                                                        *)
UsersOK ==
    /\ DOMAIN users \subseteq issuedIds /\ issuedIds \subseteq Uid
    /\ \A i \in DOMAIN users : users[i] \in UserRecord
SessionsOK ==
    /\ DOMAIN sessions \subseteq DOMAIN owner /\ DOMAIN owner \subseteq Sid
    /\ \A s \in DOMAIN sessions : sessions[s] \in SessionData
    /\ \A s \in DOMAIN owner : owner[s] \in Uid \cup {None}
InflightOK ==
    /\ DOMAIN inflight \subseteq Req
    /\ \A r \in DOMAIN inflight : inflight[r] \in Request
    /\ \A r \in Holding : inflight[r].sid \in DOMAIN owner
TypeOK ==
    /\ phase \in {"down", "booting", "up"}
    /\ UsersOK /\ SessionsOK /\ InflightOK

(* Session fixation: a session id is only ever authenticated as the user it *)
(* was issued to, so an id planted before a login never becomes a login.   *)
(* authController.establishSession; the handlers that write a session back *)
(* after an await must not break it.                                       *)
SessionIdBoundToPrincipal ==
    /\ \A s \in DOMAIN sessions : sessions[s].user = owner[s]
    /\ \A r \in Holding : inflight[r].sess.user = owner[inflight[r].sid]

(* Every user id a session or a suspended handler carries has been issued, *)
(* so that an id INSERT hands out is new to all of them.                   *)
ReferencesIssued ==
    /\ \A s \in DOMAIN sessions : sessions[s].user \in issuedIds \cup {None}
    /\ \A r \in Holding : inflight[r].sess.user \in issuedIds \cup {None}
    /\ \A r \in DOMAIN inflight : inflight[r].op = "login" => inflight[r].id \in issuedIds

(* requireAdmin trusts the role cached in the session and never reads the  *)
(* row: the cached role of an existing account, in the store or in a       *)
(* suspended handler, is the row's.                                        *)
CachedRoleIsCurrent ==
    /\ \A s \in DOMAIN sessions : sessions[s].user \in DOMAIN users =>
          sessions[s].isAdmin = users[sessions[s].user].is_admin
    /\ \A r \in Holding : inflight[r].sess.user \in DOMAIN users =>
          inflight[r].sess.isAdmin = users[inflight[r].sess.user].is_admin
    /\ \A r \in DOMAIN inflight :
          inflight[r].op = "login" /\ inflight[r].id \in DOMAIN users =>
             inflight[r].isAdmin = users[inflight[r].id].is_admin

(* The last administrator cannot be removed by any sequence of deletions,  *)
(* not even by sessions that outlive their own account.                    *)
(* userController.remove.                                                  *)
LastAdminKept == [][Admins # {} => Admins' # {}]_vars

(* An account that is gone, has no session and is in no suspended handler. *)
Carries(r, u) ==
    \/ r \in Holding /\ inflight[r].sess.user = u
    \/ inflight[r].op = "login" /\ inflight[r].id = u
Revoked(u) ==
    /\ u \in issuedIds \ DOMAIN users
    /\ SessionsOf(u) = {}
    /\ \A r \in DOMAIN inflight : ~Carries(r, u)

(* Revocation is final: once the handlers that were running when an account *)
(* was deleted are done and its sessions are gone, nothing authenticates   *)
(* as it again - not a 2FA challenge left in a session, which deleting the *)
(* account does not remove, nor a new account that reuses the id.          *)
RevocationIsFinal == [][\A u \in Uid : Revoked(u) => Revoked(u)']_vars

(* No handler that read the account or one of its sessions while it was    *)
(* not asking for a code is still running.                                 *)
NoStaleHandler(u) ==
    \A r \in DOMAIN inflight : Carries(r, u) =>
        inflight[r].op = "login" /\ inflight[r].totp /\ inflight[r].sess.user # u
Enters(u) == \E s \in DOMAIN sessions' : sessions'[s].user = u /\ s \notin SessionsOf(u)
UsesChallenge(u) == \E s \in DOMAIN sessions \ DOMAIN sessions' : sessions[s].pending2fa = u

(* Two-factor authentication is enforced: while an account has it enabled, *)
(* and no stale handler is running, a session becomes authenticated as the *)
(* account only by using up a password-verified challenge of it.           *)
SecondFactorEnforced ==
    [][\A u \in DOMAIN users :
         users[u].totp_enabled /\ NoStaleHandler(u) /\ Enters(u) => UsesChallenge(u)]_vars

(* All of this implements the registry of accounts and session ids of      *)
(* SessionRegistry, whatever handlers are suspended and whenever the        *)
(* process dies.                                                           *)
Registry == INSTANCE SessionRegistry WITH
    accounts <- [i \in DOMAIN users |-> users[i].is_admin],
    issued   <- issuedIds,
    bound    <- owner,
    speaks   <- [s \in DOMAIN sessions |-> sessions[s].user]

RefinesRegistry == Registry!Spec

-----------------------------------------------------------------------------
(* What documentation, comments and messages say and the code does not do. *)

(* README.md: "Deleting a user immediately revokes their active sessions". *)
RevokedAtOnce ==
    \A s \in DOMAIN sessions : sessions[s].user # None => sessions[s].user \in DOMAIN users
=============================================================================
