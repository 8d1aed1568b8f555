--------------------------- MODULE AccountsProofs ---------------------------
(***************************************************************************)
(* Proofs, for every value of the constants, of the invariants and action  *)
(* properties of Accounts.                                                 *)
(***************************************************************************)
EXTENDS Accounts, FiniteSetTheorems, TLAPS

(* The suspended handlers are told apart by their op.                      *)
LEMMA RequestByOp ==
    ASSUME NEW q \in Request
    PROVE  /\ q.op = "login" => q \in LoginReq
           /\ q.op = "setup" => q \in SetupReq
           /\ q.op \in {"changePassword", "cliReset"} => q \in WriteReq
           /\ q.op = "disable" => q \in DisableReq
           /\ q.op \in {"create", "cliCreate", "boot"} => q \in CreateReq
  BY DEF Request, LoginReq, SetupReq, WriteReq, DisableReq, CreateReq

(* The record updates of the handlers stay in their types.                 *)
LEMMA SessionUpdates ==
    ASSUME NEW x \in SessionData, NEW u \in Uid \cup {None}, NEW t \in Secret \cup {None}
    PROVE  /\ [x EXCEPT !.pending2fa = u] \in SessionData
           /\ [x EXCEPT !.pendingTotpSecret = t] \in SessionData
  BY DEF SessionData

(* What the operations on the tables do to the types.                       *)
LEMMA SuspendOK ==
    ASSUME InflightOK, NEW r \in Req, NEW req \in Request, Suspend(r, req), owner' = owner,
           req.op \in {"login", "setup"} => req.sid \in DOMAIN owner
    PROVE  InflightOK'
  BY DEF InflightOK, Holding, Suspend, Put

LEMMA ResumeOK ==
    ASSUME InflightOK, NEW r, NEW op, Resume(r, op), DOMAIN owner \subseteq DOMAIN owner'
    PROVE  /\ InflightOK'
           /\ r \in Req /\ inflight[r] \in Request /\ inflight[r].op = op
           /\ op \in {"login", "setup"} => inflight[r].sid \in DOMAIN owner
  BY DEF InflightOK, Holding, Resume, Drop

LEMMA SaveOK ==
    ASSUME SessionsOK, NEW s \in DOMAIN owner, NEW x \in SessionData, SaveSession(s, x),
           owner' = owner
    PROVE  SessionsOK'
  BY DEF SessionsOK, SaveSession, Put

LEMMA EstablishOK ==
    ASSUME SessionsOK, NEW old, NEW id \in Uid, NEW a \in BOOLEAN, EstablishSession(old, id, a)
    PROVE  SessionsOK' /\ DOMAIN owner \subseteq DOMAIN owner'
<1>1. PICK new \in Sid \ DOMAIN owner :
         /\ sessions' = Put(Drop(sessions, {old}), new,
                            [EmptySession EXCEPT !.user = id, !.isAdmin = a])
         /\ owner' = Put(owner, new, id)
  BY DEF EstablishSession
<1>2. [EmptySession EXCEPT !.user = id, !.isAdmin = a] \in SessionData
  BY DEF SessionData, EmptySession
<1>3. QED
  BY <1>1, <1>2 DEF SessionsOK, Put, Drop

LEMMA DropOK ==
    ASSUME SessionsOK, NEW K, sessions' = Drop(sessions, K), owner' = owner
    PROVE  SessionsOK'
  BY DEF SessionsOK, Drop

LEMMA InsertOK ==
    ASSUME UsersOK, NEW id, NEW n \in Name, NEW p \in Password, NEW a \in BOOLEAN,
           InsertUser(id, n, Hash(p), a)
    PROVE  UsersOK'
  BY DEF UsersOK, InsertUser, UserRecord, Put

LEMMA UpdateOK ==
    ASSUME UsersOK, issuedIds' = issuedIds, NEW id, NEW p \in Password,
           NEW t \in Secret \cup {None}, NEW b \in BOOLEAN,
           UpdatePassword(id, Hash(p)) \/ SetTotp(id, t, b)
    PROVE  UsersOK'
<1>1. CASE UpdatePassword(id, Hash(p))
  <2>1. \A x \in UserRecord : [x EXCEPT !.password_hash = Hash(p)] \in UserRecord
    BY DEF UserRecord
  <2>2. QED
    BY <1>1, <2>1 DEF UsersOK, UpdatePassword
<1>2. CASE SetTotp(id, t, b)
  <2>1. \A x \in UserRecord : [x EXCEPT !.totp_secret = t, !.totp_enabled = b] \in UserRecord
    BY DEF UserRecord
  <2>2. QED
    BY <1>2, <2>1 DEF UsersOK, SetTotp
<1>3. QED
  BY <1>1, <1>2

(* Each step of the specification keeps the types.                         *)
LEMMA TypeStep == TypeOK /\ [Next]_vars => TypeOK'
<1> SUFFICES ASSUME TypeOK, [Next]_vars PROVE TypeOK'
  OBVIOUS
<1> USE ConstantsAssumption DEF TypeOK
<1>1. ASSUME CsrfToken PROVE TypeOK'
  <2>1. SessionsOK'
    <3>1. CASE \E s \in DOMAIN sessions :
                 SaveSession(s, [sessions[s] EXCEPT !.csrf = TRUE]) /\ owner' = owner
      <4>1. \A x \in SessionData : [x EXCEPT !.csrf = TRUE] \in SessionData
        BY DEF SessionData
      <4>2. QED
        BY <3>1, <4>1 DEF SaveSession, SessionsOK, Put
    <3>2. CASE \E s \in Sid \ DOMAIN owner :
                 /\ SaveSession(s, [EmptySession EXCEPT !.csrf = TRUE])
                 /\ owner' = Put(owner, s, None)
      <4>1. [EmptySession EXCEPT !.csrf = TRUE] \in SessionData
        BY DEF SessionData, EmptySession
      <4>2. QED
        BY <3>2, <4>1 DEF SaveSession, SessionsOK, Put
    <3>3. QED
      BY <1>1, <3>1, <3>2 DEF CsrfToken
  <2>2. DOMAIN owner \subseteq DOMAIN owner'
    BY <1>1 DEF CsrfToken, Put
  <2>3. QED
    BY <1>1, <2>1, <2>2 DEF CsrfToken, UsersOK, InflightOK, Holding
<1>2. ASSUME NEW r \in Req, NEW s \in Sid, NEW n \in Name, NEW p \in Password, LoginBegin(r, s, n, p)
      PROVE  TypeOK'
  <2>1. PICK i \in FindByUsername(n) :
         Suspend(r, [op |-> "login", sid |-> s, sess |-> sessions[s], id |-> i,
                     isAdmin |-> users[i].is_admin, totp |-> users[i].totp_enabled])
    BY <1>2 DEF LoginBegin
  <2>2. [op |-> "login", sid |-> s, sess |-> sessions[s], id |-> i,
         isAdmin |-> users[i].is_admin, totp |-> users[i].totp_enabled]
         \in Request
    BY <1>2 DEF LoginBegin, Mutating, FindByUsername, UsersOK, SessionsOK, UserRecord, Request, LoginReq
  <2>3. s \in DOMAIN owner
    BY <1>2 DEF LoginBegin, Mutating, SessionsOK
  <2>4. InflightOK'
    BY <1>2, <2>1, <2>2, <2>3, SuspendOK DEF LoginBegin
  <2>5. QED
    BY <1>2, <2>4 DEF LoginBegin, UsersOK, SessionsOK
<1>4. ASSUME NEW r \in Req, LoginChallenge(r) PROVE TypeOK'
  <2>1. inflight[r] \in LoginReq /\ inflight[r].sid \in DOMAIN owner /\ InflightOK'
    BY <1>4, ResumeOK, RequestByOp DEF LoginChallenge
  <2>2. [inflight[r].sess EXCEPT !.pending2fa = inflight[r].id] \in SessionData
    BY <2>1, SessionUpdates DEF LoginReq
  <2>3. SessionsOK'
    BY <1>4, <2>1, <2>2, SaveOK DEF LoginChallenge
  <2>4. QED
    BY <1>4, <2>1, <2>3 DEF LoginChallenge, UsersOK
<1>5. ASSUME NEW r \in Req, LoginSuccess(r) PROVE TypeOK'
  <2>1. inflight[r] \in LoginReq
    BY <1>5, RequestByOp DEF LoginSuccess, Resume, InflightOK
  <2>2. SessionsOK' /\ DOMAIN owner \subseteq DOMAIN owner'
    BY <1>5, <2>1, EstablishOK DEF LoginSuccess, LoginReq
  <2>3. InflightOK'
    BY <1>5, <2>2, ResumeOK DEF LoginSuccess
  <2>4. QED
    BY <1>5, <2>2, <2>3 DEF LoginSuccess, UsersOK
<1>6. ASSUME NEW s \in Sid, NEW sec \in Secret, VerifyTwoFactor(s, Code(sec))
      PROVE  TypeOK'
  <2>1. PICK id \in Uid : /\ id \in DOMAIN users
                        /\ EstablishSession(s, id, users[id].is_admin)
    BY <1>6 DEF VerifyTwoFactor, AcceptsCode, UsersOK
  <2>2. users[id].is_admin \in BOOLEAN
    BY <2>1 DEF UsersOK, UserRecord
  <2>3. SessionsOK' /\ DOMAIN owner \subseteq DOMAIN owner'
    BY <2>1, <2>2, EstablishOK
  <2>4. InflightOK'
    BY <1>6, <2>3 DEF VerifyTwoFactor, InflightOK, Holding
  <2>5. QED
    BY <1>6, <2>3, <2>4 DEF VerifyTwoFactor, UsersOK
<1>8. ASSUME NEW s \in Sid, Logout(s) PROVE TypeOK'
  <2>1. SessionsOK'
    BY <1>8, DropOK DEF Logout
  <2>2. QED
    BY <1>8, <2>1 DEF Logout, UsersOK, InflightOK, Holding
<1>9. ASSUME NEW s \in Sid, ExpireSession(s) PROVE TypeOK'
  <2>1. SessionsOK'
    BY <1>9, DropOK DEF ExpireSession
  <2>2. QED
    BY <1>9, <2>1 DEF ExpireSession, UsersOK, InflightOK, Holding
<1>10. ASSUME NEW r \in Req, NEW s \in Sid, NEW p \in Password, NEW q \in Password, ChangePasswordBegin(r, s, p, q)
      PROVE  TypeOK'
  <2>1. [op |-> "changePassword", id |-> sessions[s].user,
            hash |-> Hash(q), isAdmin |-> FALSE]
         \in Request
    BY <1>10 DEF ChangePasswordBegin, RequireAuth, Mutating, UsersOK, SessionsOK, Request, WriteReq
  <2>2. InflightOK'
    BY <1>10, <2>1, SuspendOK DEF ChangePasswordBegin
  <2>3. QED
    BY <1>10, <2>2 DEF ChangePasswordBegin, UsersOK, SessionsOK
<1>11. ASSUME NEW r \in Req, ChangePasswordFinish(r) PROVE TypeOK'
  <2>1. inflight[r] \in WriteReq /\ InflightOK'
    BY <1>11, ResumeOK, RequestByOp DEF ChangePasswordFinish
  <2>2. inflight[r].id \in Uid /\ \E p \in Password : inflight[r].hash = Hash(p)
    BY <2>1 DEF WriteReq
  <2>3. UsersOK'
    <3>1. UsersOK /\ issuedIds' = issuedIds /\ UpdatePassword(inflight[r].id, inflight[r].hash)
      BY <1>11 DEF ChangePasswordFinish
    <3>2. QED
      BY <2>2, <3>1, UpdateOK
  <2>4. QED
    BY <1>11, <2>1, <2>2, <2>3 DEF ChangePasswordFinish, SessionsOK
<1>12. ASSUME NEW r \in Req, NEW s \in Sid, NEW sec \in Secret, SetupTwoFactorBegin(r, s, sec)
      PROVE  TypeOK'
  <2>1. [op |-> "setup", sid |-> s,
            sess |-> [sessions[s] EXCEPT !.pendingTotpSecret = sec]]
         \in Request
    BY <1>12, SessionUpdates DEF SetupTwoFactorBegin, RequireAuth, Mutating, SessionsOK, Request, SetupReq
  <2>2. s \in DOMAIN owner
    BY <1>12 DEF SetupTwoFactorBegin, RequireAuth, Mutating, SessionsOK
  <2>3. InflightOK'
    BY <1>12, <2>1, <2>2, SuspendOK DEF SetupTwoFactorBegin
  <2>4. QED
    BY <1>12, <2>3 DEF SetupTwoFactorBegin, UsersOK, SessionsOK
<1>13. ASSUME NEW r \in Req, SetupTwoFactorFinish(r) PROVE TypeOK'
  <2>1. inflight[r] \in SetupReq /\ inflight[r].sid \in DOMAIN owner /\ InflightOK'
    BY <1>13, ResumeOK, RequestByOp DEF SetupTwoFactorFinish
  <2>2. SessionsOK'
    BY <1>13, <2>1, SaveOK DEF SetupTwoFactorFinish, SetupReq
  <2>3. QED
    BY <1>13, <2>1, <2>2 DEF SetupTwoFactorFinish, UsersOK
<1>14. ASSUME NEW s \in Sid, NEW sec \in Secret, EnableTwoFactor(s, Code(sec))
      PROVE  TypeOK'
  <2>1. s \in DOMAIN owner /\ sessions[s] \in SessionData /\ sessions[s].user # None
    BY <1>14 DEF EnableTwoFactor, RequireAuth, Mutating, SessionsOK
  <2>2. sessions[s].pendingTotpSecret \in Secret \cup {None} /\ sessions[s].user \in Uid
    BY <2>1 DEF SessionData
  <2>3. UsersOK'
    BY <1>14, <2>2, UpdateOK DEF EnableTwoFactor
  <2>4. SessionsOK'
    BY <1>14, <2>1, SessionUpdates, SaveOK DEF EnableTwoFactor
  <2>5. QED
    BY <1>14, <2>3, <2>4 DEF EnableTwoFactor, InflightOK, Holding
<1>15. ASSUME NEW r \in Req, NEW s \in Sid, NEW p \in Password, DisableTwoFactorBegin(r, s, p)
      PROVE  TypeOK'
  <2>1. [op |-> "disable", id |-> sessions[s].user]
         \in Request
    BY <1>15 DEF DisableTwoFactorBegin, RequireAuth, Mutating, UsersOK, SessionsOK, Request, DisableReq
  <2>2. InflightOK'
    BY <1>15, <2>1, SuspendOK DEF DisableTwoFactorBegin
  <2>3. QED
    BY <1>15, <2>2 DEF DisableTwoFactorBegin, UsersOK, SessionsOK
<1>16. ASSUME NEW r \in Req, DisableTwoFactorFinish(r) PROVE TypeOK'
  <2>1. inflight[r] \in DisableReq /\ InflightOK'
    BY <1>16, ResumeOK, RequestByOp DEF DisableTwoFactorFinish
  <2>2. inflight[r].id \in Uid
    BY <2>1 DEF DisableReq
  <2>3. UsersOK'
    BY <1>16, <2>2, UpdateOK DEF DisableTwoFactorFinish
  <2>4. QED
    BY <1>16, <2>1, <2>2, <2>3 DEF DisableTwoFactorFinish, SessionsOK
<1>17. ASSUME NEW r \in Req, NEW s \in Sid, NEW n \in Name, NEW p \in Password, NEW a \in BOOLEAN, CreateUserBegin(r, s, n, p, a)
      PROVE  TypeOK'
  <2>1. [op |-> "create", username |-> n,
            hash |-> Hash(p), isAdmin |-> a]
         \in Request
    BY <1>17 DEF CreateUserBegin, RequireAdmin, RequireAuth, Mutating, SessionsOK, SessionData, Request, CreateReq
  <2>2. InflightOK'
    BY <1>17, <2>1, SuspendOK DEF CreateUserBegin
  <2>3. QED
    BY <1>17, <2>2 DEF CreateUserBegin, UsersOK, SessionsOK
<1>18. ASSUME NEW r \in Req, CreateUserFinish(r) PROVE TypeOK'
  <2>1. inflight[r] \in CreateReq /\ InflightOK'
    BY <1>18, ResumeOK, RequestByOp DEF CreateUserFinish
  <2>2. /\ inflight[r].username \in Name /\ inflight[r].isAdmin \in BOOLEAN
       /\ \E p \in Password : inflight[r].hash = Hash(p)
    BY <2>1 DEF CreateReq
  <2>3. UsersOK'
    <3>1. CASE users' = users /\ issuedIds' = issuedIds
      BY <3>1 DEF UsersOK
    <3>2. CASE \E id \in Uid : InsertUser(id, inflight[r].username, inflight[r].hash, inflight[r].isAdmin)
      BY <2>2, <3>2, InsertOK
    <3>3. QED
      BY <1>18, <3>1, <3>2 DEF CreateUserFinish
  <2>4. QED
    BY <1>18, <2>1, <2>3 DEF CreateUserFinish, SessionsOK
<1>19. ASSUME NEW s \in Sid, NEW id \in Uid, RemoveUser(s, id) PROVE TypeOK'
  <2>1. SessionsOK'
    BY <1>19, DropOK DEF RemoveUser
  <2>2. UsersOK'
    BY <1>19 DEF RemoveUser, UsersOK, Drop
  <2>3. QED
    BY <1>19, <2>1, <2>2 DEF RemoveUser, InflightOK, Holding
<1>20. ASSUME NEW s \in Sid, NEW id \in Uid, CrashInRemove(s, id) PROVE TypeOK'
  BY <1>20 DEF CrashInRemove, UsersOK, SessionsOK, InflightOK, Holding, Drop
<1>21. ASSUME Crash PROVE TypeOK'
  BY <1>21 DEF Crash, UsersOK, SessionsOK, InflightOK, Holding, Drop
<1>22. ASSUME Boot PROVE TypeOK'
  BY <1>22 DEF Boot, UsersOK, SessionsOK, InflightOK, Holding
<1>23. ASSUME NEW r \in Req, NEW p \in Password, FirstBootBegin(r, p)
      PROVE  TypeOK'
  <2>1. [op |-> "boot", username |-> AdminName,
            hash |-> Hash(p), isAdmin |-> TRUE]
         \in Request
    BY <1>23 DEF FirstBootBegin, Request, CreateReq
  <2>2. InflightOK'
    BY <1>23, <2>1, SuspendOK DEF FirstBootBegin
  <2>3. QED
    BY <1>23, <2>2 DEF FirstBootBegin, UsersOK, SessionsOK
<1>24. ASSUME NEW r \in Req, FirstBootFinish(r) PROVE TypeOK'
  <2>1. inflight[r] \in CreateReq /\ InflightOK'
    BY <1>24, ResumeOK, RequestByOp DEF FirstBootFinish
  <2>2. /\ inflight[r].username \in Name /\ inflight[r].isAdmin \in BOOLEAN
       /\ \E p \in Password : inflight[r].hash = Hash(p)
    BY <2>1 DEF CreateReq
  <2>3. UsersOK'
    <3>1. CASE users' = users /\ issuedIds' = issuedIds
      BY <3>1 DEF UsersOK
    <3>2. CASE \E id \in Uid : InsertUser(id, inflight[r].username, inflight[r].hash, TRUE)
      BY <2>2, <3>2, InsertOK
    <3>3. QED
      BY <1>24, <3>1, <3>2 DEF FirstBootFinish
  <2>4. QED
    BY <1>24, <2>1, <2>3 DEF FirstBootFinish, SessionsOK
<1>25. ASSUME NEW r \in Req, NEW n \in Name, NEW p \in Password, NEW a \in BOOLEAN, CliResetBegin(r, n, p, a)
      PROVE  TypeOK'
  <2>1. PICK i \in FindByUsername(n) :
         Suspend(r, [op |-> "cliReset", id |-> i, hash |-> Hash(p), isAdmin |-> a])
    BY <1>25 DEF CliResetBegin
  <2>2. [op |-> "cliReset", id |-> i, hash |-> Hash(p), isAdmin |-> a] \in Request
    BY <1>25 DEF CliResetBegin, FindByUsername, UsersOK, Request, WriteReq
  <2>3. InflightOK'
    BY <1>25, <2>1, <2>2, SuspendOK DEF CliResetBegin
  <2>4. QED
    BY <1>25, <2>3 DEF CliResetBegin, UsersOK, SessionsOK
<1>26. ASSUME NEW r \in Req, CliResetFinish(r) PROVE TypeOK'
  <2>1. inflight[r] \in WriteReq /\ InflightOK'
    BY <1>26, ResumeOK, RequestByOp DEF CliResetFinish
  <2>2. inflight[r].id \in Uid /\ \E p \in Password : inflight[r].hash = Hash(p)
    BY <2>1 DEF WriteReq
  <2>3. UsersOK'
    BY <1>26, <2>2, UpdateOK DEF CliResetFinish
  <2>4. QED
    BY <1>26, <2>1, <2>2, <2>3 DEF CliResetFinish, SessionsOK
<1>27. ASSUME NEW r \in Req, NEW n \in Name, NEW p \in Password, NEW a \in BOOLEAN, CliCreateBegin(r, n, p, a)
      PROVE  TypeOK'
  <2>1. [op |-> "cliCreate", username |-> n,
            hash |-> Hash(p), isAdmin |-> a]
         \in Request
    BY <1>27 DEF CliCreateBegin, Request, CreateReq
  <2>2. InflightOK'
    BY <1>27, <2>1, SuspendOK DEF CliCreateBegin
  <2>3. QED
    BY <1>27, <2>2 DEF CliCreateBegin, UsersOK, SessionsOK
<1>28. ASSUME NEW r \in Req, CliCreateFinish(r) PROVE TypeOK'
  <2>1. inflight[r] \in CreateReq /\ InflightOK'
    BY <1>28, ResumeOK, RequestByOp DEF CliCreateFinish
  <2>2. /\ inflight[r].username \in Name /\ inflight[r].isAdmin \in BOOLEAN
       /\ \E p \in Password : inflight[r].hash = Hash(p)
    BY <2>1 DEF CreateReq
  <2>3. UsersOK'
    <3>1. CASE users' = users /\ issuedIds' = issuedIds
      BY <3>1 DEF UsersOK
    <3>2. CASE \E id \in Uid : InsertUser(id, inflight[r].username, inflight[r].hash, inflight[r].isAdmin)
      BY <2>2, <3>2, InsertOK
    <3>3. QED
      BY <1>28, <3>1, <3>2 DEF CliCreateFinish
  <2>4. QED
    BY <1>28, <2>1, <2>3 DEF CliCreateFinish, SessionsOK
<1>29. CASE UNCHANGED vars
  BY <1>29 DEF vars, UsersOK, SessionsOK, InflightOK, Holding
<1>q. QED
  BY <1>1, <1>2, <1>4, <1>5, <1>6, <1>8, <1>9, <1>10, <1>11, <1>12, 
         <1>13, <1>14, <1>15, <1>16, <1>17, <1>18, <1>19, <1>20, <1>21, <1>22, <1>23, <1>24, 
         <1>25, <1>26, <1>27, <1>28, <1>29
  DEF Next, SessionStep, AccountStep, AdminStep, OperatorStep

(* Type correctness.                                                       *)
THEOREM TypeCorrect == Spec => []TypeOK
<1>1. Init => TypeOK
  BY DEF Init, Empty, TypeOK, UsersOK, SessionsOK, InflightOK, Holding
<1>2. QED
  BY <1>1, TypeStep, PTL DEF Spec

-----------------------------------------------------------------------------
(* Where the identities of a state come from: what a step does to the user *)
(* and the role of sessions and suspended handlers.                        *)

Kept(s) ==
    /\ s \in DOMAIN sessions
    /\ sessions'[s].user = sessions[s].user
    /\ sessions'[s].isAdmin = sessions[s].isAdmin

(* A handler stores the session it loaded before its await.                *)
Restored(s) ==
    \E r \in Holding : /\ s = inflight[r].sid
                      /\ sessions'[s].user = inflight[r].sess.user
                      /\ sessions'[s].isAdmin = inflight[r].sess.isAdmin

Visitor(s) ==
    s \notin DOMAIN owner /\ sessions'[s].user = None /\ owner'[s] = None

ByPassword(s) ==
    /\ s \notin DOMAIN owner
    /\ \E r \in DOMAIN inflight :
         /\ inflight[r].op = "login" /\ ~inflight[r].totp
         /\ sessions'[s].user = inflight[r].id /\ owner'[s] = inflight[r].id
         /\ sessions'[s].isAdmin = inflight[r].isAdmin

BySecondFactor(s) ==
    /\ s \notin DOMAIN owner
    /\ \E i \in DOMAIN users :
         /\ sessions'[s].user = i /\ owner'[s] = i
         /\ sessions'[s].isAdmin = users[i].is_admin
         /\ \E old \in DOMAIN sessions \ DOMAIN sessions' : sessions[old].pending2fa = i

SessionEffect ==
    /\ DOMAIN owner \subseteq DOMAIN owner'
    /\ \A s \in DOMAIN owner : owner'[s] = owner[s]
    /\ \A s \in DOMAIN sessions' :
         Kept(s) \/ Restored(s) \/ Visitor(s) \/ ByPassword(s) \/ BySecondFactor(s)

InflightEffect ==
    \A r \in DOMAIN inflight' :
       \/ r \in DOMAIN inflight /\ inflight'[r] = inflight[r]
       \/ inflight'[r].op \notin {"login", "setup"}
       \/ /\ inflight'[r].sid \in DOMAIN sessions
          /\ inflight'[r].sess.user = sessions[inflight'[r].sid].user
          /\ inflight'[r].sess.isAdmin = sessions[inflight'[r].sid].isAdmin
          /\ inflight'[r].op = "login" =>
                /\ inflight'[r].id \in DOMAIN users
                /\ inflight'[r].isAdmin = users[inflight'[r].id].is_admin

(* Roles never change, and a new row has a new id.                         *)
UsersEffect ==
    /\ issuedIds \subseteq issuedIds'
    /\ \A i \in DOMAIN users' :
         \/ i \in DOMAIN users /\ users'[i].is_admin = users[i].is_admin
         \/ i \notin issuedIds

LEMMA Effects == TypeOK /\ [Next]_vars => SessionEffect /\ InflightEffect /\ UsersEffect
<1> SUFFICES ASSUME TypeOK, [Next]_vars PROVE SessionEffect /\ InflightEffect /\ UsersEffect
  OBVIOUS
<1> DEFINE Goal == SessionEffect /\ InflightEffect /\ UsersEffect
<1> USE DEF TypeOK
<1>1. ASSUME CsrfToken PROVE Goal
  <2>1. SessionEffect
    <3>1. CASE \E s \in DOMAIN sessions :
                 SaveSession(s, [sessions[s] EXCEPT !.csrf = TRUE]) /\ owner' = owner
      BY <3>1 DEF SessionEffect, Kept, SaveSession, Put, SessionsOK, SessionData
    <3>2. CASE \E s \in Sid \ DOMAIN owner :
                 /\ SaveSession(s, [EmptySession EXCEPT !.csrf = TRUE])
                 /\ owner' = Put(owner, s, None)
      <4>1. [EmptySession EXCEPT !.csrf = TRUE].user = None
        BY DEF EmptySession
      <4>2. QED
        BY <3>2, <4>1 DEF SessionEffect, Kept, Visitor, SaveSession, Put, SessionsOK
    <3>3. QED
      BY <1>1, <3>1, <3>2 DEF CsrfToken
  <2>2. QED
    BY <1>1, <2>1 DEF CsrfToken, InflightEffect, UsersEffect
<1>2. ASSUME NEW r \in Req, NEW s \in Sid, NEW n \in Name, NEW p \in Password, LoginBegin(r, s, n, p)
      PROVE  Goal
  <2>1. SessionEffect /\ UsersEffect
    BY <1>2 DEF LoginBegin, SessionEffect, Kept, UsersEffect
  <2>2. InflightEffect
    BY <1>2 DEF LoginBegin, InflightEffect, Suspend, Put, Mutating, FindByUsername, SessionsOK, SessionData
  <2>3. QED
    BY <2>1, <2>2
<1>4. ASSUME NEW r \in Req, LoginChallenge(r) PROVE Goal
  <2>1. InflightEffect /\ UsersEffect
    BY <1>4 DEF LoginChallenge, InflightEffect, UsersEffect, Resume, Drop
  <2>2. inflight[r] \in LoginReq /\ r \in Holding
    BY <1>4, RequestByOp DEF LoginChallenge, Resume, InflightOK, Holding
  <2>3. SessionEffect
    BY <1>4, <2>2 DEF LoginChallenge, SessionEffect, Kept, Restored, SaveSession, Put, LoginReq, SetupReq, SessionData
  <2>4. QED
    BY <2>1, <2>3
<1>5. ASSUME NEW r \in Req, LoginSuccess(r) PROVE Goal
  <2>1. InflightEffect /\ UsersEffect
    BY <1>5 DEF LoginSuccess, InflightEffect, UsersEffect, Resume, Drop
  <2>2. SessionEffect
    BY <1>5 DEF LoginSuccess, Resume, SessionEffect, Kept, ByPassword, EstablishSession, EmptySession, Put, Drop
  <2>3. QED
    BY <2>1, <2>2
<1>6. ASSUME NEW s \in Sid, NEW sec \in Secret, VerifyTwoFactor(s, Code(sec))
      PROVE  Goal
  <2>1. InflightEffect /\ UsersEffect
    BY <1>6 DEF VerifyTwoFactor, InflightEffect, UsersEffect
  <2>2. SessionEffect
    BY <1>6 DEF VerifyTwoFactor, Mutating, AcceptsCode, SessionsOK, SessionEffect, Kept, BySecondFactor, EstablishSession, EmptySession, Put, Drop
  <2>3. QED
    BY <2>1, <2>2
<1>8. ASSUME NEW s \in Sid, Logout(s) PROVE Goal
  BY <1>8 DEF Logout, SessionEffect, Kept, InflightEffect, UsersEffect, Drop
<1>9. ASSUME NEW s \in Sid, ExpireSession(s) PROVE Goal
  BY <1>9 DEF ExpireSession, SessionEffect, Kept, InflightEffect, UsersEffect, Drop
<1>10. ASSUME NEW r \in Req, NEW s \in Sid, NEW p \in Password, NEW q \in Password, ChangePasswordBegin(r, s, p, q)
      PROVE  Goal
  <2>1. SessionEffect /\ UsersEffect
    BY <1>10 DEF ChangePasswordBegin, SessionEffect, Kept, UsersEffect
  <2>2. InflightEffect
    BY <1>10 DEF ChangePasswordBegin, InflightEffect, Suspend, Put
  <2>3. QED
    BY <2>1, <2>2
<1>11. ASSUME NEW r \in Req, ChangePasswordFinish(r) PROVE Goal
  <2>1. SessionEffect /\ InflightEffect
    BY <1>11 DEF ChangePasswordFinish, SessionEffect, Kept, InflightEffect, Resume, Drop
  <2>2. UsersEffect
    BY <1>11 DEF ChangePasswordFinish, UsersEffect, UpdatePassword, UsersOK, UserRecord
  <2>3. QED
    BY <2>1, <2>2
<1>12. ASSUME NEW r \in Req, NEW s \in Sid, NEW sec \in Secret, SetupTwoFactorBegin(r, s, sec)
      PROVE  Goal
  <2>1. SessionEffect /\ UsersEffect
    BY <1>12 DEF SetupTwoFactorBegin, SessionEffect, Kept, UsersEffect
  <2>2. InflightEffect
    BY <1>12 DEF SetupTwoFactorBegin, InflightEffect, Suspend, Put, RequireAuth, Mutating, SessionsOK, SessionData
  <2>3. QED
    BY <2>1, <2>2
<1>13. ASSUME NEW r \in Req, SetupTwoFactorFinish(r) PROVE Goal
  <2>1. InflightEffect /\ UsersEffect
    BY <1>13 DEF SetupTwoFactorFinish, InflightEffect, UsersEffect, Resume, Drop
  <2>2. inflight[r] \in SetupReq /\ r \in Holding
    BY <1>13, RequestByOp DEF SetupTwoFactorFinish, Resume, InflightOK, Holding
  <2>3. SessionEffect
    BY <1>13, <2>2 DEF SetupTwoFactorFinish, SessionEffect, Kept, Restored, SaveSession, Put, LoginReq, SetupReq, SessionData
  <2>4. QED
    BY <2>1, <2>3
<1>14. ASSUME NEW s \in Sid, NEW sec \in Secret, EnableTwoFactor(s, Code(sec))
      PROVE  Goal
  <2>1. SessionEffect /\ InflightEffect
    BY <1>14 DEF EnableTwoFactor, SessionEffect, Kept, InflightEffect, SaveSession, Put, RequireAuth, Mutating, SessionsOK, SessionData
  <2>2. UsersEffect
    BY <1>14 DEF EnableTwoFactor, UsersEffect, SetTotp, UsersOK, UserRecord
  <2>3. QED
    BY <2>1, <2>2
<1>15. ASSUME NEW r \in Req, NEW s \in Sid, NEW p \in Password, DisableTwoFactorBegin(r, s, p)
      PROVE  Goal
  <2>1. SessionEffect /\ UsersEffect
    BY <1>15 DEF DisableTwoFactorBegin, SessionEffect, Kept, UsersEffect
  <2>2. InflightEffect
    BY <1>15 DEF DisableTwoFactorBegin, InflightEffect, Suspend, Put
  <2>3. QED
    BY <2>1, <2>2
<1>16. ASSUME NEW r \in Req, DisableTwoFactorFinish(r) PROVE Goal
  <2>1. SessionEffect /\ InflightEffect
    BY <1>16 DEF DisableTwoFactorFinish, SessionEffect, Kept, InflightEffect, Resume, Drop
  <2>2. UsersEffect
    BY <1>16 DEF DisableTwoFactorFinish, UsersEffect, SetTotp, UsersOK, UserRecord
  <2>3. QED
    BY <2>1, <2>2
<1>17. ASSUME NEW r \in Req, NEW s \in Sid, NEW n \in Name, NEW p \in Password, NEW a \in BOOLEAN, CreateUserBegin(r, s, n, p, a)
      PROVE  Goal
  <2>1. SessionEffect /\ UsersEffect
    BY <1>17 DEF CreateUserBegin, SessionEffect, Kept, UsersEffect
  <2>2. InflightEffect
    BY <1>17 DEF CreateUserBegin, InflightEffect, Suspend, Put
  <2>3. QED
    BY <2>1, <2>2
<1>18. ASSUME NEW r \in Req, CreateUserFinish(r) PROVE Goal
  <2>1. SessionEffect /\ InflightEffect
    BY <1>18 DEF CreateUserFinish, SessionEffect, Kept, InflightEffect, Resume, Drop
  <2>2. UsersEffect
    BY <1>18 DEF CreateUserFinish, UsersEffect, InsertUser, Put
  <2>3. QED
    BY <2>1, <2>2
<1>19. ASSUME NEW s \in Sid, NEW id \in Uid, RemoveUser(s, id) PROVE Goal
  BY <1>19 DEF RemoveUser, SessionEffect, Kept, InflightEffect, UsersEffect, Drop
<1>20. ASSUME NEW s \in Sid, NEW id \in Uid, CrashInRemove(s, id) PROVE Goal
  BY <1>20 DEF CrashInRemove, SessionEffect, Kept, InflightEffect, UsersEffect, Drop
<1>21. ASSUME Crash PROVE Goal
  BY <1>21 DEF Crash, SessionEffect, Kept, InflightEffect, UsersEffect, Drop
<1>22. ASSUME Boot PROVE Goal
  BY <1>22 DEF Boot, SessionEffect, Kept, InflightEffect, UsersEffect
<1>23. ASSUME NEW r \in Req, NEW p \in Password, FirstBootBegin(r, p)
      PROVE  Goal
  <2>1. SessionEffect /\ UsersEffect
    BY <1>23 DEF FirstBootBegin, SessionEffect, Kept, UsersEffect
  <2>2. InflightEffect
    BY <1>23 DEF FirstBootBegin, InflightEffect, Suspend, Put
  <2>3. QED
    BY <2>1, <2>2
<1>24. ASSUME NEW r \in Req, FirstBootFinish(r) PROVE Goal
  <2>1. SessionEffect /\ InflightEffect
    BY <1>24 DEF FirstBootFinish, SessionEffect, Kept, InflightEffect, Resume, Drop
  <2>2. UsersEffect
    BY <1>24 DEF FirstBootFinish, UsersEffect, InsertUser, Put
  <2>3. QED
    BY <2>1, <2>2
<1>25. ASSUME NEW r \in Req, NEW n \in Name, NEW p \in Password, NEW a \in BOOLEAN, CliResetBegin(r, n, p, a)
      PROVE  Goal
  <2>1. SessionEffect /\ UsersEffect
    BY <1>25 DEF CliResetBegin, SessionEffect, Kept, UsersEffect
  <2>2. InflightEffect
    BY <1>25 DEF CliResetBegin, InflightEffect, Suspend, Put
  <2>3. QED
    BY <2>1, <2>2
<1>26. ASSUME NEW r \in Req, CliResetFinish(r) PROVE Goal
  <2>1. SessionEffect /\ InflightEffect
    BY <1>26 DEF CliResetFinish, SessionEffect, Kept, InflightEffect, Resume, Drop
  <2>2. UsersEffect
    BY <1>26 DEF CliResetFinish, UsersEffect, UpdatePassword, UsersOK, UserRecord
  <2>3. QED
    BY <2>1, <2>2
<1>27. ASSUME NEW r \in Req, NEW n \in Name, NEW p \in Password, NEW a \in BOOLEAN, CliCreateBegin(r, n, p, a)
      PROVE  Goal
  <2>1. SessionEffect /\ UsersEffect
    BY <1>27 DEF CliCreateBegin, SessionEffect, Kept, UsersEffect
  <2>2. InflightEffect
    BY <1>27 DEF CliCreateBegin, InflightEffect, Suspend, Put
  <2>3. QED
    BY <2>1, <2>2
<1>28. ASSUME NEW r \in Req, CliCreateFinish(r) PROVE Goal
  <2>1. SessionEffect /\ InflightEffect
    BY <1>28 DEF CliCreateFinish, SessionEffect, Kept, InflightEffect, Resume, Drop
  <2>2. UsersEffect
    BY <1>28 DEF CliCreateFinish, UsersEffect, InsertUser, Put
  <2>3. QED
    BY <2>1, <2>2
<1>29. CASE UNCHANGED vars
  BY <1>29 DEF vars, SessionEffect, Kept, InflightEffect, UsersEffect
<1>q. QED
  BY <1>1, <1>2, <1>4, <1>5, <1>6, <1>8, <1>9, <1>10, <1>11, <1>12, 
         <1>13, <1>14, <1>15, <1>16, <1>17, <1>18, <1>19, <1>20, <1>21, <1>22, <1>23, <1>24, 
         <1>25, <1>26, <1>27, <1>28, <1>29
  DEF Next, SessionStep, AccountStep, AdminStep, OperatorStep

-----------------------------------------------------------------------------
(* Session fixation: the owner of a session id is the user it was issued to *)
(* and Effects leaves no other way for a session to get a user.            *)
THEOREM SessionsBound == Spec => []SessionIdBoundToPrincipal
<1>1. Init => SessionIdBoundToPrincipal
  BY DEF Init, Empty, SessionIdBoundToPrincipal, Holding
<1>2. ASSUME TypeOK, TypeOK', SessionIdBoundToPrincipal, [Next]_vars
      PROVE  SessionIdBoundToPrincipal'
  <2>1. SessionEffect /\ InflightEffect
    BY <1>2, Effects
  <2>2. ASSUME NEW s \in DOMAIN sessions' PROVE sessions'[s].user = owner'[s]
    BY <1>2, <2>1 DEF SessionEffect, Kept, Restored, Visitor, ByPassword, BySecondFactor,
          SessionIdBoundToPrincipal, TypeOK, SessionsOK, InflightOK
  <2>3. ASSUME NEW r \in Holding' PROVE inflight'[r].sess.user = owner'[inflight'[r].sid]
    BY <1>2, <2>1 DEF InflightEffect, SessionEffect, Holding, SessionIdBoundToPrincipal,
          TypeOK, SessionsOK, InflightOK
  <2>4. QED
    BY <2>2, <2>3 DEF SessionIdBoundToPrincipal
<1>3. QED
  BY <1>1, <1>2, TypeCorrect, PTL DEF Spec

(* The strengthening the role and revocation properties need: ids are never *)
(* reused, so whatever carries an id carries one issued before.            *)
THEOREM ReferencesStayIssued == Spec => []ReferencesIssued
<1>1. Init => ReferencesIssued
  BY DEF Init, Empty, ReferencesIssued, Holding
<1>2. ASSUME TypeOK, ReferencesIssued, [Next]_vars PROVE ReferencesIssued'
  <2>1. SessionEffect /\ InflightEffect /\ UsersEffect
    BY <1>2, Effects
  <2>2. ASSUME NEW s \in DOMAIN sessions' PROVE sessions'[s].user \in issuedIds' \cup {None}
    BY <1>2, <2>1 DEF SessionEffect, Kept, Restored, Visitor, ByPassword, BySecondFactor,
          UsersEffect, ReferencesIssued, TypeOK, UsersOK
  <2>3. ASSUME NEW r \in Holding' PROVE inflight'[r].sess.user \in issuedIds' \cup {None}
    BY <1>2, <2>1 DEF InflightEffect, UsersEffect, Holding, ReferencesIssued
  <2>4. ASSUME NEW r \in DOMAIN inflight', inflight'[r].op = "login"
        PROVE  inflight'[r].id \in issuedIds'
    BY <1>2, <2>1, <2>4 DEF InflightEffect, UsersEffect, ReferencesIssued, TypeOK, UsersOK
  <2>5. QED
    BY <2>2, <2>3, <2>4 DEF ReferencesIssued
<1>3. QED
  BY <1>1, <1>2, TypeCorrect, PTL DEF Spec

(* The role a session caches is the role of the row while the row exists.  *)
THEOREM RolesCurrent == Spec => []CachedRoleIsCurrent
<1>1. Init => CachedRoleIsCurrent
  BY DEF Init, Empty, CachedRoleIsCurrent, Holding
<1>2. ASSUME TypeOK, ReferencesIssued, CachedRoleIsCurrent, [Next]_vars
      PROVE  CachedRoleIsCurrent'
  <2>1. SessionEffect /\ InflightEffect /\ UsersEffect
    BY <1>2, Effects
  <2>3. None \notin DOMAIN users'
    BY <1>2, TypeStep, ConstantsAssumption DEF TypeOK, UsersOK
  <2>4. ASSUME NEW s \in DOMAIN sessions', sessions'[s].user \in DOMAIN users'
        PROVE  sessions'[s].isAdmin = users'[sessions'[s].user].is_admin
    BY <1>2, <2>1, <2>3, <2>4 DEF SessionEffect, Kept, Restored, Visitor, ByPassword, BySecondFactor,
          UsersEffect, ReferencesIssued, CachedRoleIsCurrent, Holding, TypeOK, UsersOK
  <2>5. ASSUME NEW r \in Holding', inflight'[r].sess.user \in DOMAIN users'
        PROVE  inflight'[r].sess.isAdmin = users'[inflight'[r].sess.user].is_admin
    BY <1>2, <2>1, <2>3, <2>5 DEF InflightEffect, UsersEffect, Holding, ReferencesIssued, CachedRoleIsCurrent
  <2>6. ASSUME NEW r \in DOMAIN inflight', inflight'[r].op = "login",
               inflight'[r].id \in DOMAIN users'
        PROVE  inflight'[r].isAdmin = users'[inflight'[r].id].is_admin
    BY <1>2, <2>1, <2>6 DEF InflightEffect, UsersEffect, ReferencesIssued, CachedRoleIsCurrent,
          TypeOK, UsersOK
  <2>7. QED
    BY <2>4, <2>5, <2>6 DEF CachedRoleIsCurrent
<1>3. QED
  BY <1>1, <1>2, TypeCorrect, ReferencesStayIssued, PTL DEF Spec

(* A revoked account stays revoked.                                        *)
THEOREM RevokedForGood == Spec => RevocationIsFinal
<1>1. ASSUME TypeOK, [Next]_vars, NEW u \in Uid, Revoked(u) PROVE Revoked(u)'
  <2>1. SessionEffect /\ InflightEffect /\ UsersEffect
    BY <1>1, Effects
  <2>2. u # None /\ u \in issuedIds /\ u \notin DOMAIN users /\ SessionsOf(u) = {}
    BY <1>1, ConstantsAssumption DEF Revoked
  <2>3. \A r \in DOMAIN inflight : ~Carries(r, u)
    BY <1>1 DEF Revoked
  <2>4. u \in issuedIds' \ DOMAIN users'
    BY <2>1, <2>2 DEF UsersEffect
  <2>5. SessionsOf(u)' = {}
    BY <2>1, <2>2, <2>3 DEF SessionEffect, Kept, Restored, Visitor, ByPassword, BySecondFactor,
          SessionsOf, Carries, Holding
  <2>6. ASSUME NEW r \in DOMAIN inflight' PROVE ~Carries(r, u)'
    BY <2>1, <2>2, <2>3 DEF InflightEffect, Carries, Holding, SessionsOf
  <2>7. QED
    BY <2>4, <2>5, <2>6 DEF Revoked
<1>2. TypeOK /\ [Next]_vars => [\A u \in Uid : Revoked(u) => Revoked(u)']_vars
  BY <1>1
<1>3. QED
  BY <1>2, TypeCorrect, PTL DEF Spec, RevocationIsFinal

(* With two-factor authentication enabled and no stale handler running, a  *)
(* new session of the account takes a challenge that was passed.           *)
THEOREM SecondFactorHolds == Spec => SecondFactorEnforced
<1>1. ASSUME TypeOK, [Next]_vars, NEW u \in DOMAIN users,
             NoStaleHandler(u), Enters(u)
      PROVE  UsesChallenge(u)
  <2>1. SessionEffect
    BY <1>1, Effects
  <2>2. u # None
    BY <1>1, ConstantsAssumption DEF TypeOK, UsersOK
  <2>3. PICK s \in DOMAIN sessions' : sessions'[s].user = u /\ s \notin SessionsOf(u)
    BY <1>1 DEF Enters
  <2>4. ~Kept(s) /\ ~Visitor(s)
    BY <2>2, <2>3 DEF Kept, Visitor, SessionsOf
  <2>5. ~Restored(s) /\ ~ByPassword(s)
    BY <1>1, <2>3 DEF NoStaleHandler, Restored, ByPassword, Carries, Holding
  <2>6. BySecondFactor(s)
    BY <2>1, <2>4, <2>5 DEF SessionEffect
  <2>7. QED
    BY <2>3, <2>6 DEF BySecondFactor, UsesChallenge
<1>2. TypeOK /\ [Next]_vars =>
        [\A u \in DOMAIN users :
           users[u].totp_enabled /\ NoStaleHandler(u) /\ Enters(u) => UsesChallenge(u)]_vars
  BY <1>1
<1>3. QED
  BY <1>2, TypeCorrect, PTL DEF Spec, SecondFactorEnforced

-----------------------------------------------------------------------------
(* A row leaves the table only through remove, which counts administrators. *)
LEMMA OnlyRemovalDeletes ==
    ASSUME TypeOK, [Next]_vars, NEW i \in DOMAIN users, i \notin DOMAIN users'
    PROVE  \E s \in Sid : MayRemove(s, i) /\ users' = Drop(users, {i})
<1>1. ASSUME CsrfToken PROVE \E x \in Sid : MayRemove(x, i) /\ users' = Drop(users, {i})
  BY <1>1 DEF CsrfToken
<1>2. ASSUME NEW r \in Req, NEW s \in Sid, NEW n \in Name, NEW p \in Password, LoginBegin(r, s, n, p)
      PROVE  \E x \in Sid : MayRemove(x, i) /\ users' = Drop(users, {i})
  BY <1>2 DEF LoginBegin
<1>4. ASSUME NEW r \in Req, LoginChallenge(r) PROVE \E x \in Sid : MayRemove(x, i) /\ users' = Drop(users, {i})
  BY <1>4 DEF LoginChallenge
<1>5. ASSUME NEW r \in Req, LoginSuccess(r) PROVE \E x \in Sid : MayRemove(x, i) /\ users' = Drop(users, {i})
  BY <1>5 DEF LoginSuccess
<1>6. ASSUME NEW s \in Sid, NEW sec \in Secret, VerifyTwoFactor(s, Code(sec))
      PROVE  \E x \in Sid : MayRemove(x, i) /\ users' = Drop(users, {i})
  BY <1>6 DEF VerifyTwoFactor
<1>8. ASSUME NEW s \in Sid, Logout(s) PROVE \E x \in Sid : MayRemove(x, i) /\ users' = Drop(users, {i})
  BY <1>8 DEF Logout
<1>9. ASSUME NEW s \in Sid, ExpireSession(s) PROVE \E x \in Sid : MayRemove(x, i) /\ users' = Drop(users, {i})
  BY <1>9 DEF ExpireSession
<1>10. ASSUME NEW r \in Req, NEW s \in Sid, NEW p \in Password, NEW q \in Password, ChangePasswordBegin(r, s, p, q)
      PROVE  \E x \in Sid : MayRemove(x, i) /\ users' = Drop(users, {i})
  BY <1>10 DEF ChangePasswordBegin
<1>11. ASSUME NEW r \in Req, ChangePasswordFinish(r) PROVE \E x \in Sid : MayRemove(x, i) /\ users' = Drop(users, {i})
  BY <1>11 DEF ChangePasswordFinish, UpdatePassword
<1>12. ASSUME NEW r \in Req, NEW s \in Sid, NEW sec \in Secret, SetupTwoFactorBegin(r, s, sec)
      PROVE  \E x \in Sid : MayRemove(x, i) /\ users' = Drop(users, {i})
  BY <1>12 DEF SetupTwoFactorBegin
<1>13. ASSUME NEW r \in Req, SetupTwoFactorFinish(r) PROVE \E x \in Sid : MayRemove(x, i) /\ users' = Drop(users, {i})
  BY <1>13 DEF SetupTwoFactorFinish
<1>14. ASSUME NEW s \in Sid, NEW sec \in Secret, EnableTwoFactor(s, Code(sec))
      PROVE  \E x \in Sid : MayRemove(x, i) /\ users' = Drop(users, {i})
  BY <1>14 DEF EnableTwoFactor, SetTotp
<1>15. ASSUME NEW r \in Req, NEW s \in Sid, NEW p \in Password, DisableTwoFactorBegin(r, s, p)
      PROVE  \E x \in Sid : MayRemove(x, i) /\ users' = Drop(users, {i})
  BY <1>15 DEF DisableTwoFactorBegin
<1>16. ASSUME NEW r \in Req, DisableTwoFactorFinish(r) PROVE \E x \in Sid : MayRemove(x, i) /\ users' = Drop(users, {i})
  BY <1>16 DEF DisableTwoFactorFinish, SetTotp
<1>17. ASSUME NEW r \in Req, NEW s \in Sid, NEW n \in Name, NEW p \in Password, NEW a \in BOOLEAN, CreateUserBegin(r, s, n, p, a)
      PROVE  \E x \in Sid : MayRemove(x, i) /\ users' = Drop(users, {i})
  BY <1>17 DEF CreateUserBegin
<1>18. ASSUME NEW r \in Req, CreateUserFinish(r) PROVE \E x \in Sid : MayRemove(x, i) /\ users' = Drop(users, {i})
  BY <1>18 DEF CreateUserFinish, InsertUser, Put
<1>19. ASSUME NEW s \in Sid, NEW id \in Uid, RemoveUser(s, id) PROVE \E x \in Sid : MayRemove(x, i) /\ users' = Drop(users, {i})
  BY <1>19 DEF RemoveUser, Drop
<1>20. ASSUME NEW s \in Sid, NEW id \in Uid, CrashInRemove(s, id) PROVE \E x \in Sid : MayRemove(x, i) /\ users' = Drop(users, {i})
  BY <1>20 DEF CrashInRemove, Drop
<1>21. ASSUME Crash PROVE \E x \in Sid : MayRemove(x, i) /\ users' = Drop(users, {i})
  BY <1>21 DEF Crash
<1>22. ASSUME Boot PROVE \E x \in Sid : MayRemove(x, i) /\ users' = Drop(users, {i})
  BY <1>22 DEF Boot
<1>23. ASSUME NEW r \in Req, NEW p \in Password, FirstBootBegin(r, p)
      PROVE  \E x \in Sid : MayRemove(x, i) /\ users' = Drop(users, {i})
  BY <1>23 DEF FirstBootBegin
<1>24. ASSUME NEW r \in Req, FirstBootFinish(r) PROVE \E x \in Sid : MayRemove(x, i) /\ users' = Drop(users, {i})
  BY <1>24 DEF FirstBootFinish, InsertUser, Put
<1>25. ASSUME NEW r \in Req, NEW n \in Name, NEW p \in Password, NEW a \in BOOLEAN, CliResetBegin(r, n, p, a)
      PROVE  \E x \in Sid : MayRemove(x, i) /\ users' = Drop(users, {i})
  BY <1>25 DEF CliResetBegin
<1>26. ASSUME NEW r \in Req, CliResetFinish(r) PROVE \E x \in Sid : MayRemove(x, i) /\ users' = Drop(users, {i})
  BY <1>26 DEF CliResetFinish, UpdatePassword
<1>27. ASSUME NEW r \in Req, NEW n \in Name, NEW p \in Password, NEW a \in BOOLEAN, CliCreateBegin(r, n, p, a)
      PROVE  \E x \in Sid : MayRemove(x, i) /\ users' = Drop(users, {i})
  BY <1>27 DEF CliCreateBegin
<1>28. ASSUME NEW r \in Req, CliCreateFinish(r) PROVE \E x \in Sid : MayRemove(x, i) /\ users' = Drop(users, {i})
  BY <1>28 DEF CliCreateFinish, InsertUser, Put
<1>29. CASE UNCHANGED vars
  BY <1>29 DEF vars
<1>q. QED
  BY <1>1, <1>2, <1>4, <1>5, <1>6, <1>8, <1>9, <1>10, <1>11, <1>12, 
         <1>13, <1>14, <1>15, <1>16, <1>17, <1>18, <1>19, <1>20, <1>21, <1>22, <1>23, <1>24, 
         <1>25, <1>26, <1>27, <1>28, <1>29
  DEF Next, SessionStep, AccountStep, AdminStep, OperatorStep

(* Some administrator is left by every step: if a removal emptied Admins,  *)
(* it removed its one element, and remove refuses when the count is 1.     *)
THEOREM AdminsNeverVanish == Spec => LastAdminKept
<1>1. ASSUME TypeOK, [Next]_vars, Admins # {} PROVE Admins' # {}
  <2>1. UsersEffect
    BY <1>1, Effects
  <2>2. SUFFICES ASSUME Admins' = {} PROVE FALSE
    OBVIOUS
  <2>3. PICK i \in Admins : TRUE
    BY <1>1
  <2>4. i \in DOMAIN users /\ users[i].is_admin
    BY <2>3 DEF Admins
  <2>5. i \notin DOMAIN users'
    <3>1. SUFFICES ASSUME i \in DOMAIN users' PROVE FALSE
      OBVIOUS
    <3>2. i \in issuedIds
      BY <1>1, <2>4 DEF TypeOK, UsersOK
    <3>3. users'[i].is_admin = users[i].is_admin
      BY <2>1, <3>1, <3>2 DEF UsersEffect
    <3>4. QED
      BY <2>2, <2>4, <3>1, <3>3 DEF Admins
  <2>6. PICK s \in Sid : MayRemove(s, i) /\ users' = Drop(users, {i})
    BY <1>1, <2>4, <2>5, OnlyRemovalDeletes
  <2>7. Admins = {i}
    <3>1. \A j \in Admins : j = i
      BY <2>2, <2>6 DEF Admins, Drop
    <3>2. QED
      BY <2>3, <3>1
  <2>8. Cardinality(Admins) = 1
    BY <2>7, FS_Singleton
  <2>9. QED
    BY <2>4, <2>6, <2>8 DEF MayRemove
<1>2. TypeOK /\ [Next]_vars => [Admins # {} => Admins' # {}]_vars
  BY <1>1
<1>3. QED
  BY <1>2, TypeCorrect, PTL DEF Spec, LastAdminKept

-----------------------------------------------------------------------------
(* Accounts implements SessionRegistry: what each operation on the tables  *)
(* is to the registry.                                                     *)
Roles    == [i \in DOMAIN users |-> users[i].is_admin]
Speakers == [s \in DOMAIN sessions |-> sessions[s].user]

LEMMA SameRoles ==
    ASSUME DOMAIN users' = DOMAIN users,
           \A i \in DOMAIN users : users'[i].is_admin = users[i].is_admin
    PROVE  Roles' = Roles
  BY DEF Roles

LEMMA UpdateKeepsRoles ==
    ASSUME UsersOK, NEW id, NEW h, NEW t, NEW b, UpdatePassword(id, h) \/ SetTotp(id, t, b)
    PROVE  Roles' = Roles
<1>1. \A i \in DOMAIN users : users[i] \in UserRecord
  BY DEF UsersOK
<1>2. \A x \in UserRecord : /\ [x EXCEPT !.password_hash = h].is_admin = x.is_admin
                            /\ [x EXCEPT !.totp_secret = t, !.totp_enabled = b].is_admin = x.is_admin
  BY DEF UserRecord
<1>3. CASE UpdatePassword(id, h)
  BY <1>1, <1>2, <1>3, SameRoles DEF UpdatePassword
<1>4. CASE SetTotp(id, t, b)
  BY <1>1, <1>2, <1>4, SameRoles DEF SetTotp
<1>5. QED
  BY <1>3, <1>4

LEMMA QuietStep ==
    ASSUME Roles' = Roles, issuedIds' = issuedIds, owner' = owner, sessions' = sessions
    PROVE  UNCHANGED Registry!vars
  BY DEF Registry!vars, Roles

LEMMA SaveIsPutBack ==
    ASSUME SessionsOK, NEW s \in DOMAIN owner, NEW x, x.user = owner[s], SaveSession(s, x),
           Roles' = Roles, issuedIds' = issuedIds, owner' = owner
    PROVE  Registry!Next
<1>1. Speakers' = [y \in DOMAIN Speakers \cup {s} |-> IF y = s THEN owner[s] ELSE Speakers[y]]
  BY DEF Speakers, SaveSession, Put
<1>2. Registry!PutBack(s)
  BY <1>1 DEF Registry!PutBack, Registry!Put, Speakers, Roles
<1>3. QED
  BY <1>2 DEF Registry!Next, SessionsOK

LEMMA EstablishIsIssue ==
    ASSUME SessionsOK, NEW old \in Sid, NEW id \in issuedIds, id \in Uid, NEW a,
           EstablishSession(old, id, a), Roles' = Roles, issuedIds' = issuedIds
    PROVE  Registry!Next
<1>1. PICK new \in Sid \ DOMAIN owner :
         /\ sessions' = Put(Drop(sessions, {old}), new,
                            [EmptySession EXCEPT !.user = id, !.isAdmin = a])
         /\ owner' = Put(owner, new, id)
  BY DEF EstablishSession
<1>2. [EmptySession EXCEPT !.user = id, !.isAdmin = a].user = id
  BY DEF EmptySession
<1>3. Speakers' = Registry!Put(Registry!Drop(Speakers, {old}), new, id)
  BY <1>1, <1>2 DEF Speakers, Put, Drop, Registry!Put, Registry!Drop
<1>4. Registry!Issue(new, id, old)
  BY <1>1, <1>3 DEF Registry!Issue, Registry!Put, Put, Speakers, Roles
<1>5. QED
  BY <1>1, <1>4 DEF Registry!Next

LEMMA DropIsEnd ==
    ASSUME NEW s \in Sid, sessions' = Drop(sessions, {s}),
           Roles' = Roles, issuedIds' = issuedIds, owner' = owner
    PROVE  Registry!Next
<1>1. Speakers' = Registry!Drop(Speakers, {s})
  BY DEF Speakers, Drop, Registry!Drop
<1>2. Registry!End(s)
  BY <1>1 DEF Registry!End, Speakers, Roles
<1>3. QED
  BY <1>2 DEF Registry!Next

LEMMA InsertIsCreate ==
    ASSUME NEW id \in Uid, NEW n, NEW h, NEW a \in BOOLEAN, InsertUser(id, n, h, a),
           sessions' = sessions, owner' = owner
    PROVE  Registry!Next
<1>1. Roles' = Registry!Put(Roles, id, a)
  BY DEF Roles, InsertUser, Put, Registry!Put
<1>2. Registry!Create(id, a)
  BY <1>1 DEF InsertUser, Registry!Create, Roles
<1>3. QED
  BY <1>2 DEF Registry!Next

LEMMA RemovalIsRemove ==
    ASSUME NEW s, NEW id \in Uid, MayRemove(s, id), users' = Drop(users, {id}),
           sessions' = Drop(sessions, SessionsOf(id)) \/ sessions' = sessions,
           issuedIds' = issuedIds, owner' = owner
    PROVE  Registry!Next
<1>1. Roles' = Registry!Drop(Roles, {id})
  BY DEF Roles, Drop, Registry!Drop
<1>2. id \in DOMAIN Roles
  BY DEF MayRemove, Roles
<1>3. ASSUME Roles[id] PROVE \E other \in DOMAIN Roles \ {id} : Roles[other]
  <2>1. id \in Admins /\ Cardinality(Admins) # 1
    BY <1>3 DEF MayRemove, Roles, Admins
  <2>2. Admins # {id}
    BY <2>1, FS_Singleton
  <2>3. QED
    BY <2>1, <2>2 DEF Admins, Roles
<1>4. \/ Speakers' = Registry!Drop(Speakers, {s2 \in DOMAIN Speakers : Speakers[s2] = id})
      \/ Speakers' = Speakers
  BY DEF Speakers, SessionsOf, Drop, Registry!Drop
<1>5. Registry!Remove(id)
  BY <1>1, <1>2, <1>3, <1>4 DEF Registry!Remove, Roles, Speakers
<1>6. QED
  BY <1>5 DEF Registry!Next

LEMMA RegistryStep ==
    ASSUME TypeOK, SessionIdBoundToPrincipal, ReferencesIssued, [Next]_vars
    PROVE  Registry!Next \/ UNCHANGED Registry!vars
<1> DEFINE Goal == Registry!Next \/ UNCHANGED Registry!vars
<1> UsersOK /\ SessionsOK /\ InflightOK
  BY DEF TypeOK
<1>0. users' = users => Roles' = Roles
  BY DEF Roles
<1> SUFFICES Goal
  OBVIOUS
<1> HIDE DEF Goal
<1>1. CASE SessionStep
  <2>0. users' = users /\ issuedIds' = issuedIds
    BY <1>1 DEF SessionStep, CsrfToken, LoginBegin, LoginChallenge, LoginSuccess,
                VerifyTwoFactor, Logout, ExpireSession
  <2>1. ASSUME CsrfToken PROVE Goal
    <3>1. CASE \E s \in DOMAIN sessions :
                 SaveSession(s, [sessions[s] EXCEPT !.csrf = TRUE]) /\ owner' = owner
      <4>1. PICK s \in DOMAIN sessions :
               SaveSession(s, [sessions[s] EXCEPT !.csrf = TRUE]) /\ owner' = owner
        BY <3>1
      <4>2. s \in DOMAIN owner /\ [sessions[s] EXCEPT !.csrf = TRUE].user = owner[s]
        BY DEF SessionsOK, SessionData, SessionIdBoundToPrincipal
      <4>3. QED
        BY <1>0, <2>0, <4>1, <4>2, SaveIsPutBack DEF Goal
    <3>2. CASE \E s \in Sid \ DOMAIN owner :
                 /\ SaveSession(s, [EmptySession EXCEPT !.csrf = TRUE])
                 /\ owner' = Put(owner, s, None)
      <4>1. PICK s \in Sid \ DOMAIN owner :
               /\ SaveSession(s, [EmptySession EXCEPT !.csrf = TRUE])
               /\ owner' = Put(owner, s, None)
        BY <3>2
      <4>2. [EmptySession EXCEPT !.csrf = TRUE].user = None /\ s \notin DOMAIN sessions
        BY DEF EmptySession, SessionsOK
      <4>3. Speakers' = Registry!Put(Registry!Drop(Speakers, {s}), s, None)
        BY <4>1, <4>2 DEF Speakers, SaveSession, Put, Registry!Put, Registry!Drop
      <4>4. Registry!Issue(s, None, s)
        BY <1>0, <2>0, <4>1, <4>3 DEF Registry!Issue, Registry!Put, Put, Speakers, Roles
      <4>5. QED
        BY <4>4 DEF Goal, Registry!Next
    <3>3. QED
      BY <2>1, <3>1, <3>2 DEF CsrfToken
  <2>2. ASSUME NEW r \in Req, LoginChallenge(r) PROVE Goal
    <3>1. inflight[r] \in LoginReq /\ r \in Holding /\ inflight[r].sid \in DOMAIN owner
      BY <2>2, RequestByOp DEF LoginChallenge, Resume, InflightOK, Holding
    <3>2. [inflight[r].sess EXCEPT !.pending2fa = inflight[r].id].user = owner[inflight[r].sid]
      BY <3>1 DEF LoginReq, SessionData, SessionIdBoundToPrincipal
    <3>3. QED
      BY <1>0, <2>0, <2>2, <3>1, <3>2, SaveIsPutBack DEF LoginChallenge, Goal
  <2>3. ASSUME NEW r \in Req, LoginSuccess(r) PROVE Goal
    <3>1. inflight[r] \in LoginReq /\ inflight[r].id \in issuedIds
      BY <2>3, RequestByOp DEF LoginSuccess, Resume, InflightOK, ReferencesIssued
    <3>2. inflight[r].sid \in Sid /\ inflight[r].id \in Uid
      BY <3>1 DEF LoginReq
    <3>3. QED
      BY <1>0, <2>0, <2>3, <3>1, <3>2, EstablishIsIssue DEF LoginSuccess, Goal
  <2>4. ASSUME NEW s \in Sid, NEW sec \in Secret, VerifyTwoFactor(s, Code(sec)) PROVE Goal
    <3>1. PICK id \in DOMAIN users : EstablishSession(s, id, users[id].is_admin)
      BY <2>4 DEF VerifyTwoFactor, AcceptsCode
    <3>2. id \in issuedIds /\ id \in Uid
      BY DEF UsersOK
    <3>3. QED
      BY <1>0, <2>0, <3>1, <3>2, EstablishIsIssue DEF Goal
  <2>5. ASSUME NEW s \in Sid, Logout(s) \/ ExpireSession(s) PROVE Goal
    BY <1>0, <2>0, <2>5, DropIsEnd DEF Logout, ExpireSession, Goal
  <2>6. CASE sessions' = sessions /\ owner' = owner
    BY <1>0, <2>0, <2>6, QuietStep DEF Goal
  <2>7. QED
    BY <1>1, <2>1, <2>2, <2>3, <2>4, <2>5, <2>6
    DEF SessionStep, LoginBegin
<1>2. CASE AccountStep
  <2>1. ASSUME NEW r \in Req, SetupTwoFactorFinish(r) PROVE Goal
    <3>1. inflight[r] \in SetupReq /\ r \in Holding /\ inflight[r].sid \in DOMAIN owner
      BY <2>1, RequestByOp DEF SetupTwoFactorFinish, Resume, InflightOK, Holding
    <3>2. inflight[r].sess.user = owner[inflight[r].sid]
      BY <3>1 DEF SessionIdBoundToPrincipal
    <3>3. QED
      BY <1>0, <2>1, <3>1, <3>2, SaveIsPutBack DEF SetupTwoFactorFinish, Goal
  <2>2. ASSUME NEW s \in Sid, NEW sec \in Secret, EnableTwoFactor(s, Code(sec)) PROVE Goal
    <3>1. s \in DOMAIN sessions /\ sessions[s] \in SessionData /\ s \in DOMAIN owner
      BY <2>2 DEF EnableTwoFactor, RequireAuth, Mutating, SessionsOK
    <3>2. [sessions[s] EXCEPT !.pendingTotpSecret = None].user = owner[s]
      BY <3>1 DEF SessionData, SessionIdBoundToPrincipal
    <3>3. Roles' = Roles
      BY <2>2, UpdateKeepsRoles DEF EnableTwoFactor
    <3>4. QED
      BY <2>2, <3>1, <3>2, <3>3, SaveIsPutBack DEF EnableTwoFactor, Goal
  <2>3. ASSUME NEW r \in Req, ChangePasswordFinish(r) \/ DisableTwoFactorFinish(r) PROVE Goal
    <3>1. Roles' = Roles
      BY <2>3, UpdateKeepsRoles DEF ChangePasswordFinish, DisableTwoFactorFinish
    <3>2. QED
      BY <2>3, <3>1, QuietStep DEF ChangePasswordFinish, DisableTwoFactorFinish, Goal
  <2>4. CASE UNCHANGED <<users, sessions, issuedIds, owner>>
    BY <1>0, <2>4, QuietStep DEF Goal
  <2>5. QED
    BY <1>2, <2>1, <2>2, <2>3, <2>4
    DEF AccountStep, ChangePasswordBegin, SetupTwoFactorBegin, DisableTwoFactorBegin
<1>3. CASE AdminStep
  <2>1. ASSUME NEW r \in Req, CreateUserFinish(r) PROVE Goal
    <3>1. inflight[r] \in CreateReq
      BY <2>1, ResumeOK, RequestByOp DEF CreateUserFinish, Resume, InflightOK
    <3>2. inflight[r].isAdmin \in BOOLEAN
      BY <3>1 DEF CreateReq
    <3>3. QED
      BY <1>0, <2>1, <3>2, InsertIsCreate, QuietStep DEF CreateUserFinish, Goal
  <2>2. ASSUME NEW s \in Sid, NEW id \in Uid, RemoveUser(s, id) \/ CrashInRemove(s, id) PROVE Goal
    BY <2>2, RemovalIsRemove DEF RemoveUser, CrashInRemove, Goal
  <2>3. CASE UNCHANGED <<users, sessions, issuedIds, owner>>
    BY <1>0, <2>3, QuietStep DEF Goal
  <2>4. QED
    BY <1>3, <2>1, <2>2, <2>3 DEF AdminStep, CreateUserBegin
<1>4. CASE OperatorStep
  <2>1. ASSUME NEW r \in Req, CliCreateFinish(r) \/ FirstBootFinish(r) PROVE Goal
    <3>1. inflight[r] \in CreateReq
      BY <2>1, RequestByOp DEF CliCreateFinish, FirstBootFinish, Resume, InflightOK
    <3>2. inflight[r].isAdmin \in BOOLEAN
      BY <3>1 DEF CreateReq
    <3>3. QED
      BY <1>0, <2>1, <3>2, InsertIsCreate, QuietStep DEF CliCreateFinish, FirstBootFinish, Goal
  <2>2. ASSUME NEW r \in Req, CliResetFinish(r) PROVE Goal
    <3>1. Roles' = Roles
      BY <2>2, UpdateKeepsRoles DEF CliResetFinish
    <3>2. QED
      BY <2>2, <3>1, QuietStep DEF CliResetFinish, Goal
  <2>3. CASE UNCHANGED <<users, sessions, issuedIds, owner>>
    BY <1>0, <2>3, QuietStep DEF Goal
  <2>4. QED
    BY <1>4, <2>1, <2>2, <2>3
    DEF OperatorStep, Crash, Boot, FirstBootBegin, CliResetBegin, CliCreateBegin
<1>5. CASE UNCHANGED vars
  BY <1>0, <1>5, QuietStep DEF vars, Goal
<1>6. QED
  BY <1>1, <1>2, <1>3, <1>4, <1>5 DEF Next

(* Every behaviour of the handlers, with the crashes and the interleavings  *)
(* of their halves, is one of the registry.                                *)
THEOREM ImplementsRegistry == Spec => RefinesRegistry
<1>1. Init => Registry!Init
  BY DEF Init, Empty, Registry!Init, Registry!Empty
<1>2. TypeOK /\ SessionIdBoundToPrincipal /\ ReferencesIssued /\ [Next]_vars
        => [Registry!Next]_Registry!vars
  BY RegistryStep
<1>3. QED
  BY <1>1, <1>2, TypeCorrect, SessionsBound, ReferencesStayIssued, PTL
  DEF Spec, RefinesRegistry, Registry!Spec
=============================================================================
