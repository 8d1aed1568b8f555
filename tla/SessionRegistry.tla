-------------------------- MODULE SessionRegistry --------------------------
(***************************************************************************)
(* What accounts and sessions promise, without passwords, second factors,  *)
(* requests and crashes: a session id speaks for one principal for as long *)
(* as it is known, ids of accounts are never given out twice, roles do not *)
(* change, and the last administrator stays.  Accounts implements this.    *)
(***************************************************************************)
CONSTANTS
    Uid,  \* ids of accounts
    Sid,  \* session ids
    None  \* the principal of a visitor

VARIABLES
    accounts, \* the accounts there are: a function from their ids to their role
    issued,   \* the account ids that were ever given out
    bound,    \* for each session id ever issued, the principal it was issued to
    speaks    \* for each session id the store knows, the principal it speaks for

vars == <<accounts, issued, bound, speaks>>

Empty == [x \in {} |-> x]
Put(f, k, v) == [x \in DOMAIN f \cup {k} |-> IF x = k THEN v ELSE f[x]]
Drop(f, K)   == [x \in DOMAIN f \ K |-> f[x]]

Init == accounts = Empty /\ issued = {} /\ bound = Empty /\ speaks = Empty

-----------------------------------------------------------------------------
(* A visitor comes, or somebody logs in: the id is new, and takes the place *)
(* of the one the browser had, if it had one.                              *)
Issue(s, u, old) ==
    /\ s \notin DOMAIN bound
    /\ u \in issued \cup {None}
    /\ bound' = Put(bound, s, u)
    /\ speaks' = Put(Drop(speaks, {old}), s, u)
    /\ UNCHANGED <<accounts, issued>>

(* A logout, or the idle timeout.                                          *)
End(s) ==
    /\ speaks' = Drop(speaks, {s})
    /\ UNCHANGED <<accounts, issued, bound>>

(* A request writes back the session it holds, which may have ended since:  *)
(* it speaks for the principal its id was issued to.                       *)
PutBack(s) ==
    /\ s \in DOMAIN bound
    /\ speaks' = Put(speaks, s, bound[s])
    /\ UNCHANGED <<accounts, issued, bound>>

Create(id, isAdmin) ==
    /\ id \notin issued
    /\ accounts' = Put(accounts, id, isAdmin)
    /\ issued' = issued \cup {id}
    /\ UNCHANGED <<bound, speaks>>

(* With the sessions of the account, or without them if the process dies.  *)
Remove(id) ==
    /\ id \in DOMAIN accounts
    /\ accounts[id] => \E other \in DOMAIN accounts \ {id} : accounts[other]
    /\ accounts' = Drop(accounts, {id})
    /\ \/ speaks' = Drop(speaks, {s \in DOMAIN speaks : speaks[s] = id})
       \/ speaks' = speaks
    /\ UNCHANGED <<issued, bound>>

Next ==
    \/ \E s, old \in Sid, u \in Uid \cup {None} : Issue(s, u, old)
    \/ \E s \in Sid : End(s) \/ PutBack(s)
    \/ \E id \in Uid, isAdmin \in BOOLEAN : Create(id, isAdmin)
    \/ \E id \in Uid : Remove(id)

Spec == Init /\ [][Next]_vars
=============================================================================
