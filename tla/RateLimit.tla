----------------------------- MODULE RateLimit ------------------------------
(***************************************************************************)
(* The limiter in front of the login and 2FA routes: express-rate-limit     *)
(* with its store in memory, as rateLimit.middleware.ts configures it.  A   *)
(* client is what the limiter tells apart, an address.  Arrivals are        *)
(* counted in a window that begins with the first of them; the hit of an    *)
(* attempt that succeeds is taken back when its response has been sent.     *)
(***************************************************************************)
EXTENDS Integers, FiniteSets

CONSTANTS
    Client,
    Attempt,     \* the requests that can be under way at once
    LoginMax,    \* config.rateLimit.loginMax
    MaxRefused,  \* bound: refusals in one window
    None

ASSUME RateLimitAssumption ==
    /\ LoginMax \in Nat \ {0} /\ MaxRefused \in Nat
    /\ None \notin Client /\ None \notin Nat /\ IsFiniteSet(Attempt)

VARIABLES
    hits,      \* the store: hits of each client, None without an entry
    expired,   \* clients whose window is over
    from,      \* the client of an attempt under way, None otherwise
    current,   \* attempts that arrived in the window their client's entry is of
    (* History, of the present window of each client:                       *)
    spent,     \* attempts that failed or were cut off
    refused,   \* attempts that were refused
    late       \* successes of earlier windows that were taken back in this one

limiter == <<hits, expired, from, current, spent, refused, late>>

Running(k) == {a \in Attempt : from[a] = k /\ a \in current}

RateLimitInit ==
    /\ hits = [k \in Client |-> None] /\ expired = {}
    /\ from = [a \in Attempt |-> None] /\ current = {}
    /\ spent = [k \in Client |-> 0] /\ refused = [k \in Client |-> 0]
    /\ late = [k \in Client |-> 0]

(* The process is gone, and the store and the sockets with it.             *)
Forgotten == (hits' = [k \in Client |-> None]) /\ expired' = {}
             /\ from' = [a \in Attempt |-> None] /\ current' = {}
             /\ spent' = [k \in Client |-> 0] /\ refused' = [k \in Client |-> 0]
             /\ late' = [k \in Client |-> 0]

-----------------------------------------------------------------------------
(* The store.                                                              *)

(* A window is over; some time later its entry is dropped.                 *)
Expire(k) ==
    /\ hits[k] # None /\ k \notin expired
    /\ expired' = expired \cup {k}
    /\ UNCHANGED <<hits, from, current, spent, refused, late>>

Drop(k) ==
    /\ k \in expired
    /\ hits' = [hits EXCEPT ![k] = None]
    /\ expired' = expired \ {k}
    /\ UNCHANGED <<from, current, spent, refused, late>>

NewWindow(k) == hits[k] = None \/ k \in expired

(* increment's result.                                                     *)
Counted(k) == IF NewWindow(k) THEN 1 ELSE hits[k] + 1

(* Mutant: one attempt too many.                                           *)
AdmittedOneMore(n) == n <= LoginMax + 1

Admitted(n) == n <= LoginMax

-----------------------------------------------------------------------------
(* An attempt arrives: it is counted first, then let through or refused     *)
(* with a 429, which is no success and stays counted.                      *)
Arrive(a, k) ==
    LET n     == Counted(k)
        fresh == NewWindow(k)
        old   == IF fresh THEN {b \in current : from[b] = k} ELSE {}
    IN /\ from[a] = None
       /\ hits' = [hits EXCEPT ![k] = n]
       /\ expired' = expired \ {k}
       /\ IF Admitted(n)
            THEN /\ from' = [from EXCEPT ![a] = k]
                 /\ current' = (current \ old) \cup {a}
                 /\ refused' = IF fresh THEN [refused EXCEPT ![k] = 0] ELSE refused
            ELSE /\ ~fresh => refused[k] < MaxRefused
                 /\ refused' = [refused EXCEPT ![k] = IF fresh THEN 1 ELSE @ + 1]
                 /\ current' = current \ old
                 /\ UNCHANGED from
       /\ spent' = IF fresh THEN [spent EXCEPT ![k] = 0] ELSE spent
       /\ late' = IF fresh THEN [late EXCEPT ![k] = 0] ELSE late

Refused(a, k) == Arrive(a, k) /\ ~Admitted(Counted(k))

(* Its response is sent with an error: wrong password, wrong code, a body    *)
(* that does not validate.                                                 *)
Fail(a) ==
    /\ from[a] # None
    /\ spent' = IF a \in current THEN [spent EXCEPT ![from[a]] = @ + 1] ELSE spent
    /\ from' = [from EXCEPT ![a] = None] /\ current' = current \ {a}
    /\ UNCHANGED <<hits, expired, refused, late>>

(* The connection is gone first: a response that is never finished takes    *)
(* nothing back, whatever the password was.                                *)
CutOff(a) == Fail(a)

(* Mutant: without skipSuccessfulRequests.                                 *)
SucceedCounted(a) ==
    /\ from[a] # None
    /\ from' = [from EXCEPT ![a] = None] /\ current' = current \ {a}
    /\ UNCHANGED <<hits, expired, spent, refused, late>>

(* Success, of the password step too: decrement, in whatever window there   *)
(* is by now, and a new one if there is none, but never below zero.        *)
Succeed(a) ==
    LET k == from[a] IN
    /\ k # None
    /\ from' = [from EXCEPT ![a] = None]
    /\ IF hits[k] = None
         THEN /\ hits' = [hits EXCEPT ![k] = 0]
              /\ current' = {b \in current : from[b] # k}
              /\ spent' = [spent EXCEPT ![k] = 0] /\ refused' = [refused EXCEPT ![k] = 0]
              /\ late' = [late EXCEPT ![k] = 0]
         ELSE /\ hits' = [hits EXCEPT ![k] = IF @ > 0 THEN @ - 1 ELSE @]
              /\ current' = current \ {a}
              /\ late' = IF a \notin current /\ hits[k] > 0 THEN [late EXCEPT ![k] = @ + 1]
                                                            ELSE late
              /\ UNCHANGED <<spent, refused>>
    /\ UNCHANGED expired
=============================================================================
