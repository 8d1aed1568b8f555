----------------------------- MODULE Lifecycle ------------------------------
(***************************************************************************)
(* The process around the server: bootstrap, the guard against uncaught     *)
(* exceptions, graceful shutdown (index.ts), the connection to the database *)
(* (db/index.ts) and the requests that are under way meanwhile: attempts to *)
(* log in, which the limiter counts, and event streams, which do not end    *)
(* before their client leaves.  A supervisor may start the process again.   *)
(***************************************************************************)
EXTENDS RateLimit

CONSTANTS
    Stream,   \* event streams
    MaxBoots  \* bound: starts of the process

ASSUME LifecycleAssumption == MaxBoots \in Nat

VARIABLES
    phase,    \* where the process is
    db,       \* db # null
    ready,    \* serverReady
    timer,    \* the timer of the forced exit is set
    streams,  \* open event streams
    boots

process == <<phase, db, ready, timer, streams, boots>>
vars == <<limiter, process>>

Phase == {"down", "start", "admin", "pm2", "binding", "serving", "closing"}

Init ==
    /\ RateLimitInit
    /\ phase = "down" /\ db = FALSE /\ ready = FALSE /\ timer = FALSE
    /\ streams = {} /\ boots = 0

(* process.exit, or death by a signal: what was in memory is gone.          *)
Exit ==
    /\ phase' = "down"
    /\ db' = FALSE /\ ready' = FALSE /\ timer' = FALSE /\ streams' = {}
    /\ Forgotten

-----------------------------------------------------------------------------
(* Bootstrap.                                                              *)

(* installProcessGuards, then the database is opened before anything else.  *)
Start ==
    /\ phase = "down" /\ boots < MaxBoots
    /\ phase' = "start" /\ boots' = boots + 1
    /\ UNCHANGED <<limiter, db, ready, timer, streams>>

(* Mutant: the database is left to be opened by the first query.            *)
InitDatabaseLazily ==
    /\ phase = "start"
    /\ phase' = "admin"
    /\ UNCHANGED <<limiter, db, ready, timer, streams, boots>>

InitDatabase ==
    /\ phase = "start"
    /\ phase' = "admin" /\ db' = TRUE
    /\ UNCHANGED <<limiter, ready, timer, streams, boots>>

EnsureInitialAdmin ==
    /\ phase = "admin"
    /\ phase' = "pm2"
    /\ UNCHANGED <<limiter, db, ready, timer, streams, boots>>

(* connect and initBus are over, well or badly: the collector is started,   *)
(* the server told to listen and the signals handled, without a pause.      *)
ConnectPm2 ==
    /\ phase = "pm2"
    /\ phase' = "binding"
    /\ UNCHANGED <<limiter, db, ready, timer, streams, boots>>

Listening ==
    /\ phase = "binding"
    /\ phase' = "serving" /\ ready' = TRUE
    /\ UNCHANGED <<limiter, db, timer, streams, boots>>

(* A rejection of bootstrap, or an exception nobody caught, an occupied     *)
(* port among them; once the server listens it goes on.                    *)
Uncaught ==
    /\ phase # "down" /\ ~ready
    /\ Exit /\ UNCHANGED boots

(* A signal before there are handlers for it.                              *)
Killed ==
    /\ phase \in {"start", "admin", "pm2"}
    /\ Exit /\ UNCHANGED boots

(* SIGKILL, or the machine.                                                *)
Crash ==
    /\ phase # "down"
    /\ Exit /\ UNCHANGED boots

-----------------------------------------------------------------------------
(* Shutdown.                                                               *)

(* Mutant: close() alone, which waits for the clients.                     *)
ShutdownPatient ==
    /\ phase \in {"binding", "serving"}
    /\ phase' = "closing"
    /\ UNCHANGED <<limiter, db, ready, timer, streams, boots>>

CutAll ==
    /\ spent' = [k \in Client |-> spent[k] + Cardinality(Running(k))]
    /\ from' = [a \in Attempt |-> None] /\ current' = {}
    /\ UNCHANGED <<hits, expired, refused, late>>

(* The first signal: metrics and PM2 are stopped, the server is closed, its *)
(* sockets are destroyed and the timer is set; later signals do nothing.   *)
Shutdown ==
    /\ phase \in {"binding", "serving"}
    /\ phase' = "closing"
    /\ streams' = {} /\ timer' = TRUE
    /\ CutAll
    /\ UNCHANGED <<db, ready, boots>>

(* The callback of close: no connection is left.                           *)
Drained ==
    /\ phase = "closing"
    /\ streams = {} /\ \A a \in Attempt : from[a] = None
    /\ Exit /\ UNCHANGED boots

ForcedShutdown ==
    /\ phase = "closing" /\ timer
    /\ Exit /\ UNCHANGED boots

-----------------------------------------------------------------------------
(* Requests.                                                               *)

Serving == phase = "serving"
Alive   == phase \in {"serving", "closing"}

OpenStream(s) ==
    /\ Serving /\ s \notin streams
    /\ streams' = streams \cup {s}
    /\ UNCHANGED <<limiter, phase, db, ready, timer, boots>>

CloseStream(s) ==
    /\ Alive /\ s \in streams
    /\ streams' = streams \ {s}
    /\ UNCHANGED <<limiter, phase, db, ready, timer, boots>>

Login ==
    /\ \/ Serving /\ \E a \in Attempt, k \in Client : Arrive(a, k)
       \/ Alive /\ \E a \in Attempt : Fail(a) \/ CutOff(a) \/ Succeed(a)
       \/ Alive /\ \E k \in Client : Expire(k) \/ Drop(k)
    /\ UNCHANGED process

Next ==
    \/ Start \/ InitDatabase \/ EnsureInitialAdmin \/ ConnectPm2 \/ Listening
    \/ Uncaught \/ Killed \/ Crash
    \/ Shutdown \/ Drained \/ ForcedShutdown
    \/ \E s \in Stream : OpenStream(s) \/ CloseStream(s)
    \/ Login

Spec == Init /\ [][Next]_vars

(* The event loop runs what is due.  Clients and the supervisor promise     *)
(* nothing.                                                                *)
FairSpec == Spec /\ WF_vars(Drained) /\ WF_vars(ForcedShutdown)

-----------------------------------------------------------------------------
(* The store counts, entries that are over are entries, and the counters    *)
(* of a window are natural numbers; the server is reachable only with an    *)
(* open database.                                                          *)
TypeOK ==
    /\ hits \in [Client -> Nat \cup {None}]
    /\ expired \subseteq {k \in Client : hits[k] # None}
    /\ from \in [Attempt -> Client \cup {None}]
    /\ current \subseteq {a \in Attempt : from[a] # None}
    /\ spent \in [Client -> Nat] /\ refused \in [Client -> Nat] /\ late \in [Client -> Nat]
    /\ phase \in Phase /\ db \in BOOLEAN /\ ready \in BOOLEAN /\ timer \in BOOLEAN
    /\ streams \subseteq Stream /\ boots \in 0..MaxBoots
    /\ phase \in {"admin", "pm2", "binding", "serving", "closing"} => db
    /\ (\E a \in Attempt : from[a] # None) \/ streams # {} => phase \in {"serving", "closing"}

(* "Count only failed attempts against the limit"                            *)
(* (rateLimit.middleware.ts:23): of the attempts that arrive in one window    *)
(* no more than the limit are under way, fail or are cut off, but for the   *)
(* successes of earlier windows, which give their hits back to this one.    *)
FailuresBounded ==
    \A k \in Client : spent[k] + Cardinality(Running(k)) <= LoginMax + late[k]

(* Nobody is kept out by successes: when an attempt is refused, the limit   *)
(* is used up by attempts of this window that failed, were refused or have  *)
(* not been answered.  (Those that run count, although they may succeed.)   *)
RefusalsEarned ==
    [][\A a \in Attempt, k \in Client :
         Refused(a, k) => spent[k] + refused[k] + Cardinality(Running(k)) >= LoginMax]_vars

(* A process that was told to stop stops, whatever its clients do: event     *)
(* streams would keep it alive, index.ts:121 cuts them.                    *)
ShutdownEnds == phase = "closing" ~> phase # "closing"
=============================================================================
