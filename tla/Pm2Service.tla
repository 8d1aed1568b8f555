----------------------------- MODULE Pm2Service -----------------------------
(***************************************************************************)
(* The connection of the server to the PM2 daemon: the class Pm2Service of *)
(* pm2.service.ts, which every request and the metrics collector share.    *)
(* Operations run concurrently; each goes through ensureConnected (one     *)
(* shared connect with a timeout, then one shared launch of the event bus) *)
(* and then makes its own call to the daemon.                              *)
(*                                                                         *)
(* A step is one callback, timer or call of the event loop together with   *)
(* the promise continuations it releases: these run before the next one.   *)
(* The pm2 module is external: any callback may come late, fail, or never  *)
(* come, unless a fairness condition below says otherwise.                 *)
(***************************************************************************)
EXTENDS Naturals, FiniteSets

CONSTANTS
    Op,         \* callers of the service: requests, the collector, bootstrap
    Boot,       \* the one that is bootstrap: connect(), then initBus()
    Attempt,    \* pm2.connect calls that can be outstanding: bounds late ones
    Bus,        \* event buses that can be launching, heard or reporting at a time
    None        \* null

ASSUME Pm2Assumption ==
    /\ Boot \in Op
    /\ None \notin Attempt /\ None \notin Bus /\ Attempt \cap Bus = {}

VARIABLES
    connected,        \* the flag of the service
    connecting,       \* the attempt behind its `connecting' promise, or None
    attempts,         \* each attempt: "unused", "pending", or "late" (timed out,
                      \* its pm2.connect callback not seen yet)
    bus,              \* its bus reference
    busInitializing,  \* the launch behind its `busInitializing' promise, or None
    buses,            \* each bus: "unused", "pending" (launching), "live" (delivers
                      \* to our handlers), "broken" (does not, but may report again)
    pc,               \* what each caller is doing
    awaits,           \* the promise it waits for: an attempt, a launch, or None
    stopping          \* the shutdown handler has called disconnect()

connection == <<connected, connecting, attempts>>
vars == <<connected, connecting, attempts, bus, busInitializing, buses, pc, awaits, stopping>>

Init ==
    /\ connected = FALSE /\ connecting = None
    /\ attempts = [a \in Attempt |-> "unused"]
    /\ bus = None /\ busInitializing = None
    /\ buses = [b \in Bus |-> "unused"]
    /\ pc = [o \in Op |-> IF o = Boot THEN "boot" ELSE "idle"]
    /\ awaits = [o \in Op |-> None]
    /\ stopping = FALSE

-----------------------------------------------------------------------------
Waiters(p) == {o \in Op : awaits[o] = p}

(* Every caller in W goes to state `to' and waits for p.                   *)
Send(W, to, p) ==
    /\ pc' = [o \in Op |-> IF o \in W THEN to ELSE pc[o]]
    /\ awaits' = [o \in Op |-> IF o \in W THEN p ELSE awaits[o]]

(* The promise is rejected: the call of each waiter fails (bootstrap logs   *)
(* it and goes on to serve).                                               *)
Fail(W) == Send(W, "idle", None)

(* ensureConnected is done: bootstrap wanted no more, the others call pm2. *)
Proceed(W) ==
    /\ pc' = [o \in Op |-> IF o \notin W THEN pc[o] ELSE IF o = Boot THEN "idle" ELSE "rpc"]
    /\ awaits' = [o \in Op |-> IF o \in W THEN None ELSE awaits[o]]

(* connect: reuse the promise of the attempt in progress, or start one.    *)
Connect(o) ==
    \/ /\ connecting # None
       /\ Send({o}, "connect", connecting)
       /\ UNCHANGED connection
    \/ /\ connecting = None
       /\ \E a \in Attempt :
            /\ attempts[a] = "unused"
            /\ attempts' = [attempts EXCEPT ![a] = "pending"]
            /\ connecting' = a
            /\ Send({o}, "connect", a)
       /\ UNCHANGED connected

(* Mutant: an operation that finds a launch in progress does not wait.     *)
AttachBusNoWait(W) ==
    \/ bus # None /\ Proceed(W) /\ UNCHANGED <<busInitializing, buses>>
    \/ bus = None /\ busInitializing # None /\ Proceed(W) /\ UNCHANGED <<busInitializing, buses>>
    \/ /\ bus = None /\ busInitializing = None
       /\ \E b \in Bus : /\ buses[b] = "unused"
                         /\ buses' = [buses EXCEPT ![b] = "pending"]
                         /\ busInitializing' = b
                         /\ Send(W, "attach", b)

(* The second half of ensureConnected, for callers that find the service    *)
(* connected: attachBus.                                                   *)
AttachBus(W) ==
    \/ bus # None /\ Proceed(W) /\ UNCHANGED <<busInitializing, buses>>
    \/ /\ bus = None /\ busInitializing # None
       /\ Send(W, "attach", busInitializing)
       /\ UNCHANGED <<busInitializing, buses>>
    \/ /\ bus = None /\ busInitializing = None
       /\ \E b \in Bus : /\ buses[b] = "unused"
                         /\ buses' = [buses EXCEPT ![b] = "pending"]
                         /\ busInitializing' = b
                         /\ Send(W, "attach", b)

-----------------------------------------------------------------------------
(* A call of the service: guarded, or bootstrap's connect and initBus.      *)
(* Requests and the collector start when bootstrap is done.                *)
Begin(o) ==
    /\ IF o = Boot THEN pc[o] = "boot" ELSE pc[o] = "idle" /\ pc[Boot] = "idle"
    /\ \/ connected /\ AttachBus({o}) /\ UNCHANGED connection
       \/ ~connected /\ Connect(o) /\ UNCHANGED <<busInitializing, buses>>
    /\ UNCHANGED <<bus, stopping>>

(* The timer of connect: CONNECT_TIMEOUT_MS without an answer.             *)
ConnectTimeout(a) ==
    /\ attempts[a] = "pending"
    /\ attempts' = [attempts EXCEPT ![a] = "late"]
    /\ connecting' = None
    /\ Fail(Waiters(a))
    /\ UNCHANGED <<connected, bus, busInitializing, buses, stopping>>

ConnectSucceeds(a) ==
    /\ attempts[a] = "pending"
    /\ attempts' = [attempts EXCEPT ![a] = "unused"]
    /\ connecting' = None
    /\ connected' = TRUE
    /\ AttachBus(Waiters(a))
    /\ UNCHANGED <<bus, stopping>>

ConnectFails(a) ==
    /\ attempts[a] = "pending"
    /\ attempts' = [attempts EXCEPT ![a] = "unused"]
    /\ connecting' = None
    /\ Fail(Waiters(a))
    /\ UNCHANGED <<connected, bus, busInitializing, buses, stopping>>

(* Mutant: the callback does not look at `settled'.                        *)
LateAnswerActsAnyway(a) ==
    /\ attempts[a] = "late"
    /\ attempts' = [attempts EXCEPT ![a] = "unused"]
    /\ connecting' = None
    /\ connected' = TRUE
    /\ UNCHANGED <<bus, busInitializing, buses, pc, awaits, stopping>>

(* The callback of an attempt that has timed out finds it settled.         *)
LateAnswer(a) ==
    /\ attempts[a] = "late"
    /\ attempts' = [attempts EXCEPT ![a] = "unused"]
    /\ UNCHANGED <<connected, connecting, bus, busInitializing, buses, pc, awaits, stopping>>

(* The callback of launchBus; a failure is logged and the call goes on.    *)
BusAttached(b) ==
    /\ buses[b] = "pending"
    /\ busInitializing' = None
    /\ buses' = [buses EXCEPT ![b] = "live"]
    /\ bus' = b
    /\ Proceed(Waiters(b))
    /\ UNCHANGED <<connection, stopping>>

(* Mutant: the callers that wait for a failed launch are forgotten.        *)
BusFailsSilently(b) ==
    /\ buses[b] = "pending"
    /\ busInitializing' = None
    /\ buses' = [buses EXCEPT ![b] = "unused"]
    /\ UNCHANGED <<connection, bus, pc, awaits, stopping>>

(* Mutant: a launch that fails fails its callers.                          *)
BusFailsCallers(b) ==
    /\ buses[b] = "pending"
    /\ busInitializing' = None
    /\ buses' = [buses EXCEPT ![b] = "unused"]
    /\ Fail(Waiters(b))
    /\ UNCHANGED <<connection, bus, stopping>>

BusFails(b) ==
    /\ buses[b] = "pending"
    /\ busInitializing' = None
    /\ buses' = [buses EXCEPT ![b] = "unused"]
    /\ Proceed(Waiters(b))
    /\ UNCHANGED <<connection, bus, stopping>>

(* 'close' or 'error' on a bus: the handler clears the reference, whatever  *)
(* bus it holds by then.  Nothing is closed or unsubscribed, so a bus with  *)
(* an error may go on delivering; one that is gone may report once more.   *)
BusEnds(b) ==
    /\ buses[b] \in {"live", "broken"}
    /\ \E state \in {buses[b], "broken", "unused"} : buses' = [buses EXCEPT ![b] = state]
    /\ bus' = None
    /\ UNCHANGED <<connection, busInitializing, pc, awaits, stopping>>

(* The daemon answers the call, or the call fails.                         *)
RpcAnswer(o) ==
    /\ pc[o] = "rpc"
    /\ Fail({o})
    /\ UNCHANGED <<connection, bus, busInitializing, buses, stopping>>

(* disconnect, from the shutdown handler: a handler still running may call *)
(* the service again.                                                      *)
Disconnect ==
    /\ ~stopping /\ pc[Boot] = "idle"
    /\ stopping' = TRUE
    /\ buses' = [b \in Bus |-> IF b = bus THEN "broken" ELSE buses[b]]
    /\ bus' = None
    /\ connected' = FALSE
    /\ UNCHANGED <<connecting, attempts, busInitializing, pc, awaits>>

Next ==
    \/ \E o \in Op : Begin(o) \/ RpcAnswer(o)
    \/ \E a \in Attempt : ConnectTimeout(a) \/ ConnectSucceeds(a) \/ ConnectFails(a) \/ LateAnswer(a)
    \/ \E b \in Bus : BusAttached(b) \/ BusFails(b) \/ BusEnds(b)
    \/ Disconnect

Spec == Init /\ [][Next]_vars

(* Timers fire, bootstrap runs, and the daemon answers or refuses the calls *)
(* an operation makes; nothing is assumed of pm2.connect.                  *)
CallFairness ==
    /\ WF_vars(Begin(Boot))
    /\ \A a \in Attempt : WF_vars(ConnectTimeout(a))
    /\ \A o \in Op : WF_vars(RpcAnswer(o))

(* launchBus always calls back.                                            *)
LaunchFairness == \A b \in Bus : WF_vars(BusAttached(b) \/ BusFails(b))

TimerSpec == Spec /\ CallFairness
FairSpec == Spec /\ CallFairness /\ LaunchFairness

-----------------------------------------------------------------------------
(* Every variable stays in its type; only bootstrap is ever in state "boot", *)
(* and it makes no call of its own.                                        *)
TypeOK ==
    /\ connected \in BOOLEAN /\ stopping \in BOOLEAN
    /\ connecting \in Attempt \cup {None}
    /\ attempts \in [Attempt -> {"unused", "pending", "late"}]
    /\ bus \in Bus \cup {None} /\ busInitializing \in Bus \cup {None}
    /\ buses \in [Bus -> {"unused", "pending", "live", "broken"}]
    /\ pc \in [Op -> {"boot", "idle", "connect", "attach", "rpc"}]
    /\ \A o \in Op : pc[o] = "boot" => o = Boot
    /\ pc[Boot] # "rpc"
    /\ awaits \in [Op -> Attempt \cup Bus \cup {None}]

(* However many operations need the daemon at once, and however late the    *)
(* callbacks of timed-out attempts come, one attempt at a time is pending   *)
(* and it is the one `connecting' shares; the same for the bus launch, and *)
(* no bus is launched while one is held.                                   *)
SingleFlight ==
    /\ \A a \in Attempt : attempts[a] = "pending" <=> connecting = a
    /\ \A b \in Bus : buses[b] = "pending" <=> busInitializing = b
    /\ busInitializing # None => bus = None

(* No lost wakeup: a caller that waits, waits for a promise that is still   *)
(* pending, and it is the promise of the phase it is in.                   *)
NoLostWakeup ==
    \A o \in Op :
        /\ pc[o] = "connect" <=> awaits[o] \in Attempt
        /\ pc[o] = "attach" <=> awaits[o] \in Bus
        /\ awaits[o] \in Attempt => attempts[awaits[o]] = "pending"
        /\ awaits[o] \in Bus => buses[awaits[o]] = "pending"

(* ensureConnected: no operation reaches the daemon without a bus that is   *)
(* heard, or its attachment having been tried by the step that lets it     *)
(* through - this is what keeps live streaming alive.  Whatever reports of *)
(* its ends come, twice or late, the service holds no dead bus.            *)
AttachedOrTried ==
    [][\A o \in Op : pc[o] # "rpc" /\ pc'[o] = "rpc" =>
          \/ \E b \in Bus : bus' = b /\ buses'[b] = "live"
          \/ \E b \in Bus : buses[b] = "pending" /\ buses'[b] = "unused"]_vars

(* The service is one connection and one feed that all callers share, as    *)
(* SharedLink describes it: promises are resolved for all who wait and for  *)
(* nobody else, and the callbacks of attempts that timed out have no effect *)
(* on it.  A report of any bus may cost it the feed, no report costs it     *)
(* more.                                                                   *)
Link == INSTANCE SharedLink WITH
    link   <- IF connecting # None THEN "dialing" ELSE IF connected THEN "up" ELSE "down",
    feed   <- IF busInitializing # None THEN "opening" ELSE IF bus # None THEN "open" ELSE "none",
    caller <- pc,
    closed <- stopping

RefinesSharedLink == Link!Spec

(* Every operation ends, though pm2.connect may never call back, unless the *)
(* server is shut down.                                                    *)
OperationsEnd == \A o \in Op : (pc[o] # "idle") ~> (pc[o] = "idle" \/ stopping)

(* "bootstrap never hangs waiting for a dead daemon" (pm2.service.ts).     *)
BootstrapEnds == <>(pc[Boot] = "idle")
=============================================================================
