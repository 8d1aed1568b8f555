----------------------------- MODULE LogStream -----------------------------
(***************************************************************************)
(* Live log streams over Server-Sent Events: logsController.stream, and    *)
(* the `log' events the PM2 service emits for them.  A stream is one       *)
(* request: it describes the process, replays a backlog from the log       *)
(* files, then subscribes to the events and starts a heartbeat.  The       *)
(* client may leave at any moment of this.                                 *)
(*                                                                         *)
(* The lines of a process are numbered.  The daemon appends each to a log   *)
(* file and sends it over the bus, and neither waits for the other.  One    *)
(* file stands for the two of a process, which are read alike.             *)
(*                                                                         *)
(* A stream knows its process as describe found it; in PM2 processes are    *)
(* started, renamed and deleted meanwhile, and a pm_id that has become free *)
(* is given to another.  The service may lose its bus at any moment, and    *)
(* gets another one with the next operation.                               *)
(***************************************************************************)
EXTENDS Integers, FiniteSets

CONSTANTS
    Stream,  \* stream requests
    Proc,    \* processes, each from its start to its deletion
    PmId,    \* pm_ids, one process at a time has each
    Name,    \* instances of one application share a name
    Bus,     \* event buses the handlers can hear at a time
    BacklogLines, \* BACKLOG_LINES
    TailLines,    \* whole lines in BACKLOG_TAIL_BYTES
    MaxLines,     \* bound: lines of one process
    None,         \* null
    Gone          \* what is left of the pm_id of a deleted process

ASSUME LogStreamAssumption ==
    /\ None \notin Proc \cup PmId \cup Name \cup Bus \cup {Gone} /\ Gone \notin PmId
    /\ BacklogLines \in Nat /\ TailLines \in Nat /\ MaxLines \in Nat

VARIABLES
    pc,        \* "idle", "describe", "backlog", "replay", "open", "done"
    proc,      \* the process describe found for the request,
    pmId,      \* its pm_id
    name,      \* and its name, as they were then
    clients,   \* the requests whose client is connected
    listeners, \* subscriptions to `log' on pm2Service.events
    beats,     \* heartbeat intervals that are running
    idOf,      \* the pm_id of a process in PM2: None before it is started
    nameOf,    \* its name
    bus,       \* the bus reference of the service
    heard,     \* the buses whose lines reach its handlers
    written,   \* how many lines of a process are in its file
    emitted,   \* how many came over the bus
    backlog,   \* the lines a stream replays: those after `skipped', up to `upto'
    sent,      \* the live lines it was sent, as pairs of a process and a number
    since,     \* history: how many lines of its process had come when it subscribed
    foreign,   \* history: streams that were sent a line of another process, under
               \* another name than describe returned
    detached   \* history: the lines of its process that came while a stream was
               \* open and the service held no bus

stream == <<pc, proc, pmId, name, clients, listeners, beats, backlog, since>>
daemon == <<idOf, nameOf>>
feed   == <<bus, heard>>
lines  == <<written, emitted, sent, foreign, detached>>
vars   == <<stream, daemon, feed, lines>>

NoBacklog == [skipped |-> 0, upto |-> 0]

Init ==
    /\ pc = [s \in Stream |-> "idle"]
    /\ proc = [s \in Stream |-> None]
    /\ pmId = [s \in Stream |-> None] /\ name = [s \in Stream |-> None]
    /\ clients = {} /\ listeners = {} /\ beats = {}
    /\ idOf \in {f \in [Proc -> PmId \cup {None}] : \A p, q \in Proc : f[p] = f[q] => p = q \/ f[p] = None}
    /\ nameOf \in [Proc -> Name]
    /\ bus \in Bus \cup {None} /\ heard = {bus} \ {None}
    /\ written \in [Proc -> 0..MaxLines] /\ emitted = written
    /\ backlog = [s \in Stream |-> NoBacklog]
    /\ sent = [s \in Stream |-> {}]
    /\ since = [s \in Stream |-> 0]
    /\ foreign = {} /\ detached = [s \in Stream |-> {}]

-----------------------------------------------------------------------------
Open(s) ==
    /\ pc[s] = "idle"
    /\ pc' = [pc EXCEPT ![s] = "describe"]
    /\ clients' = clients \cup {s}
    /\ UNCHANGED <<proc, pmId, name, listeners, beats, backlog, since, daemon, feed, lines>>

(* describe: by pm_id, or by name, where the first match is taken.          *)
(* Processes come and go in PM2, so it may find any that are there or none; *)
(* a missing process is a 404, a PM2 failure a 502.                        *)
Described(s, p) ==
    /\ pc[s] = "describe" /\ idOf[p] \in PmId
    /\ pc' = [pc EXCEPT ![s] = "backlog"]
    /\ proc' = [proc EXCEPT ![s] = p]
    /\ pmId' = [pmId EXCEPT ![s] = idOf[p]]
    /\ name' = [name EXCEPT ![s] = nameOf[p]]
    /\ UNCHANGED <<clients, listeners, beats, backlog, since, daemon, feed, lines>>

NotDescribed(s) ==
    /\ pc[s] = "describe"
    /\ pc' = [pc EXCEPT ![s] = "done"]
    /\ UNCHANGED <<proc, pmId, name, clients, listeners, beats, backlog, since>>
    /\ UNCHANGED <<daemon, feed, lines>>

AtMost(m, n) == IF m < n THEN m ELSE n

(* How many lines of a file readTailLines returns: when the tail does not    *)
(* hold all of it, the line it begins in is dropped.                       *)
Tail(n) == AtMost(BacklogLines, AtMost(TailLines, n))

(* sendBacklog: the file as it is when it is read, or nothing of it when it *)
(* cannot be.                                                              *)
ReadTail(s) ==
    /\ pc[s] = "backlog"
    /\ pc' = [pc EXCEPT ![s] = "replay"]
    /\ LET n == written[proc[s]] IN
       \E skipped \in {n - Tail(n), n} :
          backlog' = [backlog EXCEPT ![s] = [skipped |-> skipped, upto |-> n]]
    /\ UNCHANGED <<proc, pmId, name, clients, listeners, beats, since, daemon, feed, lines>>

(* The backlog is written.  writableEnded tells whether end() was called    *)
(* on the response, which nobody has by now, so the stream always goes on. *)
Subscribe(s) ==
    /\ pc[s] = "replay"
    /\ pc' = [pc EXCEPT ![s] = "open"]
    /\ listeners' = listeners \cup {s}
    /\ beats' = beats \cup {s}
    /\ since' = [since EXCEPT ![s] = emitted[proc[s]]]
    /\ UNCHANGED <<proc, pmId, name, clients, backlog, daemon, feed, lines>>

(* Mutant: the subscription is left behind.                                *)
ClientLeavesKeepListening(s) ==
    /\ s \in clients
    /\ clients' = clients \ {s}
    /\ IF pc[s] = "open"
         THEN pc' = [pc EXCEPT ![s] = "done"] /\ beats' = beats \ {s}
         ELSE UNCHANGED <<pc, beats>>
    /\ UNCHANGED <<proc, pmId, name, listeners, backlog, since, daemon, feed, lines>>

(* The request is over: its variables are gone, and so is its history.      *)
Forget(s) ==
    /\ proc' = [proc EXCEPT ![s] = None]
    /\ pmId' = [pmId EXCEPT ![s] = None] /\ name' = [name EXCEPT ![s] = None]
    /\ backlog' = [backlog EXCEPT ![s] = NoBacklog]
    /\ since' = [since EXCEPT ![s] = 0]
    /\ sent' = [sent EXCEPT ![s] = {}]
    /\ foreign' = foreign \ {s}
    /\ detached' = [detached EXCEPT ![s] = {}]

(* 'close' on the request: only an open stream has its handler registered.  *)
ClientLeaves(s) ==
    /\ s \in clients
    /\ clients' = clients \ {s}
    /\ IF pc[s] = "open"
         THEN /\ pc' = [pc EXCEPT ![s] = "done"]
              /\ listeners' = listeners \ {s}
              /\ beats' = beats \ {s}
              /\ Forget(s)
         ELSE UNCHANGED <<pc, proc, pmId, name, listeners, beats, backlog, since, sent, foreign,
                        detached>>
    /\ UNCHANGED <<written, emitted, daemon, feed>>

-----------------------------------------------------------------------------
(* PM2 (external): a process is started under a pm_id that is free, renamed *)
(* by a restart, deleted.                                                  *)
Started(p) ==
    /\ idOf[p] = None
    /\ \E i \in PmId : /\ \A q \in Proc : idOf[q] # i
                       /\ idOf' = [idOf EXCEPT ![p] = i]
    /\ UNCHANGED <<nameOf, stream, feed, lines>>

Renamed(p) ==
    /\ idOf[p] \in PmId
    /\ \E n \in Name \ {nameOf[p]} : nameOf' = [nameOf EXCEPT ![p] = n]
    /\ UNCHANGED <<idOf, stream, feed, lines>>

Deleted(p) ==
    /\ idOf[p] \in PmId
    /\ idOf' = [idOf EXCEPT ![p] = Gone]
    /\ UNCHANGED <<nameOf, stream, feed, lines>>

(* attachBus, for any operation that finds the service without a bus.      *)
Attach(b) ==
    /\ bus = None /\ b \notin heard
    /\ bus' = b /\ heard' = heard \cup {b}
    /\ UNCHANGED <<stream, daemon, lines>>

(* Mutant: a bus that closes leaves its reference with the service.        *)
BusEndsUnnoticed(b) ==
    /\ bus # None
    /\ heard' = heard \ {b}
    /\ UNCHANGED <<bus, stream, daemon, lines>>

(* 'close' or 'error' of a bus: the service drops its reference, whatever   *)
(* bus that is by now.  A bus that closed is not heard any more; one with   *)
(* an error may be, and a bus may report more than once.                   *)
BusEnds(b) ==
    /\ bus # None \/ b \in heard
    /\ bus' = None
    /\ heard' \in {heard, heard \ {b}}
    /\ UNCHANGED <<stream, daemon, lines>>

-----------------------------------------------------------------------------
(* Mutant: the filter of onLog is missing.                                 *)
MatchesAny(s, p) == TRUE

(* The filter of onLog: the pm_id and the name a line of p comes with,      *)
(* against those that describe returned.                                   *)
Matches(s, p) == idOf[p] = pmId[s] \/ nameOf[p] = name[s]

(* The next line of p is sent by the daemon, and reaches the filter of      *)
(* every listener over each bus that is heard.                             *)
LogLine(p) ==
    /\ idOf[p] \in PmId /\ emitted[p] < MaxLines
    /\ emitted' = [emitted EXCEPT ![p] = @ + 1]
    /\ LET line   == <<p, emitted[p] + 1>>
           takers == {s \in listeners : heard # {} /\ Matches(s, p)}
       IN /\ sent' = [s \in Stream |-> IF s \in takers THEN sent[s] \cup {line} ELSE sent[s]]
          /\ foreign' = foreign \cup {s \in takers : p # proc[s] /\ nameOf[p] # name[s]}
          /\ detached' = [s \in Stream |-> IF s \in listeners /\ p = proc[s] /\ bus = None
                                              THEN detached[s] \cup {emitted[p] + 1}
                                              ELSE detached[s]]
    /\ UNCHANGED <<written, stream, daemon, feed>>

(* The next line of p is appended to its file (the daemon, external).       *)
AppendLine(p) ==
    /\ idOf[p] \in PmId /\ written[p] < MaxLines
    /\ written' = [written EXCEPT ![p] = @ + 1]
    /\ UNCHANGED <<emitted, sent, foreign, detached, stream, daemon, feed>>

Next ==
    \/ \E s \in Stream : Open(s) \/ NotDescribed(s) \/ ReadTail(s) \/ Subscribe(s)
                       \/ ClientLeaves(s)
    \/ \E s \in Stream, p \in Proc : Described(s, p)
    \/ \E p \in Proc : Started(p) \/ Renamed(p) \/ Deleted(p) \/ LogLine(p) \/ AppendLine(p)
    \/ \E b \in Bus : Attach(b) \/ BusEnds(b)

Spec == Init /\ [][Next]_vars

-----------------------------------------------------------------------------
(* Every variable stays in its type; a stream that got past describe knows  *)
(* its process.                                                            *)
TypeOK ==
    /\ pc \in [Stream -> {"idle", "describe", "backlog", "replay", "open", "done"}]
    /\ proc \in [Stream -> Proc \cup {None}]
    /\ pmId \in [Stream -> PmId \cup {None}] /\ name \in [Stream -> Name \cup {None}]
    /\ \A s \in Stream : pc[s] \in {"backlog", "replay", "open"} =>
          proc[s] \in Proc /\ pmId[s] \in PmId /\ name[s] \in Name
    /\ clients \subseteq Stream /\ listeners \subseteq Stream /\ beats \subseteq Stream
    /\ idOf \in [Proc -> PmId \cup {None, Gone}] /\ nameOf \in [Proc -> Name]
    /\ bus \in Bus \cup {None} /\ heard \subseteq Bus
    /\ written \in [Proc -> 0..MaxLines] /\ emitted \in [Proc -> 0..MaxLines]
    /\ backlog \in [Stream -> [skipped: 0..MaxLines, upto: 0..MaxLines]]
    /\ sent \in [Stream -> SUBSET (Proc \X (1..MaxLines))]
    /\ since \in [Stream -> 0..MaxLines]
    /\ foreign \subseteq Stream
    /\ detached \in [Stream -> SUBSET (1..MaxLines)]

(* A subscription and its heartbeat are held together, by the open streams *)
(* and no others.                                                          *)
ResourcesBelongToOpenStreams ==
    /\ listeners = beats
    /\ listeners = {s \in Stream : pc[s] = "open"}

(* What a viewer misses: lines that were in the file before the tail, lines  *)
(* that were written after the file was read and came over the bus before   *)
(* the stream subscribed, and lines that came while the service held no bus *)
(* (from the report of its end to the next operation).  Nothing else is     *)
(* lost, so the service never holds a bus that is dead, and a process that  *)
(* is renamed stays in its stream.  What a viewer is shown both from the    *)
(* file and live was in the file before its event came.  The replay is     *)
(* bounded.                                                                *)
Replayed(s) == {i \in 1..MaxLines : backlog[s].skipped < i /\ i <= backlog[s].upto}
Live(s)     == {i \in 1..MaxLines : <<proc[s], i>> \in sent[s]}

MissedOnlyInGap ==
    \A s \in Stream : pc[s] = "open" =>
        /\ \A i \in 1..emitted[proc[s]] :
              \/ i \in Replayed(s) \cup Live(s)
              \/ i <= backlog[s].skipped
              \/ backlog[s].upto < i /\ i <= since[s]
              \/ i \in detached[s]
        /\ \A i \in Replayed(s) \cap Live(s) : since[s] < i /\ i <= backlog[s].upto
        /\ backlog[s].upto - backlog[s].skipped <= BacklogLines

(* A stream shows another process under another name only when the process  *)
(* it was opened on has been deleted: as long as that is there, whatever is *)
(* renamed, started or deleted around it, what is mixed in bears the name   *)
(* it had when it was described.                                           *)
ForeignOnlyAfterDeletion ==
    \A s \in foreign : idOf[proc[s]] = Gone

(* "all resources are released when the client disconnects" (the header of  *)
(* logs.controller.ts): a client that is gone holds no resources.          *)
ReleasedOnDisconnect == \A s \in listeners : s \in clients
=============================================================================
