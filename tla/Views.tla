------------------------------- MODULE Views --------------------------------
(***************************************************************************)
(* The signed-in page (app.js): its views, the interval that refreshes the  *)
(* one that is open, the choices a user makes in them, and the answers,     *)
(* which arrive in any order.  Requests are api.get calls: ApiClient has    *)
(* what happens to each of them on the way.  (What both modules have a name *)
(* for has this one's in it here.)                                         *)
(***************************************************************************)
EXTENDS Naturals, FiniteSets, Bags

CONSTANTS
    Range,         \* preset ranges
    Custom,        \* custom windows
    Proc,          \* processes
    HistoryTicks,  \* HISTORY_REFRESH_TICKS
    MaxFlight,     \* bound: requests under way
    Nothing

ASSUME ViewsAssumption ==
    /\ HistoryTicks \in Nat \ {0} /\ MaxFlight \in Nat
    /\ Nothing \notin Proc

VARIABLES
    view,       \* currentView
    timers,     \* the views whose intervals run
    busy, tick, \* of the interval that was set last
    dialog,     \* a menu, a dialog or the drawer is open
    flight,     \* the requests under way: a bag
    dashRange, dashShown,     \* the range chosen, and the one that is drawn
    process, range,           \* metricsProcess, metricsRange and metricsCustom
    metricsShown,             \* what the metrics charts are of
    logStream,  \* the process that is streamed
    sources     \* event sources that are not closed

viewsVars == <<view, timers, busy, tick, dialog, flight, dashRange, dashShown,
               process, range, metricsShown, logStream, sources>>

View   == {"dashboard", "processes", "metrics", "logs", "settings"}
Polled == {"dashboard", "processes", "metrics"}

Choice == [proc: Proc, range: Range \cup Custom]

(* A request and what its answer is for; `poll' tells those the running     *)
(* interval waits for.                                                     *)
Request ==
    [kind: {"summary", "firstSummary", "processes", "names", "settings"},
     of: {Nothing}, poll: BOOLEAN]
    \cup [kind: {"history"}, of: Range, poll: BOOLEAN]
    \cup [kind: {"metrics"}, of: Choice, poll: BOOLEAN]
    \cup [kind: {"logs"}, of: Proc \cup {Nothing}, poll: {FALSE}]

Req(kind, of) == [kind |-> kind, of |-> of, poll |-> FALSE]
Polls(rs) == {[r EXCEPT !.poll = TRUE] : r \in rs}

With(b, rs) == b (+) SetToBag(rs)
Without(b, r) == b (-) SetToBag({r})

Send(rs) == flight' = With(flight, rs)

ViewsInit ==
    /\ view = "dashboard" /\ timers = {"dashboard"} /\ busy = FALSE /\ tick = 0
    /\ dialog = FALSE
    /\ flight = SetToBag({Req("firstSummary", Nothing)})
    /\ dashRange \in Range /\ dashShown = Nothing
    /\ process = Nothing /\ range \in Range /\ metricsShown = Nothing
    /\ logStream = Nothing /\ sources = 0

Room == BagCardinality(flight) < MaxFlight

dash    == <<dashRange, dashShown>>
metrics == <<process, range, metricsShown>>
logs    == <<logStream, sources>>
poller  == <<timers, busy, tick>>

-----------------------------------------------------------------------------
(* fetchMetrics: nothing is asked without a process.                        *)
Fetches(p, r) == IF p = Nothing THEN {} ELSE {Req("metrics", [proc |-> p, range |-> r])}

(* What is cleared when there is nothing to ask.                           *)
ShownWithout(p) == IF p = Nothing THEN Nothing ELSE metricsShown

(* loadView.                                                               *)
Loads(v) ==
    CASE v = "dashboard" -> {Req("firstSummary", Nothing)}
      [] v = "processes" -> {Req("processes", Nothing)}
      [] v = "metrics"   -> {Req("names", Nothing)}
      [] v = "logs"      -> {Req("logs", Nothing)}
      [] v = "settings"  -> {Req("settings", Nothing)}

(* stopLogs and startLogs.                                                 *)
StopLogs == logStream' = Nothing /\ sources' = IF logStream = Nothing THEN sources ELSE sources - 1

(* Mutant: the stream that runs is not closed.                             *)
StartLogsToo(p) == logStream' = p /\ sources' = sources + 1

StartLogs(p) == logStream' = p /\ sources' = IF logStream = Nothing THEN sources + 1 ELSE sources

Copies(r, b) == IF BagIn(r, b) THEN b[r] ELSE 0

(* The requests an interval that is gone waited for are nobody's.           *)
Orphaned(b) ==
    LET plain(r) == [r EXCEPT !.poll = FALSE]
    IN [r \in {plain(s) : s \in BagToSet(b)} |->
           Copies(r, b) + Copies([r EXCEPT !.poll = TRUE], b)]

(* Mutant: without stopPolling.                                            *)
ShowAndKeepPolling(v, also) ==
    /\ view' = v
    /\ IF view = "logs" /\ v # "logs" THEN StopLogs ELSE UNCHANGED logs
    /\ timers' = timers \cup ({v} \cap Polled) /\ busy' = FALSE /\ tick' = 0
    /\ flight' = With(Orphaned(flight), Loads(v) \cup also)
    /\ UNCHANGED <<dialog, dash, metrics>>

(* showView, and what openLogsFor adds to it.                              *)
Show(v, also) ==
    /\ view' = v
    /\ IF view = "logs" /\ v # "logs" THEN StopLogs ELSE UNCHANGED logs
    /\ timers' = {v} \cap Polled /\ busy' = FALSE /\ tick' = 0
    /\ flight' = With(Orphaned(flight), Loads(v) \cup also)
    /\ UNCHANGED <<dialog, dash, metrics>>

-----------------------------------------------------------------------------
(* The user.                                                               *)

ShowView(v) == Room /\ Show(v, {})

OpenLogsFor(p) ==
    /\ Room /\ view = "processes"
    /\ Show("logs", {Req("logs", p)})

(* One of the two buttons is disabled.                                     *)
PressStart(p) ==
    /\ view = "logs" /\ logStream = Nothing
    /\ StartLogs(p)
    /\ UNCHANGED <<view, poller, dialog, flight, dash, metrics>>

PressStop ==
    /\ view = "logs" /\ logStream # Nothing
    /\ StopLogs
    /\ UNCHANGED <<view, poller, dialog, flight, dash, metrics>>

ChooseDashRange(r) ==
    /\ view = "dashboard" /\ Room
    /\ dashRange' = r
    /\ Send({Req("history", r)})
    /\ UNCHANGED <<view, poller, dialog, dashShown, metrics, logs>>

RefreshDashboard ==
    /\ view = "dashboard" /\ Room
    /\ Send({Req("firstSummary", Nothing)})
    /\ UNCHANGED <<view, poller, dialog, dash, metrics, logs>>

(* The selectors, apply, a zoom and its reset: another process or window.   *)
ChooseMetrics(p, r) ==
    /\ view = "metrics" /\ Room
    /\ process' = IF process = Nothing THEN Nothing ELSE p
    /\ range' = r
    /\ Send(Fetches(process', r))
    /\ metricsShown' = ShownWithout(process')
    /\ UNCHANGED <<view, poller, dialog, dash, logs>>

ToggleDialog == dialog' = ~dialog /\ UNCHANGED <<view, poller, flight, dash, metrics, logs>>

User ==
    \/ \E v \in View : ShowView(v)
    \/ \E p \in Proc : OpenLogsFor(p) \/ PressStart(p)
    \/ PressStop \/ RefreshDashboard \/ ToggleDialog
    \/ \E r \in Range : ChooseDashRange(r)
    \/ \E p \in Proc, r \in Range \cup Custom : ChooseMetrics(p, r)

-----------------------------------------------------------------------------
(* The interval.                                                           *)

Jobs(v, t) ==
    CASE v = "dashboard" -> {Req("summary", Nothing)}
                              \cup (IF t % HistoryTicks = 0 THEN {Req("history", dashRange)} ELSE {})
      [] v = "processes" -> {Req("processes", Nothing)}
      [] v = "metrics"   -> IF range \in Custom THEN {} ELSE Fetches(process, range)

(* Mutant: a tick does not ask whether the last refresh is over.            *)
TickAnyway ==
    /\ ~dialog /\ Room
    /\ \E v \in timers :
         /\ tick' = (tick + 1) % HistoryTicks
         /\ busy' = (Jobs(v, tick + 1) # {})
         /\ Send(Polls(Jobs(v, tick + 1)))
         /\ metricsShown' = IF v = "metrics" /\ range \notin Custom THEN ShownWithout(process)
                                                                    ELSE metricsShown
    /\ UNCHANGED <<view, timers, dialog, dash, process, range, logs>>

(* The interval comes round: it skips while the last refresh is under way   *)
(* or something is open; a custom window is not refreshed.                  *)
Tick ==
    /\ ~busy /\ ~dialog /\ Room
    /\ \E v \in timers :
         /\ tick' = (tick + 1) % HistoryTicks
         /\ busy' = (Jobs(v, tick + 1) # {})
         /\ Send(Polls(Jobs(v, tick + 1)))
         /\ metricsShown' = IF v = "metrics" /\ range \notin Custom THEN ShownWithout(process)
                                                                    ELSE metricsShown
    /\ UNCHANGED <<view, timers, dialog, dash, process, range, logs>>

-----------------------------------------------------------------------------
(* Answers.                                                                *)

(* Promise.all(jobs).then(done, done): the last answer that the interval    *)
(* waits for.                                                              *)
Done(r) == busy' = (busy /\ (r.poll => \E s \in BagToSet(Without(flight, r)) : s.poll))

(* Mutant: the interval is told of answers only when they are good.         *)
FailsUnnoticed(r) ==
    /\ r.kind # "names"
    /\ flight' = Without(flight, r)
    /\ dashShown' = IF r.kind = "history" THEN Nothing ELSE dashShown
    /\ metricsShown' = IF r.kind = "metrics" THEN Nothing ELSE metricsShown
    /\ UNCHANGED <<view, timers, busy, tick, dialog, dashRange, process, range, logs>>

(* A request fails; charts are cleared by it, everything else stays.  A      *)
(* list of names that fails is an empty one.                               *)
Fails(r) ==
    /\ r.kind # "names"
    /\ flight' = Without(flight, r)
    /\ Done(r)
    /\ dashShown' = IF r.kind = "history" THEN Nothing ELSE dashShown
    /\ metricsShown' = IF r.kind = "metrics" THEN Nothing ELSE metricsShown
    /\ UNCHANGED <<view, timers, tick, dialog, dashRange, process, range, logs>>

(* loadMetrics: the process chosen before, or the first of the names.       *)
Named(names) ==
    /\ process' \in IF process \in names THEN {process}
                    ELSE IF names = {} THEN {Nothing} ELSE names
    /\ metricsShown' = ShownWithout(process')

(* What follows an answer that is good.                                    *)
Answered(r) ==
    LET follow(rs) == flight' = With(Without(flight, r), rs) IN
    /\ Done(r)
    /\ CASE r.kind = "firstSummary" ->
              follow({Req("history", dashRange)}) /\ UNCHANGED <<dash, metrics, logs>>
         [] r.kind = "history" ->
              follow({}) /\ dashShown' = r.of /\ UNCHANGED <<dashRange, metrics, logs>>
         [] r.kind = "names" ->
              /\ \E names \in SUBSET Proc : Named(names)
              /\ follow(Fetches(process', range)) /\ UNCHANGED <<range, dash, logs>>
         [] r.kind = "metrics" ->
              follow({}) /\ metricsShown' = r.of /\ UNCHANGED <<process, range, dash, logs>>
         [] r.kind = "logs" /\ r.of # Nothing ->
              /\ follow({}) /\ UNCHANGED <<dash, metrics>>
              /\ StartLogs(r.of) \/ UNCHANGED logs  \* the process may be gone
         [] OTHER -> follow({}) /\ UNCHANGED <<dash, metrics, logs>>
    /\ UNCHANGED <<view, timers, tick, dialog>>

Settled(r) == r \in BagToSet(flight) /\ (Answered(r) \/ Fails(r))

ViewsNext ==
    \/ User
    \/ Tick
    \/ \E r \in BagToSet(flight) : Settled(r)

ViewsSpec == ViewsInit /\ [][ViewsNext]_viewsVars

(* Requests are answered, well or badly, and the interval comes round.      *)
ViewsFairSpec == ViewsSpec /\ WF_viewsVars(Tick) /\ \A r \in Request : WF_viewsVars(Settled(r))

-----------------------------------------------------------------------------
(* The variables keep their types; an interval runs for the view that is    *)
(* open and for no other.                                                  *)
ViewsTypeOK ==
    /\ view \in View /\ timers = {view} \cap Polled
    /\ busy \in BOOLEAN /\ tick \in 0..(HistoryTicks - 1) /\ dialog \in BOOLEAN
    /\ IsABag(flight) /\ BagToSet(flight) \subseteq Request
    /\ dashRange \in Range /\ dashShown \in Range \cup {Nothing}
    /\ process \in Proc \cup {Nothing} /\ range \in Range \cup Custom
    /\ metricsShown \in Choice \cup {Nothing}
    /\ logStream \in Proc \cup {Nothing}

(* Nothing piles up behind a slow server ("skip a tick if the previous       *)
(* refresh is still in flight", app.js:904): the running interval waits for *)
(* one refresh at most; and no more than one event source is open, the one  *)
(* that can be closed, wherever its start came from.                       *)
NothingPilesUp ==
    /\ \A r, s \in BagToSet(flight) :
         r.poll /\ s.poll => flight[r] = 1 /\ (r.kind = s.kind => r = s)
    /\ sources = IF logStream = Nothing THEN 0 ELSE 1

(* Answers that overtake each other do no lasting harm: once the user stops *)
(* acting, with the view open and nothing in front of it, the charts come   *)
(* to show what is chosen, or nothing when that fails; a preset range is    *)
(* meant, since custom windows are not asked for again.                    *)
Quiet(v) == <>[][~User]_viewsVars /\ <>[](view = v /\ ~dialog)

ShownCatchesUp ==
    /\ Quiet("dashboard") => <>[](dashShown \in {dashRange, Nothing})
    /\ Quiet("metrics") /\ <>[](range \in Range)
         => <>[](metricsShown \in {Nothing, [proc |-> process, range |-> range]})
=============================================================================
