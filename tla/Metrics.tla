------------------------------ MODULE Metrics ------------------------------
(***************************************************************************)
(* Metric sampling and retention: metricsService, settingsController,      *)
(* the metrics, settings and activity repositories, activityService.prune. *)
(* The settings can change the sampling period while the collector runs,   *)
(* and the database outlives the process.                                  *)
(*                                                                         *)
(* Time is in ticks, timers count them down, and rows are known by their   *)
(* age, so the clock itself is not in the state; beyond MaxAge ages are    *)
(* not told apart, nor are the rows of one instant: the processes of one    *)
(* sweep, or of sweeps that were answered together.                        *)
(***************************************************************************)
EXTENDS Integers, FiniteSets

CONSTANTS
    Interval,         \* sampling periods the settings form accepts
    DefaultInterval,  \* config.metrics.intervalMs
    Retention,        \* retention windows it accepts
    DefaultRetention, \* config.metrics.retentionDays
    SweepEvery,       \* RETENTION_INTERVAL_MS
    MinActivity,      \* MIN_ACTIVITY_RETENTION_DAYS
    Timer,            \* handles of setInterval: bounds timers running at once
    MaxPending,       \* bound: pm2Service.list() calls in flight
    MaxAge,           \* ages from here on are one
    None

Age == 0 .. MaxAge

ASSUME MetricsAssumption ==
    /\ Interval \subseteq Nat \ {0} /\ DefaultInterval \in Nat \ {0}
    /\ Retention \subseteq Nat \ {0} /\ DefaultRetention \in Nat \ {0}
    /\ SweepEvery \in Nat \ {0} /\ MinActivity \in Nat
    /\ MaxAge \in Nat /\ MaxPending \in Nat \ {0}
    /\ \A r \in Retention \cup {DefaultRetention} : r + SweepEvery < MaxAge
    /\ None \notin Interval /\ None \notin Retention /\ None \notin Timer
    /\ None \notin [period: Nat, due: Nat]

VARIABLES
    up,           \* metricsService.start() has been called by a running process
    resting,      \* the process ended in this tick
    uptime,       \* ticks since start(), up to SweepEvery + 1
    timers,       \* the collection intervals that run: [Timer -> [period, due] or None]
    collectTimer, \* the handle the service remembers
    sweepDue,     \* ticks until the retention timer fires
    pending,      \* collectOnce calls waiting for pm2Service.list()
    interval,     \* table settings: metricsIntervalSeconds, or None
    retention,    \*                 metricsRetentionDays, or None
    rows,         \* table metrics: the ages of its rows
    activity      \* table activity_log: the ages of its entries

settings == <<interval, retention>>
vars == <<up, resting, uptime, timers, collectTimer, sweepDue, pending,
          interval, retention, rows, activity>>

EffectiveInterval  == IF interval = None THEN DefaultInterval ELSE interval
EffectiveRetention == IF retention = None THEN DefaultRetention ELSE retention

Larger(a, b) == IF a >= b THEN a ELSE b
ActivityRetention == Larger(EffectiveRetention * 4, MinActivity)

Running == {t \in Timer : timers[t] # None}
Armed(period) == [period |-> period, due |-> period]

Init ==
    /\ up = FALSE /\ resting = FALSE /\ uptime = 0
    /\ timers = [t \in Timer |-> None] /\ collectTimer = None
    /\ sweepDue = SweepEvery /\ pending = 0
    /\ interval = None /\ retention = None
    /\ rows = {} /\ activity = {}

-----------------------------------------------------------------------------
(* start: bootstrap calls it once, in a fresh process.                     *)
Start ==
    /\ ~up /\ ~resting
    /\ up' = TRUE /\ uptime' = 0
    /\ \E t \in Timer : /\ timers' = [timers EXCEPT ![t] = Armed(EffectiveInterval)]
                        /\ collectTimer' = t
    /\ sweepDue' = SweepEvery
    /\ pending' = 1
    /\ UNCHANGED <<resting, settings, rows, activity>>

(* A collection timer fires: collectOnce asks for the process list.        *)
Collect(t) ==
    /\ timers[t] # None
    /\ timers[t].due = 0
    /\ pending < MaxPending
    /\ pending' = pending + 1
    /\ timers' = [timers EXCEPT ![t] = Armed(timers[t].period)]
    /\ UNCHANGED <<up, resting, uptime, collectTimer, sweepDue, settings, rows, activity>>

(* list() answered: the timestamp is taken now, for all the rows.          *)
Insert ==
    /\ pending > 0
    /\ pending' = pending - 1
    /\ rows' = rows \cup {0}
    /\ UNCHANGED <<up, resting, uptime, timers, collectTimer, sweepDue, settings, activity>>

(* list() failed, or there are no processes: nothing is inserted.          *)
CollectFails ==
    /\ pending > 0
    /\ pending' = pending - 1
    /\ UNCHANGED <<up, resting, uptime, timers, collectTimer, sweepDue, settings, rows, activity>>

(* Rows older than the cutoff are deleted, in days.                        *)
DeleteOlderThan(days) == rows' = {a \in rows : a <= days}
Prune(days) == activity' = {a \in activity : a <= days}

(* Mutant: the audit log is kept for the metrics window.                   *)
RunRetentionAlike ==
    /\ up /\ sweepDue = 0
    /\ DeleteOlderThan(EffectiveRetention)
    /\ Prune(EffectiveRetention)
    /\ sweepDue' = SweepEvery
    /\ UNCHANGED <<up, resting, uptime, timers, collectTimer, pending, settings>>

(* runRetention: metrics by their window, the audit log by a longer one.    *)
RunRetention ==
    /\ up /\ sweepDue = 0
    /\ DeleteOlderThan(EffectiveRetention)
    /\ Prune(ActivityRetention)
    /\ sweepDue' = SweepEvery
    /\ UNCHANGED <<up, resting, uptime, timers, collectTimer, pending, settings>>

(* reschedule: clear the old timer, start one with the new period.         *)
Reschedule(period) ==
    \E t \in Timer \ Running :
       /\ timers' = [x \in Timer |-> IF x = t THEN Armed(period)
                                     ELSE IF x = collectTimer THEN None ELSE timers[x]]
       /\ collectTimer' = t

Store(i, r) ==
    /\ interval' = IF i # None THEN i ELSE interval
    /\ retention' = IF r # None THEN r ELSE retention

(* Mutant: the retention timer is restarted along with the collection one.  *)
UpdateSettingsRestartingAll(i, r) ==
    /\ up
    /\ Store(i, r)
    /\ IF i # None THEN Reschedule(EffectiveInterval') ELSE UNCHANGED <<timers, collectTimer>>
    /\ sweepDue' = SweepEvery
    /\ activity' \in {activity, activity \cup {0}}
    /\ UNCHANGED <<up, resting, uptime, pending, rows>>

(* Mutant: the collector is rescheduled before the setting is stored.       *)
UpdateSettingsEarly(i, r) ==
    /\ up
    /\ Store(i, r)
    /\ IF i # None THEN Reschedule(EffectiveInterval) ELSE UNCHANGED <<timers, collectTimer>>
    /\ activity' \in {activity, activity \cup {0}}
    /\ UNCHANGED <<up, resting, uptime, sweepDue, pending, rows>>

(* PUT /api/settings with the fields that are present; an entry that the    *)
(* database refuses is left out.                                           *)
UpdateSettings(i, r) ==
    /\ up
    /\ Store(i, r)
    /\ IF i # None THEN Reschedule(EffectiveInterval') ELSE UNCHANGED <<timers, collectTimer>>
    /\ activity' \in {activity, activity \cup {0}}
    /\ UNCHANGED <<up, resting, uptime, sweepDue, pending, rows>>

(* The process ends, by stop() and exit or by a crash.  A restart takes     *)
(* at least a tick.                                                        *)
Exit ==
    /\ up
    /\ up' = FALSE /\ resting' = TRUE
    /\ timers' = [t \in Timer |-> None] /\ collectTimer' = None
    /\ pending' = 0
    /\ UNCHANGED <<uptime, sweepDue, settings, rows, activity>>

(* The next tick.  A timer that is due fires first; the daemon may take     *)
(* longer to answer than its tick, and than the period.                    *)
Older(ages) == {IF a = MaxAge THEN MaxAge ELSE a + 1 : a \in ages}

Advance ==
    /\ \A t \in Running : timers[t].due > 0
    /\ up => sweepDue > 0
    /\ timers' = [t \in Timer |-> IF t \in Running THEN [timers[t] EXCEPT !.due = timers[t].due - 1]
                                  ELSE None]
    /\ sweepDue' = IF up THEN sweepDue - 1 ELSE sweepDue
    /\ uptime' = IF up /\ uptime <= SweepEvery THEN uptime + 1 ELSE uptime
    /\ resting' = FALSE
    /\ rows' = Older(rows) /\ activity' = Older(activity)
    /\ UNCHANGED <<up, collectTimer, pending, settings>>

Next ==
    \/ Start \/ Insert \/ CollectFails \/ RunRetention \/ Exit \/ Advance
    \/ \E t \in Timer : Collect(t)
    \/ \E i \in Interval \cup {None}, r \in Retention \cup {None} : UpdateSettings(i, r)

Spec == Init /\ [][Next]_vars

-----------------------------------------------------------------------------
(* Every variable stays in its type, and a process that ended waits for     *)
(* no answer and has no timer.                                             *)
TypeOK ==
    /\ up \in BOOLEAN /\ resting \in BOOLEAN
    /\ uptime \in Nat /\ sweepDue \in Nat
    /\ timers \in [Timer -> [period: Nat \ {0}, due: Nat] \cup {None}]
    /\ collectTimer \in Timer \cup {None}
    /\ pending \in Nat
    /\ interval \in Interval \cup {None} /\ retention \in Retention \cup {None}
    /\ rows \subseteq Age /\ activity \subseteq Age
    /\ ~up => Running = {} /\ pending = 0

(* "Re-read the persisted settings and restart the collection timer": while *)
(* the server runs there is exactly one collection timer, it is the one    *)
(* the service would clear next, and its period is the one the settings    *)
(* page shows - after any sequence of updates and restarts.                *)
OneCollector ==
    up => Running = {collectTimer} /\ timers[collectTimer].period = EffectiveInterval

(* History is kept: whoever shortens the window or restarts the server, no  *)
(* sample younger than the window in force is deleted, and no audit entry  *)
(* younger than MIN_ACTIVITY_RETENTION_DAYS "regardless of the (potentially *)
(* much shorter) metrics retention window".                                *)
HistoryKept ==
    [][\/ rows' = Older(rows) /\ activity' = Older(activity)
       \/ /\ \A a \in rows \ rows' : a > EffectiveRetention
          /\ \A a \in activity \ activity' : a > MinActivity]_vars

(* "A separate, slower timer prunes old metric samples": a process that has *)
(* run for a sweep period has no sample older than the longest window plus *)
(* that period, whatever is done with the settings meanwhile.              *)
SweptInTime ==
    up /\ uptime > SweepEvery =>
        \A a \in rows : \E r \in Retention \cup {DefaultRetention} : a <= r + SweepEvery
=============================================================================
