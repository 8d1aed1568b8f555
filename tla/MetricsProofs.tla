--------------------------- MODULE MetricsProofs ---------------------------
(***************************************************************************)
(* The collection timer of Metrics, for every setting and any number of    *)
(* timer handles: proofs that the variables stay in their types, that      *)
(* exactly one collector runs with the period of the stored settings, that *)
(* history is kept for its window and no longer - however long the daemon  *)
(* takes to answer, and whether sweeps overlap or not.                     *)
(***************************************************************************)
EXTENDS Metrics, TLAPS

USE MetricsAssumption

(* The period in force is one a timer may have.                            *)
LEMMA EffectiveOK ==
    ASSUME interval \in Interval \cup {None}
    PROVE  EffectiveInterval \in Nat \ {0}
BY DEF EffectiveInterval

(* A timer that has just been started.                                     *)
LEMMA ArmedOK ==
    ASSUME NEW p \in Nat \ {0}
    PROVE  /\ Armed(p) \in [period: Nat \ {0}, due: Nat]
           /\ Armed(p).period = p /\ Armed(p) # None
BY DEF Armed

(* What TypeOK says of the timers, alone: the part most actions disturb.    *)
TimersOK == timers \in [Timer -> [period: Nat \ {0}, due: Nat] \cup {None}]

(* reschedule leaves exactly the timer it starts.                          *)
LEMMA RescheduleOne ==
    ASSUME TimersOK, NEW p \in Nat \ {0}, Reschedule(p), Running \subseteq {collectTimer}
    PROVE  /\ TimersOK' /\ collectTimer' \in Timer
           /\ Running' = {collectTimer'} /\ timers'[collectTimer'].period = p
<1>1. PICK t \in Timer \ Running :
         /\ timers' = [x \in Timer |-> IF x = t THEN Armed(p)
                                       ELSE IF x = collectTimer THEN None ELSE timers[x]]
         /\ collectTimer' = t
  BY DEF Reschedule
<1>2. Armed(p) \in [period: Nat \ {0}, due: Nat] /\ Armed(p).period = p /\ Armed(p) # None
  BY ArmedOK
<1>3. \A x \in Timer : x # t => timers'[x] = None
  BY <1>1 DEF Running
<1> QED BY <1>1, <1>2, <1>3 DEF Running, TimersOK

Inv == TypeOK /\ OneCollector

LEMMA Initially == Init => Inv
<1> SUFFICES ASSUME Init PROVE Inv
  OBVIOUS
<1>1. Running = {}
  BY DEF Init, Running
<1>2. rows \subseteq Age
  BY DEF Init
<1>3. timers \in [Timer -> [period: Nat \ {0}, due: Nat] \cup {None}]
  BY DEF Init
<1> QED BY <1>1, <1>2, <1>3 DEF Init, Inv, TypeOK, OneCollector

LEMMA Inductive == Inv /\ [Next]_vars => Inv'
<1> SUFFICES ASSUME Inv, [Next]_vars PROVE Inv'
  OBVIOUS
<1> USE DEF Inv
<1>a. TimersOK
  BY DEF TypeOK, TimersOK
<1>e. EffectiveInterval \in Nat \ {0}
  BY EffectiveOK DEF TypeOK
<1>1. CASE Start
  <2>1. PICK t \in Timer : /\ timers' = [timers EXCEPT ![t] = Armed(EffectiveInterval)]
                           /\ collectTimer' = t
    BY <1>1 DEF Start
  <2>2. /\ Armed(EffectiveInterval) \in [period: Nat \ {0}, due: Nat]
        /\ Armed(EffectiveInterval).period = EffectiveInterval /\ Armed(EffectiveInterval) # None
    BY <1>e, ArmedOK
  <2>3. Running = {}
    BY <1>1 DEF Start, TypeOK
  <2>4. Running' = {t} /\ timers'[t].period = EffectiveInterval /\ TimersOK'
    BY <2>1, <2>2, <2>3, <1>a DEF Running, TimersOK
  <2>5. EffectiveInterval' = EffectiveInterval
    BY <1>1 DEF Start, settings, EffectiveInterval
  <2>6. OneCollector'
    BY <2>1, <2>4, <2>5 DEF OneCollector
  <2>7. TypeOK'
    BY <1>1, <2>1, <2>4 DEF TypeOK, TimersOK, Start, settings
  <2> QED BY <2>6, <2>7
<1>2. CASE \E t \in Timer : Collect(t)
  <2>1. PICK t \in Timer : Collect(t)
    BY <1>2
  <2>2. timers[t] \in [period: Nat \ {0}, due: Nat]
    BY <2>1, <1>a DEF Collect, TimersOK
  <2>3. /\ Armed(timers[t].period) \in [period: Nat \ {0}, due: Nat]
        /\ Armed(timers[t].period).period = timers[t].period /\ Armed(timers[t].period) # None
    BY <2>2, ArmedOK
  <2>4. TimersOK' /\ Running' = Running /\ \A x \in Running : timers'[x].period = timers[x].period
    BY <2>1, <2>2, <2>3, <1>a DEF Collect, Running, TimersOK
  <2>5. up' = up /\ collectTimer' = collectTimer /\ EffectiveInterval' = EffectiveInterval
    BY <2>1 DEF Collect, settings, EffectiveInterval
  <2>6. OneCollector'
    BY <2>4, <2>5 DEF OneCollector
  <2>7. up
    BY <2>1, <2>2, <1>a DEF TypeOK, Running, Collect
  <2>8. TypeOK'
    BY <2>1, <2>4, <2>5, <2>7 DEF TypeOK, TimersOK, Collect, settings
  <2> QED BY <2>6, <2>8
<1>3. CASE Insert \/ CollectFails
  <2>1. pending' \in Nat /\ up
    BY <1>3 DEF Insert, CollectFails, TypeOK
  <2>2. rows' \subseteq Age
    <3>1. 0 \in Age
      BY DEF Age
    <3> QED BY <3>1, <1>3 DEF Insert, CollectFails, TypeOK
  <2>3. UNCHANGED <<up, resting, uptime, timers, collectTimer, sweepDue, interval, retention, activity>>
    BY <1>3 DEF Insert, CollectFails, settings
  <2> QED BY <2>1, <2>2, <2>3 DEF TypeOK, OneCollector, Running, EffectiveInterval
<1>4. CASE RunRetention
  <2>1. rows' \subseteq Age /\ activity' \subseteq Age /\ sweepDue' \in Nat
    BY <1>4 DEF RunRetention, DeleteOlderThan, Prune, TypeOK
  <2> QED BY <1>4, <2>1 DEF RunRetention, DeleteOlderThan, Prune, TypeOK, OneCollector, Running, settings, EffectiveInterval
<1>5. CASE \E i \in Interval \cup {None}, r \in Retention \cup {None} : UpdateSettings(i, r)
  <2>1. PICK i \in Interval \cup {None}, r \in Retention \cup {None} : UpdateSettings(i, r)
    BY <1>5
  <2>2. interval' \in Interval \cup {None} /\ retention' \in Retention \cup {None}
    BY <2>1 DEF UpdateSettings, Store, TypeOK
  <2>3. activity' \subseteq Age
    BY <2>1 DEF UpdateSettings, TypeOK, Age
  <2>4. CASE i # None
    <3>1. EffectiveInterval' \in Nat \ {0}
      BY <2>2 DEF EffectiveInterval
    <3>2. Reschedule(EffectiveInterval')
      BY <2>1, <2>4 DEF UpdateSettings
    <3>3. Running \subseteq {collectTimer}
      BY <2>1 DEF UpdateSettings, OneCollector
    <3>4. /\ TimersOK' /\ collectTimer' \in Timer
          /\ Running' = {collectTimer'} /\ timers'[collectTimer'].period = EffectiveInterval'
      BY <3>1, <3>2, <3>3, <1>a, RescheduleOne
    <3> QED BY <2>1, <2>2, <2>3, <3>4 DEF UpdateSettings, TypeOK, TimersOK, OneCollector
  <2>5. CASE i = None
    <3>1. UNCHANGED <<timers, collectTimer, interval>>
      BY <2>1, <2>5 DEF UpdateSettings, Store
    <3> QED BY <2>1, <2>2, <2>3, <3>1
            DEF UpdateSettings, TypeOK, OneCollector, Running, EffectiveInterval
  <2> QED BY <2>4, <2>5
<1>6. CASE Exit
  BY <1>6 DEF Exit, TypeOK, OneCollector, Running, settings
<1>7. CASE Advance
  <2>1. \A x \in Running : timers[x] \in [period: Nat \ {0}, due: Nat] /\ timers[x].due > 0
    BY <1>7, <1>a DEF Advance, Running, TimersOK
  <2>2. \A x \in Running : /\ timers'[x] = [timers[x] EXCEPT !.due = timers[x].due - 1]
                           /\ timers'[x] \in [period: Nat \ {0}, due: Nat]
                           /\ timers'[x].period = timers[x].period
    <3> TAKE x \in Running
    <3>1. timers'[x] = [timers[x] EXCEPT !.due = timers[x].due - 1]
      BY <1>7 DEF Advance, Running
    <3> QED BY <3>1, <2>1
  <2>3. \A x \in Timer \ Running : timers'[x] = None
    BY <1>7 DEF Advance
  <2>4. DOMAIN timers' = Timer /\ timers' = [x \in Timer |-> timers'[x]]
    BY <1>7 DEF Advance
  <2>5. TimersOK' /\ Running' = Running
    BY <2>2, <2>3, <2>4 DEF TimersOK, Running
  <2>6. OneCollector'
    BY <1>7, <2>2, <2>5 DEF OneCollector, Advance, settings, EffectiveInterval
  <2>7. rows' \subseteq Age
    BY <1>7 DEF Advance, Older, TypeOK, Age
  <2>8. activity' \subseteq Age
    BY <1>7 DEF Advance, Older, TypeOK, Age
  <2>9. sweepDue' \in Nat /\ uptime' \in Nat
    BY <1>7 DEF Advance, TypeOK
  <2> QED BY <1>7, <2>5, <2>6, <2>7, <2>8, <2>9 DEF Advance, TypeOK, TimersOK, settings
<1>8. CASE UNCHANGED vars
  BY <1>8 DEF vars, TypeOK, OneCollector, Running, settings, EffectiveInterval
<1> QED BY <1>1, <1>2, <1>3, <1>4, <1>5, <1>6, <1>7, <1>8 DEF Next

LEMMA Invariant == Spec => []Inv
BY Initially, Inductive, PTL DEF Spec

(* Every variable stays in its type; a process that ended has no timer.    *)
THEOREM TypeCorrect == Spec => []TypeOK
<1>1. Inv => TypeOK
  BY DEF Inv
<1> QED BY Invariant, <1>1, PTL

(* While the server runs exactly one collection timer runs, it is the one  *)
(* the service remembers, and its period is the stored setting's.          *)
THEOREM CollectorUnique == Spec => []OneCollector
<1>1. Inv => OneCollector
  BY DEF Inv
<1> QED BY Invariant, <1>1, PTL
-----------------------------------------------------------------------------
(* No sample younger than the window in force and no audit entry younger   *)
(* than the minimum is ever deleted.                                       *)
THEOREM KeptForTheWindow == Spec => HistoryKept
<1> DEFINE Kept ==
       \/ rows' = Older(rows) /\ activity' = Older(activity)
       \/ /\ \A a \in rows \ rows' : a > EffectiveRetention
          /\ \A a \in activity \ activity' : a > MinActivity
<1>1. ASSUME TypeOK, Next PROVE Kept
  <2> USE <1>1
  <2>1. CASE Start \/ CollectFails \/ Exit \/ \E t \in Timer : Collect(t)
    BY <2>1 DEF Start, CollectFails, Exit, Collect
  <2>2. CASE Insert
    BY <2>2 DEF Insert
  <2>3. CASE RunRetention
    <3>0. EffectiveRetention \in Nat /\ \A a \in Age : a \in Int
      BY DEF EffectiveRetention, TypeOK, Age
    <3>1. \A a \in rows \ rows' : a > EffectiveRetention
      BY <2>3, <3>0 DEF RunRetention, DeleteOlderThan, Prune, TypeOK
    <3>2. ActivityRetention >= MinActivity /\ ActivityRetention \in Nat
      BY <3>0 DEF ActivityRetention, Larger
    <3>4. \A a \in activity \ activity' : a > MinActivity
      BY <2>3, <3>0, <3>2 DEF RunRetention, DeleteOlderThan, Prune, TypeOK
    <3> QED BY <3>1, <3>4
  <2>4. CASE \E i \in Interval \cup {None}, r \in Retention \cup {None} : UpdateSettings(i, r)
    BY <2>4 DEF UpdateSettings
  <2>5. CASE Advance
    BY <2>5 DEF Advance
  <2> QED BY <2>1, <2>2, <2>3, <2>4, <2>5 DEF Next
<1>2. TypeOK /\ [Next]_vars => [Kept]_vars
  BY <1>1
<1> QED BY TypeCorrect, <1>2, PTL DEF Spec, HistoryKept

-----------------------------------------------------------------------------
(* Before the first sweep of a process the retention timer counts down with *)
(* the uptime; from then on the oldest sample is as old as the longest     *)
(* window and the time since the sweep.                                    *)
Window == Retention \cup {DefaultRetention}
Bounded(extra) == \A a \in rows : \E r \in Window : a <= r + extra

SweepInv ==
    /\ sweepDue <= SweepEvery
    /\ up => \/ uptime <= SweepEvery /\ sweepDue = SweepEvery - uptime
             \/ uptime >= SweepEvery /\ Bounded(SweepEvery - sweepDue)

LEMMA SweepInitially == Init => SweepInv
BY DEF Init, SweepInv

LEMMA SweepInductive == TypeOK /\ SweepInv /\ [Next]_vars => SweepInv'
<1> SUFFICES ASSUME TypeOK, SweepInv, [Next]_vars PROVE SweepInv'
  OBVIOUS
<1>w. Window \subseteq Nat /\ EffectiveRetention \in Window
  BY DEF Window, EffectiveRetention, TypeOK
<1>n. sweepDue \in Nat /\ uptime \in Nat
  BY DEF TypeOK
<1>g. \A a \in Age : a \in Int
  BY DEF Age
<1>1. CASE Start
  BY <1>1 DEF Start, SweepInv
<1>2. CASE \/ CollectFails \/ Exit \/ UNCHANGED vars \/ \E t \in Timer : Collect(t)
           \/ \E i \in Interval \cup {None}, r \in Retention \cup {None} : UpdateSettings(i, r)
  <2>1. UNCHANGED <<rows, uptime, sweepDue>> /\ (up' => up)
    BY <1>2 DEF CollectFails, Exit, vars, Collect, UpdateSettings
  <2> QED BY <2>1 DEF SweepInv, Bounded
<1>3. CASE Insert
  <2>1. UNCHANGED <<up, uptime, sweepDue>>
    BY <1>3 DEF Insert
  <2>2. ASSUME Bounded(SweepEvery - sweepDue) PROVE Bounded(SweepEvery - sweepDue)'
    <3> SUFFICES ASSUME NEW a \in rows'
                 PROVE  \E r \in Window : a <= r + (SweepEvery - sweepDue)
      BY <2>1 DEF Bounded
    <3>1. CASE a = 0
      BY <3>1, <1>w, <1>n DEF SweepInv
    <3>2. CASE a # 0
      BY <3>2, <2>2, <1>3 DEF Insert, Bounded, TypeOK
    <3> QED BY <3>1, <3>2
  <2> QED BY <2>1, <2>2 DEF SweepInv
<1>4. CASE RunRetention
  <2>1. up' = up /\ uptime' = uptime /\ sweepDue' = SweepEvery /\ sweepDue = 0 /\ up
    BY <1>4 DEF RunRetention, DeleteOlderThan, Prune
  <2>2. Bounded(0)'
    <3> SUFFICES ASSUME NEW a \in rows'
                 PROVE  \E r \in Window : a <= r + 0
      BY DEF Bounded
    <3>1. a \in rows /\ a <= EffectiveRetention
      BY <1>4 DEF RunRetention, DeleteOlderThan, Prune
    <3>2. a <= EffectiveRetention + 0
      BY <3>1, <1>w, <1>g DEF TypeOK
    <3> QED BY <3>2, <1>w
  <2>3. uptime >= SweepEvery
    BY <2>1, <1>n DEF SweepInv
  <2>4. SweepEvery - sweepDue' = 0
    BY <2>1
  <2> QED BY <2>1, <2>2, <2>3, <2>4 DEF SweepInv, Bounded
<1>5. CASE Advance
  <2>1. CASE ~up
    BY <1>5, <2>1 DEF Advance, SweepInv
  <2>2. CASE up
    <3>1. /\ up' = up /\ sweepDue > 0 /\ sweepDue' = sweepDue - 1 /\ rows' = Older(rows)
          /\ uptime' = IF uptime <= SweepEvery THEN uptime + 1 ELSE uptime
      BY <1>5, <2>2 DEF Advance
    <3>2. CASE uptime <= SweepEvery /\ sweepDue = SweepEvery - uptime
      BY <3>1, <3>2, <1>n DEF SweepInv
    <3>3. CASE uptime >= SweepEvery /\ Bounded(SweepEvery - sweepDue)
      <4>1. Bounded(SweepEvery - sweepDue)'
        <5> SUFFICES ASSUME NEW a \in rows'
                     PROVE  \E r \in Window : a <= r + (SweepEvery - sweepDue')
          BY DEF Bounded
        <5>1. PICK b \in rows : a = IF b = MaxAge THEN MaxAge ELSE b + 1
          BY <3>1 DEF Older
        <5>2. b \in Int /\ MaxAge \in Nat
          BY <1>g DEF TypeOK
        <5>3. PICK r \in Window : b <= r + (SweepEvery - sweepDue)
          BY <3>3 DEF Bounded
        <5>4. r \in Nat /\ a <= b + 1
          BY <5>1, <5>2, <1>w
        <5>5. a <= r + (SweepEvery - sweepDue')
          BY <5>1, <5>2, <5>3, <5>4, <3>1, <1>n
        <5> QED BY <5>5
      <4> QED BY <3>1, <3>3, <4>1, <1>n DEF SweepInv
    <3> QED BY <2>2, <3>2, <3>3 DEF SweepInv
  <2> QED BY <2>1, <2>2
<1> QED BY <1>1, <1>2, <1>3, <1>4, <1>5 DEF Next

(* A process that has run for a sweep period has no sample older than the   *)
(* longest window plus that period.                                        *)
THEOREM SweptForEver == Spec => []SweptInTime
<1>1. TypeOK /\ SweepInv => SweptInTime
  <2> SUFFICES ASSUME TypeOK, SweepInv, up, uptime > SweepEvery, NEW a \in rows
               PROVE  \E r \in Retention \cup {DefaultRetention} : a <= r + SweepEvery
    BY DEF SweptInTime
  <2>1. sweepDue \in Nat /\ uptime \in Nat /\ a \in Int
    BY DEF TypeOK, Age
  <2>2. PICK r \in Window : a <= r + (SweepEvery - sweepDue)
    BY <2>1 DEF SweepInv, Bounded
  <2> QED BY <2>1, <2>2 DEF Window
<1> QED BY TypeCorrect, SweepInitially, SweepInductive, <1>1, PTL DEF Spec

=============================================================================
