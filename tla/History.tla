------------------------------ MODULE History -------------------------------
(***************************************************************************)
(* Process history: the window and the buckets the server answers with     *)
(* (history.controller.ts, metrics.repository.ts), and the page that asks  *)
(* for them, draws them and zooms (the metrics part of app.js, chart.js).  *)
(*                                                                         *)
(* A sample stands for the rows one sweep inserted for the process; a      *)
(* point of a series for the average over the samples of its bucket.  Time *)
(* is in milliseconds from some epoch; pixels are counted from the left    *)
(* edge of the plot.                                                       *)
(***************************************************************************)
EXTENDS Integers, FiniteSets, Sequences

CONSTANTS
    TargetPoints,  \* TARGET_POINTS
    RangeMs,       \* spans of the preset ranges
    DefaultRange,  \* '1h'
    MinuteMs,      \* precision of the datetime-local inputs
    MinZoom,       \* shortest window a drag can select
    MinDrag,       \* pixels below which a drag is a click
    PlotW, PadL, PadR,
    MaxTime,       \* bound
    None

ASSUME HistoryAssumption ==
    /\ TargetPoints \in Nat \ {0} /\ PlotW \in Nat \ {0} /\ MinuteMs \in Nat \ {0}
    /\ RangeMs \subseteq Nat /\ DefaultRange \in RangeMs
    /\ MinZoom \in Nat /\ MinDrag \in Nat /\ PadL \in Nat /\ PadR \in Nat /\ MaxTime \in Nat
    /\ \A r \in RangeMs : r <= MaxTime
    /\ None \notin Int

VARIABLES
    now,
    samples,   \* timestamps of the rows in the table
    range,     \* metricsRange: a preset, or None for 'custom'
    preset,    \* metricsLastPreset
    custom,    \* metricsCustom
    asked,     \* the query under way, if any
    shown,     \* what the charts show: the points' times, and the window's bounds
    drag       \* where the button went down and where the pointer is

vars == <<now, samples, range, preset, custom, asked, shown, drag>>

Time == 0..MaxTime
Window == {w \in [since: Int, until: Int] : w.until <= MaxTime}

-----------------------------------------------------------------------------
(* The server.                                                             *)

(* Math.ceil of a quotient of natural numbers.                             *)
CeilDiv(a, b) == (a + b - 1) \div b

(* Mutant: the bucket is rounded down.                                     *)
BucketRoundedDown(since, until) ==
    LET span == IF until > since THEN until - since ELSE 0
        size == span \div TargetPoints
    IN IF size > 1 THEN size ELSE 1

BucketMsFor(since, until) ==
    LET span == IF until > since THEN until - since ELSE 0
        size == CeilDiv(span, TargetPoints)
    IN IF size > 1 THEN size ELSE 1

InWindow(S, since, until) == {t \in S : since <= t /\ t <= until}

(* GROUP BY CAST(timestamp / bucket AS INTEGER), of seriesForProcess and of  *)
(* aggregateSeries, whose samples are sums over the processes: the numbers  *)
(* of the buckets that hold a sample, and the samples of one.              *)
Groups(S, since, until) ==
    {t \div BucketMsFor(since, until) : t \in InWindow(S, since, until)}

SamplesOf(S, since, until, g) ==
    {t \in InWindow(S, since, until) : t \div BucketMsFor(since, until) = g}

(* The times of the points.                                                *)
SeriesForProcess(S, since, until) ==
    {g * BucketMsFor(since, until) : g \in Groups(S, since, until)}

(* The window of a query: a range that ends now, or explicit bounds.        *)
WindowOf(query) ==
    IF query.range = None THEN [since |-> query.from, until |-> query.to]
                          ELSE [since |-> now - query.range, until |-> now]

-----------------------------------------------------------------------------
(* The chart: geometry.                                                    *)

(* The points in the order of their times.                                 *)
Data == CHOOSE d \in [1..Cardinality(shown.points) -> shown.points] :
            \A i, j \in DOMAIN d : i < j => d[i] < d[j]
IsEmpty == shown.points = {}

XMin == CHOOSE x \in shown.points : \A y \in shown.points : x <= y
XMax == CHOOSE x \in shown.points : \A y \in shown.points : x >= y
XSpan == IF XMax = XMin THEN 1 ELSE XMax - XMin

(* xAt, scaled by PlotW to stay in the integers; and Math.round of it.      *)
ScaledXAt(px) == PlotW * XMin + px * XSpan
RoundXAt(px)  == (2 * ScaledXAt(px) + PlotW) \div (2 * PlotW)

(* nearestIndex's loop: the first point that is not left of xv.            *)
FirstNotBefore(d, xv) ==
    LET search[r \in (1..Len(d)) \X (1..Len(d))] ==  \* r is <<lo, hi>>
            LET mid == (r[1] + r[2]) \div 2 IN
            IF r[1] >= r[2] THEN r[1]
            ELSE IF PlotW * d[mid] < xv THEN search[<<mid + 1, r[2]>>] ELSE search[<<r[1], mid>>]
    IN search[<<1, Len(d)>>]

Distance(a, b) == IF a < b THEN b - a ELSE a - b

(* Mutant: the point to the right is taken, whatever is nearer.            *)
NextIndex(px) == FirstNotBefore(Data, ScaledXAt(px))

NearestIndex(px) ==
    LET d  == Data
        xv == ScaledXAt(px)
        lo == FirstNotBefore(d, xv)
    IN IF xv <= PlotW * d[1] THEN 1
       ELSE IF xv >= PlotW * d[Len(d)] THEN Len(d)
       ELSE IF lo > 1 /\ Distance(PlotW * d[lo - 1], xv) <= Distance(PlotW * d[lo], xv)
            THEN lo - 1 ELSE lo

-----------------------------------------------------------------------------
(* The page.                                                               *)

Preset(r) == [range |-> r, from |-> None, to |-> None]
NoCustom == [from |-> None, to |-> None]

Init ==
    /\ now \in Time /\ (\A r \in RangeMs : r <= now)
    /\ samples \in SUBSET (0..(now - 1))
    /\ range = DefaultRange /\ preset = DefaultRange /\ custom = NoCustom
    /\ asked = Preset(DefaultRange)
    /\ shown = [points |-> {}, since |-> 0, until |-> 0]
    /\ drag = None

page == <<range, preset, custom, asked, shown, drag>>

(* Time passes; a sweep inserts what it sampled.                           *)
Tick    == now < MaxTime /\ now' = now + 1 /\ UNCHANGED <<samples, page>>
Collect == samples' = samples \cup {now} /\ UNCHANGED <<now, page>>

(* The server answers and the page draws.                                  *)
Fetched ==
    /\ asked # None
    /\ LET w == WindowOf(asked) IN
       shown' = [points |-> SeriesForProcess(samples, w.since, w.until),
                 since |-> w.since, until |-> w.until]
    /\ asked' = None
    /\ UNCHANGED <<now, samples, range, preset, custom, drag>>

Failed ==
    /\ asked # None
    /\ shown' = [shown EXCEPT !.points = {}]
    /\ asked' = None
    /\ UNCHANGED <<now, samples, range, preset, custom, drag>>

(* fetchMetrics; a custom window without bounds asks nothing.              *)
Fetch(r, c) ==
    asked' = IF r = None /\ c.from = None THEN asked
             ELSE [range |-> r, from |-> c.from, to |-> c.to]

(* The model keeps one query under way; answers that overtake each other    *)
(* are in Views.                                                           *)
Idle == asked = None

(* The range selector, and the interval that refreshes a preset range.      *)
SelectPreset(r) ==
    /\ Idle
    /\ range' = r /\ preset' = r /\ custom' = NoCustom
    /\ Fetch(r, NoCustom)
    /\ UNCHANGED <<now, samples, shown, drag>>

SelectCustom ==
    /\ Idle
    /\ range' = None
    /\ custom' = IF custom.from = None THEN [from |-> now - DefaultRange, to |-> now] ELSE custom
    /\ Fetch(None, custom')
    /\ UNCHANGED <<now, samples, preset, shown, drag>>

Poll ==
    /\ Idle /\ range # None
    /\ Fetch(range, NoCustom)
    /\ UNCHANGED <<now, samples, range, preset, custom, shown, drag>>

(* Apply: the two inputs hold minutes; the end must be after the start.     *)
Apply(from, to) ==
    /\ Idle /\ range = None
    /\ from % MinuteMs = 0 /\ to % MinuteMs = 0 /\ from < to
    /\ custom' = [from |-> from, to |-> to]
    /\ Fetch(None, custom')
    /\ UNCHANGED <<now, samples, range, preset, shown, drag>>

(* Mutant: the drag may start in the margins.                              *)
MouseDownAnywhere(px) ==
    /\ ~IsEmpty /\ drag = None
    /\ drag' = [start |-> px, at |-> px]
    /\ UNCHANGED <<now, samples, range, preset, custom, asked, shown>>

(* A drag starts in the plot of a chart that shows something.              *)
MouseDown(px) ==
    /\ ~IsEmpty /\ drag = None
    /\ 0 <= px /\ px <= PlotW
    /\ drag' = [start |-> px, at |-> px]
    /\ UNCHANGED <<now, samples, range, preset, custom, asked, shown>>

MouseMove(px) ==
    /\ ~IsEmpty /\ drag # None
    /\ drag' = [drag EXCEPT !.at = px]
    /\ UNCHANGED <<now, samples, range, preset, custom, asked, shown>>

Left  == IF drag.start < drag.at THEN drag.start ELSE drag.at
Right == IF drag.start < drag.at THEN drag.at ELSE drag.start

(* mouseup and onMetricsZoom, on what the chart shows by then.             *)
Zoom ==
    /\ Idle /\ drag # None /\ ~IsEmpty
    /\ Right - Left > MinDrag
    /\ LET from == RoundXAt(Left)
           to   == RoundXAt(Right)
       IN /\ to - from > MinZoom
          /\ range' = None /\ custom' = [from |-> from, to |-> to]
          /\ Fetch(None, custom')
    /\ drag' = None
    /\ UNCHANGED <<now, samples, preset, shown>>

(* A drag that selects too little, or ends on a chart that is empty by then  *)
(* and has no xAt: the handler throws.                                     *)
DropDrag ==
    /\ drag # None
    /\ ~IsEmpty => Right - Left <= MinDrag \/ RoundXAt(Right) - RoundXAt(Left) <= MinZoom
    /\ drag' = None
    /\ UNCHANGED <<now, samples, range, preset, custom, asked, shown>>

(* dblclick: back to the preset before the zoom.                           *)
Reset ==
    /\ Idle
    /\ range' = preset /\ custom' = NoCustom
    /\ Fetch(preset, NoCustom)
    /\ UNCHANGED <<now, samples, preset, shown, drag>>

Canvas == (0 - PadL)..(PlotW + PadR)

Next ==
    \/ Tick \/ Collect \/ Fetched \/ Failed \/ SelectCustom \/ Poll \/ Zoom \/ DropDrag \/ Reset
    \/ \E r \in RangeMs : SelectPreset(r)
    \/ \E from, to \in Time : Apply(from, to)
    \/ \E px \in Canvas : MouseDown(px) \/ MouseMove(px)

Spec == Init /\ [][Next]_vars

-----------------------------------------------------------------------------
(* Properties.                                                             *)

Query == [range: RangeMs \cup {None}, from: Int \cup {None}, to: Int \cup {None}]

(* The variables keep their types; custom bounds come in pairs, and a       *)
(* custom query has them.                                                  *)
TypeOK ==
    /\ now \in Time /\ (\A r \in RangeMs : r <= now)
    /\ samples \subseteq Time
    /\ range \in RangeMs \cup {None} /\ preset \in RangeMs
    /\ custom \in [from: Int \cup {None}, to: Int \cup {None}]
    /\ custom.from = None <=> custom.to = None
    /\ asked = None \/ (asked \in Query /\ (asked.range = None => asked.from # None /\ asked.to # None))
    /\ shown \in [points: SUBSET Int, since: Int, until: Int]
    /\ drag = None \/ drag \in [start: 0..PlotW, at: Canvas]

(* The series of a window covers it ("covers the whole window instead of    *)
(* silently truncating", metrics.repository.ts:20): every sample of the     *)
(* window is in the bucket of exactly one point, no later than its bucket's *)
(* end, every point has a sample, and there are at most one more points     *)
(* than asked for, since the first bucket may begin before the window.      *)
SeriesCoversWindow ==
    asked # None =>
        LET w == WindowOf(asked)
            b == BucketMsFor(w.since, w.until)
            P == SeriesForProcess(samples, w.since, w.until)
        IN /\ \A t \in InWindow(samples, w.since, w.until) :
                 Cardinality({p \in P : p <= t /\ t < p + b}) = 1
           /\ \A p \in P : \E t \in InWindow(samples, w.since, w.until) : p <= t /\ t < p + b
           /\ Cardinality(P) <= TargetPoints + 1

InPlot(px) == 0 <= px /\ px <= PlotW

(* "giving finer resolution as you zoom in" (app.js:852): a drag that ends    *)
(* in the plot selects a window whose buckets are no wider than those of     *)
(* the chart it was drawn on.                                              *)
ZoomNeverCoarser ==
    [][Zoom /\ InPlot(drag.at) =>
         BucketMsFor(custom'.from, custom'.to) <= BucketMsFor(shown.since, shown.until)]_vars

(* The point that is marked under the pointer is one that is nearest to it   *)
(* (chart.js:176), for any number and spacing of points.                    *)
HoverIsNearest ==
    ~IsEmpty =>
        \A px \in 0..PlotW :
            \A i \in 1..Len(Data) :
                Distance(PlotW * Data[NearestIndex(px)], ScaledXAt(px))
                    <= Distance(PlotW * Data[i], ScaledXAt(px))
=============================================================================
