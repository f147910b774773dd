----------------------------- MODULE MetricsPage -----------------------------
(***************************************************************************)
(* The metrics page, MetricsPage.tsx: the range that is chosen (a preset,  *)
(* live, or a custom range), the query that is cached under it and, for    *)
(* presets and live, sent again at intervals; and what the server makes of *)
(* the range, parseDuration in metrics.go: a duration before now.          *)
(* Time counts in units of the caller's choice.                            *)
(***************************************************************************)
EXTENDS Integers, FiniteSets

CONSTANTS
    Presets,    \* "Past 15 Minutes" ...
    Live,       \* the preset of that name
    PastHour,   \* the preset at first
    Length,     \* how long each preset is
    Ranges,     \* custom ranges somebody may enter, <<from, to>>
    Month,      \* the longest duration the server looks back
    NoPreset, NoRange, NoTime, NoMetrics,
    FirstTime, MaxTime, \* bounds: the times at which a behaviour starts and ends
    MaxKeys             \* bound: keys the cache holds at once

Times == 0..MaxTime

ASSUME MetricsPageAssumption ==
    /\ PastHour \in Presets /\ Live \notin Presets /\ NoPreset \notin Presets \cup {Live}
    /\ Length \in [Presets -> 1..Month]
    /\ Ranges \subseteq Times \X Times /\ NoRange \notin Times \X Times
    /\ Month \in Nat \ {0} /\ MaxTime \in Nat /\ MaxKeys \in Nat /\ FirstTime \in Times
    /\ NoTime \notin Nat

VARIABLES
    now,        \* the clock, which browser and server share
    open,       \* is the page mounted?
    preset,     \* selectedPreset
    range,      \* customRange
    liveStart,  \* liveStartRef
    metrics     \* the query cache

metricsVars == <<now, open, preset, range, liveStart, metrics>>

\* What was chosen; NoPreset when it is a custom range. liveStartRef outlives the
\* choice of a custom range and counts for live only.
Choices == [preset : Presets, range : {NoRange}, start : {NoTime}]
      \cup [preset : {Live}, range : {NoRange}, start : Times]
      \cup [preset : {NoPreset}, range : Times \X Times, start : {NoTime}]

Choice == [preset |-> preset, range |-> range,
           start |-> IF preset = Live THEN liveStart ELSE NoTime]

\* The queryKey.
KeyWithoutRange(c) == [c EXCEPT !.range = NoRange]      \* mutant
MetricsKey(c) == c

NoEntry == [asked |-> NoTime, choice |-> NoRange, data |-> NoMetrics, failed |-> "no"]

\* Keys that were never asked, or were forgotten, have no entry.
Entry(k) == IF k \in DOMAIN metrics THEN metrics[k] ELSE NoEntry
Put(k, e) == [x \in DOMAIN metrics \cup {k} |-> IF x = k THEN e ELSE metrics[x]]

Current == MetricsKey(Choice)

\* Within the bound; for a new key another one is forgotten first.
Room(c) == Cardinality(DOMAIN metrics \cup {MetricsKey(c)}) <= MaxKeys

\* A fetch starts, unless one is under way; an error stays until there is an
\* answer, but for a key without data.
Fetch(c) ==
    LET e == Entry(MetricsKey(c))
    IN  IF e.asked # NoTime THEN metrics
        ELSE Put(MetricsKey(c), [e EXCEPT !.asked = now, !.choice = c,
                                          !.failed = IF e.data = NoMetrics THEN "no" ELSE @])

MetricsInit ==
    /\ now = FirstTime /\ open = FALSE
    /\ preset = PastHour /\ range = NoRange /\ liveStart = NoTime
    /\ metrics = [k \in {} |-> NoEntry]
-----------------------------------------------------------------------------
\* The page shows the skeleton, an error, or the picker and the metrics.
PageError == IF open THEN Entry(Current).failed ELSE "no"
Metrics   == IF open /\ PageError = "no" THEN Entry(Current).data ELSE NoMetrics

AutoRefresh == preset # NoPreset /\ range = NoRange

Choose(p, r, s) ==
    /\ Metrics # NoMetrics
    /\ preset' = p /\ range' = r /\ liveStart' = s
    /\ Room(Choice')
    /\ metrics' = IF Choice' = Choice THEN metrics ELSE Fetch(Choice')
    /\ UNCHANGED <<now, open>>

HandlePresetSelect(p) == Choose(p, NoRange, NoTime)

SelectLive == Choose(Live, NoRange, now)

\* What a text or the calendar may mean: any two times, or one and the present.
ParsedTimes == Ranges \cup {<<f, now>> : f \in {q[1] : q \in Ranges}}

\* handleInputSubmit, handleExampleClick, handleCalendarApply.
ChooseRange(r) ==
    /\ r \in ParsedTimes
    /\ Choose(NoPreset, r, liveStart)

\* The interval: 5 seconds for live, 30 otherwise.
Refetch ==
    /\ open /\ AutoRefresh /\ Entry(Current).asked = NoTime
    /\ metrics' = Fetch(Choice)
    /\ UNCHANGED <<now, open, preset, range, liveStart>>

\* The button of the error view; the view "not configured" has none.
RetryMetrics ==
    /\ PageError = "down" /\ Entry(Current).asked = NoTime
    /\ metrics' = Fetch(Choice)
    /\ UNCHANGED <<now, open, preset, range, liveStart>>

(* The server. *)

\* parseDuration; live is sent as the time since the start, up to the asking.
ParseDuration(c, asked) ==
    LET between(f, t) == IF t - f <= 0 THEN Length[PastHour]
                         ELSE IF t - f > Month THEN Month ELSE t - f
    IN  IF c.preset = Live THEN between(c.start, asked)
        ELSE IF c.preset = NoPreset THEN between(c.range[1], c.range[2])
        ELSE Length[c.preset]

\* What is read is the history of that duration before the present.
Answer(k) ==
    /\ Entry(k).asked # NoTime
    /\ metrics' = Put(k, [NoEntry EXCEPT !.data =
           [choice |-> Entry(k).choice, asked |-> Entry(k).asked, to |-> now,
            from |-> now - ParseDuration(Entry(k).choice, Entry(k).asked)]])
    /\ UNCHANGED <<now, open, preset, range, liveStart>>

\* Any error, or "metrics not configured or no data yet".
Fails(k) ==
    /\ Entry(k).asked # NoTime
    /\ \E why \in {"down", "unconfigured"} :
          metrics' = Put(k, [NoEntry EXCEPT !.data = Entry(k).data, !.failed = why])
    /\ UNCHANGED <<now, open, preset, range, liveStart>>

\* After five minutes without use.
Forget(k) ==
    /\ Entry(k).asked = NoTime /\ ~(open /\ k = Current)
    /\ metrics' = [x \in DOMAIN metrics \ {k} |-> metrics[x]]
    /\ UNCHANGED <<now, open, preset, range, liveStart>>

OpenPage ==
    /\ ~open /\ Room(Choice)
    /\ open' = TRUE
    /\ metrics' = Fetch(Choice)
    /\ UNCHANGED <<now, preset, range, liveStart>>

\* The page's own state goes with it.
ClosePage ==
    /\ open
    /\ open' = FALSE
    /\ preset' = PastHour /\ range' = NoRange /\ liveStart' = NoTime
    /\ UNCHANGED <<now, metrics>>

Tick ==
    /\ now < MaxTime
    /\ now' = now + 1
    /\ UNCHANGED <<open, preset, range, liveStart, metrics>>
-----------------------------------------------------------------------------

MetricsNext ==
    \/ \E p \in Presets : HandlePresetSelect(p)
    \/ SelectLive \/ \E r \in Times \X Times : ChooseRange(r)
    \/ Refetch \/ RetryMetrics
    \/ \E k \in DOMAIN metrics : Answer(k) \/ Fails(k) \/ Forget(k)
    \/ OpenPage \/ ClosePage \/ Tick

MetricsPageSpec == MetricsInit /\ [][MetricsNext]_metricsVars

-----------------------------------------------------------------------------
\* Type correctness; a preset is chosen or a range, never both or neither, and live
\* has a start.
MetricsPageTypeOK ==
    /\ now \in FirstTime..MaxTime /\ open \in BOOLEAN
    /\ Choice \in Choices /\ liveStart \in Times \cup {NoTime}
    /\ DOMAIN metrics \subseteq Choices
    /\ \A k \in DOMAIN metrics :
          /\ metrics[k].asked \in Times \cup {NoTime}
          /\ metrics[k].choice \in Choices \cup {NoRange}
          /\ metrics[k].failed \in {"no", "down", "unconfigured"}
          /\ metrics[k].data \in {NoMetrics} \cup
                [choice : Choices, asked : Times, to : Times, from : -(MaxTime + Month)..MaxTime]

\* The metrics under a label were asked for it, whatever was chosen before and
\* answered late.
ShownIsChosen == Metrics # NoMetrics => Metrics.choice = Choice

\* What "Live since ..." shows begins no earlier than it says, but for what was asked
\* in the very instant of the choice: a duration of nothing counts as an hour.
LiveSinceStart ==
    Metrics # NoMetrics /\ preset = Live /\ Metrics.asked > liveStart => Metrics.from >= liveStart

\* What a preset shows reaches back as far as it says; what a custom range shows is
\* as long as the range, within a month. (That it lies where the range lies is not
\* so: the server is asked for a duration, and answers with the one before now.)
SpanIsChosen ==
    Metrics # NoMetrics =>
        LET span == Metrics.to - Metrics.from IN
        /\ preset \in Presets => span = Length[preset]
        /\ range # NoRange /\ range[2] - range[1] \in 1..Month => span = range[2] - range[1]

\* Metrics were asked for under the label above them, and are as long as it says.
LabelIsOfMetrics == ShownIsChosen /\ LiveSinceStart /\ SpanIsChosen
=============================================================================
