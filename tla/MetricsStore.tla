---------------------------- MODULE MetricsStore ----------------------------
(***************************************************************************)
(* Metrics of brokers, from the scrape to the answer:                      *)
(*                                                                         *)
(*   the collector  internal/metrics/collector.go: rounds of scrapes, one  *)
(*                  goroutine for each cluster, with scraper.go            *)
(*   the store      internal/metrics/store.go: a series for each metric,   *)
(*                  the latest snapshot, one day, a RWMutex                *)
(*   the handler    internal/api/handlers/metrics.go: several reads of the *)
(*                  store, each under a lock of its own                    *)
(*                                                                         *)
(* Time passes between any two steps.  time.Now carries a monotonic        *)
(* reading, so the clock never goes back.                                  *)
(***************************************************************************)
EXTENDS Integers, Sequences, SequencesExt

CONSTANTS
    Clusters,    \* clusters with a metrics URL
    Names,       \* names of metrics
    Readers,     \* requests for metrics under way
    MaxAge,      \* maxAge, a day
    Spans,       \* durations a request may ask for
    MaxClock,    \* bound: how far time goes
    MaxScrapes,  \* bound: snapshots stored
    None

VARIABLES
    clock,
    due,      \* has the ticker fired, or is this the start?
    job,      \* cluster -> what its goroutine of the current round does
    writer,   \* the cluster whose Append holds the lock
    series,   \* Store.series: cluster -> metric -> points
    latest,   \* Store.latest: cluster -> snapshot
    request,  \* reader -> the handler that serves it
    when      \* history: when each snapshot was stored

store == <<writer, series, latest, when>>
vars == <<clock, due, job, store, request>>

Scrapes  == 1..MaxScrapes
Point    == [time : Nat, scrape : Scrapes]
Snapshot == [names : SUBSET Names, scrape : Scrapes]
Result   == [cutoff : Int, points : Seq(Point)]

ASSUME MetricsAssumption ==
    /\ MaxAge \in Nat /\ MaxClock \in Nat /\ MaxScrapes \in Nat
    /\ Spans \subseteq Nat \ {0}
    /\ None \notin Clusters /\ None \notin Names
    /\ None \notin Snapshot /\ None \notin Result

Request ==
    [at : {"idle", "asked", "listing", "searching"}, cluster : Clusters \union {None},
     span : Nat, snap : Snapshot \union {None}, todo : SUBSET Names, metric : Names \union {None},
     cutoff : Int, lo : Nat, hi : Nat, result : [Names -> Result \union {None}]]

NoRequest ==
    [at |-> "idle", cluster |-> None, span |-> 0, snap |-> None, todo |-> {}, metric |-> None,
     cutoff |-> 0, lo |-> 0, hi |-> 0, result |-> [n \in Names |-> None]]

TypeOK ==
    /\ clock \in 0..MaxClock
    /\ due \in BOOLEAN
    /\ job \in [Clusters -> {"idle", "scraping", "answered", "evicting"}]
    /\ writer \in Clusters \union {None}
    /\ series \in [Clusters -> [Names -> Seq(Point)]]
    /\ latest \in [Clusters -> Snapshot \union {None}]
    /\ request \in [Readers -> Request]
    /\ when \in Seq(0..MaxClock) /\ Len(when) <= MaxScrapes

Init ==
    /\ clock = 0
    /\ due = TRUE
    /\ job = [c \in Clusters |-> "idle"]
    /\ writer = None
    /\ series = [c \in Clusters |-> [n \in Names |-> <<>>]]
    /\ latest = [c \in Clusters |-> None]
    /\ request = [r \in Readers |-> NoRequest]
    /\ when = <<>>

-----------------------------------------------------------------------------
\* Time.

Tick ==
    /\ clock < MaxClock
    /\ clock' = clock + 1
    /\ UNCHANGED <<due, job, store, request>>

\* A tick that nobody has taken yet is not sent again.
TickerFires ==
    /\ ~due
    /\ due' = TRUE
    /\ UNCHANGED <<clock, job, store, request>>

AtOrBefore(t, cutoff) == t <= cutoff      \* mutant: the boundary is on the other side
Before(t, cutoff) == t < cutoff

-----------------------------------------------------------------------------
\* The collector.

RoundOver == \A c \in Clusters : job[c] = "idle"

\* The next round begins when the last one is over: collect waits for all.
StartRound ==
    /\ due /\ RoundOver
    /\ due' = FALSE
    /\ job' = [c \in Clusters |-> "scraping"]
    /\ UNCHANGED <<clock, store, request>>

Hangs(c) == FALSE                          \* mutant: the HTTP client has no timeout

\* An error, a bad status, a body that is no metrics, or ten seconds without
\* an answer.  Bound: answers after MaxScrapes snapshots are failures, too.
ScrapeFails(c) ==
    /\ job[c] = "scraping" \/ (job[c] = "answered" /\ Len(when) = MaxScrapes)
    /\ job' = [job EXCEPT ![c] = "idle"]
    /\ UNCHANGED <<clock, due, store, request>>

\* The snapshot is parsed; the goroutine goes for the lock.
Answer(c) ==
    /\ job[c] = "scraping" /\ Len(when) < MaxScrapes
    /\ job' = [job EXCEPT ![c] = "answered"]
    /\ UNCHANGED <<clock, due, store, request>>

Unread == \A r \in Readers : request[r].at # "searching"

\* Append up to evict: the lock is taken, the clock read, each metric of the
\* snapshot gets a point.
AppendPoints(c) ==
    /\ job[c] = "answered" /\ writer = None /\ Unread
    /\ Len(when) < MaxScrapes
    /\ LET s == Len(when) + 1 IN
       \E names \in SUBSET Names :
         /\ latest' = [latest EXCEPT ![c] = [names |-> names, scrape |-> s]]
         /\ series' = [series EXCEPT ![c] = [n \in Names |->
                IF n \in names THEN Append(series[c][n], [time |-> clock, scrape |-> s]) ELSE series[c][n]]]
    /\ when' = Append(when, clock)
    /\ writer' = c
    /\ job' = [job EXCEPT ![c] = "evicting"]
    /\ UNCHANGED <<clock, due, request>>

\* How many points at the front are older than the cutoff.
Old(points, cutoff) ==
    CHOOSE lo \in 0..Len(points) :
        /\ \A i \in 1..lo : Before(points[i].time, cutoff)
        /\ lo < Len(points) => ~Before(points[lo + 1].time, cutoff)

Remaining(points, cutoff) == SubSeq(points, Old(points, cutoff) + 1, Len(points))

EvictSnapshotOnly(c) ==   \* mutant: a metric that vanished is never evicted
    [n \in Names |-> IF n \in latest[c].names THEN Remaining(series[c][n], clock - MaxAge) ELSE series[c][n]]

\* evict, which reads the clock again and goes through all series.
Evicted(c) == [n \in Names |-> Remaining(series[c][n], clock - MaxAge)]

Evict(c) ==
    /\ writer = c
    /\ series' = [series EXCEPT ![c] = Evicted(c)]
    /\ writer' = None
    /\ job' = [job EXCEPT ![c] = "idle"]
    /\ UNCHANGED <<clock, due, latest, when, request>>

-----------------------------------------------------------------------------
\* The handler.

\* HasData and parseDuration; a cluster without data is answered at once.
Ask(r) ==
    /\ request[r].at = "idle" /\ writer = None
    /\ \E c \in Clusters, d \in Spans :
         /\ latest[c] # None
         /\ request' = [request EXCEPT ![r].at = "asked", ![r].cluster = c, ![r].span = d]
    /\ UNCHANGED <<clock, due, job, store>>

GetLatest(r) ==
    /\ request[r].at = "asked" /\ writer = None
    /\ LET snap == latest[request[r].cluster] IN
       request' = [request EXCEPT ![r].at = "listing", ![r].snap = snap, ![r].todo = snap.names]
    /\ UNCHANGED <<clock, due, job, store>>

Points(r, n) == series[request[r].cluster][n]

\* QueryMetric takes the read lock and the clock; the metrics come in any order.
QueryMetric(r) ==
    /\ request[r].at = "listing" /\ writer = None
    /\ \E n \in request[r].todo :
         request' = [request EXCEPT ![r].at = "searching", ![r].metric = n, ![r].todo = @ \ {n},
                       ![r].cutoff = clock - request[r].span,
                       ![r].lo = 0, ![r].hi = Len(Points(r, n))]
    /\ UNCHANGED <<clock, due, job, store>>

Mid(r) == (request[r].lo + request[r].hi) \div 2

HalveTooFar(r) ==   \* mutant: hi = mid - 1
    IF Before(Points(r, request[r].metric)[Mid(r) + 1].time, request[r].cutoff)
    THEN request' = [request EXCEPT ![r].lo = Mid(r) + 1]
    ELSE request' = [request EXCEPT ![r].hi = Mid(r) - 1]

\* The point at index mid is Points[mid + 1] here.
Halve(r) ==
    IF Before(Points(r, request[r].metric)[Mid(r) + 1].time, request[r].cutoff)
    THEN request' = [request EXCEPT ![r].lo = Mid(r) + 1]
    ELSE request' = [request EXCEPT ![r].hi = Mid(r)]

Search(r) ==
    /\ request[r].at = "searching" /\ request[r].lo < request[r].hi
    /\ Halve(r)
    /\ UNCHANGED <<clock, due, job, store>>

CopyShort(points, lo) == SubSeq(points, lo + 1, Len(points) - 1)   \* mutant: the newest is missing
CopyFrom(points, lo) == SubSeq(points, lo + 1, Len(points))

\* The copy is made and the lock given back.
Found(r) ==
    /\ request[r].at = "searching" /\ request[r].lo >= request[r].hi
    /\ LET q == request[r]
           found == [cutoff |-> q.cutoff, points |-> CopyFrom(Points(r, q.metric), q.lo)]
       IN  request' = [request EXCEPT ![r] =
               [q EXCEPT !.at = "listing", !.metric = None, !.lo = 0, !.hi = 0, !.cutoff = 0,
                         !.result = [q.result EXCEPT ![q.metric] = found]]]
    /\ UNCHANGED <<clock, due, job, store>>

Reply(r) ==
    /\ request[r].at = "listing" /\ request[r].todo = {}
    /\ request' = [request EXCEPT ![r] = NoRequest]
    /\ UNCHANGED <<clock, due, job, store>>

-----------------------------------------------------------------------------
Next ==
    \/ Tick \/ TickerFires \/ StartRound
    \/ \E c \in Clusters : ScrapeFails(c) \/ Answer(c) \/ AppendPoints(c) \/ Evict(c)
    \/ \E r \in Readers : Ask(r) \/ GetLatest(r) \/ QueryMetric(r) \/ Search(r) \/ Found(r) \/ Reply(r)

Spec == Init /\ [][Next]_vars

\* The ticker fires, goroutines run, a scrape that gets no answer fails, and a
\* RWMutex lets no stream of readers starve a writer.  No endpoint has to answer
\* and no request has to come.
Fairness ==
    /\ WF_vars(TickerFires) /\ WF_vars(StartRound)
    /\ \A c \in Clusters : WF_vars(ScrapeFails(c)) /\ SF_vars(AppendPoints(c)) /\ WF_vars(Evict(c))
    /\ \A r \in Readers : WF_vars(Search(r)) /\ WF_vars(Found(r))

FairSpec == Spec /\ Fairness

-----------------------------------------------------------------------------
\* The binary search finds the first point of the range, on a series whose
\* length and age change between requests: what is copied is what is at or after
\* the cutoff, no more and no less (QueryMetric).
SearchExact ==
    \A r \in Readers :
        (request[r].at = "searching" /\ request[r].lo >= request[r].hi) =>
            LET points == Points(r, request[r].metric) IN
            \A i \in DOMAIN points : points[i].time >= request[r].cutoff <=> i > request[r].lo

\* An answer's history contains its current value, if that is within the range
\* and the day, although the two are read under separate locks and snapshots are
\* stored, and points evicted, in between (Metrics, groupMetrics, Append).
Stored(snap) == [time |-> when[snap.scrape], scrape |-> snap.scrape]
CurrentInHistory ==
    \A r \in Readers, n \in Names :
        LET q == request[r] IN
        q.result[n] # None =>
            LET t == when[q.snap.scrape] IN
            (t >= q.result[n].cutoff /\ t >= q.result[n].cutoff + q.span - MaxAge)
                => Stored(q.snap) \in ToSet(q.result[n].points)

\* An answer is what the series held: found exactly, with the current value
\* (QueryMetric, groupMetrics).
AnswerExact == SearchExact /\ CurrentInHistory

\* Memory is bounded by age: while nobody is appending, no series of a cluster,
\* not even one of a metric that is no longer reported, holds a point that was a
\* day old when the latest snapshot was stored (evict).
AgeBound ==
    writer = None =>
        \A c \in Clusters, n \in Names :
            latest[c] # None =>
                \A p \in ToSet(series[c][n]) : p.time >= when[latest[c].scrape] - MaxAge

\* Nothing is evicted before its day is over (evict).
KeptForMaxAge ==
    [][\A c \in Clusters, n \in Names : \A p \in ToSet(series[c][n]) :
          p \in ToSet(series[c][n])' \/ p.time < clock - MaxAge]_vars

\* Every cluster is scraped again and again, however the endpoints of the others
\* behave and whoever reads: collect waits for all goroutines, and they for the
\* lock (collect, NewScraper).
KeepsScraping ==
    \A c \in Clusters : []<>(job[c] = "scraping") /\ []<>(job[c] # "scraping")

=============================================================================
