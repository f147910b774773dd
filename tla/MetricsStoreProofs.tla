------------------------- MODULE MetricsStoreProofs -------------------------
(***************************************************************************)
(* Theorems about MetricsStore for any clusters, metrics, requests, ages   *)
(* and ranges: its types, the binary search, what an answer contains, how  *)
(* old a point may get and how long it is kept, and that whoever holds the *)
(* store's lock is about to give it back.                                  *)
(***************************************************************************)
EXTENDS MetricsStore, SequenceTheorems, WellFoundedInduction, NaturalsInduction, TLAPS

Working == {"listing", "searching"}

\* What a request under way knows.
RequestOK(r) ==
    LET q == request[r] IN
    /\ q.at # "idle" => q.cluster \in Clusters
    /\ q.at \in Working => q.snap \in Snapshot
    /\ q.todo # {} => q.snap \in Snapshot /\ q.todo \subseteq q.snap.names
    /\ q.at = "searching" => q.metric \in q.snap.names
    /\ q.at \notin Working => q.result = [n \in Names |-> None]

Requests == \A r \in Readers : RequestOK(r)

-----------------------------------------------------------------------------
(* Sequences of points. *)

\* The front of a series that is older than the cutoff has an end.
LEMMA OldExact ==
    ASSUME NEW points \in Seq(Point), NEW cutoff \in Int
    PROVE  LET lo == Old(points, cutoff) IN
           /\ lo \in 0..Len(points)
           /\ \A i \in 1..lo : points[i].time < cutoff
           /\ lo < Len(points) => points[lo + 1].time >= cutoff
<1>1. Len(points) \in Nat /\ \A i \in 1..Len(points) : points[i].time \in Nat
  <2>1. Len(points) \in Nat BY LenProperties
  <2>2. \A i \in 1..Len(points) : points[i] \in Point BY ElementOfSeq
  <2>3. QED BY <2>1, <2>2 DEF Point
<1> DEFINE Young == {i \in 1..Len(points) : points[i].time >= cutoff}
           Is(lo) == /\ \A i \in 1..lo : Before(points[i].time, cutoff)
                     /\ lo < Len(points) => ~Before(points[lo + 1].time, cutoff)
<1>2. \E lo \in 0..Len(points) : Is(lo)
  <2>1. CASE Young = {}
    <3>1. \A i \in 1..Len(points) : points[i].time < cutoff BY <2>1, <1>1
    <3>2. Is(Len(points)) BY <3>1, <1>1 DEF Before
    <3>3. QED BY <3>2, <1>1
  <2>2. CASE Young # {}
    <3>1. Young \subseteq Nat BY <1>1
    <3>2. PICK y \in Young : \A x \in Young : ~(<<x, y>> \in OpToRel(<, Nat))
      BY <2>2, <3>1, WFMin, NatLessThanWellFounded, Zenon
    <3>3. \A x \in Young : ~(x < y)
      BY <3>1, <3>2, Zenon DEF OpToRel
    <3>4. y \in 1..Len(points) /\ points[y].time >= cutoff OBVIOUS
    <3>5. \A i \in 1..(y - 1) : points[i].time < cutoff BY <3>3, <3>4, <1>1
    <3>6. Is(y - 1) BY <3>4, <3>5, <1>1 DEF Before
    <3>7. y - 1 \in 0..Len(points) BY <3>4, <1>1
    <3>8. QED BY <3>6, <3>7
  <2>3. QED BY <2>1, <2>2
<1>3. Old(points, cutoff) \in 0..Len(points) /\ Is(Old(points, cutoff))
  <2>1. Old(points, cutoff) = CHOOSE lo \in 0..Len(points) : Is(lo) BY DEF Old
  <2> HIDE DEF Is
  <2>2. QED BY <1>2, <2>1
<1>4. QED
  <2> DEFINE lo == Old(points, cutoff)
  <2>1. lo \in 0..Len(points) /\ \A i \in 1..lo : points[i].time < cutoff BY <1>3 DEF Before
  <2>2. lo < Len(points) => ~(points[lo + 1].time < cutoff) BY <1>3 DEF Before
  <2>3. lo < Len(points) => points[lo + 1].time \in Nat BY <2>1, <1>1
  <2>4. QED BY <2>1, <2>2, <2>3

\* What is left of a series from an index on.
LEMMA Suffix ==
    ASSUME NEW points \in Seq(Point), NEW lo \in 0..Len(points)
    PROVE  LET rest == SubSeq(points, lo + 1, Len(points)) IN
           /\ rest \in Seq(Point)
           /\ Len(rest) = Len(points) - lo
           /\ \A i \in 1..Len(rest) : rest[i] = points[lo + i]
<1>1. Len(points) \in Nat BY LenProperties
<1>2. CASE lo = Len(points)
  <2>1. SubSeq(points, lo + 1, Len(points)) = <<>> BY <1>1, <1>2, SubSeqEmpty
  <2>2. QED BY <2>1, <1>1, <1>2, EmptySeq
<1>3. CASE lo < Len(points)
  <2>1. lo + 1 \in 1..(Len(points) + 1) /\ Len(points) \in (lo + 1 - 1)..Len(points) BY <1>1, <1>3
  <2>2. QED BY <2>1, <1>1, <1>3, SubSeqProperties
<1>4. QED BY <1>1, <1>2, <1>3

\* Eviction takes points from the front that are too old, and no other.
LEMMA RemainingExact ==
    ASSUME NEW points \in Seq(Point), NEW cutoff \in Int
    PROVE  /\ Remaining(points, cutoff) \in Seq(Point)
           /\ \E lo \in 0..Len(points) :
                /\ Len(Remaining(points, cutoff)) = Len(points) - lo
                /\ \A i \in 1..(Len(points) - lo) : Remaining(points, cutoff)[i] = points[lo + i]
                /\ \A i \in 1..lo : points[i].time < cutoff
                /\ lo < Len(points) => points[lo + 1].time >= cutoff
<1> DEFINE lo == Old(points, cutoff)
<1>1. /\ lo \in 0..Len(points)
      /\ \A i \in 1..lo : points[i].time < cutoff
      /\ lo < Len(points) => points[lo + 1].time >= cutoff
  BY OldExact
<1>2. Remaining(points, cutoff) = SubSeq(points, lo + 1, Len(points)) BY DEF Remaining
<1> HIDE DEF lo
<1>3. QED BY <1>1, <1>2, Suffix

\* Appending a point.
LEMMA Appended ==
    ASSUME NEW points \in Seq(Point), NEW p \in Point
    PROVE  /\ Append(points, p) \in Seq(Point)
           /\ Len(Append(points, p)) = Len(points) + 1
           /\ \A i \in 1..Len(points) : Append(points, p)[i] = points[i]
           /\ Append(points, p)[Len(points) + 1] = p
           /\ Len(points) \in Nat
BY AppendProperties, LenProperties

-----------------------------------------------------------------------------
(* Types. *)

LEMMA TypeInit == ASSUME MetricsAssumption, Init PROVE TypeOK /\ Requests
<1>1. <<>> \in Seq(Point) /\ <<>> \in Seq(0..MaxClock) /\ Len(<<>>) = 0 BY EmptySeq
<1>2. NoRequest \in Request BY DEF NoRequest, Request
<1>3. TypeOK BY <1>1, <1>2 DEF Init, TypeOK, MetricsAssumption
<1>4. Requests BY DEF Init, Requests, RequestOK, NoRequest, Working
<1>5. QED BY <1>3, <1>4

\* A step of a handler that keeps its record a request keeps the types.
LEMMA OnlyRequest ==
    ASSUME TypeOK, request' \in [Readers -> Request], UNCHANGED <<clock, due, job, store>>
    PROVE  TypeOK'
BY DEF TypeOK, store

LEMMA AppendTyped ==
    ASSUME MetricsAssumption, TypeOK, Requests, NEW c \in Clusters, AppendPoints(c)
    PROVE  TypeOK'
<1> DEFINE s == Len(when) + 1
<1>1. s \in Scrapes /\ when' \in Seq(0..MaxClock) /\ Len(when') <= MaxScrapes
  <2>1. when \in Seq(0..MaxClock) /\ clock \in 0..MaxClock BY DEF TypeOK
  <2>2. Len(when) \in Nat BY <2>1, LenProperties
  <2>3. when' = Append(when, clock) BY DEF AppendPoints
  <2>4. when' \in Seq(0..MaxClock) /\ Len(when') = Len(when) + 1
    BY <2>1, <2>3, AppendProperties
  <2>5. Len(when) < MaxScrapes BY DEF AppendPoints
  <2>6. QED BY <2>2, <2>4, <2>5 DEF MetricsAssumption, Scrapes
<1>2. PICK names \in SUBSET Names :
        /\ latest' = [latest EXCEPT ![c] = [names |-> names, scrape |-> s]]
        /\ series' = [series EXCEPT ![c] = [n \in Names |->
                IF n \in names THEN Append(series[c][n], [time |-> clock, scrape |-> s]) ELSE series[c][n]]]
  BY DEF AppendPoints
<1>3. [time |-> clock, scrape |-> s] \in Point BY <1>1 DEF TypeOK, Point, MetricsAssumption
<1> HIDE DEF s
<1>4. series' \in [Clusters -> [Names -> Seq(Point)]]
  <2>1. \A n \in Names : series[c][n] \in Seq(Point) BY DEF TypeOK
  <2>2. \A n \in Names : Append(series[c][n], [time |-> clock, scrape |-> s]) \in Seq(Point)
    BY <1>3, <2>1, Appended
  <2>3. QED BY <1>2, <2>1, <2>2 DEF TypeOK
<1>5. latest' \in [Clusters -> Snapshot \union {None}] BY <1>1, <1>2 DEF TypeOK, Snapshot
<1>6. QED BY <1>1, <1>4, <1>5 DEF AppendPoints, TypeOK

LEMMA EvictTyped ==
    ASSUME MetricsAssumption, TypeOK, NEW c \in Clusters, Evict(c) PROVE TypeOK'
<1>1. clock - MaxAge \in Int BY DEF TypeOK, MetricsAssumption
<1>2. \A n \in Names : series[c][n] \in Seq(Point) BY DEF TypeOK
<1>3. Evicted(c) \in [Names -> Seq(Point)] BY <1>1, <1>2, RemainingExact DEF Evicted
<1>4. QED BY <1>3 DEF Evict, TypeOK

LEMMA AskTyped ==
    ASSUME MetricsAssumption, TypeOK, Requests, NEW r \in Readers, Ask(r) PROVE TypeOK' /\ Requests'
<1>1. PICK c \in Clusters, d \in Spans :
        request' = [request EXCEPT ![r].at = "asked", ![r].cluster = c, ![r].span = d]
  BY DEF Ask
<1>2. request \in [Readers -> Request] /\ d \in Nat BY DEF TypeOK, MetricsAssumption
<1> DEFINE q == [request[r] EXCEPT !.at = "asked", !.cluster = c, !.span = d]
<1>3. request' \in [Readers -> Request]
  <2>1. request[r] \in Request BY <1>2
  <2>2. q \in Request BY <2>1, <1>2 DEF Request
  <2>3. request' = [request EXCEPT ![r] = q] BY <1>1, <1>2
  <2> HIDE DEF q
  <2>4. QED BY <1>2, <2>2, <2>3
<1>4. TypeOK' BY <1>3, OnlyRequest DEF Ask
<1>5. Requests' BY <1>1, <1>2 DEF Ask, Requests, RequestOK, Working
<1>6. QED BY <1>4, <1>5

\* A request is under way only for a cluster that has data.
Asked == \A r \in Readers : request[r].at # "idle" => latest[request[r].cluster] # None

LEMMA GetLatestTyped ==
    ASSUME MetricsAssumption, TypeOK, Requests, Asked, NEW r \in Readers, GetLatest(r)
    PROVE  TypeOK' /\ Requests'
<1> DEFINE snap == latest[request[r].cluster]
<1>1. request' = [request EXCEPT ![r].at = "listing", ![r].snap = snap, ![r].todo = snap.names]
  BY DEF GetLatest
<1>2. snap \in Snapshot
  BY DEF GetLatest, Requests, RequestOK, Asked, TypeOK
<1>3. snap.names \in SUBSET Names BY <1>2 DEF Snapshot
<1> HIDE DEF snap
<1>4. request \in [Readers -> Request] BY DEF TypeOK
<1> DEFINE q == [request[r] EXCEPT !.at = "listing", !.snap = snap, !.todo = snap.names]
<1>5. request' = [request EXCEPT ![r] = q] BY <1>1, <1>4
<1>6. TypeOK'
  <2>1. request[r] \in Request BY <1>4
  <2>2. q \in Request BY <1>2, <1>3, <2>1 DEF Request
  <2> HIDE DEF q
  <2>3. request' \in [Readers -> Request] BY <1>4, <1>5, <2>2
  <2>4. QED BY <2>3, OnlyRequest DEF GetLatest
<1>7. Requests'
  <2>1. request[r].at = "asked" /\ request[r] \in Request BY <1>4 DEF GetLatest
  <2>2. q.at = "listing" /\ q.cluster = request[r].cluster /\ q.snap = snap /\ q.todo = snap.names
    BY <2>1 DEF Request
  <2>3. request'[r] = q /\ \A t \in Readers : t # r => request'[t] = request[t] BY <1>4, <1>5
  <2> HIDE DEF q
  <2>4. request[r].cluster \in Clusters BY <2>1 DEF Requests, RequestOK
  <2>5. RequestOK(r)' BY <1>2, <2>2, <2>3, <2>4 DEF RequestOK, Working
  <2>6. \A t \in Readers : t # r => RequestOK(t)' BY <2>3 DEF Requests, RequestOK
  <2>7. QED BY <2>5, <2>6 DEF Requests
<1>8. QED BY <1>6, <1>7

LEMMA QueryTyped ==
    ASSUME MetricsAssumption, TypeOK, Requests, NEW r \in Readers, QueryMetric(r)
    PROVE  TypeOK' /\ Requests'
<1>1. PICK n \in request[r].todo :
        request' = [request EXCEPT ![r].at = "searching", ![r].metric = n, ![r].todo = @ \ {n},
                       ![r].cutoff = clock - request[r].span,
                       ![r].lo = 0, ![r].hi = Len(Points(r, n))]
  BY DEF QueryMetric
<1>2. request \in [Readers -> Request] BY DEF TypeOK
<1>3. request[r].at = "listing" BY DEF QueryMetric
<1>4. n \in Names /\ n \in request[r].snap.names BY <1>2 DEF Request, Requests, RequestOK
<1>5. Points(r, n) \in Seq(Point) BY <1>3, <1>4 DEF Points, TypeOK, Requests, RequestOK
<1>6. Len(Points(r, n)) \in Nat BY <1>5, LenProperties
<1>7. clock - request[r].span \in Int BY <1>2 DEF TypeOK, Request
<1>8. request' \in [Readers -> Request] BY <1>1, <1>2, <1>4, <1>6, <1>7 DEF Request
<1>9. TypeOK' BY <1>8, OnlyRequest DEF QueryMetric
<1>10. Requests' BY <1>1, <1>2, <1>3, <1>4 DEF Requests, RequestOK, Working
<1>11. QED BY <1>9, <1>10


\* The middle of a range that is not empty lies in it.
LEMMA MidBetween ==
    ASSUME NEW lo \in Nat, NEW hi \in Nat, lo < hi
    PROVE  LET mid == (lo + hi) \div 2 IN mid \in Nat /\ lo <= mid /\ mid < hi
OBVIOUS

LEMMA SearchTyped ==
    ASSUME MetricsAssumption, TypeOK, Requests, NEW r \in Readers, Search(r)
    PROVE  TypeOK' /\ Requests'
<1>1. request \in [Readers -> Request] /\ request[r] \in Request BY DEF TypeOK
<1>2. request[r].lo \in Nat /\ request[r].hi \in Nat /\ request[r].lo < request[r].hi
  BY <1>1 DEF Search, Request
<1>3. Mid(r) \in Nat /\ Mid(r) + 1 \in Nat BY <1>2, MidBetween DEF Mid
<1>4. \E q \in {[request[r] EXCEPT !.lo = Mid(r) + 1], [request[r] EXCEPT !.hi = Mid(r)]} :
        request' = [request EXCEPT ![r] = q]
  BY <1>1 DEF Search, Halve
<1>5. PICK q \in {[request[r] EXCEPT !.lo = Mid(r) + 1], [request[r] EXCEPT !.hi = Mid(r)]} :
        request' = [request EXCEPT ![r] = q]
  BY <1>4
<1>6. q \in Request BY <1>1, <1>3, <1>5 DEF Request
<1>7. TypeOK'
  <2>1. request' \in [Readers -> Request] BY <1>1, <1>5, <1>6
  <2>2. QED BY <2>1, OnlyRequest DEF Search
<1>8. Requests'
  <2>1. /\ q.at = request[r].at /\ q.cluster = request[r].cluster /\ q.snap = request[r].snap
        /\ q.todo = request[r].todo /\ q.metric = request[r].metric /\ q.result = request[r].result
    BY <1>1, <1>5 DEF Request
  <2>2. \A t \in Readers : request'[t] = IF t = r THEN q ELSE request[t] BY <1>1, <1>5
  <2>3. QED BY <2>1, <2>2 DEF Requests, RequestOK
<1>9. QED BY <1>7, <1>8

\* The record of a request that leaves the search.
LEMMA LeaveTyped ==
    ASSUME NEW p \in Request, NEW all \in [Names -> Result \union {None}]
    PROVE  [p EXCEPT !.at = "listing", !.metric = None, !.lo = 0, !.hi = 0, !.cutoff = 0, !.result = all]
               \in Request
<1> DEFINE p1 == [p EXCEPT !.at = "listing", !.metric = None]
           pl == [p1 EXCEPT !.lo = 0]
           ph == [pl EXCEPT !.hi = 0]
           p2 == [ph EXCEPT !.cutoff = 0]
           p3 == [p2 EXCEPT !.result = all]
<1>1. p1 \in Request BY DEF Request
<1>2. p2 \in Request
  <2> HIDE DEF p1
  <2>1. pl \in Request BY <1>1 DEF Request
  <2> HIDE DEF pl
  <2>2. ph \in Request BY <2>1 DEF Request
  <2> HIDE DEF ph
  <2>3. QED BY <2>2 DEF Request
<1>3. p3 \in Request
  <2> HIDE DEF p2
  <2>1. QED BY <1>2 DEF Request
<1>4. p3 = [p EXCEPT !.at = "listing", !.metric = None, !.lo = 0, !.hi = 0, !.cutoff = 0, !.result = all]
  OBVIOUS
<1>5. QED BY <1>3, <1>4, Zenon

LEMMA FoundTyped ==
    ASSUME MetricsAssumption, TypeOK, Requests, NEW r \in Readers, Found(r),
           request[r].lo <= Len(Points(r, request[r].metric))
    PROVE  TypeOK' /\ Requests'
<1> DEFINE n == request[r].metric
           found == [cutoff |-> request[r].cutoff, points |-> CopyFrom(Points(r, n), request[r].lo)]
           all == [request[r].result EXCEPT ![n] = found]
           q == [request[r] EXCEPT !.at = "listing", !.metric = None, !.lo = 0, !.hi = 0, !.cutoff = 0,
                                   !.result = all]
<1>1. request \in [Readers -> Request] /\ request[r] \in Request BY DEF TypeOK
<1>2. request[r].at = "searching" BY DEF Found
<1>3. n \in Names /\ request[r].cluster \in Clusters
  BY <1>1, <1>2 DEF Requests, RequestOK, Snapshot, Working
<1>4. Points(r, n) \in Seq(Point) BY <1>3 DEF Points, TypeOK
<1>5. request[r].lo \in 0..Len(Points(r, n)) BY <1>1, <1>4, LenProperties DEF Request
<1>6. CopyFrom(Points(r, n), request[r].lo) \in Seq(Point)
  BY <1>4, <1>5, Suffix DEF CopyFrom
<1>7. found \in Result BY <1>1, <1>6 DEF Request, Result
<1>8. request' = [request EXCEPT ![r] = q] BY <1>1 DEF Found
<1> HIDE DEF found
<1>9. all \in [Names -> Result \union {None}] BY <1>1, <1>7 DEF Request
<1> HIDE DEF all
<1>10. q \in Request BY <1>1, <1>9, LeaveTyped
<1>11. TypeOK'
  <2> HIDE DEF q
  <2>1. request' \in [Readers -> Request] BY <1>1, <1>8, <1>10
  <2>2. QED BY <2>1, OnlyRequest DEF Found
<1>12. Requests'
  <2>1. /\ q.at = "listing" /\ q.cluster = request[r].cluster /\ q.snap = request[r].snap
        /\ q.todo = request[r].todo
    BY <1>1 DEF Request
  <2> HIDE DEF q
  <2>2. \A t \in Readers : request'[t] = IF t = r THEN q ELSE request[t] BY <1>1, <1>8
  <2>3. RequestOK(r)' BY <1>2, <2>1, <2>2 DEF Requests, RequestOK, Working
  <2>4. \A t \in Readers : t # r => RequestOK(t)' BY <2>2 DEF Requests, RequestOK
  <2>5. QED BY <2>3, <2>4 DEF Requests
<1>13. QED BY <1>11, <1>12

LEMMA ReplyTyped ==
    ASSUME MetricsAssumption, TypeOK, Requests, NEW r \in Readers, Reply(r)
    PROVE  TypeOK' /\ Requests'
<1>1. NoRequest \in Request BY DEF NoRequest, Request
<1>2. request \in [Readers -> Request] BY DEF TypeOK
<1>3. request' = [request EXCEPT ![r] = NoRequest] BY DEF Reply
<1>4. request' \in [Readers -> Request] BY <1>1, <1>2, <1>3
<1>5. TypeOK' BY <1>4, OnlyRequest DEF Reply
<1>6. Requests' BY <1>2, <1>3 DEF Requests, RequestOK, NoRequest, Working
<1>7. QED BY <1>5, <1>6

-----------------------------------------------------------------------------
(* The inductive invariant: a series is sorted, and a search knows what it *)
(* has excluded while the lock it holds keeps writers away.                *)

Sorted ==
    \A c \in Clusters, n \in Names :
        LET points == series[c][n] IN
        /\ \A i \in 1..Len(points) : points[i].time <= clock
        /\ \A i, j \in 1..Len(points) : i <= j => points[i].time <= points[j].time

Excluded(points, q) ==
    /\ q.lo <= q.hi /\ q.hi <= Len(points)
    /\ \A i \in 1..q.lo : points[i].time < q.cutoff
    /\ \A i \in (q.hi + 1)..Len(points) : points[i].time >= q.cutoff

Searching ==
    \A r \in Readers : request[r].at = "searching" =>
        writer = None /\ Excluded(Points(r, request[r].metric), request[r])

IInv == TypeOK /\ Requests /\ Asked /\ Sorted /\ Searching

LEMMA InvInit == ASSUME MetricsAssumption, Init PROVE IInv
<1>1. TypeOK /\ Requests BY TypeInit
<1>2. Asked BY DEF Init, Asked, NoRequest
<1>3. Len(<<>>) = 0 BY EmptySeq
<1>4. Sorted BY <1>3 DEF Init, Sorted
<1>5. Searching BY DEF Init, Searching, NoRequest
<1>6. QED BY <1>1, <1>2, <1>4, <1>5 DEF IInv

\* Appending a point that is not older than the last keeps the order.
LEMMA AppendSorted ==
    ASSUME NEW points \in Seq(Point), NEW p \in Point,
           \A i \in 1..Len(points) : points[i].time <= p.time,
           \A i, j \in 1..Len(points) : i <= j => points[i].time <= points[j].time
    PROVE  LET all == Append(points, p) IN
           /\ \A i \in 1..Len(all) : all[i].time <= p.time
           /\ \A i, j \in 1..Len(all) : i <= j => all[i].time <= all[j].time
<1> DEFINE all == Append(points, p)
<1>1. /\ Len(all) = Len(points) + 1 /\ Len(points) \in Nat
      /\ \A i \in 1..Len(points) : all[i] = points[i]
      /\ all[Len(points) + 1] = p
  BY Appended
<1>2. p.time \in Nat BY DEF Point
<1> HIDE DEF all
<1>3. \A i \in 1..Len(all) : all[i].time <= p.time BY <1>1, <1>2
<1>4. ASSUME NEW i \in 1..Len(all), NEW j \in 1..Len(all), i <= j
      PROVE  all[i].time <= all[j].time
  <2>1. CASE j = Len(points) + 1 BY <2>1, <1>1, <1>3
  <2>2. CASE j # Len(points) + 1 BY <2>2, <1>1, <1>4
  <2>3. QED BY <2>1, <2>2
<1>5. QED BY <1>3, <1>4 DEF all

\* So does taking points from the front.
LEMMA RemainingSorted ==
    ASSUME NEW points \in Seq(Point), NEW cutoff \in Int, NEW now \in Nat,
           \A i \in 1..Len(points) : points[i].time <= now,
           \A i, j \in 1..Len(points) : i <= j => points[i].time <= points[j].time
    PROVE  LET rest == Remaining(points, cutoff) IN
           /\ \A i \in 1..Len(rest) : rest[i].time <= now
           /\ \A i, j \in 1..Len(rest) : i <= j => rest[i].time <= rest[j].time
           /\ \A i \in 1..Len(rest) : rest[i].time >= cutoff
<1> DEFINE rest == Remaining(points, cutoff)
<1>1. PICK lo \in 0..Len(points) :
        /\ Len(rest) = Len(points) - lo
        /\ \A i \in 1..(Len(points) - lo) : rest[i] = points[lo + i]
        /\ lo < Len(points) => points[lo + 1].time >= cutoff
  BY RemainingExact
<1>2. Len(points) \in Nat BY LenProperties
<1>3. \A i \in 1..Len(points) : points[i].time \in Nat
  <2>1. \A i \in 1..Len(points) : points[i] \in Point BY ElementOfSeq
  <2>2. QED BY <2>1 DEF Point
<1> HIDE DEF rest
<1>4. \A i \in 1..Len(rest) : lo + i \in 1..Len(points) /\ rest[i] = points[lo + i] BY <1>1, <1>2
<1>5. \A i \in 1..Len(rest) : rest[i].time <= now BY <1>4
<1>6. ASSUME NEW i \in 1..Len(rest), NEW j \in 1..Len(rest), i <= j
      PROVE  rest[i].time <= rest[j].time
  <2>1. lo + i \in 1..Len(points) /\ lo + j \in 1..Len(points) BY <1>4
  <2>2. lo + i <= lo + j BY <1>1, <1>2, <1>6
  <2>3. points[lo + i].time <= points[lo + j].time BY <2>1, <2>2
  <2>4. QED BY <2>3, <1>4
<1>7. ASSUME NEW i \in 1..Len(rest) PROVE rest[i].time >= cutoff
  <2>1. lo < Len(points) /\ lo + 1 \in 1..Len(points) BY <1>1, <1>2
  <2>2. points[lo + 1].time <= points[lo + i].time BY <1>4, <2>1, <1>1, <1>2
  <2>3. QED BY <1>1, <1>3, <1>4, <2>1, <2>2
<1>8. QED BY <1>5, <1>6, <1>7 DEF rest

LEMMA SortedStep == ASSUME MetricsAssumption, IInv, [Next]_vars PROVE Sorted'
<1> USE DEF IInv
<1>1. CASE UNCHANGED series
  <2>1. clock' >= clock /\ clock' \in Nat /\ clock \in Nat
    <3>1. clock \in Nat BY DEF TypeOK, MetricsAssumption
    <3>2. clock' = clock \/ clock' = clock + 1
      BY ZenonT(60) DEF Next, vars, Tick, TickerFires, StartRound, ScrapeFails, Answer, AppendPoints, Evict, Ask,
             GetLatest, QueryMetric, Search, Found, Reply
    <3>3. QED BY <3>1, <3>2
  <2>2. ASSUME NEW c \in Clusters, NEW n \in Names, NEW i \in 1..Len(series[c][n])
        PROVE  series[c][n][i].time <= clock'
    <3>1. series[c][n] \in Seq(Point) BY DEF TypeOK
    <3>2. series[c][n][i] \in Point BY <3>1, ElementOfSeq
    <3>3. series[c][n][i].time \in Nat BY <3>2 DEF Point
    <3>4. QED BY <2>1, <3>3 DEF Sorted
  <2>3. QED BY <1>1, <2>2 DEF Sorted
<1>2. ASSUME NEW c \in Clusters, AppendPoints(c) PROVE Sorted'
  <2>1. PICK names \in SUBSET Names :
          series' = [series EXCEPT ![c] = [n \in Names |->
              IF n \in names THEN Append(series[c][n], [time |-> clock, scrape |-> Len(when) + 1])
              ELSE series[c][n]]]
    BY <1>2 DEF AppendPoints
  <2>2. clock' = clock BY <1>2 DEF AppendPoints
  <2>3. [time |-> clock, scrape |-> Len(when) + 1] \in Point
    <3>1. Len(when) \in Nat BY LenProperties DEF TypeOK
    <3>2. Len(when) < MaxScrapes BY <1>2 DEF AppendPoints
    <3>3. QED BY <3>1, <3>2 DEF Point, Scrapes, TypeOK, MetricsAssumption
  <2>4. ASSUME NEW d \in Clusters, NEW n \in Names
        PROVE  LET points == series'[d][n] IN
               /\ \A i \in 1..Len(points) : points[i].time <= clock
               /\ \A i, j \in 1..Len(points) : i <= j => points[i].time <= points[j].time
    <3>1. CASE d = c /\ n \in names
      <4>1. series'[d][n] = Append(series[c][n], [time |-> clock, scrape |-> Len(when) + 1])
        BY <2>1, <3>1 DEF TypeOK
      <4>2. series[c][n] \in Seq(Point) BY DEF TypeOK
      <4>3. /\ \A i \in 1..Len(series[c][n]) : series[c][n][i].time <= clock
            /\ \A i, j \in 1..Len(series[c][n]) : i <= j => series[c][n][i].time <= series[c][n][j].time
        BY DEF Sorted
      <4>4. QED BY <2>3, <4>1, <4>2, <4>3, AppendSorted
    <3>2. CASE ~(d = c /\ n \in names)
      <4>1. series'[d][n] = series[d][n] BY <2>1, <3>2 DEF TypeOK
      <4>2. QED BY <4>1 DEF Sorted
    <3>3. QED BY <3>1, <3>2
  <2>5. QED BY <2>2, <2>4 DEF Sorted
<1>3. ASSUME NEW c \in Clusters, Evict(c) PROVE Sorted'
  <2>1. clock' = clock /\ series' = [series EXCEPT ![c] = Evicted(c)] BY <1>3 DEF Evict
  <2>2. clock - MaxAge \in Int /\ clock \in Nat BY DEF TypeOK, MetricsAssumption
  <2>3. ASSUME NEW d \in Clusters, NEW n \in Names
        PROVE  LET points == series'[d][n] IN
               /\ \A i \in 1..Len(points) : points[i].time <= clock
               /\ \A i, j \in 1..Len(points) : i <= j => points[i].time <= points[j].time
    <3>1. CASE d = c
      <4>1. series'[d][n] = Remaining(series[c][n], clock - MaxAge)
        BY <2>1, <3>1 DEF TypeOK, Evicted
      <4>2. series[c][n] \in Seq(Point) BY DEF TypeOK
      <4>3. /\ \A i \in 1..Len(series[c][n]) : series[c][n][i].time <= clock
            /\ \A i, j \in 1..Len(series[c][n]) : i <= j => series[c][n][i].time <= series[c][n][j].time
        BY DEF Sorted
      <4>4. QED BY <2>2, <4>1, <4>2, <4>3, RemainingSorted
    <3>2. CASE d # c
      <4>1. series'[d][n] = series[d][n] BY <2>1, <3>2 DEF TypeOK
      <4>2. QED BY <4>1 DEF Sorted
    <3>3. QED BY <3>1, <3>2
  <2>4. QED BY <2>1, <2>3 DEF Sorted
<1>4. UNCHANGED series \/ (\E c \in Clusters : AppendPoints(c) \/ Evict(c))
  BY ZenonT(60) DEF Next, vars, store, Tick, TickerFires, StartRound, ScrapeFails, Answer, Ask,
         GetLatest, QueryMetric, Search, Found, Reply
<1>5. QED BY <1>1, <1>2, <1>3, <1>4

\* A comparison at the middle of the range excludes one of its halves.
LEMMA Halving ==
    ASSUME NEW points \in Seq(Point), NEW cutoff \in Int, NEW lo \in Nat, NEW hi \in Nat,
           lo < hi, hi <= Len(points),
           \A i, j \in 1..Len(points) : i <= j => points[i].time <= points[j].time,
           \A i \in 1..lo : points[i].time < cutoff,
           \A i \in (hi + 1)..Len(points) : points[i].time >= cutoff
    PROVE  LET mid == (lo + hi) \div 2 IN
           /\ mid + 1 \in 1..Len(points) /\ lo <= mid /\ mid + 1 <= hi
           /\ points[mid + 1].time < cutoff => \A i \in 1..(mid + 1) : points[i].time < cutoff
           /\ ~(points[mid + 1].time < cutoff)
                => \A i \in (mid + 1)..Len(points) : points[i].time >= cutoff
<1> DEFINE mid == (lo + hi) \div 2
<1>1. mid \in Nat /\ lo <= mid /\ mid < hi BY MidBetween
<1>2. Len(points) \in Nat BY LenProperties
<1> HIDE DEF mid
<1>3. mid + 1 \in 1..Len(points) /\ mid + 1 <= hi BY <1>1, <1>2
<1>4. \A i \in 1..Len(points) : points[i].time \in Nat
  <2>1. \A i \in 1..Len(points) : points[i] \in Point BY ElementOfSeq
  <2>2. QED BY <2>1 DEF Point
<1>5. ASSUME points[mid + 1].time < cutoff, NEW i \in 1..(mid + 1) PROVE points[i].time < cutoff
  <2>1. i \in 1..Len(points) /\ i <= mid + 1 BY <1>1, <1>2, <1>3
  <2>2. points[i].time <= points[mid + 1].time BY <2>1, <1>3
  <2>3. QED BY <2>1, <2>2, <1>3, <1>4, <1>5
<1>6. ASSUME ~(points[mid + 1].time < cutoff), NEW i \in (mid + 1)..Len(points)
      PROVE  points[i].time >= cutoff
  <2>1. i \in 1..Len(points) /\ mid + 1 <= i BY <1>1, <1>2
  <2>2. points[mid + 1].time <= points[i].time BY <2>1, <1>3
  <2>3. QED BY <2>1, <2>2, <1>3, <1>4, <1>6
<1>7. QED BY <1>1, <1>3, <1>5, <1>6 DEF mid

\* A step of the search keeps what is known.
LEMMA SearchStep ==
    ASSUME MetricsAssumption, IInv, NEW r \in Readers, Search(r)
    PROVE  LET q == request'[r] IN
           /\ q.cluster = request[r].cluster /\ q.metric = request[r].metric
           /\ Excluded(Points(r, request[r].metric), q)
<1> USE DEF IInv
<1> DEFINE p == request[r]
           points == Points(r, p.metric)
           mid == Mid(r)
<1>1. request \in [Readers -> Request] /\ p \in Request BY DEF TypeOK
<1>2. p.at = "searching" /\ p.lo < p.hi BY DEF Search
<1>3. points \in Seq(Point)
  <2>1. p.metric \in Names BY <1>1, <1>2 DEF Requests, RequestOK, Snapshot, Working
  <2>2. p.cluster \in Clusters BY <1>1, <1>2 DEF Requests, RequestOK
  <2>3. QED BY <2>1, <2>2 DEF Points, TypeOK
<1>4. Excluded(points, p) BY <1>2 DEF Searching
<1>5. p.lo \in Nat /\ p.hi \in Nat /\ p.cutoff \in Int BY <1>1 DEF Request
<1>6. \A i, j \in 1..Len(points) : i <= j => points[i].time <= points[j].time
  <2>1. p.metric \in Names BY <1>1, <1>2 DEF Requests, RequestOK, Snapshot, Working
  <2>2. p.cluster \in Clusters BY <1>1, <1>2 DEF Requests, RequestOK
  <2>3. QED BY <2>1, <2>2 DEF Points, Sorted
<1>7. /\ mid + 1 \in 1..Len(points) /\ p.lo <= mid /\ mid + 1 <= p.hi
      /\ points[mid + 1].time < p.cutoff => \A i \in 1..(mid + 1) : points[i].time < p.cutoff
      /\ ~(points[mid + 1].time < p.cutoff)
           => \A i \in (mid + 1)..Len(points) : points[i].time >= p.cutoff
  <2> HIDE DEF points
  <2>1. /\ p.hi <= Len(points)
        /\ \A i \in 1..p.lo : points[i].time < p.cutoff
        /\ \A i \in (p.hi + 1)..Len(points) : points[i].time >= p.cutoff
    BY <1>4 DEF Excluded
  <2>2. QED BY <2>1, <1>2, <1>3, <1>5, <1>6, Halving DEF Mid
<1>8. Len(points) \in Nat /\ mid \in Nat BY <1>2, <1>3, <1>5, LenProperties, MidBetween DEF Mid
<1>9. CASE points[mid + 1].time < p.cutoff
  <2>1. request' = [request EXCEPT ![r] = [p EXCEPT !.lo = mid + 1]]
    BY <1>1, <1>9 DEF Search, Halve, Before
  <2>2. request'[r] = [p EXCEPT !.lo = mid + 1] BY <1>1, <2>1
  <2> HIDE DEF mid, points
  <2>3. /\ request'[r].lo = mid + 1 /\ request'[r].hi = p.hi /\ request'[r].cutoff = p.cutoff
        /\ request'[r].cluster = p.cluster /\ request'[r].metric = p.metric
    BY <1>1, <2>2 DEF Request
  <2>4. Excluded(points, request'[r]) BY <1>4, <1>7, <1>9, <2>3 DEF Excluded
  <2>5. QED BY <2>3, <2>4 DEF points
<1>10. CASE ~(points[mid + 1].time < p.cutoff)
  <2>1. request' = [request EXCEPT ![r] = [p EXCEPT !.hi = mid]]
    BY <1>1, <1>10 DEF Search, Halve, Before
  <2>2. request'[r] = [p EXCEPT !.hi = mid] BY <1>1, <2>1
  <2> HIDE DEF mid, points
  <2>3. /\ request'[r].lo = p.lo /\ request'[r].hi = mid /\ request'[r].cutoff = p.cutoff
        /\ request'[r].cluster = p.cluster /\ request'[r].metric = p.metric
    BY <1>1, <2>2 DEF Request
  <2>4. Excluded(points, request'[r]) BY <1>4, <1>5, <1>7, <1>8, <1>10, <2>3 DEF Excluded
  <2>5. QED BY <2>3, <2>4 DEF points
<1>11. QED BY <1>9, <1>10

LEMMA SearchingStep == ASSUME MetricsAssumption, IInv, [Next]_vars PROVE Searching'
<1> USE DEF IInv
<1> SUFFICES ASSUME NEW t \in Readers, request'[t].at = "searching"
             PROVE  writer' = None /\ Excluded(Points(t, request[t].metric), request[t])'
  BY DEF Searching
<1>1. request \in [Readers -> Request] BY DEF TypeOK
<1>2. ASSUME UNCHANGED <<series, writer>>, request'[t] = request[t]
      PROVE  writer' = None /\ Excluded(Points(t, request[t].metric), request[t])'
  BY <1>2 DEF Searching, Points, Excluded
<1>3. CASE Tick \/ TickerFires \/ StartRound \/ (\E c \in Clusters : ScrapeFails(c) \/ Answer(c))
          \/ UNCHANGED vars
  BY <1>2, <1>3 DEF Tick, TickerFires, StartRound, ScrapeFails, Answer, vars, store
<1>4. ASSUME NEW c \in Clusters, AppendPoints(c) PROVE FALSE
  BY <1>4 DEF AppendPoints, Unread
<1>5. ASSUME NEW c \in Clusters, Evict(c) PROVE FALSE
  BY <1>5 DEF Evict, Searching, MetricsAssumption
<1>6. ASSUME NEW r \in Readers, t # r,
             Ask(r) \/ GetLatest(r) \/ QueryMetric(r) \/ Search(r) \/ Found(r) \/ Reply(r)
      PROVE  writer' = None /\ Excluded(Points(t, request[t].metric), request[t])'
  <2>1. request'[t] = request[t]
    BY <1>1, <1>6, ZenonT(60) DEF Ask, GetLatest, QueryMetric, Search, Halve, Found, Reply
  <2>2. UNCHANGED <<series, writer>>
    BY <1>6 DEF Ask, GetLatest, QueryMetric, Search, Found, Reply, store
  <2>3. QED BY <1>2, <2>1, <2>2
<1>7. CASE Ask(t) \/ GetLatest(t) \/ Found(t) \/ Reply(t)
  <2>1. ASSUME Ask(t) PROVE FALSE
    <3>1. PICK c \in Clusters, d \in Spans :
            request' = [request EXCEPT ![t].at = "asked", ![t].cluster = c, ![t].span = d]
      BY <2>1 DEF Ask
    <3>2. request'[t].at = "asked" BY <1>1, <3>1 DEF Request
    <3>3. QED BY <3>2
  <2>2. ASSUME GetLatest(t) PROVE FALSE
    <3>1. request'[t].at = "listing" BY <1>1, <2>2 DEF GetLatest, Request
    <3>2. QED BY <3>1
  <2>3. ~Found(t)
    <3>1. request[t] \in Request BY <1>1
    <3>2. ASSUME NEW all
          PROVE  [request[t] EXCEPT !.at = "listing", !.metric = None, !.lo = 0, !.hi = 0, !.cutoff = 0,
                                    !.result = all].at = "listing"
      BY <3>1 DEF Request
    <3>3. Found(t) => request'[t].at = "listing" BY <1>1, <3>2 DEF Found
    <3>4. QED BY <3>3
  <2>4. ~Reply(t) BY <1>1 DEF Reply, NoRequest
  <2>5. QED BY <1>7, <2>1, <2>2, <2>3, <2>4
<1>8. CASE QueryMetric(t)
  <2>1. PICK n \in request[t].todo :
          request' = [request EXCEPT ![t].at = "searching", ![t].metric = n, ![t].todo = @ \ {n},
                       ![t].cutoff = clock - request[t].span,
                       ![t].lo = 0, ![t].hi = Len(Points(t, n))]
    BY <1>8 DEF QueryMetric
  <2>2. writer' = None /\ series' = series BY <1>8 DEF QueryMetric, store
  <2>3. /\ request'[t].lo = 0 /\ request'[t].hi = Len(Points(t, n)) /\ request'[t].metric = n
        /\ request'[t].cluster = request[t].cluster
    BY <1>1, <2>1 DEF Request
  <2>4. Points(t, n)' = Points(t, n) BY <2>2, <2>3 DEF Points
  <2>5. Points(t, n) \in Seq(Point)
    <3>1. n \in Names BY <1>1 DEF Request
    <3>2. request[t].cluster \in Clusters BY <1>8 DEF QueryMetric, Requests, RequestOK
    <3>3. QED BY <3>1, <3>2 DEF Points, TypeOK
  <2>6. Len(Points(t, n)) \in Nat BY <2>5, LenProperties
  <2>7. Excluded(Points(t, n), request'[t]) BY <2>3, <2>6 DEF Excluded
  <2>8. QED BY <2>2, <2>3, <2>4, <2>7 DEF Points, Excluded
<1>9. CASE Search(t)
  <2>1. series' = series /\ writer' = writer BY <1>9 DEF Search, store
  <2>2. writer = None BY <1>9 DEF Search, Searching
  <2>3. QED BY <1>9, <2>1, <2>2, SearchStep DEF Points, Excluded
<1>10. QED BY <1>3, <1>4, <1>5, <1>6, <1>7, <1>8, <1>9 DEF Next

LEMMA TypeStep == ASSUME MetricsAssumption, IInv, [Next]_vars PROVE TypeOK' /\ Requests'
<1> USE DEF IInv
<1>1. ASSUME TypeOK', UNCHANGED request PROVE TypeOK' /\ Requests'
  BY <1>1 DEF Requests, RequestOK
<1>2. CASE Tick BY <1>1, <1>2 DEF Tick, store, TypeOK, MetricsAssumption
<1>3. CASE TickerFires BY <1>1, <1>3 DEF TickerFires, store, TypeOK
<1>4. CASE StartRound BY <1>1, <1>4 DEF StartRound, store, TypeOK
<1>5. CASE \E c \in Clusters : ScrapeFails(c) \/ Answer(c)
  BY <1>1, <1>5 DEF ScrapeFails, Answer, store, TypeOK
<1>6. CASE \E c \in Clusters : AppendPoints(c)
  BY <1>1, <1>6, AppendTyped DEF AppendPoints
<1>7. CASE \E c \in Clusters : Evict(c) BY <1>1, <1>7, EvictTyped DEF Evict
<1>8. CASE \E r \in Readers : Ask(r) BY <1>8, AskTyped
<1>9. CASE \E r \in Readers : GetLatest(r) BY <1>9, GetLatestTyped
<1>10. CASE \E r \in Readers : QueryMetric(r) BY <1>10, QueryTyped
<1>11. CASE \E r \in Readers : Search(r) BY <1>11, SearchTyped
<1>12. ASSUME NEW r \in Readers, Found(r) PROVE TypeOK' /\ Requests'
  <2>1. request[r] \in Request /\ request[r].at = "searching" BY <1>12 DEF Found, TypeOK
  <2>2. request[r].metric \in Names /\ request[r].cluster \in Clusters
    BY <2>1 DEF Requests, RequestOK, Snapshot, Working
  <2>3. Points(r, request[r].metric) \in Seq(Point) BY <2>2 DEF Points, TypeOK
  <2>4. Len(Points(r, request[r].metric)) \in Nat BY <2>3, LenProperties
  <2>5. /\ request[r].lo <= request[r].hi
        /\ request[r].hi <= Len(Points(r, request[r].metric))
    BY <2>1 DEF Searching, Excluded
  <2>6. request[r].lo \in Nat /\ request[r].hi \in Nat BY <2>1 DEF Request
  <2>7. request[r].lo <= Len(Points(r, request[r].metric)) BY <2>4, <2>5, <2>6
  <2>8. QED BY <1>12, <2>7, FoundTyped
<1>13. CASE \E r \in Readers : Reply(r) BY <1>13, ReplyTyped
<1>14. CASE UNCHANGED vars BY <1>1, <1>14 DEF vars, store, TypeOK
<1>15. QED
  BY <1>2, <1>3, <1>4, <1>5, <1>6, <1>7, <1>8, <1>9, <1>10, <1>11, <1>12, <1>13, <1>14 DEF Next

LEMMA AskedStep == ASSUME MetricsAssumption, IInv, [Next]_vars PROVE Asked'
<1> USE DEF IInv
<1>1. \A c \in Clusters : latest[c] # None => latest'[c] # None
  <2>1. CASE UNCHANGED latest BY <2>1
  <2>2. ASSUME NEW d \in Clusters, AppendPoints(d)
        PROVE  \A c \in Clusters : latest[c] # None => latest'[c] # None
    <3>1. PICK names \in SUBSET Names :
            latest' = [latest EXCEPT ![d] = [names |-> names, scrape |-> Len(when) + 1]]
      BY <2>2 DEF AppendPoints
    <3>2. Len(when) \in Nat BY LenProperties DEF TypeOK
    <3>3. Len(when) < MaxScrapes BY <2>2 DEF AppendPoints
    <3>4. [names |-> names, scrape |-> Len(when) + 1] \in Snapshot
      BY <3>2, <3>3 DEF Snapshot, Scrapes, MetricsAssumption
    <3>5. [names |-> names, scrape |-> Len(when) + 1] # None BY <3>4 DEF MetricsAssumption
    <3>6. QED BY <3>1, <3>5 DEF TypeOK
  <2>3. UNCHANGED latest \/ \E d \in Clusters : AppendPoints(d)
    BY ZenonT(60) DEF Next, vars, store, Tick, TickerFires, StartRound, ScrapeFails, Answer, Evict, Ask, GetLatest,
           QueryMetric, Search, Found, Reply
  <2>4. QED BY <2>1, <2>2, <2>3
<1>2. ASSUME NEW t \in Readers, request'[t].at # "idle" PROVE latest'[request'[t].cluster] # None
  <2>1. request \in [Readers -> Request] /\ request[t] \in Request BY DEF TypeOK
  <2>2. ASSUME request[t].at # "idle", request'[t].cluster = request[t].cluster
        PROVE  latest'[request'[t].cluster] # None
    BY <1>1, <2>2 DEF Asked, Requests, RequestOK
  <2>3. CASE request'[t] = request[t] BY <1>2, <2>2, <2>3
  <2>4. CASE Ask(t)
    <3>1. PICK c \in Clusters, d \in Spans :
            /\ latest[c] # None
            /\ request' = [request EXCEPT ![t].at = "asked", ![t].cluster = c, ![t].span = d]
      BY <2>4 DEF Ask
    <3>2. request'[t].cluster = c BY <2>1, <3>1 DEF Request
    <3>3. QED BY <1>1, <3>1, <3>2
  <2>5. CASE GetLatest(t) BY <2>1, <2>2, <2>5 DEF GetLatest, Request
  <2>6. CASE QueryMetric(t) BY <2>1, <2>2, <2>6 DEF QueryMetric, Request
  <2>7. CASE Search(t)
    <3>1. request'[t].cluster = request[t].cluster BY <2>7, SearchStep
    <3>2. QED BY <2>2, <2>7, <3>1 DEF Search
  <2>8. CASE Found(t)
    <3>1. PICK all : request' = [request EXCEPT ![t] =
             [request[t] EXCEPT !.at = "listing", !.metric = None, !.lo = 0, !.hi = 0, !.cutoff = 0,
                                !.result = all]]
      BY <2>8 DEF Found
    <3>2. request'[t].cluster = request[t].cluster BY <2>1, <3>1 DEF Request
    <3>3. QED BY <2>2, <2>8, <3>2 DEF Found
  <2>9. CASE Reply(t) BY <1>2, <2>1, <2>9 DEF Reply, NoRequest
  <2>10. request'[t] = request[t] \/ Ask(t) \/ GetLatest(t) \/ QueryMetric(t) \/ Search(t)
           \/ Found(t) \/ Reply(t)
    <3>1. CASE UNCHANGED request BY <3>1
    <3>2. ASSUME NEW r \in Readers, r # t,
                 Ask(r) \/ GetLatest(r) \/ QueryMetric(r) \/ Search(r) \/ Found(r) \/ Reply(r)
          PROVE  request'[t] = request[t]
      BY <2>1, <3>2 DEF Ask, GetLatest, QueryMetric, Search, Halve, Found, Reply
    <3>3. QED
      BY <3>1, <3>2 DEF Next, vars, Tick, TickerFires, StartRound, ScrapeFails, Answer, AppendPoints, Evict
  <2>11. QED BY <2>3, <2>4, <2>5, <2>6, <2>7, <2>8, <2>9, <2>10
<1>3. QED BY <1>2 DEF Asked

LEMMA InvStep == ASSUME MetricsAssumption, IInv, [Next]_vars PROVE IInv'
<1>1. TypeOK' /\ Requests' BY TypeStep
<1>2. Asked' BY AskedStep
<1>3. Sorted' BY SortedStep
<1>4. Searching' BY SearchingStep
<1>5. QED BY <1>1, <1>2, <1>3, <1>4 DEF IInv

LEMMA Invariance == ASSUME MetricsAssumption PROVE Spec => []IInv
<1>1. Init => IInv BY InvInit
<1>2. IInv /\ [Next]_vars => IInv' BY InvStep
<1>3. QED BY <1>1, <1>2, PTL DEF Spec

\* The store, the collector and the requests stay well-formed (store.go,
\* collector.go, metrics.go).
THEOREM MetricsTypeCorrect == ASSUME MetricsAssumption PROVE Spec => []TypeOK
<1>1. IInv => TypeOK BY DEF IInv
<1>2. QED BY <1>1, Invariance, PTL

\* The binary search of QueryMetric finds exactly the points of the range, for
\* series of any length that are appended to and evicted between requests.
THEOREM SearchIsExact == ASSUME MetricsAssumption PROVE Spec => []SearchExact
<1>1. IInv => SearchExact
  <2> SUFFICES ASSUME IInv, NEW r \in Readers, request[r].at = "searching", request[r].lo >= request[r].hi,
                      NEW i \in DOMAIN Points(r, request[r].metric)
               PROVE  Points(r, request[r].metric)[i].time >= request[r].cutoff <=> i > request[r].lo
    BY DEF SearchExact
  <2> DEFINE q == request[r]
             points == Points(r, q.metric)
  <2>1. q \in Request BY DEF IInv, TypeOK
  <2>2. q.metric \in Names /\ q.cluster \in Clusters
    BY <2>1 DEF IInv, Requests, RequestOK, Snapshot, Working
  <2>3. points \in Seq(Point) BY <2>2 DEF IInv, Points, TypeOK
  <2>4. Excluded(points, q) BY DEF IInv, Searching
  <2>5. q.lo \in Nat /\ q.hi \in Nat /\ q.cutoff \in Int BY <2>1 DEF Request
  <2> HIDE DEF points
  <2>6. i \in 1..Len(points) /\ Len(points) \in Nat BY <2>3, LenProperties DEF points
  <2>7. points[i] \in Point BY <2>3, <2>6, ElementOfSeq
  <2>8. points[i].time \in Nat BY <2>7 DEF Point
  <2>9. q.lo = q.hi BY <2>4, <2>5 DEF Excluded
  <2>10. points[i].time >= q.cutoff <=> i > q.lo BY <2>4, <2>5, <2>6, <2>8, <2>9 DEF Excluded
  <2>11. QED BY <2>10 DEF points
<1>2. QED BY <1>1, Invariance, PTL

-----------------------------------------------------------------------------
(* What is stored stays for a day. *)

\* A point is evicted only when its day is over.
LEMMA KeptStep ==
    ASSUME MetricsAssumption, IInv, [Next]_vars, NEW c \in Clusters, NEW n \in Names,
           NEW p \in ToSet(series[c][n])
    PROVE  p \in Point /\ (p \in ToSet(series'[c][n]) \/ p.time < clock - MaxAge)
<1>1. series \in [Clusters -> [Names -> Seq(Point)]] /\ series[c][n] \in Seq(Point)
  BY DEF IInv, TypeOK
<1>2. PICK i \in 1..Len(series[c][n]) : p = series[c][n][i] BY <1>1, LenProperties DEF ToSet
<1>3. p \in Point BY <1>1, <1>2, ElementOfSeq
<1>4. Len(series[c][n]) \in Nat BY <1>1, LenProperties
<1>5. ASSUME series'[c][n] = series[c][n] PROVE p \in ToSet(series'[c][n])
  BY <1>5
<1>6. ASSUME NEW d \in Clusters, AppendPoints(d) PROVE p \in ToSet(series'[c][n])
  <2>1. PICK names \in SUBSET Names :
          series' = [series EXCEPT ![d] = [m \in Names |->
              IF m \in names THEN Append(series[d][m], [time |-> clock, scrape |-> Len(when) + 1])
              ELSE series[d][m]]]
    BY <1>6 DEF AppendPoints
  <2>2. CASE c = d /\ n \in names
    <3> DEFINE all == Append(series[c][n], [time |-> clock, scrape |-> Len(when) + 1])
    <3>1. series'[c][n] = all BY <1>1, <2>1, <2>2
    <3>2. [time |-> clock, scrape |-> Len(when) + 1] \in Point
      <4>1. Len(when) \in Nat BY LenProperties DEF IInv, TypeOK
      <4>2. Len(when) < MaxScrapes BY <1>6 DEF AppendPoints
      <4>3. QED BY <4>1, <4>2 DEF Point, Scrapes, IInv, TypeOK, MetricsAssumption
    <3>3. all[i] = p /\ Len(all) = Len(series[c][n]) + 1 /\ all \in Seq(Point)
      BY <1>1, <1>2, <3>2, Appended
    <3> HIDE DEF all
    <3>4. i \in DOMAIN all BY <1>4, <3>3, LenProperties
    <3>5. QED BY <3>1, <3>3, <3>4 DEF ToSet
  <2>3. CASE ~(c = d /\ n \in names)
    <3>1. series'[c][n] = series[c][n] BY <1>1, <2>1, <2>3
    <3>2. QED BY <1>5, <3>1
  <2>4. QED BY <2>2, <2>3
<1>7. ASSUME NEW d \in Clusters, Evict(d)
      PROVE  p \in ToSet(series'[c][n]) \/ p.time < clock - MaxAge
  <2>1. series' = [series EXCEPT ![d] = Evicted(d)] BY <1>7 DEF Evict
  <2>2. CASE c # d
    <3>1. series'[c][n] = series[c][n] BY <1>1, <2>1, <2>2
    <3>2. QED BY <1>5, <3>1
  <2>3. CASE c = d
    <3> DEFINE rest == Remaining(series[c][n], clock - MaxAge)
    <3>1. series'[c][n] = rest BY <1>1, <2>1, <2>3 DEF Evicted
    <3>2. clock - MaxAge \in Int BY DEF IInv, TypeOK, MetricsAssumption
    <3>3. rest \in Seq(Point) BY <1>1, <3>2, RemainingExact
    <3>4. PICK lo \in 0..Len(series[c][n]) :
            /\ Len(rest) = Len(series[c][n]) - lo
            /\ \A j \in 1..(Len(series[c][n]) - lo) : rest[j] = series[c][n][lo + j]
            /\ \A j \in 1..lo : series[c][n][j].time < clock - MaxAge
      BY <1>1, <3>2, RemainingExact
    <3> HIDE DEF rest
    <3>5. CASE i <= lo BY <1>2, <1>4, <3>4, <3>5
    <3>6. CASE ~(i <= lo)
      <4>1. i - lo \in 1..Len(rest) /\ lo + (i - lo) = i BY <1>4, <3>4, <3>6
      <4>2. rest[i - lo] = p BY <1>2, <3>4, <4>1
      <4>3. i - lo \in DOMAIN rest BY <3>3, <4>1, LenProperties
      <4>4. QED BY <3>1, <4>2, <4>3 DEF ToSet
    <3>7. QED BY <3>5, <3>6
  <2>4. QED BY <2>2, <2>3
<1>8. UNCHANGED series \/ (\E d \in Clusters : AppendPoints(d) \/ Evict(d))
  BY ZenonT(60) DEF Next, vars, store, Tick, TickerFires, StartRound, ScrapeFails, Answer, Ask,
         GetLatest, QueryMetric, Search, Found, Reply
<1>9. QED BY <1>3, <1>5, <1>6, <1>7, <1>8

\* No point goes before its day is over (evict).
THEOREM PointsKeptForMaxAge == ASSUME MetricsAssumption PROVE Spec => KeptForMaxAge
<1>1. ASSUME IInv, [Next]_vars
      PROVE  [\A c \in Clusters, n \in Names : \A p \in ToSet(series[c][n]) :
                p \in ToSet(series[c][n])' \/ p.time < clock - MaxAge]_vars
  BY <1>1, KeptStep
<1>2. QED BY <1>1, Invariance, PTL DEF Spec, KeptForMaxAge

-----------------------------------------------------------------------------
(* What an answer contains. *)

\* Snapshots have been stored, and not in the time to come.
Dated ==
    /\ \A i \in 1..Len(when) : when[i] <= clock
    /\ \A c \in Clusters : latest[c] # None => latest[c].scrape \in 1..Len(when)
    /\ \A r \in Readers : request[r].at \in Working => request[r].snap.scrape \in 1..Len(when)

\* A value is in its series unless its day is over.
Kept(c, n, snap) ==
    Stored(snap) \in ToSet(series[c][n]) \/ when[snap.scrape] < clock - MaxAge

LatestKept ==
    \A c \in Clusters : latest[c] # None => \A n \in latest[c].names : Kept(c, n, latest[c])

RequestKept ==
    \A r \in Readers : request[r].at \in Working =>
        \A n \in request[r].snap.names : Kept(request[r].cluster, n, request[r].snap)

\* While the search runs it cannot be evicted, whatever time does.
SearchKept ==
    \A r \in Readers : request[r].at = "searching" =>
        LET q == request[r] IN
        \/ Stored(q.snap) \in ToSet(Points(r, q.metric))
        \/ when[q.snap.scrape] < q.cutoff + q.span - MaxAge

AnswerInv == IInv /\ Dated /\ LatestKept /\ RequestKept /\ SearchKept /\ CurrentInHistory

\* What has been stored stays dated.
LEMMA WhenStep ==
    ASSUME MetricsAssumption, IInv, Dated, [Next]_vars
    PROVE  /\ clock \in Nat /\ clock' \in Nat /\ clock <= clock'
           /\ Len(when) \in Nat /\ Len(when') \in Nat /\ Len(when) <= Len(when')
           /\ \A i \in 1..Len(when) : when[i] \in Nat /\ when'[i] = when[i]
           /\ \A i \in 1..Len(when') : when'[i] <= clock'
<1>1. clock \in 0..MaxClock /\ when \in Seq(0..MaxClock) /\ MaxClock \in Nat
  BY DEF IInv, TypeOK, MetricsAssumption
<1>2. Len(when) \in Nat /\ \A i \in 1..Len(when) : when[i] \in 0..MaxClock
  BY <1>1, LenProperties, ElementOfSeq
<1>3. CASE \E c \in Clusters : AppendPoints(c)
  <2>1. when' = Append(when, clock) /\ clock' = clock BY <1>3 DEF AppendPoints
  <2>2. Len(when') = Len(when) + 1 /\ when'[Len(when) + 1] = clock
        /\ \A i \in 1..Len(when) : when'[i] = when[i]
    BY <1>1, <2>1, AppendProperties
  <2>3. \A i \in 1..Len(when') : when'[i] <= clock'
    <3>1. ASSUME NEW i \in 1..Len(when') PROVE when'[i] <= clock'
      <4>1. CASE i = Len(when) + 1 BY <1>1, <2>1, <2>2, <4>1
      <4>2. CASE i # Len(when) + 1
        <5>1. i \in 1..Len(when) BY <1>2, <2>2, <4>2
        <5>2. QED BY <5>1, <2>1, <2>2 DEF Dated
      <4>3. QED BY <4>1, <4>2
    <3>2. QED BY <3>1
  <2>4. QED BY <1>1, <1>2, <2>1, <2>2, <2>3
<1>4. CASE UNCHANGED when
  <2>1. clock' = clock \/ clock' = clock + 1
    BY ZenonT(60) DEF Next, vars, Tick, TickerFires, StartRound, ScrapeFails, Answer, AppendPoints, Evict, Ask,
           GetLatest, QueryMetric, Search, Found, Reply
  <2>2. \A i \in 1..Len(when) : when[i] <= clock BY DEF Dated
  <2>3. QED BY <1>1, <1>2, <1>4, <2>1, <2>2
<1>5. UNCHANGED when \/ \E c \in Clusters : AppendPoints(c)
  BY ZenonT(60) DEF Next, vars, store, Tick, TickerFires, StartRound, ScrapeFails, Answer, Evict, Ask, GetLatest,
         QueryMetric, Search, Found, Reply
<1>6. QED BY <1>3, <1>4, <1>5

\* A value that is kept stays kept.
LEMMA StaysKept ==
    ASSUME MetricsAssumption, IInv, Dated, [Next]_vars, NEW c \in Clusters, NEW n \in Names, NEW snap,
           snap.scrape \in 1..Len(when), Kept(c, n, snap)
    PROVE  Kept(c, n, snap)'
<1>1. /\ clock \in Nat /\ clock' \in Nat /\ clock <= clock'
      /\ when[snap.scrape] \in Nat /\ when'[snap.scrape] = when[snap.scrape]
  BY WhenStep
<1>2. MaxAge \in Nat BY DEF MetricsAssumption
<1>3. CASE when[snap.scrape] < clock - MaxAge BY <1>1, <1>2, <1>3 DEF Kept
<1>4. CASE Stored(snap) \in ToSet(series[c][n])
  <2>1. Stored(snap).time = when[snap.scrape] BY DEF Stored
  <2>2. Stored(snap) \in ToSet(series'[c][n]) \/ Stored(snap).time < clock - MaxAge
    BY <1>4, KeptStep
  <2>3. Stored(snap)' = Stored(snap) BY <1>1 DEF Stored
  <2>4. QED BY <1>1, <1>2, <2>1, <2>2, <2>3 DEF Kept
<1>5. QED BY <1>3, <1>4 DEF Kept

LEMMA LatestStep ==
    ASSUME MetricsAssumption, AnswerInv, [Next]_vars
    PROVE  /\ LatestKept'
           /\ \A c \in Clusters : latest'[c] # None => latest'[c].scrape \in 1..Len(when')
<1> USE DEF AnswerInv
<1>1. /\ clock \in Nat /\ Len(when) \in Nat /\ Len(when') \in Nat /\ Len(when) <= Len(when')
  BY WhenStep
<1>2. ASSUME NEW c \in Clusters, latest'[c] # None, latest'[c] = latest[c]
      PROVE  latest'[c].scrape \in 1..Len(when') /\ \A n \in latest'[c].names : Kept(c, n, latest[c])'
  <2>1. latest[c] \in Snapshot BY <1>2 DEF IInv, TypeOK
  <2>2. latest[c].names \subseteq Names BY <2>1 DEF Snapshot
  <2>3. latest[c].scrape \in 1..Len(when) BY <1>2 DEF Dated
  <2>4. \A n \in latest[c].names : Kept(c, n, latest[c]) BY <1>2 DEF LatestKept
  <2>5. ASSUME NEW n \in latest[c].names PROVE Kept(c, n, latest[c])'
    <3>1. PICK snap : snap = latest[c] OBVIOUS
    <3>2. Kept(c, n, snap) /\ snap.scrape \in 1..Len(when) BY <2>3, <2>4, <3>1
    <3>3. Kept(c, n, snap)' BY <2>2, <3>2, StaysKept
    <3>4. QED BY <1>2, <3>1, <3>3
  <2>6. QED BY <1>1, <1>2, <2>3, <2>5
<1>3. ASSUME NEW c \in Clusters, AppendPoints(c)
      PROVE  latest'[c].scrape \in 1..Len(when') /\ \A n \in latest'[c].names : Kept(c, n, latest[c])'
  <2> DEFINE s == Len(when) + 1
  <2>1. PICK names \in SUBSET Names :
          /\ latest' = [latest EXCEPT ![c] = [names |-> names, scrape |-> s]]
          /\ series' = [series EXCEPT ![c] = [n \in Names |->
                 IF n \in names THEN Append(series[c][n], [time |-> clock, scrape |-> s]) ELSE series[c][n]]]
    BY <1>3 DEF AppendPoints
  <2>2. when' = Append(when, clock) /\ Len(when) < MaxScrapes BY <1>3 DEF AppendPoints
  <2>3. when \in Seq(0..MaxClock) /\ clock \in 0..MaxClock BY DEF IInv, TypeOK
  <2>4. Len(when') = Len(when) + 1 /\ when'[s] = clock BY <2>2, <2>3, AppendProperties
  <2>5. [time |-> clock, scrape |-> s] \in Point
    BY <1>1, <2>2, <2>3 DEF Point, Scrapes, MetricsAssumption
  <2>6. latest'[c] = [names |-> names, scrape |-> s] BY <2>1 DEF IInv, TypeOK
  <2>7. ASSUME NEW n \in names PROVE Kept(c, n, latest[c])'
    <3> DEFINE all == Append(series[c][n], [time |-> clock, scrape |-> s])
    <3>1. series'[c][n] = all BY <2>1 DEF IInv, TypeOK
    <3>2. series[c][n] \in Seq(Point) BY DEF IInv, TypeOK
    <3>3. /\ all \in Seq(Point) /\ Len(all) = Len(series[c][n]) + 1 /\ Len(series[c][n]) \in Nat
          /\ all[Len(series[c][n]) + 1] = [time |-> clock, scrape |-> s]
      BY <2>5, <3>2, Appended
    <3> HIDE DEF all
    <3>4. [time |-> clock, scrape |-> s] \in ToSet(all) BY <3>3, LenProperties DEF ToSet
    <3>5. Stored(latest[c])' = [time |-> clock, scrape |-> s] BY <2>4, <2>6 DEF Stored
    <3>6. QED BY <3>1, <3>4, <3>5 DEF Kept
  <2>8. QED BY <1>1, <2>4, <2>6, <2>7
<1>4. ASSUME NEW c \in Clusters, ~AppendPoints(c) PROVE latest'[c] = latest[c]
  <2>1. UNCHANGED latest \/ \E d \in Clusters : d # c /\ AppendPoints(d)
    BY <1>4, ZenonT(60) DEF Next, vars, store, Tick, TickerFires, StartRound, ScrapeFails, Answer, Evict, Ask, GetLatest,
           QueryMetric, Search, Found, Reply
  <2>2. QED BY <2>1 DEF AppendPoints, IInv, TypeOK
<1>5. QED BY <1>2, <1>3, <1>4 DEF LatestKept

\* What a step does to a request that is under way.
LEMMA Moves ==
    ASSUME MetricsAssumption, IInv, [Next]_vars, NEW t \in Readers
    PROVE  LET p == request[t]
               q == request'[t]
               Same == q.cluster = p.cluster /\ q.snap = p.snap /\ q.span = p.span
           IN  \/ q = p
               \/ q.at \notin Working /\ q.result = [n \in Names |-> None]
               \/ /\ p.at = "asked" /\ q.at = "listing" /\ q.cluster = p.cluster
                  /\ q.snap = latest[p.cluster] /\ q.result = p.result
                  /\ UNCHANGED <<clock, store>>
               \/ /\ p.at = "listing" /\ q.at = "searching" /\ Same /\ q.result = p.result
                  /\ q.cutoff = clock - p.span /\ q.metric \in p.snap.names
                  /\ UNCHANGED <<clock, store>>
               \/ /\ p.at = "searching" /\ q.at = "searching" /\ Same /\ q.result = p.result
                  /\ q.cutoff = p.cutoff /\ q.metric = p.metric
                  /\ UNCHANGED <<clock, store>>
               \/ /\ Found(t) /\ q.at = "listing" /\ Same
                  /\ q.result = [p.result EXCEPT ![p.metric] =
                         [cutoff |-> p.cutoff, points |-> CopyFrom(Points(t, p.metric), p.lo)]]
                  /\ UNCHANGED <<clock, store>>
<1> USE DEF IInv
<1>1. request \in [Readers -> Request] /\ request[t] \in Request BY DEF TypeOK
<1>2. CASE UNCHANGED request BY <1>2
<1>3. ASSUME NEW r \in Readers, r # t,
             Ask(r) \/ GetLatest(r) \/ QueryMetric(r) \/ Search(r) \/ Found(r) \/ Reply(r)
      PROVE  request'[t] = request[t]
  BY <1>1, <1>3 DEF Ask, GetLatest, QueryMetric, Search, Halve, Found, Reply
<1>4. CASE Ask(t)
  <2>1. PICK c \in Clusters, d \in Spans :
          request' = [request EXCEPT ![t].at = "asked", ![t].cluster = c, ![t].span = d]
    BY <1>4 DEF Ask
  <2>2. request'[t].at = "asked" /\ request'[t].result = request[t].result BY <1>1, <2>1 DEF Request
  <2>3. request[t].result = [n \in Names |-> None] BY <1>4 DEF Ask, Requests, RequestOK, Working
  <2>4. QED BY <2>2, <2>3 DEF Working
<1>5. CASE GetLatest(t)
  <2>1. /\ request'[t].at = "listing" /\ request'[t].cluster = request[t].cluster
        /\ request'[t].snap = latest[request[t].cluster] /\ request'[t].result = request[t].result
    BY <1>1, <1>5 DEF GetLatest, Request
  <2>2. QED BY <1>5, <2>1 DEF GetLatest
<1>6. CASE QueryMetric(t)
  <2>1. PICK n \in request[t].todo :
          request' = [request EXCEPT ![t].at = "searching", ![t].metric = n, ![t].todo = @ \ {n},
                       ![t].cutoff = clock - request[t].span,
                       ![t].lo = 0, ![t].hi = Len(Points(t, n))]
    BY <1>6 DEF QueryMetric
  <2>2. /\ request'[t].at = "searching" /\ request'[t].cluster = request[t].cluster
        /\ request'[t].snap = request[t].snap /\ request'[t].span = request[t].span
        /\ request'[t].result = request[t].result /\ request'[t].cutoff = clock - request[t].span
        /\ request'[t].metric = n
    BY <1>1, <2>1 DEF Request
  <2>3. n \in request[t].snap.names BY DEF Requests, RequestOK
  <2>4. QED BY <1>6, <2>2, <2>3 DEF QueryMetric
<1>7. CASE Search(t)
  <2>1. PICK q \in {[request[t] EXCEPT !.lo = Mid(t) + 1], [request[t] EXCEPT !.hi = Mid(t)]} :
          request' = [request EXCEPT ![t] = q]
    BY <1>1, <1>7 DEF Search, Halve
  <2>2. request'[t] = q BY <1>1, <2>1
  <2>3. /\ q.at = request[t].at /\ q.cluster = request[t].cluster /\ q.snap = request[t].snap
        /\ q.span = request[t].span /\ q.result = request[t].result
        /\ q.cutoff = request[t].cutoff /\ q.metric = request[t].metric
    BY <1>1, <2>1 DEF Request
  <2>4. QED BY <1>7, <2>2, <2>3 DEF Search
<1>8. CASE Found(t)
  <2> DEFINE p == request[t]
             all == [p.result EXCEPT ![p.metric] =
                       [cutoff |-> p.cutoff, points |-> CopyFrom(Points(t, p.metric), p.lo)]]
             q == [p EXCEPT !.at = "listing", !.metric = None, !.lo = 0, !.hi = 0, !.cutoff = 0,
                            !.result = all]
  <2>1. request' = [request EXCEPT ![t] = q] BY <1>8 DEF Found
  <2> HIDE DEF all
  <2>2. /\ q.at = "listing" /\ q.cluster = p.cluster /\ q.snap = p.snap /\ q.span = p.span
        /\ q.result = all
    BY <1>1 DEF Request
  <2> HIDE DEF q
  <2>3. request'[t] = q BY <1>1, <2>1
  <2>4. UNCHANGED <<clock, store>> BY <1>8 DEF Found
  <2>5. QED BY <1>8, <2>2, <2>3, <2>4 DEF all
<1>9. CASE Reply(t)
  <2>1. request'[t] = NoRequest BY <1>1, <1>9 DEF Reply
  <2>2. QED BY <2>1 DEF NoRequest, Working
<1>10. QED
  BY <1>2, <1>3, <1>4, <1>5, <1>6, <1>7, <1>8, <1>9
     DEF Next, vars, Tick, TickerFires, StartRound, ScrapeFails, Answer, AppendPoints, Evict

\* A request that works on a snapshot has what it needs for the lemmas above.
LEMMA WorkingOK ==
    ASSUME AnswerInv, NEW t \in Readers, request[t].at \in Working
    PROVE  /\ request[t] \in Request /\ request[t].cluster \in Clusters
           /\ request[t].snap \in Snapshot /\ request[t].snap.names \subseteq Names
           /\ request[t].snap.scrape \in 1..Len(when)
BY DEF AnswerInv, IInv, TypeOK, Requests, RequestOK, Dated, Snapshot, Working

LEMMA RequestStep ==
    ASSUME MetricsAssumption, AnswerInv, [Next]_vars
    PROVE  /\ RequestKept'
           /\ \A r \in Readers : request'[r].at \in Working => request'[r].snap.scrape \in 1..Len(when')
<1> SUFFICES ASSUME NEW t \in Readers, request'[t].at \in Working
             PROVE  /\ request'[t].snap.scrape \in 1..Len(when')
                    /\ (\A n \in request[t].snap.names : Kept(request[t].cluster, n, request[t].snap))'
  BY DEF RequestKept
<1> USE DEF AnswerInv
<1>1. Len(when) \in Nat /\ Len(when') \in Nat /\ Len(when) <= Len(when') BY WhenStep
<1>2. ASSUME request[t].at \in Working, request'[t].cluster = request[t].cluster,
             request'[t].snap = request[t].snap
      PROVE  /\ request'[t].snap.scrape \in 1..Len(when')
             /\ (\A n \in request[t].snap.names : Kept(request[t].cluster, n, request[t].snap))'
  <2>1. /\ request[t].cluster \in Clusters /\ request[t].snap.names \subseteq Names
        /\ request[t].snap.scrape \in 1..Len(when)
    BY <1>2, WorkingOK
  <2>2. PICK snap, c : snap = request[t].snap /\ c = request[t].cluster OBVIOUS
  <2>3. \A n \in snap.names : Kept(c, n, snap) BY <1>2, <2>2 DEF RequestKept
  <2>4. \A n \in snap.names : Kept(c, n, snap)' BY <2>1, <2>2, <2>3, StaysKept
  <2>5. QED BY <1>1, <1>2, <2>1, <2>2, <2>4 DEF Kept, Stored
<1>3. ASSUME request[t].at = "asked", request'[t].cluster = request[t].cluster,
             request'[t].snap = latest[request[t].cluster], UNCHANGED <<clock, store>>
      PROVE  /\ request'[t].snap.scrape \in 1..Len(when')
             /\ (\A n \in request[t].snap.names : Kept(request[t].cluster, n, request[t].snap))'
  <2>1. PICK c : c = request[t].cluster OBVIOUS
  <2>2. PICK snap : snap = latest[c] OBVIOUS
  <2>3. c \in Clusters /\ snap # None BY <1>3, <2>1, <2>2 DEF IInv, Requests, RequestOK, Asked
  <2>4. snap.scrape \in 1..Len(when) /\ \A n \in snap.names : Kept(c, n, snap)
    BY <2>2, <2>3 DEF Dated, LatestKept
  <2>5. \A n \in snap.names : Kept(c, n, snap)' BY <1>3, <2>4 DEF Kept, Stored, store
  <2>6. QED BY <1>1, <1>3, <2>1, <2>2, <2>4, <2>5 DEF Kept, Stored, store
<1>4. CASE request'[t] = request[t] BY <1>2, <1>4
<1>5. QED BY <1>2, <1>3, <1>4, Moves DEF Working, Found

LEMMA SearchKeptStep == ASSUME MetricsAssumption, AnswerInv, [Next]_vars PROVE SearchKept'
<1> SUFFICES ASSUME NEW t \in Readers, request'[t].at = "searching"
             PROVE  \/ Stored(request[t].snap)' \in ToSet(Points(t, request[t].metric))'
                    \/ (when[request[t].snap.scrape] < request[t].cutoff + request[t].span - MaxAge)'
  BY DEF SearchKept
<1> USE DEF AnswerInv
<1> DEFINE p == request[t]
           q == request'[t]
<1>1. ASSUME p.at = "searching", q.snap = p.snap, q.cluster = p.cluster, q.metric = p.metric,
             q.cutoff = p.cutoff, q.span = p.span, UNCHANGED series
      PROVE  \/ Stored(request[t].snap)' \in ToSet(Points(t, request[t].metric))'
             \/ (when[request[t].snap.scrape] < request[t].cutoff + request[t].span - MaxAge)'
  <2>1. p.snap.scrape \in 1..Len(when) BY <1>1, WorkingOK DEF Working
  <2>2. when'[p.snap.scrape] = when[p.snap.scrape] BY <2>1, WhenStep
  <2>3. \/ Stored(p.snap) \in ToSet(Points(t, p.metric))
        \/ when[p.snap.scrape] < p.cutoff + p.span - MaxAge
    BY <1>1 DEF SearchKept
  <2>4. QED BY <1>1, <2>2, <2>3 DEF Stored, Points
<1>2. CASE q = p
  <2>1. writer = None BY <1>2 DEF IInv, Searching
  <2>2. UNCHANGED series
    BY <1>2, <2>1, ZenonT(60) DEF Next, vars, store, Tick, TickerFires, StartRound, ScrapeFails, Answer, AppendPoints, Unread,
           Evict, Ask, GetLatest, QueryMetric, Search, Found, Reply, MetricsAssumption
  <2>3. QED BY <1>1, <1>2, <2>2
<1>3. CASE /\ p.at = "listing" /\ q.cluster = p.cluster /\ q.snap = p.snap /\ q.span = p.span
           /\ q.cutoff = clock - p.span /\ q.metric \in p.snap.names
           /\ UNCHANGED <<clock, store>>
  <2>1. p \in Request BY DEF IInv, TypeOK
  <2>2. p.span \in Nat /\ clock \in Nat BY <2>1, WhenStep DEF Request
  <2>3. clock - MaxAge = q.cutoff + q.span - MaxAge BY <1>3, <2>2 DEF MetricsAssumption
  <2>4. Kept(p.cluster, q.metric, p.snap) BY <1>3 DEF RequestKept, Working
  <2>5. QED BY <1>3, <2>3, <2>4 DEF Kept, Stored, Points, store
<1>4. QED BY <1>1, <1>2, <1>3, Moves DEF Working, store

LEMMA CurrentStep == ASSUME MetricsAssumption, AnswerInv, [Next]_vars PROVE CurrentInHistory'
<1> USE DEF AnswerInv
<1> DEFINE In(snap, span, res, w) ==
             LET time == w[snap.scrape] IN
             (time >= res.cutoff /\ time >= res.cutoff + span - MaxAge)
                 => [time |-> time, scrape |-> snap.scrape] \in ToSet(res.points)
<1> SUFFICES ASSUME NEW t \in Readers, NEW n \in Names, request'[t].result[n] # None
             PROVE  In(request'[t].snap, request'[t].span, request'[t].result[n], when')
  BY DEF CurrentInHistory, Stored
<1> DEFINE p == request[t]
           q == request'[t]
<1>1. p \in Request BY DEF IInv, TypeOK
<1>2. ASSUME q.snap = p.snap, q.span = p.span, q.result[n] = p.result[n]
      PROVE  In(q.snap, q.span, q.result[n], when')
  <2>1. p.at \in Working
    <3>1. p.result[n] # None BY <1>2
    <3>2. p.at \notin Working => p.result = [m \in Names |-> None] BY DEF IInv, Requests, RequestOK
    <3>3. QED BY <3>1, <3>2
  <2>2. p.snap.scrape \in 1..Len(when) BY <2>1, WorkingOK
  <2>3. when'[p.snap.scrape] = when[p.snap.scrape] BY <2>2, WhenStep
  <2>4. In(p.snap, p.span, p.result[n], when) BY <1>2 DEF CurrentInHistory, Stored
  <2>5. QED BY <1>2, <2>3, <2>4
<1>3. CASE q = p BY <1>2, <1>3
<1>4. CASE q.result = [m \in Names |-> None] BY <1>4
<1>5. CASE p.at = "asked" /\ q.result = p.result
  <2>1. p.result = [m \in Names |-> None] BY <1>5 DEF IInv, Requests, RequestOK, Working
  <2>2. QED BY <1>5, <2>1
<1>6. CASE /\ Found(t) /\ q.cluster = p.cluster /\ q.snap = p.snap /\ q.span = p.span
           /\ q.result = [p.result EXCEPT ![p.metric] =
                [cutoff |-> p.cutoff, points |-> CopyFrom(Points(t, p.metric), p.lo)]]
           /\ UNCHANGED <<clock, store>>
  <2> DEFINE points == Points(t, p.metric)
             copy == CopyFrom(points, p.lo)
             time == when[p.snap.scrape]
  <2>1. CASE n # p.metric BY <1>1, <1>2, <1>6, <2>1 DEF Request
  <2>2. CASE n = p.metric
    <3>1. q.result[n] = [cutoff |-> p.cutoff, points |-> copy] BY <1>1, <1>6, <2>2 DEF Request
    <3>2. p.at = "searching" /\ p.lo >= p.hi BY <1>6 DEF Found
    <3>3. /\ p.cluster \in Clusters /\ p.snap.scrape \in 1..Len(when) BY <3>2, WorkingOK DEF Working
    <3>4. points \in Seq(Point) BY <2>2, <3>3 DEF Points, IInv, TypeOK
    <3>5. Stored(p.snap) \in ToSet(points) \/ time < p.cutoff + p.span - MaxAge
      BY <3>2 DEF SearchKept
    <3>6. time \in Nat /\ p.cutoff \in Int /\ p.span \in Nat /\ MaxAge \in Nat /\ p.lo \in Nat /\ p.hi \in Nat
      BY <1>1, <3>3, WhenStep DEF Request, MetricsAssumption
    <3>7. Excluded(points, p) BY <3>2 DEF IInv, Searching
    <3> HIDE DEF points
    <3>8. p.lo = p.hi /\ p.lo <= Len(points) /\ Len(points) \in Nat
      BY <3>2, <3>4, <3>6, <3>7, LenProperties DEF Excluded
    <3>9. /\ copy \in Seq(Point) /\ Len(copy) = Len(points) - p.lo
          /\ \A i \in 1..Len(copy) : copy[i] = points[p.lo + i]
      <4>1. p.lo \in 0..Len(points) BY <3>6, <3>8
      <4>2. copy = SubSeq(points, p.lo + 1, Len(points)) BY DEF CopyFrom
      <4> HIDE DEF copy
      <4>3. QED BY <3>4, <4>1, <4>2, Suffix
    <3> HIDE DEF copy
    <3>10. ASSUME time >= p.cutoff, time >= p.cutoff + p.span - MaxAge
           PROVE  [time |-> time, scrape |-> p.snap.scrape] \in ToSet(copy)
      <4>1. [time |-> time, scrape |-> p.snap.scrape] \in ToSet(points)
        BY <3>5, <3>6, <3>10 DEF Stored
      <4>2. PICK i \in 1..Len(points) : points[i] = [time |-> time, scrape |-> p.snap.scrape]
        BY <3>4, <4>1, LenProperties DEF ToSet
      <4>3. points[i].time = time BY <4>2
      <4>4. ~(i <= p.lo)
        <5>1. \A j \in 1..p.lo : points[j].time < p.cutoff BY <3>7 DEF Excluded
        <5>2. i <= p.lo => i \in 1..p.lo BY <4>2, <3>6
        <5>3. QED BY <5>1, <5>2, <4>3, <3>6, <3>10
      <4>5. i - p.lo \in 1..Len(copy) /\ p.lo + (i - p.lo) = i BY <3>6, <3>8, <3>9, <4>2, <4>4
      <4>6. copy[i - p.lo] = points[i] BY <3>9, <4>5
      <4>7. i - p.lo \in DOMAIN copy BY <3>9, <4>5, LenProperties
      <4>8. QED BY <4>2, <4>6, <4>7 DEF ToSet
    <3>11. when' = when BY <1>6 DEF store
    <3>12. QED BY <1>6, <3>1, <3>10, <3>11
  <2>3. QED BY <2>1, <2>2
<1>7. q = p \/ q.result = [m \in Names |-> None] \/ (p.at = "asked" /\ q.result = p.result)
        \/ (q.snap = p.snap /\ q.span = p.span /\ q.result = p.result)
        \/ (/\ Found(t) /\ q.cluster = p.cluster /\ q.snap = p.snap /\ q.span = p.span
            /\ q.result = [p.result EXCEPT ![p.metric] =
                 [cutoff |-> p.cutoff, points |-> CopyFrom(Points(t, p.metric), p.lo)]]
            /\ UNCHANGED <<clock, store>>)
  BY Moves
<1>8. QED BY <1>2, <1>3, <1>4, <1>5, <1>6, <1>7

LEMMA AnswerInvariance == ASSUME MetricsAssumption PROVE Spec => []AnswerInv
<1>1. ASSUME Init PROVE AnswerInv
  <2>1. IInv BY <1>1, InvInit
  <2>2. Len(<<>>) = 0 BY EmptySeq
  <2>3. Dated BY <1>1, <2>2 DEF Init, Dated, NoRequest, Working
  <2>4. LatestKept /\ RequestKept /\ SearchKept
    BY <1>1 DEF Init, LatestKept, RequestKept, SearchKept, NoRequest, Working
  <2>5. CurrentInHistory BY <1>1 DEF Init, CurrentInHistory, NoRequest
  <2>6. QED BY <2>1, <2>3, <2>4, <2>5 DEF AnswerInv
<1>2. ASSUME AnswerInv, [Next]_vars PROVE AnswerInv'
  <2>1. IInv' BY <1>2, InvStep DEF AnswerInv
  <2>2. LatestKept' /\ \A c \in Clusters : latest'[c] # None => latest'[c].scrape \in 1..Len(when')
    BY <1>2, LatestStep
  <2>3. /\ RequestKept'
        /\ \A r \in Readers : request'[r].at \in Working => request'[r].snap.scrape \in 1..Len(when')
    BY <1>2, RequestStep
  <2>4. \A i \in 1..Len(when') : when'[i] <= clock' BY <1>2, WhenStep DEF AnswerInv
  <2>5. Dated' BY <2>2, <2>3, <2>4 DEF Dated
  <2>6. SearchKept' /\ CurrentInHistory' BY <1>2, SearchKeptStep, CurrentStep
  <2>7. QED BY <2>1, <2>2, <2>3, <2>5, <2>6 DEF AnswerInv
<1>3. QED BY <1>1, <1>2, PTL DEF Spec

\* An answer's history contains its current value, unless that is out of the
\* range or a day old (Metrics, groupMetrics).
THEOREM HistoryHasCurrent == ASSUME MetricsAssumption PROVE Spec => []CurrentInHistory
<1>1. AnswerInv => CurrentInHistory BY DEF AnswerInv
<1>2. QED BY <1>1, AnswerInvariance, PTL

-----------------------------------------------------------------------------
(* How old a point may get. *)

\* The bound holds of every cluster but the one whose Append is under way.
AgeInv ==
    \A c \in Clusters, n \in Names :
        (c # writer /\ latest[c] # None) =>
            \A i \in 1..Len(series[c][n]) : series[c][n][i].time >= when[latest[c].scrape] - MaxAge

LEMMA AgeStep ==
    ASSUME MetricsAssumption, AnswerInv, AgeInv, [Next]_vars PROVE AgeInv'
<1> USE DEF AnswerInv
<1>1. /\ MaxAge \in Nat /\ clock \in Nat
      /\ \A i \in 1..Len(when) : when[i] \in Nat /\ when'[i] = when[i] /\ when[i] <= clock
  BY WhenStep DEF Dated, MetricsAssumption
<1>2. series \in [Clusters -> [Names -> Seq(Point)]] BY DEF IInv, TypeOK
<1> SUFFICES ASSUME NEW c \in Clusters, NEW n \in Names, c # writer', latest'[c] # None
             PROVE  \A i \in 1..Len(series'[c][n]) :
                        series'[c][n][i].time >= when'[latest'[c].scrape] - MaxAge
  BY DEF AgeInv
<1>3. CASE c # writer /\ latest'[c] = latest[c] /\ series'[c] = series[c]
  <2>1. when'[latest[c].scrape] = when[latest[c].scrape] BY <1>1, <1>3 DEF Dated
  <2>2. QED BY <1>3, <2>1 DEF AgeInv
<1>4. CASE Evict(c)
  <2>1. latest'[c] = latest[c] /\ latest[c].scrape \in 1..Len(when) BY <1>4 DEF Evict, Dated
  <2>2. series'[c][n] = Remaining(series[c][n], clock - MaxAge) BY <1>2, <1>4 DEF Evict, Evicted
  <2>3. series[c][n] \in Seq(Point) /\ clock - MaxAge \in Int BY <1>1, <1>2
  <2>4. /\ \A i \in 1..Len(series[c][n]) : series[c][n][i].time <= clock
        /\ \A i, j \in 1..Len(series[c][n]) : i <= j => series[c][n][i].time <= series[c][n][j].time
    BY DEF IInv, Sorted
  <2>5. Remaining(series[c][n], clock - MaxAge) \in Seq(Point) BY <2>3, RemainingExact
  <2>6. \A i \in 1..Len(series'[c][n]) : series'[c][n][i].time >= clock - MaxAge
    BY <1>1, <2>2, <2>3, <2>4, RemainingSorted
  <2>7. \A i \in 1..Len(series'[c][n]) : series'[c][n][i].time \in Nat
    <3>1. series'[c][n] \in Seq(Point) BY <2>2, <2>5
    <3>2. \A i \in 1..Len(series'[c][n]) : series'[c][n][i] \in Point BY <3>1, ElementOfSeq
    <3>3. QED BY <3>2 DEF Point
  <2>8. when'[latest'[c].scrape] \in Nat /\ when'[latest'[c].scrape] <= clock BY <1>1, <2>1
  <2>9. QED BY <1>1, <2>6, <2>7, <2>8
<1>5. ASSUME NEW d \in Clusters, d # c, AppendPoints(d) \/ Evict(d)
      PROVE  c # writer /\ latest'[c] = latest[c] /\ series'[c] = series[c]
  <2>1. CASE AppendPoints(d)
    BY <1>2, <1>5, <2>1 DEF AppendPoints, IInv, TypeOK, MetricsAssumption
  <2>2. CASE Evict(d) BY <1>2, <1>5, <2>2 DEF Evict
  <2>3. QED BY <1>5, <2>1, <2>2
<1>6. CASE UNCHANGED <<writer, latest, series>> BY <1>3, <1>6
<1>7. ~AppendPoints(c) BY DEF AppendPoints
<1>8. QED
  <2>1. UNCHANGED <<writer, latest, series>> \/ \E d \in Clusters : AppendPoints(d) \/ Evict(d)
    BY ZenonT(60) DEF Next, vars, store, Tick, TickerFires, StartRound, ScrapeFails, Answer, Ask, GetLatest, QueryMetric,
           Search, Found, Reply
  <2>2. QED BY <1>3, <1>4, <1>5, <1>6, <1>7, <2>1

\* While nobody appends, no series holds a point that was a day old when the
\* latest snapshot of its cluster was stored (evict).
THEOREM AgeIsBounded == ASSUME MetricsAssumption PROVE Spec => []AgeBound
<1>1. Init => AgeInv BY DEF Init, AgeInv
<1>2. ASSUME AnswerInv, AgeInv, [Next]_vars PROVE AgeInv' BY <1>2, AgeStep
<1>3. ASSUME AnswerInv, AgeInv PROVE AgeBound
  <2> SUFFICES ASSUME writer = None, NEW c \in Clusters, NEW n \in Names, latest[c] # None,
                      NEW p \in ToSet(series[c][n])
               PROVE  p.time >= when[latest[c].scrape] - MaxAge
    BY DEF AgeBound
  <2>1. series[c][n] \in Seq(Point) BY <1>3 DEF AnswerInv, IInv, TypeOK
  <2>2. PICK i \in 1..Len(series[c][n]) : p = series[c][n][i] BY <2>1, LenProperties DEF ToSet
  <2>3. c # writer BY DEF MetricsAssumption
  <2>4. QED BY <1>3, <2>2, <2>3 DEF AgeInv
<1>4. QED BY <1>1, <1>2, <1>3, AnswerInvariance, PTL DEF Spec

\* Answers are exact, whatever passes between the reads that make them up.
THEOREM AnswersAreExact == ASSUME MetricsAssumption PROVE Spec => []AnswerExact
<1>1. SearchExact /\ CurrentInHistory => AnswerExact
    BY DEF AnswerExact
<1> QED BY <1>1, SearchIsExact, HistoryHasCurrent, PTL
-----------------------------------------------------------------------------
(* The lock. *)

\* Whoever holds the lock is at work that ends with giving it back: a writer is the
\* goroutine of its cluster, with nothing left but evict, and no reader is there
\* with it.
LockHasHolder ==
    /\ \A c \in Clusters : job[c] = "evicting" <=> writer = c
    /\ \A r \in Readers : request[r].at = "searching" => writer = None

Width(q) == q.hi - q.lo

\* A reader that holds the lock gives it back or has less left to search, whatever
\* the series holds: it never begins to search the same again.
SearchNarrows ==
    [][\A r \in Readers :
          request[r].at = "searching" =>
              \/ request'[r] = request[r]
              \/ request'[r].at = "listing"
              \/ /\ request'[r].at = "searching"
                 /\ Width(request'[r]) \in Nat /\ Width(request'[r]) < Width(request[r])]_vars

LEMMA HolderStep ==
    ASSUME MetricsAssumption, IInv, LockHasHolder, [Next]_vars
    PROVE  \A c \in Clusters : job'[c] = "evicting" <=> writer' = c
<1>1. job \in [Clusters -> {"idle", "scraping", "answered", "evicting"}]
    BY DEF IInv, TypeOK
<1>2. CASE UNCHANGED <<job, writer>>
    BY <1>2 DEF LockHasHolder
<1>3. CASE StartRound
    BY <1>1, <1>3 DEF StartRound, RoundOver, store, LockHasHolder
<1>4. ASSUME NEW c \in Clusters, ScrapeFails(c) \/ Answer(c)
      PROVE  \A d \in Clusters : job'[d] = "evicting" <=> writer' = d
    BY <1>1, <1>4 DEF ScrapeFails, Answer, store, LockHasHolder
<1>5. ASSUME NEW c \in Clusters, AppendPoints(c)
      PROVE  \A d \in Clusters : job'[d] = "evicting" <=> writer' = d
    <2>1. writer = None /\ writer' = c /\ job' = [job EXCEPT ![c] = "evicting"]
        BY <1>5 DEF AppendPoints
    <2> QED BY <1>1, <2>1 DEF LockHasHolder, MetricsAssumption
<1>6. ASSUME NEW c \in Clusters, Evict(c)
      PROVE  \A d \in Clusters : job'[d] = "evicting" <=> writer' = d
    <2>1. writer = c /\ writer' = None /\ job' = [job EXCEPT ![c] = "idle"]
        BY <1>6 DEF Evict
    <2> QED BY <1>1, <2>1 DEF LockHasHolder, MetricsAssumption
<1>7. ASSUME NEW r \in Readers,
             Ask(r) \/ GetLatest(r) \/ QueryMetric(r) \/ Search(r) \/ Found(r) \/ Reply(r)
      PROVE  UNCHANGED <<job, writer>>
    BY <1>7 DEF Ask, GetLatest, QueryMetric, Search, Found, Reply, store
<1>8. CASE Tick \/ TickerFires \/ UNCHANGED vars
    BY <1>2, <1>8 DEF Tick, TickerFires, vars, store
<1> QED BY <1>2, <1>3, <1>4, <1>5, <1>6, <1>7, <1>8 DEF Next

LEMMA NarrowStep ==
    ASSUME MetricsAssumption, IInv, [Next]_vars, NEW t \in Readers, request[t].at = "searching"
    PROVE  \/ request'[t] = request[t]
           \/ request'[t].at = "listing"
           \/ /\ request'[t].at = "searching"
              /\ Width(request'[t]) \in Nat /\ Width(request'[t]) < Width(request[t])
<1>1. request \in [Readers -> Request] /\ request[t] \in Request
    BY DEF IInv, TypeOK
<1>2. ASSUME NEW r \in Readers, r # t,
             Ask(r) \/ GetLatest(r) \/ QueryMetric(r) \/ Search(r) \/ Found(r) \/ Reply(r)
      PROVE  request'[t] = request[t]
    BY <1>1, <1>2 DEF Ask, GetLatest, QueryMetric, Search, Halve, Found, Reply
<1>3. CASE Search(t)
    <2>1. request[t].lo \in Nat /\ request[t].hi \in Nat /\ request[t].lo < request[t].hi
        BY <1>1, <1>3 DEF Search, Request
    <2>2. PICK mid : mid = Mid(t)
        OBVIOUS
    <2>3. mid \in Nat /\ request[t].lo <= mid /\ mid < request[t].hi
        BY <2>1, <2>2, MidBetween DEF Mid
    <2>4. PICK q \in {[request[t] EXCEPT !.lo = mid + 1], [request[t] EXCEPT !.hi = mid]} :
              request' = [request EXCEPT ![t] = q]
        BY <1>1, <1>3, <2>2 DEF Search, Halve
    <2>5. /\ request'[t].at = request[t].at
          /\ \/ request'[t].lo = mid + 1 /\ request'[t].hi = request[t].hi
             \/ request'[t].lo = request[t].lo /\ request'[t].hi = mid
        BY <1>1, <2>4 DEF Request
    <2> QED BY <2>1, <2>3, <2>5 DEF Width
<1>4. CASE Found(t)
    <2>1. PICK all : request' = [request EXCEPT ![t] =
             [request[t] EXCEPT !.at = "listing", !.metric = None, !.lo = 0, !.hi = 0, !.cutoff = 0,
                                !.result = all]]
        BY <1>4 DEF Found
    <2>2. request'[t].at = "listing"
        BY <1>1, <2>1 DEF Request
    <2> QED BY <2>2
<1>5. CASE Ask(t) \/ GetLatest(t) \/ QueryMetric(t) \/ Reply(t)
    BY <1>5 DEF Ask, GetLatest, QueryMetric, Reply
<1>6. CASE UNCHANGED request
    BY <1>6
<1> QED
    BY <1>2, <1>3, <1>4, <1>5, <1>6
    DEF Next, vars, Tick, TickerFires, StartRound, ScrapeFails, Answer, AppendPoints, Evict

\* The safety half of KeepsScraping: the store's lock is always held by somebody who
\* is about to give it back, readers in the loop of QueryMetric included
\* (store.go:32-51, 62-90), so a round that waits for it waits for them alone.
THEOREM LockComesBack == ASSUME MetricsAssumption PROVE Spec => []LockHasHolder /\ SearchNarrows
<1>1. Init => LockHasHolder
    BY DEF MetricsAssumption, Init, LockHasHolder, NoRequest
<1>2. IInv' => \A r \in Readers : request'[r].at = "searching" => writer' = None
    BY DEF IInv, Searching
<1>3. IInv /\ IInv' /\ LockHasHolder /\ [Next]_vars => LockHasHolder'
    BY <1>2, HolderStep DEF LockHasHolder
<1>4. IInv /\ [Next]_vars =>
          [\A r \in Readers :
              request[r].at = "searching" =>
                  \/ request'[r] = request[r]
                  \/ request'[r].at = "listing"
                  \/ /\ request'[r].at = "searching"
                     /\ Width(request'[r]) \in Nat /\ Width(request'[r]) < Width(request[r])]_vars
    BY NarrowStep
<1>5. Spec => []LockHasHolder
    BY <1>1, <1>3, Invariance, PTL DEF Spec
<1>6. Spec => SearchNarrows
    BY <1>4, Invariance, PTL DEF Spec, SearchNarrows
<1> QED BY <1>5, <1>6
=============================================================================
