-------------------------------- MODULE Consume --------------------------------
(***************************************************************************)
(* A read of a topic: Browse (internal/api/handlers/message.go) and        *)
(* ConsumeMessages (internal/kafka/client.go), while the topic's           *)
(* partitions grow, are compacted and lose their oldest records.  The      *)
(* consumer of the Kafka library is external: it gives what a partition    *)
(* has from a position on, a bit at a time, and starts over at the oldest  *)
(* record when its position is out of range.                               *)
(***************************************************************************)
EXTENDS Naturals, Sequences, FiniteSetsExt

CONSTANTS
    Partitions,
    MaxOffset,    \* bound: offsets of a partition
    Topics,       \* what the partitions may hold when the request comes
    Wants,        \* what limit a request may have
    HardLimit,    \* 500 in the code
    OverFetch,    \* 5 in the code
    Passes        \* the records, by partition and offset, that the filter lets through

Positions == 0..MaxOffset

\* What a partition may hold: records from its first offset on, before its end.
PartitionLog ==
    {l \in [first : Positions, end : Positions, held : SUBSET Positions] :
        /\ l.first <= l.end
        /\ \A o \in l.held : l.first <= o /\ o < l.end}

ASSUME ConsumeAssumption ==
    /\ MaxOffset \in Nat
    /\ IsFiniteSet(Partitions)
    /\ Topics \subseteq [Partitions -> PartitionLog]
    /\ Wants \subseteq Nat \ {0}
    /\ HardLimit \in Nat \ {0} /\ OverFetch \in Nat \ {0}
    /\ Passes \subseteq Partitions \X Positions

\* Where a read may begin; `at` says where for one from a given offset.
Froms == {"earliest", "latest", "timestamp"} \X {0} \union {"offset"} \X Positions

VARIABLES
    stored,    \* partition -> first offset, end, and the offsets there is a record at
    request,   \* where from, partitions, limit asked for, limit of the read, filter
    phase,     \* of the request: "asked", "listed", "reading", or how it ended
    ends,      \* the end offsets listed for a read of the latest
    next,      \* where the consumer is in each partition
    begin,     \* history: the first offset it reads, once that is in range
    records    \* what has been read, as <<partition, offset>>

consumeVars == <<stored, request, phase, ends, next, begin, records>>

\* The limit of the read: more than is wanted if there is a filter.
LimitFor(want, filtered) ==
    LET l == IF filtered THEN want * OverFetch ELSE want
    IN  IF l > HardLimit THEN HardLimit ELSE l

Requests ==
    {[from |-> k[1], at |-> k[2], of |-> P, want |-> w, limit |-> LimitFor(w, f),
      filtered |-> f] :
        k \in Froms, f \in BOOLEAN,
        P \in {{p} : p \in Partitions} \union {Partitions}, w \in Wants}

ConsumeTypeOK ==
    /\ stored \in [Partitions -> PartitionLog]
    /\ request \in Requests
    /\ phase \in {"asked", "listed", "reading", "full", "exhausted", "cut", "failed"}
    /\ ends \in [Partitions -> Positions]
    /\ next \in [Partitions -> Positions] /\ begin \in [Partitions -> Positions]
    /\ records \in Seq(Partitions \X Positions) /\ Len(records) <= request.limit

\* What a partition has from an offset on.
From(p, o) == {h \in stored[p].held : h >= o /\ h >= stored[p].first}

ConsumeInit ==
    /\ stored \in Topics
    /\ request \in Requests
    /\ phase = "asked"
    /\ ends = [p \in Partitions |-> 0] /\ next = ends /\ begin = ends
    /\ records = <<>>

ReadFrom(position) ==
    /\ next' = position /\ begin' = position
    /\ phase' = "reading"

\* Earliest, or an offset: no look at the topic is needed.
ListNothing ==
    /\ phase = "asked" /\ request.from \in {"earliest", "offset"}
    /\ ReadFrom([p \in Partitions |-> IF request.from = "earliest" THEN stored[p].first
                                                                  ELSE request.at])
    /\ UNCHANGED <<stored, request, ends, records>>

\* A time is looked up: some offset that each partition has, or its end.
ListOffsetsAfterMilli ==
    /\ phase = "asked" /\ request.from = "timestamp"
    /\ \E position \in [Partitions -> Positions] :
          /\ \A p \in Partitions : position[p] \in stored[p].first..stored[p].end
          /\ ReadFrom(position)
    /\ UNCHANGED <<stored, request, ends, records>>

\* For a read of the latest the ends are listed, and after that the beginnings.
ListEndOffsets ==
    /\ phase = "asked" /\ request.from = "latest"
    /\ ends' = [p \in Partitions |-> stored[p].end]
    /\ phase' = "listed"
    /\ UNCHANGED <<stored, request, next, begin, records>>

StartEarly(end, first) ==             \* mutant: one more than the limit before the end
    Max({first} \union (IF end > request.limit THEN {(end - request.limit) - 1} ELSE {0}))

\* The limit of the read before the end, but not before the first record.
StartFor(end, first) ==
    Max({first} \union (IF end >= request.limit THEN {end - request.limit} ELSE {0}))

ListStartOffsets ==
    /\ phase = "listed"
    /\ ReadFrom([p \in Partitions |-> StartFor(ends[p], stored[p].first)])
    /\ UNCHANGED <<stored, request, ends, records>>

\* Either list can fail, for the cluster or for the ten seconds of the request.
ListFails ==
    /\ phase \in {"asked", "listed"}
    /\ phase' = "failed"
    /\ UNCHANGED <<stored, request, ends, next, begin, records>>

Reading(p) == phase = "reading" /\ p \in request.of /\ Len(records) < request.limit

\* The consumer finds its position out of range and takes the oldest one.
Reset(p) ==
    /\ Reading(p)
    /\ next[p] < stored[p].first \/ next[p] > stored[p].end
    /\ next' = [next EXCEPT ![p] = stored[p].first]
    /\ begin' = IF begin[p] > stored[p].end THEN [begin EXCEPT ![p] = stored[p].first] ELSE begin
    /\ UNCHANGED <<stored, request, phase, ends, records>>

Least(m, n) == IF m < n THEN m ELSE n

\* The n least offsets of S, in order.
Batches(S, n) ==
    {batch \in [1..n -> S] :
        /\ \A i, j \in 1..n : i < j => batch[i] < batch[j]
        /\ \A o \in S : o <= batch[n] => o \in Range(batch)}

\* The next n records of a partition, or as many as the limit has room for.  A fetch
\* that brings several partitions is several of these.
Fetch(p, n) ==
    /\ Reading(p) /\ stored[p].first <= next[p] /\ next[p] <= stored[p].end
    /\ \E batch \in Batches(From(p, next[p]), n) :
         /\ records' = records \o [i \in 1..Least(n, request.limit - Len(records)) |-> <<p, batch[i]>>]
         /\ next' = [next EXCEPT ![p] = batch[n] + 1]
    /\ UNCHANGED <<stored, request, phase, ends, begin>>

\* Nothing new has come in two seconds because there is nothing, or because the
\* brokers are slow, or the ten seconds are over: the read ends with what it has.
\* The code cannot tell the two apart.
NothingThere == \A p \in request.of : From(p, next[p]) = {} /\ next[p] <= stored[p].end

End ==
    /\ phase = "reading"
    /\ \/ Len(records) = request.limit /\ phase' = "full"
       \/ /\ Len(records) < request.limit
          /\ phase' \in {IF NothingThere THEN "exhausted" ELSE "cut", "cut", "failed"}
    /\ UNCHANGED <<stored, request, ends, next, begin, records>>

\* Producers, retention and compaction, which leaves the last record alone; what
\* happens to a partition that is not asked for makes no difference.
Produce(p) ==
    /\ stored[p].end < MaxOffset
    /\ stored' = [stored EXCEPT ![p].end = @ + 1, ![p].held = @ \union {stored[p].end}]

Retain(p) ==
    /\ stored[p].first < stored[p].end
    /\ stored' = [stored EXCEPT ![p].first = @ + 1, ![p].held = @ \ {stored[p].first}]

Compact(p) ==
    \E o \in From(p, 0) : o + 1 < stored[p].end /\ stored' = [stored EXCEPT ![p].held = @ \ {o}]

TopicChanges ==
    /\ \E p \in request.of : Produce(p) \/ Retain(p) \/ Compact(p)
    /\ UNCHANGED <<request, phase, ends, next, begin, records>>

ConsumeMessages ==
    \/ ListNothing \/ ListOffsetsAfterMilli \/ ListEndOffsets \/ ListStartOffsets
    \/ ListFails \/ End
    \/ \E p \in Partitions : Reset(p) \/ \E n \in 1..MaxOffset : Fetch(p, n)

ConsumeNext == ConsumeMessages \/ (phase \in {"asked", "listed", "reading"} /\ TopicChanges)
ConsumeSpec == ConsumeInit /\ [][ConsumeNext]_consumeVars

\* What Browse answers: of a filtered read the first that pass.
Passing(r) == r \in Passes

FirstThatPass(i) ==
    /\ Passing(records[i])
    /\ Cardinality({j \in 1..(i - 1) : Passing(records[j])}) < request.want

Answer == {records[i] : i \in {j \in DOMAIN records : request.filtered => FirstThatPass(j)}}
-----------------------------------------------------------------------------
\* Whatever the topic does meanwhile, nothing is answered twice, and of the
\* partition's records from where the read began to the last one read none that is
\* still there is missing.
NoGaps ==
    /\ IsInjective(records)
    /\ \A p \in request.of, i \in DOMAIN records :
          records[i][1] = p =>
              \A o \in From(p, begin[p]) : o <= records[i][2] => <<p, o>> \in Range(records)

\* A read of the latest of one partition that ends because it has enough, or because
\* nothing more is there, has all there still is of the last records before the end
\* it was told; it does not stop short of them.  So has one of several partitions
\* that ends because nothing more is there.
LatestAreThere ==
    /\ request.from = "latest"
    /\ \/ phase = "exhausted"
       \/ phase = "full" /\ Cardinality(request.of) = 1
    =>
        \A p \in request.of, o \in Positions :
            /\ o \in From(p, 0) /\ o < ends[p] /\ o + request.limit >= ends[p]
            /\ request.filtered => Passing(<<p, o>>) /\ Cardinality(Answer) < request.want
            => <<p, o>> \in Answer

\* Both: an answer has no holes, and the latest are the latest.
AnswerIsRun == NoGaps /\ LatestAreThere
=============================================================================
