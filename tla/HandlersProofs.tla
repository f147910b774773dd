------------------------ MODULE HandlersProofs ----------------------------
(***************************************************************************)
(* For every number of connections, window, limit and sweep interval: the  *)
(* limiter implements FixedWindow, so neither the lazy closing of windows  *)
(* nor the sweep can be noticed, and no span of a window's length has more *)
(* than twice the limit.  Of overlapping logins the last one gets through. *)
(* The limiter's map does not grow with the keys ever seen.  Rules grant   *)
(* what they stand for, and each step of it leaves less to expand.         *)
(* A read of a topic has no holes, and one of the latest has the latest,   *)
(* whatever happens to the topic meanwhile.  At the end all this is taken  *)
(* to the composition of the four.                                         *)
(***************************************************************************)
EXTENDS MCHandlers, SequenceTheorems, FiniteSetTheorems, TLAPS

\* An attempt's key is one of the keys.
LEMMA KeyOfIsKey == \A c \in Clients : KeyOf(c) \in Keys
  BY LimiterAssumption DEF KeyOf, Keys

\* Appending a call to the log gives a log.
LEMMA RecordLog ==
    ASSUME log \in Seq(Event), clock \in Nat, NEW c \in Clients,
           NEW outcome \in {"refused", "ok", "failed"}, Record(c, outcome)
    PROVE  log' \in Seq(Event)
  <1>1. [client |-> c, time |-> clock, outcome |-> outcome] \in Event
    BY DEF Event
  <1> QED BY <1>1, AppendProperties DEF Record

\* What LetThrough writes for its key, and that it writes nothing else.
LEMMA LetThroughWrites ==
    ASSUME TypeOK, NEW c \in Clients, LetThrough(c)
    PROVE  /\ DOMAIN attempts' = DOMAIN attempts \union {KeyOf(c)}
           /\ \A j \in DOMAIN attempts : j # KeyOf(c) => attempts'[j] = attempts[j]
           /\ Over(KeyOf(c)) => attempts'[KeyOf(c)] = [count |-> 1, start |-> clock]
           /\ ~Over(KeyOf(c)) =>
                /\ ~Full(KeyOf(c))
                /\ attempts'[KeyOf(c)] = [count |-> attempts[KeyOf(c)].count + 1,
                                          start |-> attempts[KeyOf(c)].start]
  <1> DEFINE k == KeyOf(c)
  <1>1. CASE Over(k)
    BY <1>1 DEF LetThrough, Write
  <1>2. CASE ~Over(k)
    <2>1. k \in DOMAIN attempts /\ attempts[k] \in Attempt
      BY <1>2 DEF Over, TypeOK
    <2>2. [attempts[k] EXCEPT !.count = @ + 1]
            = [count |-> attempts[k].count + 1, start |-> attempts[k].start]
      BY <2>1 DEF Attempt
    <2>3. ~Full(k) /\ Write(k, [attempts[k] EXCEPT !.count = @ + 1])
      BY <1>2 DEF LetThrough
    <2> QED BY <1>2, <2>2, <2>3 DEF Write
  <1> QED BY <1>1, <1>2

\* A sweep drops keys and changes nothing about the others.
LEMMA EnterKeeps ==
    ASSUME NEW c \in Clients, Enter(c)
    PROVE  /\ DOMAIN attempts' \subseteq DOMAIN attempts
           /\ \A j \in DOMAIN attempts' : attempts'[j] = attempts[j]
           /\ \A j \in DOMAIN attempts : Kept(j) => j \in DOMAIN attempts'
  BY DEF Enter, Restrict

-----------------------------------------------------------------------------
\* The state the limiter can reach is well-typed (ratelimit.go:35-63).
THEOREM LimiterTypeCorrect == Spec => []TypeOK
  <1>1. Init => TypeOK
    BY LimiterAssumption, EmptySeq DEF Init, TypeOK
  <1>2. TypeOK /\ [Next]_vars => TypeOK'
    <2> SUFFICES ASSUME TypeOK, [Next]_vars PROVE TypeOK'
      OBVIOUS
    <2>1. CASE Tick
      BY <2>1 DEF Tick, TypeOK
    <2>2. ASSUME NEW c \in Clients, Enter(c) PROVE TypeOK'
      <3>1. calls' \in 0..(SweepEvery - 1)
        BY <2>2, LimiterAssumption DEF Enter, TypeOK
      <3> QED BY <2>2, <3>1, EnterKeeps DEF Enter, TypeOK
    <2>3. ASSUME NEW c \in Clients, Refuse(c) PROVE TypeOK'
      <3>1. log' \in Seq(Event)
        BY <2>3, RecordLog DEF Refuse, TypeOK
      <3> QED BY <2>3, <3>1 DEF Refuse, TypeOK
    <2>4. ASSUME NEW c \in Clients, LetThrough(c) PROVE TypeOK'
      <3>1. log' \in Seq(Event)
        BY <2>4, RecordLog, LimiterAssumption DEF LetThrough, TypeOK
      <3>2. DOMAIN attempts' \subseteq Keys
        BY <2>4, LetThroughWrites, KeyOfIsKey DEF TypeOK
      <3>3. ASSUME NEW j \in DOMAIN attempts' PROVE attempts'[j] \in Attempt
        <4>1. CASE j # KeyOf(c)
          BY <2>4, <3>3, <4>1, LetThroughWrites DEF TypeOK
        <4>2. CASE j = KeyOf(c) /\ Over(j)
          <5>1. Over(KeyOf(c))
            BY <4>2
          <5>2. attempts'[KeyOf(c)] = [count |-> 1, start |-> clock]
            BY <2>4, <5>1, LetThroughWrites
          <5> QED BY <4>2, <5>2 DEF TypeOK, Attempt
        <4>3. CASE j = KeyOf(c) /\ ~Over(j)
          <5>1. attempts[KeyOf(c)] \in Attempt /\ ~Over(KeyOf(c))
            BY <4>3 DEF Over, TypeOK
          <5>2. attempts'[KeyOf(c)] = [count |-> attempts[KeyOf(c)].count + 1,
                                       start |-> attempts[KeyOf(c)].start]
            BY <2>4, <5>1, LetThroughWrites
          <5> QED BY <4>3, <5>1, <5>2 DEF Attempt
        <4> QED BY <4>1, <4>2, <4>3
      <3> QED BY <2>4, <3>1, <3>2, <3>3 DEF LetThrough, TypeOK
    <2>5. CASE UNCHANGED vars
      BY <2>5 DEF vars, TypeOK
    <2> QED BY <2>1, <2>2, <2>3, <2>4, <2>5 DEF Next
  <1> QED BY <1>1, <1>2, PTL DEF Spec

-----------------------------------------------------------------------------
\* A key in the map is not taken for one whose window is closed.
LEMMA OpenIsNotClosed ==
    ASSUME TypeOK, NEW k \in Keys
    PROVE  (OpenWindow[k] = Closed) <=> Over(k)
  <1>1. k \in DOMAIN attempts => attempts[k] # Closed
    BY DEF TypeOK, Attempt, Closed
  <1> QED BY <1>1 DEF OpenWindow, Over

\* Sweeps and lazily closed windows can not be noticed: every step of the limiter
\* is a step of a limiter whose windows close by themselves, or none.
THEOREM LimiterImplementsFixedWindow == Spec => ImplementsFixedWindow
  <1>1. Init => Limit!Init
    BY DEF Init, Limit!Init, OpenWindow, Over
  <1>2. TypeOK /\ TypeOK' /\ [Next]_vars => [Limit!Next]_(Limit!vars)
    <2> SUFFICES ASSUME TypeOK, TypeOK', [Next]_vars PROVE [Limit!Next]_(Limit!vars)
      OBVIOUS
    <2>1. CASE Tick
      <3>1. ASSUME NEW k \in Keys
            PROVE  OpenWindow'[k] =
                     IF OpenWindow[k] = Closed \/ OpenWindow[k].start + Window <= clock + 1
                     THEN Closed ELSE OpenWindow[k]
        <4>1. CASE k \notin DOMAIN attempts
          BY <2>1, <3>1, <4>1 DEF Tick, OpenWindow, Over
        <4>2. CASE k \in DOMAIN attempts
          <5>1. attempts[k].start \in Nat /\ clock \in Nat /\ Window \in Nat
            BY <4>2, LimiterAssumption DEF TypeOK, Attempt
          <5>2. Over(k) => Over(k)'
            BY <2>1, <4>2, <5>1 DEF Over, Age, Tick
          <5>3. ~Over(k) => (Over(k)' <=> attempts[k].start + Window <= clock + 1)
            BY <2>1, <4>2, <5>1 DEF Over, Age, Tick
          <5> QED BY <2>1, <3>1, <5>2, <5>3, OpenIsNotClosed DEF Tick, OpenWindow
        <4> QED BY <4>1, <4>2
      <3>2. Limit!Tick
        BY <2>1, <3>1 DEF Tick, Limit!Tick, OpenWindow
      <3> QED BY <3>2 DEF Limit!Next
    <2>2. ASSUME NEW c \in Clients, Enter(c) PROVE UNCHANGED Limit!vars
      <3>1. ASSUME NEW k \in Keys PROVE OpenWindow'[k] = OpenWindow[k]
        <4>1. Over(k) <=> Over(k)'
          <5>1. ASSUME k \in DOMAIN attempts, k \notin DOMAIN attempts' PROVE Over(k)
            <6>1. ~Kept(k)
              BY <2>2, <5>1, EnterKeeps
            <6>2. attempts[k].start \in Nat /\ clock \in Nat /\ Window \in Nat
              BY <5>1, LimiterAssumption DEF TypeOK, Attempt
            <6> QED BY <6>1, <6>2 DEF Kept, Over, Age
          <5> QED BY <2>2, <5>1, EnterKeeps DEF Over, Age, Enter
        <4>2. ~Over(k)' => attempts'[k] = attempts[k]
          BY <2>2, EnterKeeps DEF Over
        <4> QED BY <3>1, <4>1, <4>2 DEF OpenWindow
      <3>2. OpenWindow' = OpenWindow
        BY <3>1 DEF OpenWindow
      <3> QED BY <2>2, <3>2 DEF Enter, Limit!vars
    <2>3. ASSUME NEW c \in Clients, Refuse(c) PROVE Limit!Refuse(c)
      <3>1. OpenWindow[KeyOf(c)] = attempts[KeyOf(c)] /\ OpenWindow[KeyOf(c)] # Closed
        BY <2>3, KeyOfIsKey, OpenIsNotClosed DEF Refuse, OpenWindow
      <3>2. OpenWindow' = OpenWindow
        BY <2>3 DEF Refuse, OpenWindow, Over, Age
      <3> QED BY <2>3, <3>1, <3>2 DEF Refuse, Full, Record, Limit!Refuse, Limit!Record
    <2>4. ASSUME NEW c \in Clients, LetThrough(c) PROVE Limit!LetThrough(c)
      <3> DEFINE k == KeyOf(c)
      <3>1. k \in Keys
        BY KeyOfIsKey
      <3>2. ASSUME NEW j \in Keys, j # k PROVE OpenWindow'[j] = OpenWindow[j]
        <4>0. DOMAIN attempts' = DOMAIN attempts \union {k}
          BY <2>4, LetThroughWrites
        <4>1. j \in DOMAIN attempts' <=> j \in DOMAIN attempts
          BY <3>2, <4>0
        <4>2. j \in DOMAIN attempts => attempts'[j] = attempts[j]
          BY <2>4, <3>2, LetThroughWrites
        <4>3. clock' = clock
          BY <2>4 DEF LetThrough
        <4> QED BY <3>2, <4>1, <4>2, <4>3 DEF OpenWindow, Over, Age
      <3>3. attempts'[k] \in Attempt /\ k \in DOMAIN attempts'
        BY <2>4, LetThroughWrites DEF TypeOK
      <3>4. clock \in Nat /\ clock' = clock /\ Window \in Nat \ {0}
        BY <2>4, LimiterAssumption DEF LetThrough, TypeOK
      <3>5. \E outcome \in Outcomes : Limit!Record(c, outcome)
        BY <2>4 DEF LetThrough, Record, Limit!Record
      <3>6. CASE Over(k)
        <4>1. attempts'[k] = [count |-> 1, start |-> clock]
          BY <2>4, <3>6, LetThroughWrites
        <4>2. ~Over(k)'
          BY <3>3, <3>4, <4>1 DEF Over, Age
        <4>3. OpenWindow'[k] = [count |-> 1, start |-> clock]
          BY <3>1, <4>1, <4>2 DEF OpenWindow
        <4>4. OpenWindow' = [OpenWindow EXCEPT ![k] = [count |-> 1, start |-> clock]]
          BY <3>1, <3>2, <4>3 DEF OpenWindow
        <4>5. OpenWindow[k] = Closed
          BY <3>1, <3>6, OpenIsNotClosed
        <4> QED BY <3>4, <3>5, <4>4, <4>5 DEF Limit!LetThrough
      <3>7. CASE ~Over(k)
        <4>1. /\ ~Full(k)
              /\ attempts'[k] = [count |-> attempts[k].count + 1, start |-> attempts[k].start]
          BY <2>4, <3>7, LetThroughWrites
        <4>2. ~Over(k)'
          BY <3>3, <3>4, <3>7, <4>1 DEF Over, Age
        <4>3. OpenWindow[k] = attempts[k] /\ OpenWindow[k] # Closed /\ attempts[k] \in Attempt
          BY <3>1, <3>7, OpenIsNotClosed DEF OpenWindow, Over, TypeOK
        <4>4. OpenWindow'[k] = [OpenWindow[k] EXCEPT !.count = @ + 1]
          BY <3>1, <4>1, <4>2, <4>3 DEF OpenWindow, Attempt
        <4>5. OpenWindow' = [OpenWindow EXCEPT ![k] = [OpenWindow[k] EXCEPT !.count = @ + 1]]
          BY <3>1, <3>2, <4>4 DEF OpenWindow
        <4>6. OpenWindow[k].count < MaxAttempts
          BY <4>1, <4>3, LimiterAssumption DEF Full, Attempt
        <4> QED BY <3>4, <3>5, <4>3, <4>5, <4>6 DEF Limit!LetThrough
      <3> QED BY <3>6, <3>7
    <2>5. CASE UNCHANGED vars
      BY <2>5 DEF vars, Limit!vars, OpenWindow, Over, Age
    <2> QED BY <2>1, <2>2, <2>3, <2>4, <2>5 DEF Next, Limit!Next
  <1> QED BY <1>1, <1>2, LimiterTypeCorrect, PTL DEF Spec, ImplementsFixedWindow, Limit!Spec

-----------------------------------------------------------------------------
(* What a span can hold. *)

\* The calls of l that got through with key k, from tick a to before tick b.
Through(l, k, a, b) ==
    {i \in DOMAIN l : /\ KeyOf(l[i].client) = k /\ l[i].outcome \in {"ok", "failed"}
                      /\ a <= l[i].time /\ l[i].time < b}

\* Whether call e is one of them.
Counted(e, k, a, b) ==
    KeyOf(e.client) = k /\ e.outcome \in {"ok", "failed"} /\ a <= e.time /\ e.time < b

Until(l, now) == \A i \in DOMAIN l : l[i].time <= now

\* A span that reaches beyond tick e has room for what k had before: it misses the
\* call that opened the window of that time.
Worn(l, k, e) == \A t \in Nat : t + Window > e => Cardinality(Through(l, k, t, e)) < MaxAttempts

\* A key with window w: there is the call that opened it, and no more than were
\* counted; the window before it is worn.
InWindow(l, k, w, now) ==
    /\ w.start <= now /\ w.count <= MaxAttempts
    /\ Cardinality(Through(l, k, w.start, now + 1)) <= w.count
    /\ \E i \in Through(l, k, w.start, now + 1) : l[i].time = w.start
    /\ Through(l, k, w.start + Window, now + 1) = {}
    /\ Worn(l, k, w.start)

\* A key that was never used, or was swept, or whose window is over.
NoWindow(l, k, now) == Worn(l, k, now) /\ Through(l, k, now, now + 1) = {}

Capped(l, k) == \A t \in Nat : Cardinality(Through(l, k, t, t + Window)) < 2 * MaxAttempts

CapInv ==
    /\ Until(log, clock)
    /\ \A k \in Keys : /\ Capped(log, k)
                       /\ IF k \in DOMAIN attempts THEN InWindow(log, k, attempts[k], clock)
                                                   ELSE NoWindow(log, k, clock)

\* The calls that are counted are finitely many, and fewer in a part of them.
LEMMA FewerCalls ==
    ASSUME NEW l \in Seq(Event), NEW S \in SUBSET DOMAIN l, NEW T \in SUBSET S
    PROVE  /\ IsFiniteSet(S) /\ IsFiniteSet(T)
           /\ Cardinality(S) \in Nat /\ Cardinality(T) \in Nat
           /\ Cardinality(T) <= Cardinality(S)
           /\ T # S => Cardinality(T) < Cardinality(S)
  <1>1. Len(l) \in Nat /\ DOMAIN l = 1..Len(l)
    BY LenProperties
  <1>2. IsFiniteSet(1..Len(l))
    BY <1>1, FS_Interval
  <1>3. IsFiniteSet(S)
    BY <1>1, <1>2, FS_Subset
  <1>4. IsFiniteSet(T) /\ Cardinality(T) <= Cardinality(S) /\ (Cardinality(S) = Cardinality(T) => S = T)
    BY <1>3, FS_Subset
  <1>5. Cardinality(S) \in Nat /\ Cardinality(T) \in Nat
    BY <1>3, <1>4, FS_CardinalityType
  <1> QED BY <1>3, <1>4, <1>5

\* A shorter stretch of time holds no more; one that misses a call holds fewer.
LEMMA ShorterStretch ==
    ASSUME NEW l \in Seq(Event), NEW k, NEW a \in Nat, NEW b \in Nat, NEW c \in Nat, NEW d \in Nat,
           a <= c, d <= b
    PROVE  /\ Cardinality(Through(l, k, a, b)) \in Nat
           /\ Cardinality(Through(l, k, c, d)) \in Nat
           /\ Cardinality(Through(l, k, c, d)) <= Cardinality(Through(l, k, a, b))
           /\ (\E i \in Through(l, k, a, b) : l[i].time < c) =>
                Cardinality(Through(l, k, c, d)) < Cardinality(Through(l, k, a, b))
  <1>1. \A i \in DOMAIN l : l[i].time \in Nat
    <2>1. \A i \in DOMAIN l : l[i] \in Event
      BY ElementOfSeq
    <2> QED BY <2>1 DEF Event
  <1>2. Through(l, k, a, b) \subseteq DOMAIN l
    BY DEF Through
  <1>3. Through(l, k, c, d) \subseteq Through(l, k, a, b)
    BY <1>1 DEF Through
  <1>4. ASSUME NEW i \in Through(l, k, a, b), l[i].time < c
        PROVE  Through(l, k, c, d) # Through(l, k, a, b)
    <2>1. i \notin Through(l, k, c, d)
      BY <1>1, <1>2, <1>4 DEF Through
    <2> QED BY <2>1
  <1> QED BY <1>2, <1>3, <1>4, FewerCalls

\* A stretch of time holds no more than its two parts.
LEMMA TwoStretches ==
    ASSUME NEW l \in Seq(Event), NEW k, NEW a \in Nat, NEW b \in Nat, NEW c \in Nat
    PROVE  Cardinality(Through(l, k, a, c))
             <= Cardinality(Through(l, k, a, b)) + Cardinality(Through(l, k, b, c))
  <1> DEFINE S == Through(l, k, a, b)
             T == Through(l, k, b, c)
  <1>1. \A i \in DOMAIN l : l[i].time \in Nat
    <2>1. \A i \in DOMAIN l : l[i] \in Event
      BY ElementOfSeq
    <2> QED BY <2>1 DEF Event
  <1>2. S \subseteq DOMAIN l /\ T \subseteq DOMAIN l
    BY DEF Through
  <1>3. Through(l, k, a, c) \subseteq S \union T
    BY <1>1 DEF Through
  <1>4. /\ IsFiniteSet(S) /\ IsFiniteSet(T)
        /\ Cardinality(S) \in Nat /\ Cardinality(T) \in Nat /\ Cardinality(S \cap T) \in Nat
    BY <1>2, FewerCalls
  <1>5. Cardinality(Through(l, k, a, c)) <= Cardinality(S \union T) /\ Cardinality(S \union T) \in Nat
        /\ Cardinality(Through(l, k, a, c)) \in Nat
    BY <1>2, <1>3, FewerCalls
  <1>6. Cardinality(S \union T) = Cardinality(S) + Cardinality(T) - Cardinality(S \cap T)
    BY <1>4, FS_Union
  <1> HIDE DEF S, T
  <1>7. Cardinality(Through(l, k, a, c)) <= Cardinality(S) + Cardinality(T)
    BY <1>4, <1>5, <1>6
  <1> QED BY <1>7 DEF S, T

\* One more call is one more where it is counted, and changes nothing elsewhere.
LEMMA OneMoreCall ==
    ASSUME NEW l \in Seq(Event), NEW e \in Event, NEW k, NEW a, NEW b
    PROVE  /\ Through(l, k, a, b) \subseteq Through(Append(l, e), k, a, b)
           /\ ~Counted(e, k, a, b) => Through(Append(l, e), k, a, b) = Through(l, k, a, b)
           /\ Counted(e, k, a, b) =>
                /\ Len(l) + 1 \in Through(Append(l, e), k, a, b)
                /\ Cardinality(Through(Append(l, e), k, a, b)) = Cardinality(Through(l, k, a, b)) + 1
  <1> DEFINE S == Through(l, k, a, b)
             n == Len(l) + 1
  <1>1. /\ Len(l) \in Nat /\ DOMAIN l = 1..Len(l)
        /\ DOMAIN Append(l, e) = 1..(Len(l) + 1)
        /\ \A i \in 1..Len(l) : Append(l, e)[i] = l[i]
        /\ Append(l, e)[Len(l) + 1] = e
    BY LenProperties, AppendProperties
  <1>2. ~Counted(e, k, a, b) => Through(Append(l, e), k, a, b) = S
    BY <1>1 DEF Through, Counted
  <1>3. Counted(e, k, a, b) => Through(Append(l, e), k, a, b) = S \union {n}
    BY <1>1 DEF Through, Counted
  <1>4. S \subseteq DOMAIN l /\ n \notin S
    BY <1>1 DEF Through
  <1>5. IsFiniteSet(S)
    BY <1>4, FewerCalls
  <1>6. Cardinality(S \union {n}) = Cardinality(S) + 1
    BY <1>4, <1>5, FS_AddElement
  <1> QED BY <1>2, <1>3, <1>6

LEMMA HowMany ==
    ASSUME NEW l \in Seq(Event), NEW k, NEW a, NEW b
    PROVE  Cardinality(Through(l, k, a, b)) \in Nat
  <1>1. Through(l, k, a, b) \subseteq DOMAIN l
    BY DEF Through
  <1> QED BY <1>1, FewerCalls

\* Nothing has happened after now.
LEMMA NothingLater ==
    ASSUME NEW l \in Seq(Event), NEW now \in Nat, Until(l, now), NEW k, NEW a \in Nat, NEW b \in Nat
    PROVE  /\ b > now => Through(l, k, a, b) = Through(l, k, a, now + 1)
           /\ a > now => Through(l, k, a, b) = {}
           /\ b <= a => Through(l, k, a, b) = {}
  <1>1. \A i \in DOMAIN l : l[i].time \in Nat /\ l[i].time <= now
    <2>1. \A i \in DOMAIN l : l[i] \in Event
      BY ElementOfSeq
    <2> QED BY <2>1 DEF Event, Until
  <1> QED BY <1>1 DEF Through

\* A window that is over is none: a span that reaches beyond now has missed the
\* call that opened it.
LEMMA ClosingWindow ==
    ASSUME NEW l \in Seq(Event), NEW now \in Nat, Until(l, now), NEW k, NEW w \in Attempt,
           InWindow(l, k, w, now), now >= w.start + Window
    PROVE  NoWindow(l, k, now)
  <1>1. w.start \in Nat /\ w.count \in Nat /\ Window \in Nat /\ MaxAttempts \in Nat
    BY LimiterAssumption DEF Attempt
  <1>2. ASSUME NEW t \in Nat, t + Window > now
        PROVE  Cardinality(Through(l, k, t, now)) < MaxAttempts
    <2>1. w.start <= t /\ w.start < t
      BY <1>1, <1>2
    <2>2. \E i \in Through(l, k, w.start, now + 1) : l[i].time < t
      BY <2>1 DEF InWindow
    <2>3. /\ Cardinality(Through(l, k, t, now)) \in Nat
          /\ Cardinality(Through(l, k, w.start, now + 1)) \in Nat
          /\ Cardinality(Through(l, k, t, now)) < Cardinality(Through(l, k, w.start, now + 1))
      <3>1. now + 1 \in Nat /\ now <= now + 1
        OBVIOUS
      <3> QED BY <1>1, <2>1, <2>2, <3>1, ShorterStretch
    <2>4. Cardinality(Through(l, k, w.start, now + 1)) <= w.count /\ w.count <= MaxAttempts
      BY DEF InWindow
    <2> QED BY <1>1, <2>3, <2>4
  <1>3. Through(l, k, now, now + 1) = {}
    <2>1. Through(l, k, w.start + Window, now + 1) = {}
      BY DEF InWindow
    <2>2. \A i \in DOMAIN l : l[i].time \in Nat
      <3>1. \A i \in DOMAIN l : l[i] \in Event
        BY ElementOfSeq
      <3> QED BY <3>1 DEF Event
    <2> QED BY <1>1, <2>1, <2>2 DEF Through
  <1> QED BY <1>2, <1>3 DEF NoWindow, Worn

\* A call that is let through now, and what it adds to a span.
LEMMA CapOfOneMore ==
    ASSUME NEW l \in Seq(Event), NEW now \in Nat, Until(l, now), NEW k, NEW e \in Event,
           e.time = now, Capped(l, k),
           \A t \in Nat : t <= now /\ now < t + Window =>
              Cardinality(Through(l, k, t, t + Window)) + 1 < 2 * MaxAttempts
    PROVE  Capped(Append(l, e), k)
  <1> SUFFICES ASSUME NEW t \in Nat
               PROVE  Cardinality(Through(Append(l, e), k, t, t + Window)) < 2 * MaxAttempts
    BY DEF Capped
  <1>1. CASE Counted(e, k, t, t + Window)
    <2>1. t <= now /\ now < t + Window
      BY <1>1 DEF Counted
    <2>2. Cardinality(Through(Append(l, e), k, t, t + Window))
            = Cardinality(Through(l, k, t, t + Window)) + 1
      BY <1>1, OneMoreCall
    <2> QED BY <2>1, <2>2
  <1>2. CASE ~Counted(e, k, t, t + Window)
    <2>1. Through(Append(l, e), k, t, t + Window) = Through(l, k, t, t + Window)
      BY <1>2, OneMoreCall
    <2> QED BY <2>1 DEF Capped
  <1> QED BY <1>1, <1>2

\* The first call of a window.
LEMMA OpeningWindow ==
    ASSUME NEW l \in Seq(Event), NEW now \in Nat, Until(l, now), NEW k, NEW e \in Event,
           Counted(e, k, now, now + 1), Capped(l, k), NoWindow(l, k, now)
    PROVE  /\ Capped(Append(l, e), k)
           /\ InWindow(Append(l, e), k, [count |-> 1, start |-> now], now)
  <1>1. /\ Window \in Nat /\ Window > 0 /\ MaxAttempts \in Nat /\ MaxAttempts > 0
        /\ now + 1 \in Nat /\ now + Window \in Nat
    BY LimiterAssumption
  <1>2. e.time = now
    <2>1. e.time \in Nat BY DEF Event
    <2> QED BY <2>1 DEF Counted
  <1>3. Until(Append(l, e), now) /\ Append(l, e) \in Seq(Event) /\ Append(l, e)[Len(l) + 1] = e
    <2>1. /\ Len(l) \in Nat /\ DOMAIN l = 1..Len(l)
          /\ DOMAIN Append(l, e) = 1..(Len(l) + 1)
          /\ \A i \in 1..Len(l) : Append(l, e)[i] = l[i]
          /\ Append(l, e)[Len(l) + 1] = e
          /\ Append(l, e) \in Seq(Event)
      BY LenProperties, AppendProperties
    <2> QED BY <1>2, <2>1 DEF Until
  <1>4. Capped(Append(l, e), k)
    <2>1. ASSUME NEW t \in Nat, t <= now, now < t + Window
          PROVE  Cardinality(Through(l, k, t, t + Window)) + 1 < 2 * MaxAttempts
      <3>1. t + Window \in Nat
        BY <1>1
      <3>2. Through(l, k, now, t + Window) = {}
        BY <1>1, <2>1, <3>1, NothingLater DEF NoWindow
      <3>3. Cardinality(Through(l, k, t, now)) < MaxAttempts
        BY <2>1 DEF NoWindow, Worn
      <3>4. Cardinality(Through(l, k, t, now)) \in Nat /\ Cardinality(Through(l, k, t, t + Window)) \in Nat
        BY HowMany
      <3>5. Cardinality(Through(l, k, t, t + Window)) <= Cardinality(Through(l, k, t, now)) + 0
        BY <3>1, <3>2, TwoStretches, FS_EmptySet
      <3> QED BY <1>1, <3>3, <3>4, <3>5
    <2> QED BY <1>2, <2>1, CapOfOneMore
  <1>5. Cardinality(Through(Append(l, e), k, now, now + 1)) = 1
    <2>1. Cardinality(Through(l, k, now, now + 1)) = 0
      BY FS_EmptySet DEF NoWindow
    <2> QED BY <2>1, OneMoreCall
  <1>6. Len(l) + 1 \in Through(Append(l, e), k, now, now + 1)
    BY OneMoreCall
  <1>7. Through(Append(l, e), k, now + Window, now + 1) = {}
    <2>1. now + 1 <= now + Window
      BY <1>1
    <2> QED BY <1>1, <1>3, <2>1, NothingLater
  <1>8. Worn(Append(l, e), k, now)
    <2>1. \A t : Through(Append(l, e), k, t, now) = Through(l, k, t, now)
      <3>1. \A t : ~Counted(e, k, t, now)
        BY <1>2 DEF Counted
      <3> QED BY <3>1, OneMoreCall
    <2> QED BY <2>1 DEF NoWindow, Worn
  <1>9. \E i \in Through(Append(l, e), k, now, now + 1) : Append(l, e)[i].time = now
    BY <1>2, <1>3, <1>6
  <1>10. PICK w : w = [count |-> 1, start |-> now]
    OBVIOUS
  <1>11. w.count = 1 /\ w.start = now
    BY <1>10
  <1>12. InWindow(Append(l, e), k, w, now)
    <2>1. now <= now /\ 1 <= MaxAttempts /\ 1 <= 1
      BY <1>1
    <2> QED BY <1>5, <1>7, <1>8, <1>9, <1>11, <2>1 DEF InWindow
  <1> QED BY <1>4, <1>10, <1>12

\* A further call of a window that has room for it.
LEMMA FurtherCall ==
    ASSUME NEW l \in Seq(Event), NEW now \in Nat, Until(l, now), NEW k, NEW e \in Event,
           Counted(e, k, now, now + 1), Capped(l, k), NEW w \in Attempt, InWindow(l, k, w, now),
           now < w.start + Window, w.count < MaxAttempts
    PROVE  /\ Capped(Append(l, e), k)
           /\ InWindow(Append(l, e), k, [count |-> w.count + 1, start |-> w.start], now)
  <1>1. /\ Window \in Nat /\ Window > 0 /\ MaxAttempts \in Nat /\ MaxAttempts > 0
        /\ now + 1 \in Nat /\ w.start \in Nat /\ w.count \in Nat /\ w.start + Window \in Nat
        /\ w.start <= now
    BY LimiterAssumption DEF Attempt, InWindow
  <1>2. e.time = now
    <2>1. e.time \in Nat BY DEF Event
    <2> QED BY <2>1 DEF Counted
  <1>3. /\ Until(Append(l, e), now) /\ Append(l, e) \in Seq(Event)
        /\ \A i \in DOMAIN l : Append(l, e)[i] = l[i]
    <2>1. /\ Len(l) \in Nat /\ DOMAIN l = 1..Len(l)
          /\ DOMAIN Append(l, e) = 1..(Len(l) + 1)
          /\ \A i \in 1..Len(l) : Append(l, e)[i] = l[i]
          /\ Append(l, e)[Len(l) + 1] = e
          /\ Append(l, e) \in Seq(Event)
      BY LenProperties, AppendProperties
    <2> QED BY <1>2, <2>1 DEF Until
  <1>4. /\ Cardinality(Through(l, k, w.start, now + 1)) \in Nat
        /\ Cardinality(Through(l, k, w.start, now + 1)) <= w.count
    BY HowMany DEF InWindow
  <1>5. Capped(Append(l, e), k)
    <2>1. ASSUME NEW t \in Nat, t <= now, now < t + Window
          PROVE  Cardinality(Through(l, k, t, t + Window)) + 1 < 2 * MaxAttempts
      <3>1. t + Window \in Nat /\ t + Window > now
        BY <1>1, <2>1
      <3>2. /\ Through(l, k, t, t + Window) = Through(l, k, t, now + 1)
            /\ Through(l, k, w.start, t + Window) = Through(l, k, w.start, now + 1)
        BY <1>1, <3>1, NothingLater
      <3>3. CASE w.start <= t
        <4>1. Cardinality(Through(l, k, t, now + 1)) \in Nat
          BY HowMany
        <4>2. Cardinality(Through(l, k, t, now + 1))
                <= Cardinality(Through(l, k, w.start, now + 1))
          <5>1. now + 1 <= now + 1
            OBVIOUS
          <5> QED BY <1>1, <3>3, <5>1, ShorterStretch
        <4> QED BY <1>1, <1>4, <3>2, <4>1, <4>2
      <3>4. CASE t < w.start
        <4>1. t + Window > w.start
          BY <1>1, <3>1
        <4>2. Cardinality(Through(l, k, t, w.start)) < MaxAttempts
          BY <4>1 DEF InWindow, Worn
        <4>3. Cardinality(Through(l, k, t, w.start)) \in Nat /\ Cardinality(Through(l, k, t, now + 1)) \in Nat
          BY HowMany
        <4>4. Cardinality(Through(l, k, t, now + 1))
                <= Cardinality(Through(l, k, t, w.start)) + Cardinality(Through(l, k, w.start, now + 1))
          BY <1>1, TwoStretches
        <4> QED BY <1>1, <1>4, <3>2, <4>2, <4>3, <4>4
      <3> QED BY <1>1, <3>3, <3>4
    <2> QED BY <1>2, <2>1, CapOfOneMore
  <1>6. Cardinality(Through(Append(l, e), k, w.start, now + 1))
          = Cardinality(Through(l, k, w.start, now + 1)) + 1
    <2>1. Counted(e, k, w.start, now + 1)
      BY <1>1, <1>2 DEF Counted
    <2> QED BY <2>1, OneMoreCall
  <1>7. Through(Append(l, e), k, w.start + Window, now + 1) = {}
    BY <1>1, <1>3, NothingLater
  <1>8. Worn(Append(l, e), k, w.start)
    <2>1. \A t : Through(Append(l, e), k, t, w.start) = Through(l, k, t, w.start)
      <3>1. \A t : ~Counted(e, k, t, w.start)
        BY <1>1, <1>2 DEF Counted
      <3> QED BY <3>1, OneMoreCall
    <2> QED BY <2>1 DEF InWindow, Worn
  <1>9. \E i \in Through(Append(l, e), k, w.start, now + 1) : Append(l, e)[i].time = w.start
    <2>1. PICK i \in Through(l, k, w.start, now + 1) : l[i].time = w.start
      BY DEF InWindow
    <2>2. i \in Through(Append(l, e), k, w.start, now + 1)
      BY OneMoreCall
    <2>3. i \in DOMAIN l
      BY DEF Through
    <2> QED BY <1>3, <2>1, <2>2, <2>3
  <1>10. w.count + 1 <= MaxAttempts
    BY <1>1
  <1>11. PICK v : v = [count |-> w.count + 1, start |-> w.start]
    OBVIOUS
  <1>12. v.count = w.count + 1 /\ v.start = w.start
    BY <1>11
  <1>13. InWindow(Append(l, e), k, v, now)
    <2>1. Cardinality(Through(Append(l, e), k, w.start, now + 1)) <= w.count + 1
      BY <1>1, <1>4, <1>6
    <2> QED BY <1>1, <1>7, <1>8, <1>9, <1>10, <1>12, <2>1 DEF InWindow
  <1> QED BY <1>5, <1>11, <1>13

\* A call that is refused, or made with another key, changes nothing.
LEMMA CallElsewhere ==
    ASSUME NEW l \in Seq(Event), NEW now, NEW k, NEW e \in Event, NEW w,
           \A a, b : ~Counted(e, k, a, b)
    PROVE  /\ Capped(l, k) => Capped(Append(l, e), k)
           /\ InWindow(l, k, w, now) => InWindow(Append(l, e), k, w, now)
           /\ NoWindow(l, k, now) => NoWindow(Append(l, e), k, now)
  <1>1. \A a, b : Through(Append(l, e), k, a, b) = Through(l, k, a, b)
    BY OneMoreCall
  <1>2. \A i \in DOMAIN l : Append(l, e)[i] = l[i]
    BY LenProperties, AppendProperties
  <1>3. \A a, b : Through(l, k, a, b) \subseteq DOMAIN l
    BY DEF Through
  <1>4. \A t : Worn(l, k, t) => Worn(Append(l, e), k, t)
    BY <1>1 DEF Worn
  <1>5. ASSUME InWindow(l, k, w, now)
        PROVE  \E i \in Through(Append(l, e), k, w.start, now + 1) : Append(l, e)[i].time = w.start
    BY <1>1, <1>2, <1>3, <1>5 DEF InWindow
  <1> QED BY <1>1, <1>4, <1>5 DEF Capped, InWindow, NoWindow

\* So does a tick.
LEMMA TickElsewhere ==
    ASSUME NEW l \in Seq(Event), NEW now \in Nat, Until(l, now), NEW k
    PROVE  /\ \A w \in Attempt : InWindow(l, k, w, now) => InWindow(l, k, w, now + 1)
           /\ NoWindow(l, k, now) => NoWindow(l, k, now + 1)
  <1>1. Window \in Nat /\ MaxAttempts \in Nat /\ now + 1 \in Nat /\ (now + 1) + 1 \in Nat
    BY LimiterAssumption
  <1>2. \A a \in Nat : Through(l, k, a, (now + 1) + 1) = Through(l, k, a, now + 1)
    BY <1>1, NothingLater
  <1>3. ASSUME NEW w \in Attempt, InWindow(l, k, w, now) PROVE InWindow(l, k, w, now + 1)
    <2>1. w.start \in Nat /\ w.start + Window \in Nat
      BY <1>1 DEF Attempt
    <2>2. w.start <= now + 1
      BY <1>3, <2>1 DEF InWindow
    <2> QED BY <1>2, <1>3, <2>1, <2>2 DEF InWindow
  <1>4. ASSUME NoWindow(l, k, now) PROVE NoWindow(l, k, now + 1)
    <2>1. Through(l, k, now + 1, (now + 1) + 1) = {}
      <3>1. now + 1 > now
        OBVIOUS
      <3> QED BY <1>1, <3>1, NothingLater
    <2>2. ASSUME NEW t \in Nat, t + Window > now + 1
          PROVE  Cardinality(Through(l, k, t, now + 1)) < MaxAttempts
      <3>1. t + Window > now
        BY <1>1, <2>2
      <3>2. Cardinality(Through(l, k, t, now)) < MaxAttempts
        BY <1>4, <3>1 DEF NoWindow, Worn
      <3>3. Cardinality(Through(l, k, now, now + 1)) = 0
        BY <1>4, FS_EmptySet DEF NoWindow
      <3>4. Cardinality(Through(l, k, t, now)) \in Nat /\ Cardinality(Through(l, k, t, now + 1)) \in Nat
        BY HowMany
      <3>5. Cardinality(Through(l, k, t, now + 1)) <= Cardinality(Through(l, k, t, now)) + 0
        BY <1>1, <3>3, TwoStretches
      <3> QED BY <1>1, <3>2, <3>4, <3>5
    <2> QED BY <2>1, <2>2 DEF NoWindow, Worn
  <1> QED BY <1>3, <1>4

\* What Refuse and LetThrough append to the log.
LEMMA RecordIs ==
    ASSUME TypeOK, NEW c \in Clients, NEW outcome \in {"refused", "ok", "failed"},
           Record(c, outcome)
    PROVE  \E e \in Event : /\ log' = Append(log, e)
                            /\ e.client = c /\ e.time = clock /\ e.outcome = outcome
  <1> DEFINE e == [client |-> c, time |-> clock, outcome |-> outcome]
  <1>1. e \in Event /\ e.client = c /\ e.time = clock /\ e.outcome = outcome
    BY DEF Event, TypeOK
  <1>2. log' = Append(log, e)
    BY DEF Record
  <1> QED BY <1>1, <1>2

LEMMA UntilNow ==
    ASSUME NEW l \in Seq(Event), NEW now, Until(l, now), NEW e \in Event, e.time <= now
    PROVE  Until(Append(l, e), now)
  <1>1. /\ Len(l) \in Nat /\ DOMAIN l = 1..Len(l)
        /\ DOMAIN Append(l, e) = 1..(Len(l) + 1)
        /\ \A i \in 1..Len(l) : Append(l, e)[i] = l[i]
        /\ Append(l, e)[Len(l) + 1] = e
    BY LenProperties, AppendProperties
  <1> QED BY <1>1 DEF Until

LEMMA CapStep == TypeOK /\ CapInv /\ [Next]_vars => CapInv'
  <1> SUFFICES ASSUME TypeOK, CapInv, [Next]_vars PROVE CapInv'
    OBVIOUS
  <1>1. log \in Seq(Event) /\ clock \in Nat /\ Until(log, clock)
    BY DEF TypeOK, CapInv
  <1>2. \A k \in DOMAIN attempts : k \in Keys /\ attempts[k] \in Attempt
    BY DEF TypeOK
  <1>3. CASE Tick
    <2>1. log' = log /\ attempts' = attempts /\ clock' = clock + 1
      BY <1>3 DEF Tick
    <2>2. Until(log, clock + 1)
      <3>1. \A i \in DOMAIN log : log[i].time \in Nat
        <4>1. \A i \in DOMAIN log : log[i] \in Event
          BY <1>1, ElementOfSeq
        <4> QED BY <4>1 DEF Event
      <3> QED BY <1>1, <3>1 DEF Until
    <2>3. ASSUME NEW k \in Keys
          PROVE  IF k \in DOMAIN attempts THEN InWindow(log, k, attempts[k], clock + 1)
                                          ELSE NoWindow(log, k, clock + 1)
      BY <1>1, <1>2, TickElsewhere DEF CapInv
    <2> QED BY <2>1, <2>2, <2>3 DEF CapInv
  <1>4. ASSUME NEW c \in Clients, Enter(c) PROVE CapInv'
    <2>1. log' = log /\ clock' = clock
      BY <1>4 DEF Enter
    <2>2. ASSUME NEW k \in Keys
          PROVE  IF k \in DOMAIN attempts' THEN InWindow(log, k, attempts'[k], clock)
                                           ELSE NoWindow(log, k, clock)
      <3>1. CASE k \in DOMAIN attempts'
        <4>1. k \in DOMAIN attempts /\ attempts'[k] = attempts[k]
          BY <1>4, <3>1, EnterKeeps
        <4> QED BY <3>1, <4>1 DEF CapInv
      <3>2. CASE k \in DOMAIN attempts /\ k \notin DOMAIN attempts'
        <4>1. ~Kept(k)
          BY <1>4, <3>2, EnterKeeps
        <4>2. InWindow(log, k, attempts[k], clock) /\ attempts[k] \in Attempt
          BY <1>2, <3>2 DEF CapInv
        <4>3. attempts[k].start \in Nat /\ attempts[k].start <= clock /\ Window \in Nat
          BY <4>2, LimiterAssumption DEF Attempt, InWindow
        <4>4. clock >= attempts[k].start + Window
          BY <1>1, <4>1, <4>3 DEF Kept, Age
        <4> QED BY <1>1, <3>2, <4>2, <4>4, ClosingWindow
      <3>3. CASE k \notin DOMAIN attempts /\ k \notin DOMAIN attempts'
        BY <3>3 DEF CapInv
      <3> QED BY <3>1, <3>2, <3>3
    <2> QED BY <2>1, <2>2 DEF CapInv
  <1>5. ASSUME NEW c \in Clients, Refuse(c) PROVE CapInv'
    <2>1. PICK e \in Event : log' = Append(log, e) /\ e.time = clock /\ e.outcome = "refused"
      BY <1>5, RecordIs DEF Refuse
    <2>2. attempts' = attempts /\ clock' = clock
      BY <1>5 DEF Refuse
    <2>3. Until(Append(log, e), clock)
      BY <1>1, <2>1, UntilNow
    <2>4. \A k, a, b : ~Counted(e, k, a, b)
      BY <2>1 DEF Counted
    <2>5. ASSUME NEW k \in Keys
          PROVE  /\ Capped(Append(log, e), k)
                 /\ IF k \in DOMAIN attempts THEN InWindow(Append(log, e), k, attempts[k], clock)
                                             ELSE NoWindow(Append(log, e), k, clock)
      BY <1>1, <2>4, CallElsewhere DEF CapInv
    <2> QED BY <2>1, <2>2, <2>3, <2>5 DEF CapInv
  <1>6. ASSUME NEW c \in Clients, LetThrough(c) PROVE CapInv'
    <2>1. PICK e \in Event : /\ log' = Append(log, e) /\ e.time = clock
                             /\ e.client = c /\ e.outcome \in {"ok", "failed"}
      <3>1. PICK outcome \in Outcomes : Record(c, outcome)
        BY <1>6 DEF LetThrough
      <3>2. outcome \in {"ok", "failed"}
        BY <3>1, LimiterAssumption
      <3> QED BY <3>1, <3>2, RecordIs
    <2>2. clock' = clock
      BY <1>6 DEF LetThrough
    <2>3. Until(Append(log, e), clock)
      BY <1>1, <2>1, UntilNow
    <2>4. PICK k : k = KeyOf(c)
      OBVIOUS
    <2>5. ASSUME NEW j \in Keys, j # k
          PROVE  /\ Capped(Append(log, e), j)
                 /\ IF j \in DOMAIN attempts' THEN InWindow(Append(log, e), j, attempts'[j], clock)
                                              ELSE NoWindow(Append(log, e), j, clock)
      <3>1. \A a, b : ~Counted(e, j, a, b)
        BY <2>1, <2>4, <2>5 DEF Counted
      <3>2. /\ j \in DOMAIN attempts' <=> j \in DOMAIN attempts
            /\ j \in DOMAIN attempts => attempts'[j] = attempts[j]
        <4>1. DOMAIN attempts' = DOMAIN attempts \union {k}
          BY <1>6, <2>4, LetThroughWrites
        <4>2. j \in DOMAIN attempts => attempts'[j] = attempts[j]
          BY <1>6, <2>4, <2>5, LetThroughWrites
        <4> QED BY <2>5, <4>1, <4>2
      <3>3. CASE j \in DOMAIN attempts
        <4>1. Capped(log, j) /\ InWindow(log, j, attempts[j], clock)
          BY <3>3 DEF CapInv
        <4> QED BY <1>1, <3>1, <3>2, <3>3, <4>1, CallElsewhere
      <3>4. CASE j \notin DOMAIN attempts
        <4>1. Capped(log, j) /\ NoWindow(log, j, clock)
          BY <3>4 DEF CapInv
        <4> QED BY <1>1, <3>1, <3>2, <3>4, <4>1, CallElsewhere
      <3> QED BY <3>3, <3>4
    <2>6. /\ k \in DOMAIN attempts' /\ Capped(Append(log, e), k)
          /\ InWindow(Append(log, e), k, attempts'[k], clock)
      <3>1. k \in Keys /\ k \in DOMAIN attempts'
        BY <1>6, <2>4, KeyOfIsKey, LetThroughWrites
      <3>2. Counted(e, k, clock, clock + 1) /\ Capped(log, k)
        BY <1>1, <2>1, <2>4, <3>1 DEF Counted, CapInv
      <3>3. CASE Over(k)
        <4>1. attempts'[k] = [count |-> 1, start |-> clock]
          BY <1>6, <2>4, <3>3, LetThroughWrites
        <4>2. NoWindow(log, k, clock)
          <5>1. CASE k \in DOMAIN attempts
            <6>1. InWindow(log, k, attempts[k], clock) /\ attempts[k] \in Attempt
              BY <1>2, <3>1, <5>1 DEF CapInv
            <6>2. attempts[k].start \in Nat /\ attempts[k].start <= clock /\ Window \in Nat
              BY <6>1, LimiterAssumption DEF Attempt, InWindow
            <6>3. clock >= attempts[k].start + Window
              BY <1>1, <3>3, <5>1, <6>2 DEF Over, Age
            <6> QED BY <1>1, <6>1, <6>3, ClosingWindow
          <5>2. CASE k \notin DOMAIN attempts
            BY <3>1, <5>2 DEF CapInv
          <5> QED BY <5>1, <5>2
        <4> QED BY <1>1, <3>1, <3>2, <4>1, <4>2, OpeningWindow
      <3>4. CASE ~Over(k)
        <4>1. /\ ~Full(k)
              /\ attempts'[k] = [count |-> attempts[k].count + 1, start |-> attempts[k].start]
          BY <1>6, <2>4, <3>4, LetThroughWrites
        <4>2. k \in DOMAIN attempts /\ Age(k) < Window
          <5>1. k \in DOMAIN attempts /\ ~(Age(k) >= Window)
            BY <3>4 DEF Over
          <5>2. attempts[k].start \in Nat /\ Window \in Nat
            BY <1>2, <5>1, LimiterAssumption DEF Attempt
          <5> QED BY <1>1, <5>1, <5>2 DEF Age
        <4>3. InWindow(log, k, attempts[k], clock) /\ attempts[k] \in Attempt
          BY <1>2, <3>1, <4>2 DEF CapInv
        <4>4. clock < attempts[k].start + Window /\ attempts[k].count < MaxAttempts
          BY <1>1, <4>1, <4>2, <4>3, LimiterAssumption DEF Attempt, InWindow, Full, Age
        <4> QED BY <1>1, <3>1, <3>2, <4>1, <4>3, <4>4, FurtherCall
      <3> QED BY <3>3, <3>4
    <2> QED BY <2>1, <2>2, <2>3, <2>5, <2>6 DEF CapInv
  <1>7. CASE UNCHANGED vars
    BY <1>7 DEF vars, CapInv
  <1> QED BY <1>3, <1>4, <1>5, <1>6, <1>7 DEF Next

\* At the start the log is empty, and every key is without a window.
LEMMA CapStarts == Init => CapInv
  <1> SUFFICES ASSUME Init PROVE CapInv
    OBVIOUS
  <1>1. DOMAIN log = {} /\ DOMAIN attempts = {}
    BY EmptySeq DEF Init
  <1>2. Until(log, clock) /\ \A k, a, b : Through(log, k, a, b) = {}
    BY <1>1 DEF Until, Through
  <1>3. Cardinality({}) = 0 /\ MaxAttempts \in Nat /\ MaxAttempts > 0
    BY FS_EmptySet, LimiterAssumption
  <1>4. \A k : Capped(log, k) /\ NoWindow(log, k, clock)
    <2>1. \A k, a, b : Cardinality(Through(log, k, a, b)) < MaxAttempts
      BY <1>2, <1>3
    <2>2. \A k, a, b : Cardinality(Through(log, k, a, b)) < 2 * MaxAttempts
      BY <1>2, <1>3
    <2> QED BY <1>2, <2>1, <2>2, Zenon DEF Capped, NoWindow, Worn
  <1> QED BY <1>1, <1>2, <1>4 DEF CapInv

\* No span of Window ticks holds twice MaxAttempts calls that got through with one
\* key, whenever the map was swept (ratelimit.go:35-63).
THEOREM SpansAreCapped == Spec => []SpanCap
  <1>1. TypeOK /\ CapInv => SpanCap
    <2> SUFFICES ASSUME TypeOK, CapInv, NEW c \in Clients, NEW t \in 0..clock
                 PROVE  Cardinality(InSpan(SameKey(c), {"ok", "failed"}, t)) < 2 * MaxAttempts
      BY DEF SpanCap
    <2>1. \A i \in DOMAIN log : log[i].client \in Clients
      <3>1. \A i \in DOMAIN log : log[i] \in Event
        BY ElementOfSeq DEF TypeOK
      <3> QED BY <3>1 DEF Event
    <2>2. InSpan(SameKey(c), {"ok", "failed"}, t) = Through(log, KeyOf(c), t, t + Window)
      BY <2>1 DEF InSpan, SameKey, Through
    <2>3. t \in Nat /\ KeyOf(c) \in Keys
      BY KeyOfIsKey DEF TypeOK
    <2> QED BY <2>2, <2>3 DEF CapInv, Capped
  <1> QED BY <1>1, CapStarts, CapStep, LimiterTypeCorrect, PTL DEF Spec

-----------------------------------------------------------------------------
(* What the map holds. *)

\* A call of Allow that is not in the log yet.
Waiting == IF inside = None THEN 0 ELSE 1

\* When the last sweep came nothing older than a window was left, and the calls
\* since are as many as the counter says.
Swept ==
    \A k \in DOMAIN attempts, j \in DOMAIN log :
        j + calls < Len(log) + Waiting => log[j].time <= attempts[k].start + Window

\* Memory does not grow with the keys ever seen: each key in the map was let
\* through in one of the last SweepEvery calls, or at most a window before the call
\* that came SweepEvery calls ago.
MapForgets ==
    inside = None =>
        \A k \in DOMAIN attempts : \E i \in DOMAIN log :
            /\ KeyOf(log[i].client) = k /\ log[i].outcome # "refused"
            /\ \A j \in DOMAIN log :
                  j + SweepEvery <= Len(log) => log[j].time <= log[i].time + Window

\* The counter starts again, or has one more.
LEMMA CounterMoves ==
    ASSUME TypeOK, NEW c \in Clients, Enter(c)
    PROVE  calls' = calls + 1 \/ calls' = 0
  <1>1. SweepEvery \in Nat \ {0} /\ calls \in 0..(SweepEvery - 1) /\ calls' = (calls + 1) % SweepEvery
    BY LimiterAssumption DEF TypeOK, Enter
  <1>2. CASE calls + 1 < SweepEvery
    BY <1>1, <1>2
  <1>3. CASE calls + 1 = SweepEvery
    BY <1>1, <1>3
  <1> QED BY <1>1, <1>2, <1>3

\* A call that is recorded is no longer waiting, and comes after those before it.
LEMMA SweptRecords ==
    ASSUME TypeOK, Swept, NEW c \in Clients, inside = c, inside' = None, UNCHANGED calls,
           NEW e \in Event, log' = Append(log, e),
           NEW k \in DOMAIN attempts', NEW j \in DOMAIN log', j + calls' < Len(log') + Waiting',
           (k \in DOMAIN attempts /\ attempts'[k].start = attempts[k].start)
             \/ \A i \in DOMAIN log : log[i].time <= attempts'[k].start + Window
    PROVE  log'[j].time <= attempts'[k].start + Window
  <1>1. /\ Len(log) \in Nat /\ DOMAIN log = 1..Len(log)
        /\ Len(log') = Len(log) + 1 /\ DOMAIN log' = 1..(Len(log) + 1)
        /\ \A i \in 1..Len(log) : log'[i] = log[i]
    BY LenProperties, AppendProperties DEF TypeOK
  <1>2. calls \in Nat /\ Waiting = 1 /\ Waiting' = 0
    BY LimiterAssumption DEF TypeOK, Waiting
  <1>3. j \in DOMAIN log /\ j + calls < Len(log) + Waiting /\ log'[j] = log[j]
    BY <1>1, <1>2
  <1> QED BY <1>3 DEF Swept

LEMMA SweptStep == TypeOK /\ CapInv /\ Swept /\ [Next]_vars => Swept'
  <1> SUFFICES ASSUME TypeOK, CapInv, Swept, [Next]_vars PROVE Swept'
    OBVIOUS
  <1>1. /\ clock \in Nat /\ Window \in Nat /\ calls \in Nat /\ Len(log) \in Nat
        /\ \A j \in DOMAIN log : j \in Nat /\ log[j].time \in Nat /\ log[j].time <= clock
        /\ \A k \in DOMAIN attempts : attempts[k].start \in Nat
    <2>1. \A j \in DOMAIN log : log[j] \in Event /\ j \in Nat
      BY ElementOfSeq, LenProperties DEF TypeOK
    <2>2. Len(log) \in Nat
      BY LenProperties DEF TypeOK
    <2> QED BY <2>1, <2>2, LimiterAssumption DEF TypeOK, Event, Attempt, CapInv, Until
  <1>2. CASE Tick
    BY <1>2 DEF Tick, Swept, Waiting
  <1>3. ASSUME NEW c \in Clients, Enter(c),
               NEW k \in DOMAIN attempts', NEW j \in DOMAIN log', j + calls' < Len(log') + Waiting'
        PROVE  log'[j].time <= attempts'[k].start + Window
    <2>1. /\ k \in DOMAIN attempts /\ attempts'[k] = attempts[k]
          /\ log' = log /\ clock' = clock /\ Waiting = 0 /\ Waiting' = 1
      BY <1>3, EnterKeeps, LimiterAssumption DEF Enter, Waiting
    <2>2. CASE calls' = 0
      <3>1. Kept(k)
        BY <1>3, <2>2 DEF Enter, Restrict
      <3> QED BY <1>1, <2>1, <3>1 DEF Kept, Age
    <2>3. CASE calls' = calls + 1
      <3>1. j + calls < Len(log) + Waiting
        BY <1>1, <1>3, <2>1, <2>3
      <3> QED BY <2>1, <3>1 DEF Swept
    <2> QED BY <1>3, <2>2, <2>3, CounterMoves
  <1>4. ASSUME NEW c \in Clients, Refuse(c),
               NEW k \in DOMAIN attempts', NEW j \in DOMAIN log', j + calls' < Len(log') + Waiting'
        PROVE  log'[j].time <= attempts'[k].start + Window
    <2>1. /\ inside = c /\ inside' = None /\ UNCHANGED calls /\ attempts' = attempts
          /\ \E e \in Event : log' = Append(log, e)
      BY <1>4, RecordIs DEF Refuse
    <2> QED BY <1>4, <2>1, SweptRecords
  <1>5. ASSUME NEW c \in Clients, LetThrough(c),
               NEW k \in DOMAIN attempts', NEW j \in DOMAIN log', j + calls' < Len(log') + Waiting'
        PROVE  log'[j].time <= attempts'[k].start + Window
    <2>1. inside = c /\ inside' = None /\ UNCHANGED calls
      BY <1>5 DEF LetThrough
    <2>2. PICK e \in Event : log' = Append(log, e)
      <3>1. PICK outcome \in Outcomes : Record(c, outcome)
        BY <1>5 DEF LetThrough
      <3>2. outcome \in {"ok", "failed"}
        BY <3>1, LimiterAssumption
      <3> QED BY <3>1, <3>2, RecordIs
    <2>3. \/ k \in DOMAIN attempts /\ attempts'[k].start = attempts[k].start
          \/ attempts'[k].start = clock
      <3>1. CASE k # KeyOf(c)
        BY <1>5, <3>1, LetThroughWrites
      <3>2. CASE k = KeyOf(c) /\ Over(KeyOf(c))
        <4>1. attempts'[KeyOf(c)] = [count |-> 1, start |-> clock]
          BY <1>5, <3>2, LetThroughWrites
        <4>2. attempts'[k].start = clock
          BY <3>2, <4>1
        <4> QED BY <4>2
      <3>3. CASE k = KeyOf(c) /\ ~Over(KeyOf(c))
        <4>1. attempts'[KeyOf(c)] = [count |-> attempts[KeyOf(c)].count + 1,
                                     start |-> attempts[KeyOf(c)].start]
          BY <1>5, <3>3, LetThroughWrites
        <4>2. KeyOf(c) \in DOMAIN attempts
          BY <3>3 DEF Over
        <4>3. k \in DOMAIN attempts /\ attempts'[k].start = attempts[k].start
          BY <3>3, <4>1, <4>2
        <4> QED BY <4>3
      <3> QED BY <3>1, <3>2, <3>3
    <2>4. \/ k \in DOMAIN attempts /\ attempts'[k].start = attempts[k].start
          \/ \A i \in DOMAIN log : log[i].time <= attempts'[k].start + Window
      BY <1>1, <2>3
    <2> QED BY <1>5, <2>1, <2>2, <2>4, SweptRecords
  <1>6. CASE UNCHANGED vars
    BY <1>6 DEF vars, Swept, Waiting
  <1> QED BY <1>2, <1>3, <1>4, <1>5, <1>6 DEF Next, Swept

\* However many keys come, each once or for ever, the sweep of every SweepEvery-th
\* call keeps the map to the recent ones (ratelimit.go:39-47).
THEOREM LimiterForgets == Spec => []MapForgets
  <1>1. Init => Swept
    BY EmptySeq DEF Init, Swept
  <1>2. TypeOK /\ CapInv /\ Swept => MapForgets
    <2> SUFFICES ASSUME TypeOK, CapInv, Swept, inside = None, NEW k \in DOMAIN attempts
                 PROVE  \E i \in DOMAIN log :
                          /\ KeyOf(log[i].client) = k /\ log[i].outcome # "refused"
                          /\ \A j \in DOMAIN log :
                                j + SweepEvery <= Len(log) => log[j].time <= log[i].time + Window
      BY DEF MapForgets
    <2>1. k \in Keys
      BY DEF TypeOK
    <2>2. PICK i \in Through(log, k, attempts[k].start, clock + 1) : log[i].time = attempts[k].start
      BY <2>1 DEF CapInv, InWindow
    <2>3. i \in DOMAIN log /\ KeyOf(log[i].client) = k /\ log[i].outcome # "refused"
      BY <2>2 DEF Through
    <2>4. ASSUME NEW j \in DOMAIN log, j + SweepEvery <= Len(log)
          PROVE  log[j].time <= attempts[k].start + Window
      <3>1. j \in Nat /\ Len(log) \in Nat /\ calls < SweepEvery /\ calls \in Nat /\ SweepEvery \in Nat
        BY LenProperties, LimiterAssumption DEF TypeOK
      <3>2. j + calls < Len(log) + Waiting
        BY <2>4, <3>1 DEF Waiting
      <3> QED BY <3>2 DEF Swept
    <2> QED BY <2>2, <2>3, <2>4
  <1>3. Spec => []CapInv
    BY CapStarts, CapStep, LimiterTypeCorrect, PTL DEF Spec
  <1> QED BY <1>1, <1>2, <1>3, SweptStep, LimiterTypeCorrect, PTL DEF Spec

-----------------------------------------------------------------------------
\* Logins with a provider.  The two cookies always belong to one login, the last
\* one begun, unless that one has lost them; so a callback that finds its own
\* state finds its own nonce, and is of the last login.  While the last login has
\* the cookies to itself they are there, and only answers to it can clear them.
CookiesTogether ==
    /\ cookies.state \in {Unset, begun}
    /\ cookies.nonce = cookies.state

CallsTellFresh ==
    \A i \in DOMAIN callbacks :
        /\ callbacks[i].nonce = callbacks[i].state
        /\ callbacks[i].state = callbacks[i].login => callbacks[i].last
        /\ callbacks[i].fresh => callbacks[i].state = callbacks[i].login

OwnClear ==
    \A i \in DOMAIN callbacks :
        callbacks[i].under_way /\ MayClear(callbacks[i]) => callbacks[i].login = begun

OwnerHasCookies == owned => begun # 0 /\ cookies.state = begun /\ OwnClear

ProviderInv ==
    /\ ProviderTypeOK /\ CookiesTogether /\ CallsTellFresh /\ OwnerHasCookies
    /\ LastLoginComesThrough

LEMMA ProviderInvInit == ProviderInit => ProviderInv
  <1> SUFFICES ASSUME ProviderInit PROVE ProviderInv
    OBVIOUS
  <1>1. callbacks \in Seq(Callbacks) /\ DOMAIN callbacks = {}
    BY EmptySeq DEF ProviderInit
  <1>2. ProviderTypeOK
    BY <1>1, ProviderAssumption DEF ProviderInit, ProviderTypeOK, Logins, Unset
  <1>3. CookiesTogether /\ OwnerHasCookies
    BY DEF ProviderInit, CookiesTogether, OwnerHasCookies
  <1>4. CallsTellFresh /\ LastLoginComesThrough
    BY <1>1 DEF CallsTellFresh, LastLoginComesThrough
  <1> QED BY <1>2, <1>3, <1>4 DEF ProviderInv

\* What the sequence of callbacks holds.
LEMMA CallbackAt ==
    ASSUME ProviderTypeOK, NEW i \in DOMAIN callbacks
    PROVE  i \in 1..Len(callbacks) /\ callbacks[i] \in Callbacks
  <1>1. i \in 1..Len(callbacks)
    BY DEF ProviderTypeOK
  <1> QED BY <1>1, ElementOfSeq DEF ProviderTypeOK

\* A callback gets a verdict that suits its cookies, or an answer is over with; it
\* clears no more than it might have before.
LEMMA OneCallChanges ==
    ASSUME ProviderTypeOK, CallsTellFresh, LastLoginComesThrough,
           NEW i \in DOMAIN callbacks, NEW call \in Callbacks,
           call.state = callbacks[i].state, call.nonce = callbacks[i].nonce,
           call.login = callbacks[i].login, call.fresh = callbacks[i].fresh,
           call.last = callbacks[i].last,
           call.fresh => call.verdict \notin {"no cookie", "mismatch"},
           call.verdict = "ok" => call.last, call.verdict # "nonce",
           call.under_way /\ MayClear(call) => callbacks[i].under_way /\ MayClear(callbacks[i]),
           begun' = begun,
           callbacks' = [callbacks EXCEPT ![i] = call]
    PROVE  /\ callbacks' \in Seq(Callbacks) /\ CallsTellFresh' /\ LastLoginComesThrough'
           /\ OwnClear => OwnClear'
  <1>0. i \in 1..Len(callbacks)
    BY CallbackAt
  <1>1. callbacks' \in Seq(Callbacks) /\ DOMAIN callbacks' = DOMAIN callbacks
    BY <1>0, ExceptSeq DEF ProviderTypeOK
  <1>2. \A j \in DOMAIN callbacks : callbacks'[j] = IF j = i THEN call ELSE callbacks[j]
    BY DEF ProviderTypeOK
  <1>3. CallsTellFresh'
    BY <1>1, <1>2 DEF CallsTellFresh
  <1>4. LastLoginComesThrough'
    BY <1>1, <1>2 DEF LastLoginComesThrough
  <1>5. ASSUME OwnClear, NEW j \in DOMAIN callbacks',
               callbacks'[j].under_way, MayClear(callbacks'[j])
        PROVE  callbacks'[j].login = begun'
    <2>1. CASE j = i
      <3>1. callbacks'[j] = call
        BY <1>1, <1>2, <2>1
      <3>2. callbacks[i].under_way /\ MayClear(callbacks[i])
        BY <1>5, <3>1
      <3> QED BY <1>5, <3>1, <3>2 DEF OwnClear
    <2>2. CASE j # i
      <3>1. callbacks'[j] = callbacks[j] /\ j \in DOMAIN callbacks
        BY <1>1, <1>2, <2>2
      <3>2. callbacks[j].under_way /\ MayClear(callbacks[j])
        BY <1>5, <3>1
      <3> QED BY <1>5, <3>1, <3>2 DEF OwnClear
    <2> QED BY <2>1, <2>2
  <1>6. OwnClear => OwnClear'
    BY <1>5 DEF OwnClear, MayClear, PastTheState, Refusal
  <1> QED BY <1>1, <1>3, <1>4, <1>6

\* The verdict of Judge, given what it may be.
LEMMA JudgeKeeps ==
    ASSUME ProviderTypeOK, CallsTellFresh, LastLoginComesThrough,
           NEW i \in DOMAIN callbacks, NEW verdict \in Verdicts, Judge(i, verdict),
           begun' = begun,
           callbacks[i].fresh => verdict \notin {"no cookie", "mismatch"},
           verdict = "ok" => callbacks[i].last, verdict # "nonce",
           verdict \in {"failed", "ok"} => MayClear(callbacks[i])
    PROVE  /\ callbacks' \in Seq(Callbacks) /\ CallsTellFresh' /\ LastLoginComesThrough'
           /\ OwnClear => OwnClear'
  <1> DEFINE call == [callbacks[i] EXCEPT !.verdict = verdict]
  <1>1. callbacks[i] \in Callbacks
    BY CallbackAt
  <1>2. call \in Callbacks /\ call.verdict = verdict
    BY <1>1 DEF Callbacks
  <1>3. /\ call.state = callbacks[i].state /\ call.nonce = callbacks[i].nonce
        /\ call.login = callbacks[i].login /\ call.fresh = callbacks[i].fresh
        /\ call.last = callbacks[i].last /\ call.under_way = callbacks[i].under_way
    BY <1>1 DEF Callbacks
  <1>4. callbacks' = [callbacks EXCEPT ![i] = call]
    BY DEF Judge
  <1>5. MayClear(call) => MayClear(callbacks[i])
    BY <1>2 DEF MayClear, PastTheState, Verdicts
  <1> HIDE DEF call
  <1> QED BY <1>2, <1>3, <1>4, <1>5, OneCallChanges

\* The answer to callback i is no longer under way.
LEMMA OverKeeps ==
    ASSUME ProviderTypeOK, CallsTellFresh, LastLoginComesThrough,
           NEW i \in DOMAIN callbacks, begun' = begun,
           callbacks' = [callbacks EXCEPT ![i].under_way = FALSE]
    PROVE  /\ callbacks' \in Seq(Callbacks) /\ CallsTellFresh' /\ LastLoginComesThrough'
           /\ OwnClear => OwnClear'
  <1> DEFINE call == [callbacks[i] EXCEPT !.under_way = FALSE]
  <1>1. callbacks[i] \in Callbacks
    BY CallbackAt
  <1>2. /\ call \in Callbacks /\ call.verdict = callbacks[i].verdict
        /\ call.state = callbacks[i].state /\ call.nonce = callbacks[i].nonce
        /\ call.login = callbacks[i].login /\ call.fresh = callbacks[i].fresh
        /\ call.last = callbacks[i].last /\ ~call.under_way
    BY <1>1 DEF Callbacks
  <1>3. /\ call.fresh => call.verdict \notin {"no cookie", "mismatch"}
        /\ call.verdict = "ok" => call.last
        /\ call.verdict # "nonce"
    BY <1>2 DEF LastLoginComesThrough
  <1>4. callbacks' = [callbacks EXCEPT ![i] = call]
    OBVIOUS
  <1> HIDE DEF call
  <1> QED BY <1>2, <1>3, <1>4, OneCallChanges

LEMMA ProviderInvStep == ProviderInv /\ [ProviderNext]_providerVars => ProviderInv'
  <1> SUFFICES ASSUME ProviderInv, [ProviderNext]_providerVars PROVE ProviderInv'
    OBVIOUS
  <1> USE ProviderAssumption
  <1>0. /\ ProviderTypeOK /\ CookiesTogether /\ CallsTellFresh /\ LastLoginComesThrough
        /\ OwnerHasCookies /\ begun \in Nat /\ begun <= MaxLogins
    BY DEF ProviderInv, ProviderTypeOK, Logins
  <1>1. CASE LoginProvider
    <2>0. /\ begun' = begun + 1 /\ begun' \in Logins
          /\ redeemed' = redeemed /\ callbacks' = callbacks
      BY <1>0, <1>1 DEF LoginProvider, Logins
    <2>1. ProviderTypeOK'
      <3>1. owned' \in BOOLEAN
        BY <1>1 DEF LoginProvider
      <3>2. cookies' \in [state : Logins \union {Unset}, nonce : Logins \union {Unset},
                          session : Logins \union {Unset}]
        BY <1>0, <1>1, <2>0 DEF LoginProvider, ProviderTypeOK
      <3> QED BY <1>0, <2>0, <3>1, <3>2 DEF ProviderTypeOK
    <2>2. CookiesTogether' /\ cookies'.state = begun'
      BY <1>0, <1>1 DEF LoginProvider, ProviderTypeOK, CookiesTogether
    <2>3. CallsTellFresh' /\ LastLoginComesThrough'
      BY <1>0, <2>0 DEF CallsTellFresh, LastLoginComesThrough
    <2>4. ASSUME owned' PROVE OwnClear'
      <3>1. \A i \in DOMAIN callbacks : callbacks[i].under_way => ~MayClear(callbacks[i])
        BY <1>1, <2>4 DEF LoginProvider
      <3> QED BY <2>0, <3>1 DEF OwnClear, MayClear, PastTheState, Refusal
    <2>5. OwnerHasCookies'
      BY <1>0, <2>0, <2>2, <2>4 DEF OwnerHasCookies
    <2> QED BY <2>1, <2>2, <2>3, <2>5 DEF ProviderInv
  <1>2. CASE Expire
    <2>1. ProviderTypeOK'
      <3>1. owned' = FALSE /\ begun' = begun
        BY <1>2 DEF Expire
      <3>2. cookies' \in [state : Logins \union {Unset}, nonce : Logins \union {Unset},
                          session : Logins \union {Unset}]
        BY <1>0, <1>2 DEF Expire, ProviderTypeOK
      <3>3. redeemed' = redeemed /\ callbacks' = callbacks
        BY <1>2 DEF Expire
      <3> QED BY <1>0, <3>1, <3>2, <3>3 DEF ProviderTypeOK
    <2>2. CookiesTogether'
      BY <1>0, <1>2 DEF Expire, ProviderTypeOK, CookiesTogether
    <2>3. CallsTellFresh' /\ LastLoginComesThrough'
      BY <1>0, <1>2 DEF Expire, CallsTellFresh, LastLoginComesThrough
    <2>4. OwnerHasCookies'
      BY <1>2 DEF Expire, OwnerHasCookies
    <2> QED BY <2>1, <2>2, <2>3, <2>4 DEF ProviderInv
  <1>3. ASSUME NEW n \in Logins, NEW code \in BOOLEAN, ComeBack(n, code) PROVE ProviderInv'
    <2> DEFINE call == [login |-> n, code |-> code, state |-> cookies.state,
                        nonce |-> cookies.nonce, last |-> n = begun,
                        fresh |-> n = begun /\ owned,
                        verdict |-> "none", under_way |-> TRUE]
    <2>1. call \in Callbacks
      BY <1>0, <1>3 DEF Callbacks, ProviderTypeOK, Logins
    <2>2. /\ callbacks' \in Seq(Callbacks) /\ DOMAIN callbacks' = 1..(Len(callbacks) + 1)
          /\ callbacks'[Len(callbacks) + 1] = call
          /\ \A i \in DOMAIN callbacks : callbacks'[i] = callbacks[i]
      BY <1>0, <1>3, <2>1, AppendProperties DEF ComeBack, ProviderTypeOK
    <2>3. DOMAIN callbacks = 1..Len(callbacks) /\ Len(callbacks) \in Nat
      BY <1>0 DEF ProviderTypeOK
    <2>4. \A i \in DOMAIN callbacks' : i \in DOMAIN callbacks \/ callbacks'[i] = call
      BY <2>2, <2>3
    <2>5. /\ call.nonce = call.state
          /\ call.state = call.login => call.last
          /\ call.fresh => call.state = call.login
      <3>1. n # Unset
        BY DEF Logins, Unset
      <3> QED BY <1>0, <3>1 DEF CookiesTogether, OwnerHasCookies
    <2>6. CallsTellFresh'
      BY <1>0, <2>2, <2>4, <2>5 DEF CallsTellFresh
    <2>7. LastLoginComesThrough'
      <3>1. ASSUME NEW i \in DOMAIN callbacks'
            PROVE  \/ i \in DOMAIN callbacks /\ callbacks'[i] = callbacks[i]
                   \/ callbacks'[i].verdict = "none"
        BY <2>2, <2>4
      <3> QED BY <1>0, <3>1 DEF LastLoginComesThrough
    <2>8. ProviderTypeOK' /\ CookiesTogether' /\ UNCHANGED <<begun, cookies, owned>>
      BY <1>0, <1>3, <2>2 DEF ComeBack, ProviderTypeOK, CookiesTogether
    <2>9. MayClear(call) => call.login = begun
      <3>1. call.verdict = "none" /\ ~PastTheState(call)
        BY DEF PastTheState
      <3>2. Refusal(call) = "none" => call.state = call.login
        BY DEF Refusal
      <3> QED BY <2>5, <3>1, <3>2 DEF MayClear
    <2>10. OwnClear => OwnClear'
      <3> HIDE DEF call
      <3>1. ASSUME OwnClear, NEW i \in DOMAIN callbacks', callbacks'[i].under_way,
                   MayClear(callbacks'[i])
            PROVE  callbacks'[i].login = begun'
        BY <2>2, <2>4, <2>8, <2>9, <3>1, Zenon DEF OwnClear
      <3> QED BY <3>1 DEF OwnClear, MayClear, PastTheState, Refusal
    <2>11. OwnerHasCookies'
      BY <1>0, <2>8, <2>10 DEF OwnerHasCookies
    <2> QED BY <2>6, <2>7, <2>8, <2>11 DEF ProviderInv
  <1>4. ASSUME NEW i \in DOMAIN callbacks, Refused(i) PROVE ProviderInv'
    <2>1. PICK verdict \in {"limited"} \union ({Refusal(callbacks[i])} \ {"none"}) : Judge(i, verdict)
      BY <1>4 DEF Refused
    <2>2. verdict \in Verdicts /\ verdict \notin {"nonce", "ok", "failed"}
      BY <2>1 DEF Refusal, Verdicts
    <2>3. callbacks[i].fresh => verdict \notin {"no cookie", "mismatch"}
      <3>1. callbacks[i] \in Callbacks
        BY <1>0, CallbackAt
      <3>2. callbacks[i].login # Unset
        BY <3>1 DEF Callbacks, Logins, Unset
      <3> QED BY <1>0, <2>1, <3>2 DEF Refusal, CallsTellFresh
    <2>5. UNCHANGED <<begun, cookies, redeemed, owned>>
      BY <1>4 DEF Refused
    <2>4. /\ callbacks' \in Seq(Callbacks) /\ CallsTellFresh' /\ LastLoginComesThrough'
          /\ OwnClear => OwnClear'
      BY <1>0, <2>1, <2>2, <2>3, <2>5, JudgeKeeps
    <2> QED BY <1>0, <2>4, <2>5 DEF ProviderInv, ProviderTypeOK, CookiesTogether, OwnerHasCookies
  <1>5. ASSUME NEW i \in DOMAIN callbacks, Exchanged(i) PROVE ProviderInv'
    <2>1. callbacks[i] \in Callbacks
      BY <1>0, CallbackAt
    <2>2. callbacks[i].state = callbacks[i].login /\ MayClear(callbacks[i])
      BY <1>5 DEF Exchanged, Refusal, MayClear
    <2>3. /\ callbacks[i].last /\ callbacks[i].nonce = callbacks[i].login
      BY <1>0, <2>2 DEF CallsTellFresh
    <2>4. PICK verdict \in {"failed", "ok"} : Judge(i, verdict)
      BY <1>5, <2>3 DEF Exchanged
    <2>7. UNCHANGED <<begun, cookies, owned>>
      BY <1>5 DEF Exchanged
    <2>5. /\ callbacks' \in Seq(Callbacks) /\ CallsTellFresh' /\ LastLoginComesThrough'
          /\ OwnClear => OwnClear'
      <3>1. verdict \in Verdicts /\ verdict \notin {"no cookie", "mismatch", "nonce"}
        BY <2>4 DEF Verdicts
      <3> QED BY <1>0, <2>2, <2>3, <2>4, <2>7, <3>1, JudgeKeeps
    <2>6. redeemed' \subseteq Logins
      BY <1>0, <1>5, <2>1 DEF Exchanged, ProviderTypeOK, Callbacks
    <2> QED BY <1>0, <2>5, <2>6, <2>7
        DEF ProviderInv, ProviderTypeOK, CookiesTogether, OwnerHasCookies
  <1>6. ASSUME NEW i \in DOMAIN callbacks, Arrive(i) PROVE ProviderInv'
    <2>1. /\ callbacks' \in Seq(Callbacks) /\ CallsTellFresh' /\ LastLoginComesThrough'
          /\ OwnClear => OwnClear'
      BY <1>0, <1>6, OverKeeps DEF Arrive
    <2>2. callbacks[i] \in Callbacks
      BY <1>0, CallbackAt
    <2>3. ProviderTypeOK'
      BY <1>0, <1>6, <2>1, <2>2 DEF Arrive, ProviderTypeOK, Callbacks
    <2>4. CookiesTogether'
      BY <1>0, <1>6 DEF Arrive, Clears, CookiesTogether
    <2>5. ASSUME owned' PROVE cookies'.state = begun' /\ begun # 0 /\ OwnClear'
      <3>1. owned /\ ~(callbacks[i].login = begun /\ PastTheState(callbacks[i]))
            /\ callbacks[i].under_way /\ begun' = begun
        BY <1>6, <2>5 DEF Arrive
      <3>2. OwnClear /\ cookies.state = begun /\ begun # 0
        BY <1>0, <3>1 DEF OwnerHasCookies
      <3>3. ~PastTheState(callbacks[i])
        BY <3>1, <3>2 DEF OwnClear, MayClear
      <3>4. cookies'.state = cookies.state
        BY <1>6, <3>3 DEF Arrive, Clears
      <3> QED BY <2>1, <3>1, <3>2, <3>4
    <2>6. OwnerHasCookies'
      BY <1>6, <2>5 DEF OwnerHasCookies, Arrive
    <2> QED BY <2>1, <2>3, <2>4, <2>6 DEF ProviderInv
  <1>7. ASSUME NEW i \in DOMAIN callbacks, Lose(i) PROVE ProviderInv'
    <2>1. UNCHANGED <<begun, cookies, redeemed, owned>>
      BY <1>7 DEF Lose
    <2>2. /\ callbacks' \in Seq(Callbacks) /\ CallsTellFresh' /\ LastLoginComesThrough'
          /\ OwnClear => OwnClear'
      BY <1>0, <1>7, <2>1, OverKeeps DEF Lose
    <2> QED BY <1>0, <2>1, <2>2 DEF ProviderInv, ProviderTypeOK, CookiesTogether, OwnerHasCookies
  <1>8. CASE UNCHANGED providerVars
    BY <1>0, <1>8 DEF providerVars, ProviderInv, ProviderTypeOK, CookiesTogether, OwnerHasCookies,
                      OwnClear, MayClear, PastTheState, Refusal, CallsTellFresh, LastLoginComesThrough
  <1> QED BY <1>1, <1>2, <1>3, <1>4, <1>5, <1>6, <1>7, <1>8 DEF ProviderNext, Callback

\* However many tabs of one browser log in with providers, and however their
\* callbacks and answers overlap, are repeated or lost: a last login that began while
\* no earlier one was being answered keeps its cookies and gets through, and no
\* login but the last ever does (auth.go:180-354).
THEOREM LastLoginGetsThrough == ProviderSpec => []LastLoginComesThrough
  <1>1. ProviderInv => LastLoginComesThrough
    BY DEF ProviderInv
  <1> QED BY <1>1, ProviderInvInit, ProviderInvStep, PTL DEF ProviderSpec

-----------------------------------------------------------------------------
\* What roles permit.  The range of a list without its head, of two lists one
\* after the other, and of a list with one more.
LEMMA RangeOfTail ==
    ASSUME NEW S, NEW s \in Seq(S), s # <<>>
    PROVE  Head(s) \in S /\ Tail(s) \in Seq(S) /\ Range(s) = {Head(s)} \union Range(Tail(s))
  <1>1. /\ Head(s) \in S /\ Tail(s) \in Seq(S) /\ Len(s) \in Nat \ {0}
        /\ Len(Tail(s)) = Len(s) - 1 /\ \A i \in 1..Len(Tail(s)) : Tail(s)[i] = s[i + 1]
        /\ Head(s) = s[1] /\ DOMAIN s = 1..Len(s) /\ DOMAIN Tail(s) = 1..Len(Tail(s))
    BY HeadTailProperties, EmptySeq
  <1>2. ASSUME NEW i \in DOMAIN s PROVE s[i] \in {Head(s)} \union Range(Tail(s))
    <2>1. CASE i = 1
      BY <1>1, <2>1
    <2>2. CASE i # 1
      <3>1. i - 1 \in 1..Len(Tail(s)) /\ i = (i - 1) + 1
        BY <1>1, <2>2
      <3>2. Tail(s)[i - 1] = s[i]
        BY <1>1, <3>1
      <3> QED BY <1>1, <3>1, <3>2 DEF Range
    <2> QED BY <2>1, <2>2
  <1>3. ASSUME NEW i \in DOMAIN Tail(s) PROVE Tail(s)[i] \in Range(s)
    <2>1. i + 1 \in DOMAIN s /\ Tail(s)[i] = s[i + 1]
      BY <1>1
    <2> QED BY <2>1 DEF Range
  <1>4. Head(s) \in Range(s)
    BY <1>1 DEF Range
  <1> QED BY <1>1, <1>2, <1>3, <1>4 DEF Range

LEMMA RangeOfConcat ==
    ASSUME NEW S, NEW s \in Seq(S), NEW t \in Seq(S)
    PROVE  s \o t \in Seq(S) /\ Range(s \o t) = Range(s) \union Range(t)
  <1>1. /\ s \o t \in Seq(S) /\ Len(s \o t) = Len(s) + Len(t)
        /\ \A i \in 1..Len(s) + Len(t) :
              (s \o t)[i] = IF i <= Len(s) THEN s[i] ELSE t[i - Len(s)]
        /\ Len(s) \in Nat /\ Len(t) \in Nat
        /\ DOMAIN s = 1..Len(s) /\ DOMAIN t = 1..Len(t) /\ DOMAIN (s \o t) = 1..Len(s) + Len(t)
    BY ConcatProperties
  <1>2. ASSUME NEW i \in DOMAIN (s \o t) PROVE (s \o t)[i] \in Range(s) \union Range(t)
    <2>1. CASE i <= Len(s)
      BY <1>1, <2>1 DEF Range
    <2>2. CASE i > Len(s)
      <3>1. i - Len(s) \in DOMAIN t /\ (s \o t)[i] = t[i - Len(s)]
        BY <1>1, <2>2
      <3> QED BY <3>1 DEF Range
    <2> QED BY <1>1, <2>1, <2>2
  <1>3. ASSUME NEW i \in DOMAIN s PROVE s[i] \in Range(s \o t)
    <2>1. i \in DOMAIN (s \o t) /\ (s \o t)[i] = s[i]
      BY <1>1
    <2> QED BY <2>1 DEF Range
  <1>4. ASSUME NEW i \in DOMAIN t PROVE t[i] \in Range(s \o t)
    <2>1. i + Len(s) \in DOMAIN (s \o t) /\ (s \o t)[i + Len(s)] = t[i]
      BY <1>1
    <2> QED BY <2>1 DEF Range
  <1> QED BY <1>1, <1>2, <1>3, <1>4 DEF Range

LEMMA RangeOfAppend ==
    ASSUME NEW S, NEW s \in Seq(S), NEW e \in S
    PROVE  /\ Append(s, e) \in Seq(S)
           /\ Range(Append(s, e)) = Range(s) \union {e}
           /\ IsInjective(s) /\ e \notin Range(s) => IsInjective(Append(s, e))
  <1>1. /\ Append(s, e) \in Seq(S) /\ Len(s) \in Nat
        /\ DOMAIN s = 1..Len(s) /\ DOMAIN Append(s, e) = 1..Len(s) + 1
        /\ \A i \in DOMAIN s : Append(s, e)[i] = s[i]
        /\ Append(s, e)[Len(s) + 1] = e
    BY AppendProperties
  <1>2. DOMAIN Append(s, e) = DOMAIN s \union {Len(s) + 1}
    BY <1>1
  <1>3. Range(Append(s, e)) = Range(s) \union {e}
    BY <1>1, <1>2 DEF Range
  <1>4. IsInjective(s) /\ e \notin Range(s) => IsInjective(Append(s, e))
    BY <1>1, <1>2 DEF Range, IsInjective
  <1> QED BY <1>1, <1>3, <1>4

\* What the configuration lists are lists of entries.
LEMMA ConfigLists ==
    ASSUME PermissionsTypeOK
    PROVE  /\ DOMAIN config.groups \subseteq Names
           /\ \A g \in DOMAIN config.groups : config.groups[g] \in Seq(Entries)
           /\ Len(config.rules) \in Nat
           /\ \A i \in Nat \ {0} : ActionsOf(i) \in Seq(Entries)
  <1>1. /\ DOMAIN config.groups \subseteq Names
        /\ \A g \in DOMAIN config.groups : config.groups[g] \in Seq(Entries)
        /\ config.rules \in Seq(Rules)
    BY PermissionsAssumption DEF PermissionsTypeOK
  <1>2. Len(config.rules) \in Nat
    BY <1>1
  <1>3. ASSUME NEW i \in Nat \ {0} PROVE ActionsOf(i) \in Seq(Entries)
    <2>1. CASE i <= Len(config.rules)
      <3>1. config.rules[i] \in Rules
        BY <1>1, <1>2, <2>1, ElementOfSeq
      <3> QED BY <2>1, <3>1 DEF ActionsOf, Rules
    <2>2. CASE ~(i <= Len(config.rules))
      BY <2>2, EmptySeq DEF ActionsOf
    <2> QED BY <2>1, <2>2
  <1> QED BY <1>1, <1>2, <1>3

\* What items stand for has the items, has with a group all it lists, and is in
\* every set of which that is true.
LEMMA ReachIsLeast ==
    ASSUME NEW items \in SUBSET Entries,
           \A g \in DOMAIN config.groups : Range(config.groups[g]) \subseteq Entries
    PROVE  /\ items \subseteq Reach(items)
           /\ Opened(Reach(items))
           /\ \A S \in SUBSET Entries : items \subseteq S /\ Opened(S) => Reach(items) \subseteq S
  <1>1. items \subseteq Reach(items)
    BY DEF Reach
  <1>2. \A S \in SUBSET Entries : items \subseteq S /\ Opened(S) => Reach(items) \subseteq S
    BY DEF Reach
  <1>3. ASSUME NEW g \in Reach(items) \intersect DOMAIN config.groups,
               NEW y \in Range(config.groups[g])
        PROVE  y \in Reach(items)
    <2>1. y \in Entries
      OBVIOUS
    <2>2. ASSUME NEW S \in SUBSET Entries, items \subseteq S, Opened(S) PROVE y \in S
      <3>1. g \in S
        BY <1>2, <2>2
      <3> QED BY <2>2, <3>1 DEF Opened
    <2> QED BY <2>1, <2>2 DEF Reach
  <1> QED BY <1>1, <1>2, <1>3 DEF Opened

\* While a rule is dealt with: what has been seen and what is still to do have all
\* that the rule lists and nothing it does not stand for, and with a group that was
\* seen all that it lists; the leaves among what was seen are the result.
AtWork ==
    LET items == Range(ActionsOf(At)) IN
    /\ items \subseteq seen \union Range(todo)
    /\ seen \union Range(todo) \subseteq Reach(items)
    /\ \A g \in seen \intersect DOMAIN config.groups :
          Range(config.groups[g]) \subseteq seen \union Range(todo)

ResultIsLeaves == IsInjective(result) /\ Range(result) = seen \ DOMAIN config.groups

ExpansionInv ==
    PermissionsTypeOK /\ ResultIsLeaves /\ (~Ready => AtWork) /\ ExpansionExact

\* What a list of the configuration has, it stands for.
LEMMA ListedIsReached ==
    ASSUME PermissionsTypeOK, NEW i \in Nat \ {0}
    PROVE  Range(ActionsOf(i)) \subseteq Reach(Range(ActionsOf(i)))
  <1>1. /\ ActionsOf(i) \in Seq(Entries)
        /\ \A g \in DOMAIN config.groups : config.groups[g] \in Seq(Entries)
    BY ConfigLists
  <1>2. \A s \in Seq(Entries) : Range(s) \subseteq Entries
    BY ElementOfSeq DEF Range
  <1> QED BY <1>1, <1>2, ReachIsLeast

\* On to the next rule with a list that is what this one stands for.
LEMMA ConcludeKeeps ==
    ASSUME PermissionsTypeOK, ExpansionExact, ~Ready,
           NEW actions \in Seq(Entries), IsInjective(actions),
           Range(actions) = Meant(config.rules[At].actions),
           Conclude(actions)
    PROVE  ExpansionInv'
  <1> DEFINE n == Len(expandedRules)
  <1>1. /\ config' = config /\ seen' = {} /\ result' = <<>> /\ todo' = ActionsOf(At + 1)
        /\ expandedRules' = Append(expandedRules, actions)
    BY DEF Conclude
  <1>2. /\ n \in Nat /\ Len(config.rules) \in Nat /\ At = n + 1 /\ At <= Len(config.rules)
        /\ DOMAIN expandedRules = 1..n
    BY ConfigLists DEF PermissionsTypeOK, At, Ready
  <1>3. /\ expandedRules' \in Seq(Seq(Entries)) /\ Len(expandedRules') = n + 1
        /\ \A i \in 1..n : expandedRules'[i] = expandedRules[i]
        /\ expandedRules'[n + 1] = actions /\ DOMAIN expandedRules' = 1..n + 1
    BY <1>1, AppendProperties DEF PermissionsTypeOK
  <1>4. At' = At + 1
    BY <1>2, <1>3 DEF At
  <1>5. PermissionsTypeOK'
    <2>1. ActionsOf(At + 1) \in Seq(Entries)
      BY <1>2, ConfigLists
    <2> QED BY <1>1, <1>2, <1>3, <2>1, EmptySeq DEF PermissionsTypeOK
  <1>6. ResultIsLeaves' /\ AtWork'
    <2>1. todo' = ActionsOf(At)' /\ todo' = ActionsOf(At + 1)
      BY <1>1, <1>4 DEF ActionsOf
    <2>2. Range(todo') \subseteq Reach(Range(todo'))
      BY <1>2, <2>1, ListedIsReached
    <2>3. Range(<<>>) = {} /\ IsInjective(<<>>)
      BY DEF Range, IsInjective
    <2> QED BY <1>1, <2>1, <2>2, <2>3 DEF ResultIsLeaves, AtWork, Reach, Opened
  <1>7. ExpansionExact'
    <2>1. ASSUME NEW i \in DOMAIN expandedRules'
          PROVE  /\ Range(expandedRules'[i]) = Meant(config.rules[i].actions)
                 /\ IsInjective(expandedRules'[i])
      <3>1. CASE i \in 1..n
        BY <1>2, <1>3, <3>1 DEF ExpansionExact
      <3>2. CASE i = n + 1
        BY <1>2, <1>3, <3>2
      <3> QED BY <1>2, <1>3, <3>1, <3>2
    <2> QED BY <1>1, <2>1 DEF ExpansionExact, Meant, Reach, Opened, containsWildcard
  <1> QED BY <1>5, <1>6, <1>7 DEF ExpansionInv

LEMMA ExpansionInvInit == PermissionsInit => ExpansionInv
  <1> SUFFICES ASSUME PermissionsInit PROVE ExpansionInv
    OBVIOUS
  <1>1. /\ config \in Configs /\ expandedRules = <<>> /\ seen = {} /\ result = <<>>
        /\ todo = ActionsOf(1) /\ Len(<<>>) = 0 /\ DOMAIN <<>> = {}
    BY DEF PermissionsInit
  <1>2. At = 1
    BY <1>1 DEF At
  <1>3. config.rules \in Seq(Rules) /\ Len(config.rules) \in Nat
    BY <1>1, PermissionsAssumption
  <1>4. ActionsOf(1) \in Seq(Entries)
    <2>1. CASE 1 <= Len(config.rules)
      <3>1. config.rules[1] \in Rules
        BY <1>3, <2>1, ElementOfSeq
      <3> QED BY <2>1, <3>1 DEF ActionsOf, Rules
    <2>2. CASE ~(1 <= Len(config.rules))
      BY <2>2, EmptySeq DEF ActionsOf
    <2> QED BY <2>1, <2>2
  <1>5. PermissionsTypeOK
    BY <1>1, <1>3, <1>4, EmptySeq DEF PermissionsTypeOK
  <1>6. ResultIsLeaves /\ AtWork
    <2>1. Range(ActionsOf(1)) \subseteq Reach(Range(ActionsOf(1)))
      BY <1>5, ListedIsReached
    <2>2. Range(<<>>) = {} /\ IsInjective(<<>>)
      BY DEF Range, IsInjective
    <2> QED BY <1>1, <1>2, <2>1, <2>2 DEF ResultIsLeaves, AtWork
  <1>7. ExpansionExact
    BY <1>1 DEF ExpansionExact
  <1> QED BY <1>5, <1>6, <1>7 DEF ExpansionInv

\* A step of expandActions leaves the rules alone: what is left to show of it.
LEMMA ExpandKeeps ==
    ASSUME ExpansionInv, ~Ready, UNCHANGED <<config, expandedRules>>,
           seen' \subseteq Entries, todo' \in Seq(Entries), result' \in Seq(Entries),
           ResultIsLeaves',
           seen \union Range(todo) \subseteq seen' \union Range(todo'),
           seen' \union Range(todo') \subseteq Reach(Range(ActionsOf(At))),
           \A g \in (seen' \ seen) \intersect DOMAIN config.groups :
              Range(config.groups[g]) \subseteq seen' \union Range(todo')
    PROVE  ExpansionInv'
  <1>1. PermissionsTypeOK'
    BY DEF ExpansionInv, PermissionsTypeOK
  <1>2. AtWork'
    BY DEF ExpansionInv, AtWork, At, ActionsOf, Reach, Opened
  <1>3. ExpansionExact'
    BY DEF ExpansionInv, ExpansionExact, Meant, Reach, Opened, containsWildcard
  <1> QED BY <1>1, <1>2, <1>3 DEF ExpansionInv

LEMMA ExpansionInvStep == ExpansionInv /\ [PermissionsNext]_permissionVars => ExpansionInv'
  <1> SUFFICES ASSUME ExpansionInv, [PermissionsNext]_permissionVars PROVE ExpansionInv'
    OBVIOUS
  <1> DEFINE items == Range(ActionsOf(At))
             all   == seen \union Range(todo)
  <1>0. PermissionsTypeOK /\ ResultIsLeaves /\ (~Ready => AtWork) /\ ExpansionExact
    BY DEF ExpansionInv
  <1>a. /\ DOMAIN config.groups \subseteq Names
        /\ \A g \in DOMAIN config.groups : config.groups[g] \in Seq(Entries)
        /\ \A s \in Seq(Entries) : Range(s) \subseteq Entries
    BY <1>0, ConfigLists, ElementOfSeq DEF Range
  <1>b. /\ At \in Nat \ {0} /\ ActionsOf(At) \in Seq(Entries)
        /\ ~Ready => ActionsOf(At) = config.rules[At].actions
    BY <1>0, ConfigLists DEF PermissionsTypeOK, At, Ready, ActionsOf
  <1>c. /\ items \subseteq Reach(items) /\ Opened(Reach(items))
        /\ \A S \in SUBSET Entries : items \subseteq S /\ Opened(S) => Reach(items) \subseteq S
    BY <1>a, <1>b, ReachIsLeast
  <1>1. CASE TakeWildcard
    <2>1. /\ <<All>> \in Seq(Entries) /\ Range(<<All>>) = {All} /\ IsInjective(<<All>>)
      BY DEF Entries, Range, IsInjective
    <2>2. ~Ready /\ Meant(config.rules[At].actions) = {All} /\ Conclude(<<All>>)
      BY <1>1, <1>b DEF TakeWildcard, Meant
    <2> QED BY <1>0, <2>1, <2>2, ConcludeKeeps
  <1>2. ASSUME ~Ready, todo # <<>>, SkipSeen \/ OpenGroup \/ TakeAction PROVE ExpansionInv'
    <2> DEFINE h == Head(todo)
    <2>1. h \in Entries /\ Tail(todo) \in Seq(Entries) /\ Range(todo) = {h} \union Range(Tail(todo))
      BY <1>0, <1>2, RangeOfTail DEF PermissionsTypeOK
    <2>2. AtWork /\ h \in Reach(items)
      BY <1>0, <1>2, <2>1 DEF AtWork
    <2>3. CASE SkipSeen
      <3>1. /\ UNCHANGED <<config, expandedRules, seen, result>> /\ todo' = Tail(todo) /\ h \in seen
        BY <2>3 DEF SkipSeen
      <3>2. seen' \union Range(todo') = all
        BY <2>1, <3>1
      <3>3. ResultIsLeaves'
        BY <1>0, <3>1 DEF ResultIsLeaves
      <3> QED BY <1>0, <1>2, <2>1, <2>2, <3>1, <3>2, <3>3, ExpandKeeps DEF AtWork, PermissionsTypeOK
    <2>4. CASE OpenGroup
      <3>1. /\ UNCHANGED <<config, expandedRules, result>> /\ seen' = seen \union {h}
            /\ todo' = config.groups[h] \o Tail(todo) /\ h \in DOMAIN config.groups
        BY <2>4 DEF OpenGroup
      <3>2. /\ todo' \in Seq(Entries)
            /\ Range(todo') = Range(config.groups[h]) \union Range(Tail(todo))
        <4>1. config.groups[h] \in Seq(Entries)
          BY <1>a, <3>1
        <4>2. Tail(todo) \in Seq(Entries)
          BY <2>1
        <4>3. todo' = config.groups[h] \o Tail(todo)
          BY <3>1
        <4> HIDE DEF h
        <4> QED BY <4>1, <4>2, <4>3, RangeOfConcat
      <3>3. Range(config.groups[h]) \subseteq Reach(items)
        BY <1>c, <2>2, <3>1 DEF Opened
      <3>4. seen' \union Range(todo') = all \union Range(config.groups[h])
        BY <2>1, <3>1, <3>2
      <3>5. ResultIsLeaves'
        BY <1>0, <3>1 DEF ResultIsLeaves
      <3>6. /\ all \subseteq seen' \union Range(todo')
            /\ seen' \union Range(todo') \subseteq Reach(items)
        BY <2>2, <3>3, <3>4 DEF AtWork
      <3>7. \A g \in (seen' \ seen) \intersect DOMAIN config.groups :
              Range(config.groups[g]) \subseteq seen' \union Range(todo')
        BY <3>1, <3>4
      <3>8. seen' \subseteq Entries /\ result' \in Seq(Entries)
        BY <1>0, <2>1, <3>1 DEF PermissionsTypeOK
      <3> QED BY <1>2, <3>1, <3>2, <3>5, <3>6, <3>7, <3>8, ExpandKeeps
    <2>5. CASE TakeAction
      <3>1. /\ UNCHANGED <<config, expandedRules>> /\ seen' = seen \union {h} /\ todo' = Tail(todo)
            /\ result' = Append(result, h) /\ h \notin seen /\ h \notin DOMAIN config.groups
        BY <2>5 DEF TakeAction
      <3>2. /\ result' \in Seq(Entries) /\ Range(result') = Range(result) \union {h}
            /\ IsInjective(result) /\ h \notin Range(result) => IsInjective(result')
        BY <1>0, <2>1, <3>1, RangeOfAppend DEF PermissionsTypeOK
      <3>3. ResultIsLeaves'
        BY <1>0, <3>1, <3>2 DEF ResultIsLeaves
      <3>4. seen' \union Range(todo') = all
        BY <2>1, <3>1
      <3>5. (seen' \ seen) \intersect DOMAIN config.groups = {}
        BY <3>1
      <3>6. seen' \subseteq Entries /\ todo' \in Seq(Entries)
        BY <1>0, <2>1, <3>1 DEF PermissionsTypeOK
      <3> QED BY <1>2, <2>2, <3>1, <3>2, <3>3, <3>4, <3>5, <3>6, ExpandKeeps DEF AtWork
    <2> QED BY <1>2, <2>3, <2>4, <2>5
  <1>3. ASSUME ~Ready, ~containsWildcard(ActionsOf(At)), todo = <<>>, Conclude(result)
        PROVE  ExpansionInv'
    <2>1. Range(todo) = {} /\ AtWork
      BY <1>0, <1>3 DEF Range
    <2>2. items \subseteq seen /\ seen \subseteq Reach(items) /\ Opened(seen)
      BY <2>1 DEF AtWork, Opened
    <2>3. seen = Reach(items)
      BY <1>0, <1>c, <2>2 DEF PermissionsTypeOK
    <2>4. Range(result) = Meant(config.rules[At].actions)
      BY <1>0, <1>3, <1>b, <2>3 DEF ResultIsLeaves, Meant
    <2>5. IsInjective(result) /\ result \in Seq(Entries)
      BY <1>0 DEF ResultIsLeaves, PermissionsTypeOK
    <2> QED BY <1>0, <1>3, <2>4, <2>5, ConcludeKeeps
  <1>4. CASE UNCHANGED permissionVars
    BY <1>0, <1>4 DEF permissionVars, ExpansionInv, PermissionsTypeOK, ResultIsLeaves, AtWork, Ready,
                      At, ActionsOf, ExpansionExact, Meant, Reach, Opened, containsWildcard
  <1> QED BY <1>1, <1>2, <1>3, <1>4 DEF PermissionsNext, expandActions

\* The roles which Permissions finds are among those of the middleware, unless the
\* default role stands in.
LEMMA RolesAreAmong ==
    ASSUME NEW assigned, NEW facts, ~DefaultStandsIn(assigned, facts)
    PROVE  ResolveRoles(assigned, facts \ {HasId}) \subseteq ResolveRoles(assigned, facts \union {HasId})
  <1>1. AutoAssign(facts \ {HasId}) \subseteq AutoAssign(facts \union {HasId})
    BY DEF AutoAssign, matchesRule
  <1>2. CASE assigned # {}
    BY <1>2 DEF ResolveRoles
  <1>3. CASE assigned = {} /\ AutoAssign(facts \ {HasId}) # {}
    BY <1>1, <1>3 DEF ResolveRoles
  <1>4. CASE assigned = {} /\ AutoAssign(facts \ {HasId}) = {}
    BY <1>4 DEF ResolveRoles, DefaultStandsIn
  <1> QED BY <1>2, <1>3, <1>4

LEMMA ButtonsDoWork == ButtonsWork
  <1> SUFFICES ASSUME NEW assigned \in SUBSET Roles, NEW facts \in SUBSET Facts, NEW action \in Names,
                      useHasAction(assigned, facts, action), ~DefaultStandsIn(assigned, facts),
                      action \in AdminActions => Admin \in ShownRoles(assigned, facts),
                      NEW cluster \in Clusters \union {All}
               PROVE  MayDo(assigned, facts, cluster, action)
    BY DEF ButtonsWork
  <1> DEFINE few  == ResolveRoles(assigned, facts \ {HasId})
             many == ResolveRoles(assigned, facts \union {HasId})
  <1>1. few \subseteq many
    BY RolesAreAmong
  <1>2. PICK i \in RulesFor(few, All) : Range(expandedRules[i]) \intersect {action, All} # {}
    BY DEF useHasAction, Permissions, ExpandedActions, ShownRoles
  <1>3. i \in RulesFor(many, cluster)
    BY <1>1, <1>2 DEF RulesFor, matchesEntry
  <1>4. matchesEntry(Range(expandedRules[i]), action)
    BY <1>2 DEF matchesEntry
  <1>5. RequireAction(assigned, facts, cluster, action)
    BY <1>3, <1>4 DEF RequireAction, IsAllowed
  <1>6. action \in AdminActions => RequireRole(assigned, facts)
    BY <1>1 DEF RequireRole, ShownRoles
  <1> QED BY <1>5, <1>6 DEF MayDo

\* Whatever groups and rules the configuration has: what a role may do is what its
\* rules say, with every group opened, and no button is shown whose request the
\* middleware refuses, but for the default role, and for the administration's
\* buttons shown to those who are no admins (rbac.go:16-84, auth.go:425-461,
\* router.go:112-123).
THEOREM GrantsAlwaysMeant == PermissionsSpec => []GrantsAreMeant
  <1>1. ExpansionInv => GrantsAreMeant
    BY ButtonsDoWork DEF ExpansionInv, GrantsAreMeant
  <1> QED BY <1>1, ExpansionInvInit, ExpansionInvStep, PTL DEF PermissionsSpec

\* What is left of the expansion: rules, items not met yet in this one, items to do.
RulesLeft == Len(config.rules) - Len(expandedRules)
Unseen    == Cardinality(Entries \ seen)

\* Whatever the groups list, in circles too, each step of expandActions and of the
\* loop around it leaves less to do, in this order: fewer rules, fewer items that it
\* has not met, a shorter list (rbac.go:16-52; that such an order leads to an end
\* is the induction that is left out here).
ExpansionShrinks ==
    [][/\ RulesLeft \in Nat /\ Unseen \in Nat /\ RulesLeft' \in Nat /\ Unseen' \in Nat
       /\ \/ RulesLeft' < RulesLeft
          \/ RulesLeft' = RulesLeft /\ Unseen' < Unseen
          \/ RulesLeft' = RulesLeft /\ Unseen' = Unseen /\ Len(todo') < Len(todo)
      ]_permissionVars

\* What was not met can be counted.
LEMMA UnseenAreFinite ==
    ASSUME IsFiniteSet(Names), NEW S
    PROVE  IsFiniteSet(Entries \ S) /\ Cardinality(Entries \ S) \in Nat
  <1>1. IsFiniteSet(Entries) /\ Entries \ S \in SUBSET Entries
    BY FS_AddElement DEF Entries
  <1>2. IsFiniteSet(Entries \ S)
    BY <1>1, FS_Subset
  <1> QED BY <1>2, FS_CardinalityType

LEMMA ExpansionStepShrinks ==
    ASSUME IsFiniteSet(Names), PermissionsTypeOK, PermissionsTypeOK', PermissionsNext
    PROVE  \/ RulesLeft' < RulesLeft
           \/ RulesLeft' = RulesLeft /\ Unseen' < Unseen
           \/ RulesLeft' = RulesLeft /\ Unseen' = Unseen /\ Len(todo') < Len(todo)
  <1>1. /\ Len(expandedRules) \in Nat /\ Len(config.rules) \in Nat
        /\ Unseen \in Nat /\ IsFiniteSet(Entries \ seen)
    <2>1. Len(config.rules) \in Nat
      BY ConfigLists
    <2>2. Len(expandedRules) \in Nat
      BY DEF PermissionsTypeOK
    <2>3. Unseen \in Nat /\ IsFiniteSet(Entries \ seen)
      BY UnseenAreFinite DEF Unseen
    <2> QED BY <2>1, <2>2, <2>3
  <1>2. ASSUME NEW actions, Conclude(actions), actions \in Seq(Entries)
        PROVE  RulesLeft' < RulesLeft
    <2>1. config' = config /\ Len(expandedRules') = Len(expandedRules) + 1
      BY <1>2, AppendProperties DEF Conclude, PermissionsTypeOK
    <2> QED BY <1>1, <2>1 DEF RulesLeft
  <1>3. CASE TakeWildcard
    <2>1. <<All>> \in Seq(Entries)
      BY DEF Entries
    <2> QED BY <1>2, <1>3, <2>1 DEF TakeWildcard
  <1>4. CASE todo = <<>> /\ Conclude(result)
    BY <1>2, <1>4 DEF PermissionsTypeOK
  <1>5. CASE todo # <<>> /\ (SkipSeen \/ OpenGroup \/ TakeAction)
    <2>1. UNCHANGED <<config, expandedRules>>
      BY <1>5 DEF SkipSeen, OpenGroup, TakeAction
    <2>2. RulesLeft' = RulesLeft
      BY <2>1 DEF RulesLeft
    <2>3. PICK h : h = Head(todo)
      OBVIOUS
    <2>4. h \in Entries /\ Len(Tail(todo)) = Len(todo) - 1 /\ Len(todo) \in Nat
      BY <1>5, <2>3, HeadTailProperties, EmptySeq DEF PermissionsTypeOK
    <2>5. CASE seen' = seen /\ todo' = Tail(todo)
      BY <2>2, <2>4, <2>5 DEF Unseen
    <2>6. CASE h \notin seen /\ seen' = seen \union {h}
      <3>1. Entries \ seen' = (Entries \ seen) \ {h} /\ h \in Entries \ seen
        BY <2>4, <2>6
      <3>2. Unseen' = Unseen - 1
        BY <1>1, <3>1, FS_RemoveElement DEF Unseen
      <3> QED BY <1>1, <2>2, <3>2
    <2> QED BY <1>5, <2>3, <2>5, <2>6 DEF SkipSeen, OpenGroup, TakeAction
  <1> QED BY <1>3, <1>4, <1>5 DEF PermissionsNext, expandActions

\* With finitely many actions and groups the server does not hang at its start, for
\* groups that list each other or themselves.
THEOREM ExpansionAlwaysShrinks == IsFiniteSet(Names) => (PermissionsSpec => ExpansionShrinks)
  <1> SUFFICES ASSUME IsFiniteSet(Names) PROVE PermissionsSpec => ExpansionShrinks
    OBVIOUS
  <1>1. ExpansionInv /\ ExpansionInv' /\ [PermissionsNext]_permissionVars =>
          [/\ RulesLeft \in Nat /\ Unseen \in Nat /\ RulesLeft' \in Nat /\ Unseen' \in Nat
           /\ \/ RulesLeft' < RulesLeft
              \/ RulesLeft' = RulesLeft /\ Unseen' < Unseen
              \/ RulesLeft' = RulesLeft /\ Unseen' = Unseen /\ Len(todo') < Len(todo)
          ]_permissionVars
    <2> SUFFICES ASSUME ExpansionInv, ExpansionInv', PermissionsNext
                 PROVE  /\ RulesLeft \in Nat /\ Unseen \in Nat /\ RulesLeft' \in Nat /\ Unseen' \in Nat
                        /\ \/ RulesLeft' < RulesLeft
                           \/ RulesLeft' = RulesLeft /\ Unseen' < Unseen
                           \/ RulesLeft' = RulesLeft /\ Unseen' = Unseen /\ Len(todo') < Len(todo)
      OBVIOUS
    <2>1. PermissionsTypeOK /\ PermissionsTypeOK'
      BY DEF ExpansionInv
    <2>2. config' = config
      BY DEF PermissionsNext, TakeWildcard, expandActions, Conclude, SkipSeen, OpenGroup, TakeAction
    <2>3. RulesLeft \in Nat /\ RulesLeft' \in Nat
      BY <2>1, <2>2, ConfigLists DEF PermissionsTypeOK, RulesLeft
    <2>4. Unseen \in Nat /\ Unseen' \in Nat
      BY UnseenAreFinite DEF Unseen
    <2> QED BY <2>1, <2>3, <2>4, ExpansionStepShrinks
  <1> QED BY <1>1, ExpansionInvInit, ExpansionInvStep, PTL DEF PermissionsSpec, ExpansionShrinks

-----------------------------------------------------------------------------
(* The read of a topic. *)

\* What the topic has from where the read began is read up to where the consumer
\* is, unless the limit left no room for it.
ReadUpTo(p) == \A o \in From(p, begin[p]) : o < next[p] => <<p, o>> \in Range(records)

\* What was read is of a partition asked for, from where the read began on, behind
\* the consumer and before the end of the partition.
Behind(i) ==
    LET p == records[i][1]
        o == records[i][2]
    IN  p \in request.of /\ begin[p] <= o /\ o < next[p] /\ o < stored[p].end

\* A consumer that was ever in range is not past the end.
NotPast(p) == begin[p] <= next[p] /\ (next[p] > stored[p].end => begin[p] = next[p])

\* Where a read of the latest begins: far enough before the end it was told, and
\* no later than what is there of that.
FarEnough(p) ==
    /\ ends[p] <= stored[p].end /\ begin[p] <= stored[p].end
    /\ begin[p] + request.limit >= ends[p]
    /\ \A o \in Positions : stored[p].first <= o /\ o + request.limit >= ends[p] => begin[p] <= o

ReadInv ==
    /\ NoGaps
    /\ phase \in {"asked", "listed"} => records = <<>>
    /\ \A i \in DOMAIN records : Behind(i)
    /\ \A p \in Partitions : NotPast(p)
    /\ Len(records) < request.limit => \A p \in request.of : ReadUpTo(p)

LatestInv ==
    /\ phase = "listed" => \A p \in Partitions : ends[p] <= stored[p].end
    /\ request.from = "latest" /\ phase \in {"reading", "full", "exhausted", "cut"} =>
          \A p \in Partitions : FarEnough(p)
    /\ phase = "full" => Len(records) = request.limit
    /\ phase = "exhausted" => \A p \in request.of : \A o \in From(p, begin[p]) :
                                  <<p, o>> \in Range(records)

\* What the types say of the numbers.
LEMMA ConsumeNumbers ==
    ASSUME ConsumeTypeOK
    PROVE  /\ MaxOffset \in Nat /\ Positions \subseteq Nat /\ Positions = 0..MaxOffset
           /\ request.of \subseteq Partitions /\ request.limit \in Nat \ {0}
           /\ request.want \in Nat \ {0} /\ request.at \in Positions
           /\ request.filtered \in BOOLEAN
           /\ Len(records) \in Nat /\ DOMAIN records = 1..Len(records)
           /\ \A p \in Partitions :
                /\ stored[p].first \in Positions /\ stored[p].end \in Positions
                /\ stored[p].first <= stored[p].end
                /\ stored[p].held \subseteq Positions
                /\ \A o \in stored[p].held : stored[p].first <= o /\ o < stored[p].end
                /\ next[p] \in Positions /\ begin[p] \in Positions /\ ends[p] \in Positions
           /\ \A i \in DOMAIN records :
                /\ records[i] = <<records[i][1], records[i][2]>>
                /\ records[i][1] \in Partitions /\ records[i][2] \in Positions
  <1>1. MaxOffset \in Nat /\ Positions = 0..MaxOffset /\ Positions \subseteq Nat
    BY ConsumeAssumption DEF Positions
  <1>2. /\ request.of \subseteq Partitions /\ request.limit \in Nat \ {0}
        /\ request.want \in Nat \ {0} /\ request.at \in Positions
        /\ request.filtered \in BOOLEAN
    <2>1. PICK k \in Froms, f \in BOOLEAN, P \in {{p} : p \in Partitions} \union {Partitions}, w \in Wants :
            request = [from |-> k[1], at |-> k[2], of |-> P, want |-> w, limit |-> LimitFor(w, f),
                       filtered |-> f]
      BY DEF ConsumeTypeOK, Requests
    <2>2. w \in Nat \ {0} /\ HardLimit \in Nat \ {0} /\ OverFetch \in Nat \ {0}
      BY ConsumeAssumption
    <2>3. w * OverFetch \in Nat \ {0}
      BY <2>2
    <2>4. LimitFor(w, f) \in Nat \ {0}
      BY <2>2, <2>3 DEF LimitFor
    <2>5. k[2] \in Positions
      BY <1>1 DEF Froms
    <2>6. P \subseteq Partitions
      OBVIOUS
    <2> QED BY <2>1, <2>2, <2>4, <2>5, <2>6
  <1>3. Len(records) \in Nat /\ DOMAIN records = 1..Len(records)
    BY LenProperties DEF ConsumeTypeOK
  <1>4. ASSUME NEW p \in Partitions
        PROVE  /\ stored[p].first \in Positions /\ stored[p].end \in Positions
               /\ stored[p].first <= stored[p].end
               /\ stored[p].held \subseteq Positions
               /\ \A o \in stored[p].held : stored[p].first <= o /\ o < stored[p].end
               /\ next[p] \in Positions /\ begin[p] \in Positions /\ ends[p] \in Positions
    <2>1. stored[p] \in PartitionLog
      BY DEF ConsumeTypeOK
    <2> QED BY <2>1 DEF PartitionLog, ConsumeTypeOK
  <1>5. \A i \in DOMAIN records : records[i] \in Partitions \X Positions
    BY ElementOfSeq DEF ConsumeTypeOK
  <1> QED BY <1>1, <1>2, <1>3, <1>4, <1>5

\* What happens to a topic: records come at the end, and go.
LEMMA TopicMoves ==
    ASSUME ConsumeTypeOK, TopicChanges
    PROVE  /\ stored' \in [Partitions -> PartitionLog]
           /\ \A p \in Partitions :
                /\ stored[p].first <= stored'[p].first /\ stored[p].end <= stored'[p].end
                /\ \A o \in stored'[p].held : o \in stored[p].held \/ o = stored[p].end
  <1>1. PICK p \in request.of : Produce(p) \/ Retain(p) \/ Compact(p)
    BY DEF TopicChanges
  <1>2. PICK l : l = stored[p]
    OBVIOUS
  <1>3. /\ p \in Partitions /\ l \in PartitionLog /\ MaxOffset \in Nat /\ Positions = 0..MaxOffset
        /\ l \in [first : Positions, end : Positions, held : SUBSET Positions]
        /\ stored \in [Partitions -> PartitionLog]
    BY <1>1, <1>2, ConsumeNumbers DEF ConsumeTypeOK, PartitionLog
  <1>4. l.first <= l.end /\ \A o \in l.held : l.first <= o /\ o < l.end
    BY <1>3 DEF PartitionLog
  <1>5. l.first \in 0..MaxOffset /\ l.end \in 0..MaxOffset /\ l.held \subseteq 0..MaxOffset
    BY <1>3
  <1>6. \E m \in PartitionLog : /\ stored' = [stored EXCEPT ![p] = m]
                                /\ l.first <= m.first /\ l.end <= m.end
                                /\ \A o \in m.held : o \in l.held \/ o = l.end
    <2>1. CASE Produce(p)
      <3>1. PICK m : m = [l EXCEPT !.end = @ + 1, !.held = @ \union {l.end}]
        OBVIOUS
      <3>2. stored' = [stored EXCEPT ![p] = m]
        BY <1>2, <1>3, <2>1, <3>1 DEF Produce
      <3>3. l.end < MaxOffset
        BY <1>2, <2>1 DEF Produce
      <3>4. l.first \in Positions /\ l.end + 1 \in Positions /\ l.held \union {l.end} \in SUBSET Positions
        BY <1>3, <1>5, <3>3
      <3>5. /\ m \in [first : Positions, end : Positions, held : SUBSET Positions]
            /\ m.first = l.first /\ m.end = l.end + 1 /\ m.held = l.held \union {l.end}
        BY <1>3, <3>1, <3>4
      <3>6. m \in PartitionLog
        BY <1>4, <1>5, <3>3, <3>5 DEF PartitionLog
      <3>7. l.first <= m.first /\ l.end <= m.end /\ \A o \in m.held : o \in l.held \/ o = l.end
        BY <1>5, <3>5
      <3> QED BY <3>2, <3>6, <3>7
    <2>2. CASE Retain(p)
      <3>1. PICK m : m = [l EXCEPT !.first = @ + 1, !.held = @ \ {l.first}]
        OBVIOUS
      <3>2. stored' = [stored EXCEPT ![p] = m]
        BY <1>2, <1>3, <2>2, <3>1 DEF Retain
      <3>3. l.first < l.end
        BY <1>2, <2>2 DEF Retain
      <3>4. l.first + 1 \in Positions /\ l.end \in Positions /\ l.held \ {l.first} \in SUBSET Positions
        BY <1>3, <1>5, <3>3
      <3>5. /\ m \in [first : Positions, end : Positions, held : SUBSET Positions]
            /\ m.first = l.first + 1 /\ m.end = l.end /\ m.held = l.held \ {l.first}
        BY <1>3, <3>1, <3>4
      <3>6. m \in PartitionLog
        BY <1>4, <1>5, <3>3, <3>5 DEF PartitionLog
      <3>7. l.first <= m.first /\ l.end <= m.end /\ \A o \in m.held : o \in l.held \/ o = l.end
        BY <1>5, <3>5
      <3> QED BY <3>2, <3>6, <3>7
    <2>3. CASE Compact(p)
      <3>1. PICK o : stored' = [stored EXCEPT ![p].held = @ \ {o}]
        BY <2>3 DEF Compact
      <3>2. PICK m : m = [l EXCEPT !.held = @ \ {o}]
        OBVIOUS
      <3>3. stored' = [stored EXCEPT ![p] = m]
        BY <1>2, <1>3, <3>1, <3>2
      <3>4. /\ m \in [first : Positions, end : Positions, held : SUBSET Positions]
            /\ m.first = l.first /\ m.end = l.end /\ m.held = l.held \ {o}
        BY <1>3, <3>2
      <3>5. m \in PartitionLog
        BY <1>3, <1>4, <3>4 DEF PartitionLog
      <3>6. l.first <= m.first /\ l.end <= m.end /\ \A h \in m.held : h \in l.held \/ h = l.end
        BY <1>5, <3>4
      <3> QED BY <3>3, <3>5, <3>6
    <2> QED BY <1>1, <2>1, <2>2, <2>3
  <1>7. \A q \in Partitions : stored[q].first \in Nat /\ stored[q].end \in Nat
    BY ConsumeNumbers
  <1> QED BY <1>2, <1>3, <1>6, <1>7

LEMMA MaxOfTwo ==
    ASSUME NEW a \in Nat, NEW b \in Nat
    PROVE  Max({a} \union {b}) \in {a, b} /\ Max({a} \union {b}) >= a /\ Max({a} \union {b}) >= b
  <1>1. \E x \in {a} \union {b} : \A y \in {a} \union {b} : x >= y
    <2>1. CASE a >= b
      BY <2>1
    <2>2. CASE b >= a
      BY <2>2
    <2> QED BY <2>1, <2>2
  <1> QED BY <1>1 DEF Max

\* Where a read of the latest begins.
LEMMA StartIsFarEnough ==
    ASSUME ConsumeTypeOK, NEW end \in Positions, NEW first \in Positions
    PROVE  /\ StartFor(end, first) \in Positions
           /\ StartFor(end, first) + request.limit >= end
           /\ \A o \in Positions : first <= o /\ o + request.limit >= end => StartFor(end, first) <= o
           /\ \A o \in Positions : first <= o /\ end <= o => StartFor(end, first) <= o
  <1> DEFINE l == request.limit
             b == IF end >= l THEN end - l ELSE 0
             s == StartFor(end, first)
  <1>1. l \in Nat \ {0} /\ end \in Nat /\ first \in Nat /\ Positions = 0..MaxOffset /\ MaxOffset \in Nat
    BY ConsumeNumbers
  <1>2. b \in Positions /\ b \in Nat
    BY <1>1
  <1>3. s = Max({first} \union {b})
    BY DEF StartFor
  <1> HIDE DEF b, s, l
  <1>4. s \in {first, b} /\ s >= first /\ s >= b
    BY <1>1, <1>2, <1>3, MaxOfTwo
  <1>5. b + l >= end /\ \A o \in Positions : (o + l >= end \/ end <= o) => b <= o
    BY <1>1 DEF b
  <1>6. s \in Positions
    BY <1>2, <1>4
  <1>7. s + l >= end
    BY <1>1, <1>2, <1>4, <1>5
  <1>8. ASSUME NEW o \in Positions, first <= o, o + l >= end \/ end <= o
        PROVE  s <= o
    BY <1>4, <1>5, <1>8
  <1> QED BY <1>6, <1>7, <1>8 DEF s, l

\* What a fetch brings: the first k records of a batch.
Brings(p, n, batch, k) ==
    /\ \A i, j \in 1..n : i < j => batch[i] < batch[j]
    /\ \A o \in From(p, next[p]) : o <= batch[n] => \E j \in 1..n : batch[j] = o
    /\ Len(records) + k <= request.limit
    /\ k = n \/ Len(records) + k = request.limit
    /\ next' = [next EXCEPT ![p] = batch[n] + 1]
    /\ records' \in Seq(Partitions \X Positions)
    /\ Len(records') = Len(records) + k
    /\ DOMAIN records' = 1..(Len(records) + k)
    /\ \A i \in 1..Len(records) : records'[i] = records[i]
    /\ \A i \in 1..k : records'[Len(records) + i] = <<p, batch[i]>>

LEMMA FetchBrings ==
    ASSUME ConsumeTypeOK, NEW p \in Partitions, NEW n \in 1..MaxOffset, Fetch(p, n)
    PROVE  \E batch \in [1..n -> From(p, next[p])], k \in 1..n : Brings(p, n, batch, k)
  <1>1. PICK batch \in Batches(From(p, next[p]), n) :
          /\ records' = records \o [i \in 1..Least(n, request.limit - Len(records)) |-> <<p, batch[i]>>]
          /\ next' = [next EXCEPT ![p] = batch[n] + 1]
    BY DEF Fetch
  <1>2. PICK k : k = Least(n, request.limit - Len(records))
    OBVIOUS
  <1>3. /\ Len(records) \in Nat /\ request.limit \in Nat /\ Len(records) < request.limit
        /\ n \in Nat /\ n >= 1
    <2>1. MaxOffset \in Nat BY ConsumeNumbers
    <2>2. Len(records) < request.limit BY DEF Fetch, Reading
    <2> QED BY <2>1, <2>2, ConsumeNumbers
  <1>4. /\ k \in 1..n /\ Len(records) + k <= request.limit
        /\ k = n \/ Len(records) + k = request.limit
    BY <1>2, <1>3 DEF Least
  <1>5. /\ batch \in [1..n -> From(p, next[p])]
        /\ \A i, j \in 1..n : i < j => batch[i] < batch[j]
        /\ \A o \in From(p, next[p]) : o <= batch[n] => o \in Range(batch)
    BY <1>1 DEF Batches
  <1>6. \A o \in From(p, next[p]) : o <= batch[n] => \E j \in 1..n : batch[j] = o
    BY <1>5 DEF Range
  <1>7. From(p, next[p]) \subseteq Positions
    BY ConsumeNumbers DEF From
  <1> DEFINE new == [i \in 1..k |-> <<p, batch[i]>>]
  <1>8. /\ new \in Seq(Partitions \X Positions) /\ Len(new) = k
        /\ \A i \in 1..k : new[i] = <<p, batch[i]>>
    <2>1. \A i \in 1..k : <<p, batch[i]>> \in Partitions \X Positions
      BY <1>3, <1>4, <1>5, <1>7
    <2>2. k \in Nat
      BY <1>3, <1>4
    <2>3. new \in [1..k -> Partitions \X Positions]
      BY <2>1
    <2>4. new \in Seq(Partitions \X Positions) /\ Len(new) = k
      BY <2>2, <2>3
    <2> QED BY <2>4
  <1>9. records' = records \o new /\ records \in Seq(Partitions \X Positions)
    BY <1>1, <1>2 DEF ConsumeTypeOK
  <1> HIDE DEF new
  <1>10. /\ records' \in Seq(Partitions \X Positions)
         /\ Len(records') = Len(records) + k
         /\ \A i \in 1..(Len(records) + k) :
              records'[i] = IF i <= Len(records) THEN records[i] ELSE new[i - Len(records)]
    BY <1>8, <1>9, ConcatProperties
  <1>11. DOMAIN records' = 1..(Len(records) + k)
    BY <1>10, LenProperties
  <1>12. \A i \in 1..Len(records) : records'[i] = records[i]
    BY <1>3, <1>4, <1>10
  <1>13. \A i \in 1..k : records'[Len(records) + i] = <<p, batch[i]>>
    <2> SUFFICES ASSUME NEW i \in 1..k PROVE records'[Len(records) + i] = <<p, batch[i]>>
      OBVIOUS
    <2>1. /\ Len(records) + i \in 1..(Len(records) + k) /\ ~(Len(records) + i <= Len(records))
          /\ (Len(records) + i) - Len(records) = i
      BY <1>3, <1>4
    <2> QED BY <1>8, <1>10, <2>1
  <1>14. Brings(p, n, batch, k)
    BY <1>1, <1>4, <1>5, <1>6, <1>10, <1>11, <1>12, <1>13 DEF Brings
  <1> QED BY <1>4, <1>5, <1>14

\* The state of a read is well-typed (client.go:319-460).
LEMMA ConsumeTypeStep == ConsumeTypeOK /\ [ConsumeNext]_consumeVars => ConsumeTypeOK'
  <1> SUFFICES ASSUME ConsumeTypeOK, [ConsumeNext]_consumeVars PROVE ConsumeTypeOK'
    OBVIOUS
  <1> USE DEF ConsumeTypeOK
  <1>1. CASE ListNothing
    <2>1. [p \in Partitions |-> IF request.from = "earliest" THEN stored[p].first ELSE request.at]
            \in [Partitions -> Positions]
      BY ConsumeNumbers
    <2> QED BY <1>1, <2>1 DEF ListNothing, ReadFrom
  <1>2. CASE ListOffsetsAfterMilli
    BY <1>2 DEF ListOffsetsAfterMilli, ReadFrom
  <1>3. CASE ListEndOffsets
    <2>1. [p \in Partitions |-> stored[p].end] \in [Partitions -> Positions]
      BY ConsumeNumbers
    <2> QED BY <1>3, <2>1 DEF ListEndOffsets
  <1>4. CASE ListStartOffsets
    <2>1. [p \in Partitions |-> StartFor(ends[p], stored[p].first)] \in [Partitions -> Positions]
      BY ConsumeNumbers, StartIsFarEnough
    <2> QED BY <1>4, <2>1 DEF ListStartOffsets, ReadFrom
  <1>5. CASE ListFails
    BY <1>5 DEF ListFails
  <1>6. CASE End
    BY <1>6 DEF End
  <1>7. ASSUME NEW p \in Partitions, Reset(p) PROVE ConsumeTypeOK'
    <2>1. stored[p].first \in Positions
      BY ConsumeNumbers
    <2> QED BY <1>7, <2>1 DEF Reset
  <1>8. ASSUME NEW p \in Partitions, NEW n \in 1..MaxOffset, Fetch(p, n) PROVE ConsumeTypeOK'
    <2>1. PICK batch \in [1..n -> From(p, next[p])], k \in 1..n : Brings(p, n, batch, k)
      BY <1>8, FetchBrings
    <2>2. batch[n] + 1 \in Positions
      <3>1. MaxOffset \in Nat /\ n \in 1..n
        BY ConsumeNumbers
      <3>2. batch[n] \in stored[p].held
        BY <3>1 DEF From
      <3>3. batch[n] < stored[p].end /\ batch[n] \in 0..MaxOffset /\ stored[p].end \in 0..MaxOffset
        BY <3>2, ConsumeNumbers
      <3>4. batch[n] + 1 \in 0..MaxOffset
        BY <3>1, <3>3
      <3> QED BY <3>4, ConsumeNumbers
    <2> QED BY <1>8, <2>1, <2>2 DEF Fetch, Brings
  <1>9. CASE TopicChanges
    BY <1>9, TopicMoves DEF TopicChanges
  <1>10. CASE UNCHANGED consumeVars
    BY <1>10 DEF consumeVars
  <1> QED BY <1>1, <1>2, <1>3, <1>4, <1>5, <1>6, <1>7, <1>8, <1>9, <1>10
          DEF ConsumeNext, ConsumeMessages

\* A read begins.
LEMMA ReadBegins ==
    ASSUME ConsumeTypeOK, ReadInv, phase \in {"asked", "listed"},
           UNCHANGED <<stored, request, records>>, phase' = "reading", ConsumeTypeOK',
           next' = begin'
    PROVE  ReadInv'
  <1>1. DOMAIN records' = {}
    BY EmptySeq, LenProperties DEF ReadInv, ConsumeTypeOK
  <1>2. NoGaps'
    BY <1>1 DEF NoGaps, IsInjective
  <1>3. \A p \in Partitions : NotPast(p)'
    <2>1. \A p \in Partitions : next'[p] \in Nat
      BY ConsumeAssumption DEF ConsumeTypeOK, Positions
    <2> QED BY <2>1 DEF NotPast
  <1>4. \A p \in request.of : ReadUpTo(p)'
    <2> SUFFICES ASSUME NEW p \in request.of, NEW o \in From(p, begin[p])', o < next'[p]
                 PROVE  FALSE
      BY DEF ReadUpTo
    <2>1. o >= begin'[p] /\ o \in stored[p].held
      BY DEF From
    <2>2. p \in Partitions /\ o \in Nat /\ next'[p] \in Nat
      <3>1. p \in Partitions
        BY ConsumeNumbers
      <3>2. o \in Nat
        BY <2>1, <3>1, ConsumeNumbers
      <3>3. next'[p] \in Nat
        BY <3>1, ConsumeAssumption DEF ConsumeTypeOK, Positions
      <3> QED BY <3>1, <3>2, <3>3
    <2> QED BY <2>1, <2>2
  <1> QED BY <1>1, <1>2, <1>3, <1>4 DEF ReadInv

\* A step that leaves the topic and the consumer alone.
LEMMA ReadRests ==
    ASSUME ReadInv, UNCHANGED <<stored, request, next, begin, records>>,
           phase' \in {"asked", "listed"} => phase \in {"asked", "listed"}
    PROVE  ReadInv'
  BY DEF ReadInv, NoGaps, Behind, NotPast, ReadUpTo, From

\* The consumer takes the oldest record of a partition it is out of range of: there
\* is nothing of that partition between where it was and that.
LEMMA ReadResets ==
    ASSUME ConsumeTypeOK, ReadInv, NEW p \in Partitions, Reset(p)
    PROVE  ReadInv'
  <1>1. /\ UNCHANGED <<stored, request, phase, records>>
        /\ next[p] < stored[p].first \/ next[p] > stored[p].end
        /\ next'[p] = stored[p].first
        /\ \A q \in Partitions : q # p => next'[q] = next[q] /\ begin'[q] = begin[q]
        /\ begin'[p] = IF begin[p] > stored[p].end THEN stored[p].first ELSE begin[p]
    BY DEF Reset, ConsumeTypeOK
  <1>2. /\ stored[p].first \in Nat /\ stored[p].end \in Nat /\ next[p] \in Nat /\ begin[p] \in Nat
        /\ stored[p].first <= stored[p].end
    BY ConsumeNumbers
  <1>3. NotPast(p)
    BY DEF ReadInv
  <1>4. \/ begin'[p] = begin[p] /\ next[p] <= next'[p]
        \/ begin[p] = next[p]
    BY <1>1, <1>2, <1>3 DEF NotPast
  <1>5. ASSUME NEW i \in DOMAIN records, records[i][1] = p
        PROVE  begin'[p] = begin[p] /\ next[p] <= next'[p]
    <2>1. begin[p] <= records[i][2] /\ records[i][2] < next[p] /\ records[i][2] \in Nat
      BY <1>5, ConsumeNumbers DEF ReadInv, Behind
    <2> QED BY <1>2, <1>4, <2>1
  <1>6. ASSUME NEW i \in DOMAIN records PROVE Behind(i)'
    <2>1. Behind(i) /\ records[i][1] \in Partitions /\ records[i][2] \in Nat
      BY ConsumeNumbers DEF ReadInv
    <2>2. CASE records[i][1] = p
      BY <1>1, <1>2, <1>5, <2>1, <2>2 DEF Behind
    <2>3. CASE records[i][1] # p
      BY <1>1, <2>1, <2>3 DEF Behind
    <2> QED BY <2>2, <2>3
  <1>7. NoGaps'
    <2> SUFFICES ASSUME NEW q \in request.of, NEW i \in DOMAIN records, records[i][1] = q,
                        NEW o \in From(q, begin[q])', o <= records[i][2]
                 PROVE  <<q, o>> \in Range(records)
      BY <1>1 DEF ReadInv, NoGaps
    <2>1. q \in Partitions
      BY ConsumeNumbers
    <2>2. begin'[q] = begin[q]
      BY <1>1, <1>5, <2>1
    <2>3. o \in From(q, begin[q])
      BY <1>1, <2>2 DEF From
    <2> QED BY <2>3 DEF ReadInv, NoGaps
  <1>8. \A q \in Partitions : NotPast(q)'
    <2>1. NotPast(p)'
      BY <1>1, <1>2, <1>3 DEF NotPast
    <2>2. \A q \in Partitions : q # p => NotPast(q)'
      BY <1>1 DEF ReadInv, NotPast
    <2> QED BY <2>1, <2>2
  <1>9. ASSUME NEW q \in request.of, Len(records) < request.limit PROVE ReadUpTo(q)'
    <2> SUFFICES ASSUME NEW o \in From(q, begin[q])', o < next'[q]
                 PROVE  <<q, o>> \in Range(records)
      BY <1>1 DEF ReadUpTo
    <2>1. q \in Partitions
      BY ConsumeNumbers
    <2>2. CASE q = p
      <3>1. o >= stored[p].first /\ o \in stored[p].held
        BY <1>1, <2>2 DEF From
      <3>2. o \in Nat
        BY <3>1, ConsumeNumbers
      <3> QED BY <1>1, <1>2, <2>2, <3>1, <3>2
    <2>3. CASE q # p
      <3>1. o \in From(q, begin[q]) /\ o < next[q]
        BY <1>1, <2>1, <2>3 DEF From
      <3> QED BY <1>9, <3>1 DEF ReadInv, ReadUpTo
    <2> QED BY <2>2, <2>3
  <1> QED BY <1>1, <1>6, <1>7, <1>8, <1>9 DEF ReadInv

\* Records come at the end of a partition and go from anywhere.
LEMMA ReadBesideChanges ==
    ASSUME ConsumeTypeOK, ReadInv, TopicChanges, UNCHANGED <<request, phase, next, begin, records>>
    PROVE  ReadInv'
  <1>1. \A p \in Partitions :
          /\ stored[p].first <= stored'[p].first /\ stored[p].end <= stored'[p].end
          /\ \A o \in stored'[p].held : o \in stored[p].held \/ o = stored[p].end
    BY TopicMoves
  <1>2. \A p \in Partitions :
          /\ stored'[p].first \in Nat /\ stored'[p].end \in Nat
          /\ stored'[p].held \subseteq Nat /\ \A o \in stored'[p].held : stored'[p].first <= o
    <2>1. stored' \in [Partitions -> PartitionLog]
      BY TopicMoves
    <2>2. Positions \subseteq Nat
      BY ConsumeAssumption DEF Positions
    <2> QED BY <2>1, <2>2 DEF PartitionLog
  <1>3. \A p \in Partitions :
          /\ stored[p].first \in Nat /\ stored[p].end \in Nat /\ next[p] \in Nat /\ begin[p] \in Nat
          /\ stored[p].held \subseteq Nat
    BY ConsumeNumbers
  <1>4. ASSUME NEW p \in Partitions, NEW o \in From(p, begin[p])'
        PROVE  o \in From(p, begin[p]) \/ (o = stored[p].end /\ next[p] <= o)
    <2>1. o \in stored'[p].held /\ o >= begin[p] /\ o >= stored'[p].first
      BY DEF From
    <2>2. CASE o \in stored[p].held
      BY <1>1, <1>2, <1>3, <2>1, <2>2 DEF From
    <2>3. CASE o = stored[p].end
      <3>1. NotPast(p)
        BY DEF ReadInv
      <3> QED BY <1>3, <2>1, <2>3, <3>1 DEF NotPast
    <2> QED BY <1>1, <2>1, <2>2, <2>3
  <1>5. ASSUME NEW i \in DOMAIN records PROVE Behind(i)'
    <2>1. Behind(i) /\ records[i][1] \in Partitions /\ records[i][2] \in Nat
      BY ConsumeNumbers DEF ReadInv
    <2> QED BY <1>1, <1>2, <1>3, <2>1 DEF Behind
  <1>6. NoGaps'
    <2> SUFFICES ASSUME NEW p \in request.of, NEW i \in DOMAIN records, records[i][1] = p,
                        NEW o \in From(p, begin[p])', o <= records[i][2]
                 PROVE  <<p, o>> \in Range(records)
      BY DEF ReadInv, NoGaps
    <2>1. p \in Partitions /\ records[i][2] \in Nat /\ records[i][2] < next[p]
      BY ConsumeNumbers DEF ReadInv, Behind
    <2>2. o \in From(p, begin[p])
      BY <1>3, <1>4, <2>1
    <2> QED BY <2>2 DEF ReadInv, NoGaps
  <1>7. \A p \in Partitions : NotPast(p)'
    BY <1>1, <1>2, <1>3 DEF ReadInv, NotPast
  <1>8. ASSUME NEW p \in request.of, Len(records) < request.limit PROVE ReadUpTo(p)'
    <2> SUFFICES ASSUME NEW o \in From(p, begin[p])', o < next[p]
                 PROVE  <<p, o>> \in Range(records)
      BY DEF ReadUpTo
    <2>1. p \in Partitions
      BY ConsumeNumbers
    <2>2. o \in From(p, begin[p])
      BY <1>3, <1>4, <2>1
    <2> QED BY <1>8, <2>2 DEF ReadInv, ReadUpTo
  <1> QED BY <1>5, <1>6, <1>7, <1>8 DEF ReadInv

\* A fetch takes what comes next, in order, and leaves out only what comes after.
LEMMA ReadFetches ==
    ASSUME ConsumeTypeOK, ReadInv, NEW p \in Partitions, NEW n \in 1..MaxOffset, Fetch(p, n)
    PROVE  ReadInv'
  <1>1. PICK batch \in [1..n -> From(p, next[p])], k \in 1..n : Brings(p, n, batch, k)
    BY FetchBrings
  <1>2. /\ UNCHANGED <<stored, request, phase, begin>> /\ phase = "reading" /\ p \in request.of
        /\ Len(records) < request.limit /\ next[p] <= stored[p].end
    BY DEF Fetch, Reading
  <1> DEFINE m == Len(records)
  <1>3. /\ m \in Nat /\ n \in Nat /\ n \in 1..n /\ k \in Nat /\ k <= n /\ DOMAIN records = 1..m
        /\ request.limit \in Nat
    <2>1. MaxOffset \in Nat
      BY ConsumeNumbers
    <2> QED BY <2>1, ConsumeNumbers
  <1>4. /\ DOMAIN records' = 1..(m + k) /\ Len(records') = m + k
        /\ \A i \in 1..m : records'[i] = records[i]
        /\ \A i \in 1..k : records'[m + i] = <<p, batch[i]>>
        /\ m + k <= request.limit /\ (k = n \/ m + k = request.limit)
    BY <1>1 DEF Brings
  <1>5. /\ next'[p] = batch[n] + 1
        /\ \A q \in Partitions : q # p => next'[q] = next[q]
    BY <1>1 DEF Brings, ConsumeTypeOK
  <1>6. /\ \A i \in 1..n : /\ batch[i] \in stored[p].held /\ batch[i] >= next[p]
                           /\ batch[i] \in Nat /\ batch[i] < stored[p].end
        /\ next[p] \in Nat /\ begin[p] \in Nat /\ stored[p].end \in Nat
    <2>1. \A i \in 1..n : batch[i] \in From(p, next[p])
      BY <1>1
    <2>2. \A i \in 1..n : batch[i] \in stored[p].held /\ batch[i] >= next[p]
      BY <2>1 DEF From
    <2> QED BY <2>2, ConsumeNumbers
  <1>7. \A i, j \in 1..n : i < j => batch[i] < batch[j]
    BY <1>1 DEF Brings
  <1>8. \A i \in 1..n : batch[i] <= batch[n]
    BY <1>3, <1>6, <1>7
  <1>9. begin[p] <= next[p] /\ next[p] <= batch[n] /\ batch[n] < next'[p] /\ next'[p] <= stored[p].end
    <2>1. begin[p] <= next[p]
      BY DEF ReadInv, NotPast
    <2> QED BY <1>3, <1>5, <1>6, <2>1
  <1> HIDE DEF m
  <1>10. \A i \in 1..m : Behind(i) /\ records[i][1] \in Partitions /\ records[i][2] \in Nat
    BY <1>3, ConsumeNumbers DEF ReadInv
  <1>11. \A i \in 1..m : records[i][1] = p => records[i][2] < next[p]
    BY <1>10 DEF Behind
  <1>12. \A i \in 1..(m + k) : i \in 1..m \/ \E j \in 1..k : i = m + j
    <2> SUFFICES ASSUME NEW i \in 1..(m + k), ~(i <= m) PROVE \E j \in 1..k : i = m + j
      BY <1>3
    <2>1. i - m \in 1..k /\ i = m + (i - m)
      BY <1>3
    <2> QED BY <2>1
  <1>13. ASSUME NEW i \in 1..(m + k) PROVE Behind(i)'
    <2>1. CASE i \in 1..m
      <3>1. records'[i] = records[i] /\ Behind(i) /\ records[i][1] \in Partitions /\ records[i][2] \in Nat
        BY <1>4, <1>10, <2>1
      <3>2. next[p] <= next'[p] /\ next'[p] \in Nat
        BY <1>3, <1>5, <1>6, <1>9
      <3>3. records[i][2] < next[records[i][1]]
        BY <3>1, Zenon DEF Behind
      <3>4. records[i][1] \in Partitions /\ records[i][1] # p => next'[records[i][1]] = next[records[i][1]]
        BY <1>5
      <3>5. records[i][1] = p => records[i][2] < next'[p]
        <4> SUFFICES ASSUME records[i][1] = p PROVE records[i][2] < next'[p]
          OBVIOUS
        <4>1. records[i][2] < next[p] /\ records[i][2] \in Nat /\ next[p] \in Nat
          BY <1>6, <3>1, <3>3
        <4> QED BY <3>2, <4>1
      <3>6. records[i][2] < next'[records[i][1]]
        BY <3>1, <3>3, <3>4, <3>5
      <3> QED BY <1>2, <3>1, <3>6 DEF Behind
    <2>2. ASSUME NEW j \in 1..k, i = m + j PROVE Behind(i)'
      <3>1. records'[i][1] = p /\ records'[i][2] = batch[j] /\ j \in 1..n
        BY <1>3, <1>4, <2>2
      <3>2. begin[p] <= batch[j] /\ batch[j] < next'[p] /\ batch[j] < stored[p].end
        <4>1. batch[j] \in Nat /\ batch[j] >= next[p] /\ batch[j] < stored[p].end /\ batch[j] <= batch[n]
          BY <1>6, <1>8, <3>1
        <4>2. batch[n] \in Nat /\ next'[p] = batch[n] + 1
          BY <1>3, <1>5, <1>6
        <4>3. begin[p] <= next[p] /\ begin[p] \in Nat /\ next[p] \in Nat
          BY <1>6, <1>9
        <4> QED BY <4>1, <4>2, <4>3
      <3> QED BY <1>2, <3>1, <3>2 DEF Behind
    <2> QED BY <1>12, <2>1, <2>2
  <1>14. IsInjective(records')
    <2>1. \A i, j \in 1..m : records[i] = records[j] => i = j
      BY <1>3 DEF ReadInv, NoGaps, IsInjective
    <2>2. \A i \in 1..m, j \in 1..k : records'[i] # records'[m + j]
      <3> SUFFICES ASSUME NEW i \in 1..m, NEW j \in 1..k, records[i] = <<p, batch[j]>> PROVE FALSE
        BY <1>4
      <3>1. records[i][1] = p /\ records[i][2] = batch[j] /\ j \in 1..n
        BY <1>3
      <3> QED BY <1>6, <1>11, <3>1
    <2>3. \A i, j \in 1..k : records'[m + i] = records'[m + j] => i = j
      <3> SUFFICES ASSUME NEW i \in 1..k, NEW j \in 1..k, batch[i] = batch[j], i < j PROVE FALSE
        <4>1. \A i, j \in 1..k : records'[m + i] = records'[m + j] => batch[i] = batch[j]
          BY <1>4
        <4> QED BY <1>3, <4>1
      <3>1. i \in 1..n /\ j \in 1..n
        BY <1>3
      <3> QED BY <1>6, <1>7, <3>1
    <2> SUFFICES ASSUME NEW i \in 1..(m + k), NEW j \in 1..(m + k), records'[i] = records'[j]
                 PROVE  i = j
      BY <1>4 DEF IsInjective
    <2>4. CASE i \in 1..m /\ j \in 1..m
      BY <1>4, <2>1, <2>4
    <2> QED BY <1>12, <2>2, <2>3, <2>4
  <1>15. Range(records) \subseteq Range(records')
    BY <1>3, <1>4 DEF Range
  <1>16. ASSUME NEW j \in 1..k PROVE <<p, batch[j]>> \in Range(records')
    <2>1. m + j \in DOMAIN records'
      BY <1>3, <1>4
    <2>2. records'[m + j] = <<p, batch[j]>>
      BY <1>4
    <2> QED BY <2>1, <2>2 DEF Range
  <1>17. \A q \in request.of : ReadUpTo(q)
    BY <1>2 DEF ReadInv
  <1>18. ASSUME NEW o \in From(p, begin[p]), o <= batch[n]
         PROVE  <<p, o>> \in Range(records) \/ \E j \in 1..n : batch[j] = o
    <2>1. o \in Nat
      BY ConsumeNumbers DEF From
    <2>2. CASE o < next[p]
      BY <1>2, <1>17, <2>2 DEF ReadUpTo
    <2>3. CASE o >= next[p]
      <3>1. o \in From(p, next[p])
        BY <2>3 DEF From
      <3> QED BY <1>1, <1>18, <3>1 DEF Brings
    <2> QED BY <1>6, <2>1, <2>2, <2>3
  <1>19. ASSUME NEW q \in request.of, NEW i \in 1..(m + k), records'[i][1] = q,
                NEW o \in From(q, begin[q]), o <= records'[i][2]
         PROVE  <<q, o>> \in Range(records')
    <2>1. CASE i \in 1..m
      <3>1. records'[i] = records[i] /\ i \in DOMAIN records
        BY <1>3, <1>4, <2>1
      <3>2. <<q, o>> \in Range(records)
        BY <1>19, <3>1 DEF ReadInv, NoGaps
      <3> QED BY <1>15, <3>2
    <2>2. ASSUME NEW j \in 1..k, i = m + j PROVE <<q, o>> \in Range(records')
      <3>1. q = p /\ o <= batch[j] /\ j \in 1..n
        BY <1>3, <1>4, <1>19, <2>2
      <3>2. o \in Nat
        BY <3>1, ConsumeNumbers DEF From
      <3>3. o <= batch[n]
        BY <1>3, <1>6, <1>8, <3>1, <3>2
      <3>4. ASSUME NEW l \in 1..n, batch[l] = o PROVE <<q, o>> \in Range(records')
        <4>1. l <= j
          BY <1>3, <1>6, <1>7, <3>1, <3>4
        <4>2. l \in 1..k
          BY <1>3, <4>1
        <4> QED BY <1>16, <3>1, <3>4, <4>2
      <3> QED BY <1>15, <1>18, <3>1, <3>3, <3>4
    <2> QED BY <1>12, <2>1, <2>2
  <1>20. NoGaps'
    <2>1. request' = request /\ begin' = begin
      BY <1>2
    <2> SUFFICES ASSUME NEW q \in request.of, NEW i \in 1..(m + k), records'[i][1] = q,
                        NEW o \in From(q, begin[q])', o <= records'[i][2]
                 PROVE  <<q, o>> \in Range(records')
      BY <1>4, <1>14, <2>1 DEF NoGaps
    <2>2. o \in From(q, begin[q])
      BY <1>2 DEF From
    <2> QED BY <1>19, <2>2
  <1>21. \A q \in Partitions : NotPast(q)'
    <2>1. NotPast(p)'
      BY <1>2, <1>3, <1>5, <1>6, <1>9 DEF NotPast
    <2>2. \A q \in Partitions : q # p => NotPast(q)'
      BY <1>2, <1>5 DEF ReadInv, NotPast
    <2> QED BY <2>1, <2>2
  <1>22. ASSUME NEW q \in request.of, m + k < request.limit PROVE ReadUpTo(q)'
    <2> SUFFICES ASSUME NEW o \in From(q, begin[q])', o < next'[q]
                 PROVE  <<q, o>> \in Range(records')
      BY DEF ReadUpTo
    <2>1. q \in Partitions /\ o \in From(q, begin[q])
      BY <1>2, ConsumeNumbers DEF From
    <2>2. CASE q = p
      <3>1. k = n
        BY <1>3, <1>4, <1>22
      <3>2. o \in Nat
        BY <2>1, ConsumeNumbers DEF From
      <3>3. o <= batch[n]
        BY <1>3, <1>5, <1>6, <2>2, <3>2
      <3> QED BY <1>15, <1>16, <1>18, <2>1, <2>2, <3>1, <3>3
    <2>3. CASE q # p
      <3>1. o < next[q]
        BY <1>5, <2>1, <2>3
      <3>2. <<q, o>> \in Range(records)
        BY <1>17, <2>1, <3>1 DEF ReadUpTo
      <3> QED BY <1>15, <3>2
    <2> QED BY <2>2, <2>3
  <1> QED BY <1>2, <1>4, <1>13, <1>20, <1>21, <1>22 DEF ReadInv

LEMMA ReadStep == ConsumeTypeOK /\ ReadInv /\ [ConsumeNext]_consumeVars => ReadInv'
  <1> SUFFICES ASSUME ConsumeTypeOK, ReadInv, [ConsumeNext]_consumeVars PROVE ReadInv'
    OBVIOUS
  <1>1. ConsumeTypeOK'
    BY ConsumeTypeStep
  <1>2. CASE ListNothing \/ ListOffsetsAfterMilli \/ ListStartOffsets
    <2>1. /\ phase \in {"asked", "listed"} /\ UNCHANGED <<stored, request, records>>
          /\ phase' = "reading" /\ next' = begin'
      BY <1>2 DEF ListNothing, ListOffsetsAfterMilli, ListStartOffsets, ReadFrom
    <2> QED BY <1>1, <2>1, ReadBegins
  <1>3. CASE ListEndOffsets \/ ListFails \/ End \/ UNCHANGED consumeVars
    <2>1. /\ UNCHANGED <<stored, request, next, begin, records>>
          /\ phase' \in {"asked", "listed"} => phase \in {"asked", "listed"}
      BY <1>3 DEF ListEndOffsets, ListFails, End, consumeVars
    <2> QED BY <2>1, ReadRests
  <1>4. CASE TopicChanges
    BY <1>4, ReadBesideChanges DEF TopicChanges
  <1> QED BY <1>2, <1>3, <1>4, ReadResets, ReadFetches DEF ConsumeNext, ConsumeMessages

\* Far enough stays far enough: ends only grow, and so do beginnings.
LEMMA LatestStep ==
    ConsumeTypeOK /\ ReadInv /\ LatestInv /\ [ConsumeNext]_consumeVars => LatestInv'
  <1> SUFFICES ASSUME ConsumeTypeOK, ReadInv, LatestInv, [ConsumeNext]_consumeVars PROVE LatestInv'
    OBVIOUS
  <1>1. CASE ListNothing \/ ListOffsetsAfterMilli
    <2>1. phase' = "reading" /\ request' = request /\ request.from # "latest"
      BY <1>1 DEF ListNothing, ListOffsetsAfterMilli, ReadFrom
    <2> QED BY <2>1 DEF LatestInv
  <1>2. CASE ListEndOffsets
    <2>1. phase' = "listed" /\ stored' = stored /\ ends' = [p \in Partitions |-> stored[p].end]
      BY <1>2 DEF ListEndOffsets
    <2>2. \A p \in Partitions : stored[p].end \in Nat
      BY ConsumeNumbers
    <2> QED BY <2>1, <2>2 DEF LatestInv
  <1>3. CASE ListStartOffsets
    <2>1. /\ phase = "listed" /\ phase' = "reading" /\ UNCHANGED <<stored, request, ends>>
          /\ begin' = [p \in Partitions |-> StartFor(ends[p], stored[p].first)]
      BY <1>3 DEF ListStartOffsets, ReadFrom
    <2>2. ASSUME NEW p \in Partitions PROVE FarEnough(p)'
      <3>1. PICK b : b = StartFor(ends[p], stored[p].first)
        OBVIOUS
      <3>2. /\ stored[p].first \in Positions /\ ends[p] \in Positions /\ stored[p].end \in Positions
            /\ stored[p].first <= stored[p].end /\ ends[p] <= stored[p].end
        BY <2>1, ConsumeNumbers DEF LatestInv
      <3>3. /\ b + request.limit >= ends[p]
            /\ \A o \in Positions : stored[p].first <= o /\ o + request.limit >= ends[p] => b <= o
            /\ \A o \in Positions : stored[p].first <= o /\ ends[p] <= o => b <= o
        BY <3>1, <3>2, StartIsFarEnough
      <3>4. begin'[p] = b
        BY <2>1, <3>1
      <3> QED BY <2>1, <3>2, <3>3, <3>4 DEF FarEnough
    <2> QED BY <2>1, <2>2 DEF LatestInv
  <1>4. CASE ListFails
    <2>1. phase' = "failed"
      BY <1>4 DEF ListFails
    <2> QED BY <2>1 DEF LatestInv
  <1>5. CASE End
    <2>1. /\ phase = "reading" /\ UNCHANGED <<stored, request, ends, next, begin, records>>
          /\ \/ Len(records) = request.limit /\ phase' = "full"
             \/ NothingThere /\ Len(records) < request.limit /\ phase' = "exhausted"
             \/ phase' \in {"cut", "failed"}
      BY <1>5 DEF End
    <2>2. request.from = "latest" => \A p \in Partitions : FarEnough(p)'
      BY <2>1 DEF LatestInv, FarEnough
    <2>3. ASSUME phase' = "exhausted", NEW p \in request.of, NEW o \in From(p, begin[p])
          PROVE  <<p, o>> \in Range(records)
      <3>1. From(p, next[p]) = {} /\ Len(records) < request.limit
        BY <2>1, <2>3 DEF NothingThere
      <3>2. p \in Partitions
        BY ConsumeNumbers
      <3>3. o \in Nat /\ next[p] \in Nat
        BY <3>2, ConsumeNumbers DEF From
      <3>4. o < next[p]
        BY <3>1, <3>3 DEF From
      <3> QED BY <3>1, <3>4 DEF ReadInv, ReadUpTo
    <2>4. phase' = "exhausted" => \A p \in request.of : \A o \in From(p, begin[p])' :
                                     <<p, o>> \in Range(records)
      BY <2>1, <2>3 DEF From
    <2>5. phase' = "full" => Len(records) = request.limit
      BY <2>1
    <2>6. phase' # "listed"
      BY <2>1
    <2> QED BY <2>1, <2>2, <2>4, <2>5, <2>6 DEF LatestInv
  <1>6. ASSUME NEW p \in Partitions, Reset(p) PROVE LatestInv'
    <2>1. /\ phase = "reading" /\ UNCHANGED <<stored, request, phase, ends, records>>
          /\ begin' = IF begin[p] > stored[p].end THEN [begin EXCEPT ![p] = stored[p].first] ELSE begin
      BY <1>6 DEF Reset, Reading
    <2>2. ASSUME request.from = "latest" PROVE begin' = begin
      <3>1. begin[p] <= stored[p].end /\ begin[p] \in Nat /\ stored[p].end \in Nat
        BY <2>1, <2>2, ConsumeNumbers DEF LatestInv, FarEnough
      <3> QED BY <2>1, <3>1
    <2> QED BY <2>1, <2>2 DEF LatestInv, FarEnough
  <1>7. ASSUME NEW p \in Partitions, NEW n \in 1..MaxOffset, Fetch(p, n) PROVE LatestInv'
    <2>1. phase = "reading" /\ UNCHANGED <<stored, request, phase, ends, begin>>
      BY <1>7 DEF Fetch, Reading
    <2> QED BY <2>1 DEF LatestInv, FarEnough
  <1>8. CASE phase \in {"asked", "listed", "reading"} /\ TopicChanges
    <2>1. UNCHANGED <<request, phase, ends, next, begin, records>>
      BY <1>8 DEF TopicChanges
    <2>2. /\ stored' \in [Partitions -> PartitionLog]
          /\ \A p \in Partitions : stored[p].first <= stored'[p].first /\ stored[p].end <= stored'[p].end
      BY <1>8, TopicMoves
    <2>3. ASSUME NEW p \in Partitions
          PROVE  /\ stored[p].first \in Nat /\ stored[p].end \in Nat /\ ends[p] \in Nat /\ begin[p] \in Nat
                 /\ stored'[p].first \in Nat /\ stored'[p].end \in Nat
      <3>1. Positions \subseteq Nat
        BY ConsumeAssumption DEF Positions
      <3> QED BY <2>2, <3>1, ConsumeNumbers DEF PartitionLog
    <2>4. ASSUME NEW p \in Partitions, FarEnough(p) PROVE FarEnough(p)'
      <3>1. stored[p].first <= stored'[p].first /\ stored[p].end <= stored'[p].end
        BY <2>2
      <3>2. ends[p] <= stored'[p].end /\ begin[p] <= stored'[p].end
        BY <2>3, <2>4, <3>1 DEF FarEnough
      <3>3. \A o \in Positions : stored'[p].first <= o => stored[p].first <= o
        <4>1. Positions \subseteq Nat
          BY ConsumeAssumption DEF Positions
        <4> QED BY <2>3, <3>1, <4>1
      <3> QED BY <2>1, <2>4, <3>2, <3>3 DEF FarEnough
    <2>5. \A p \in Partitions : ends[p] <= stored[p].end => ends[p] <= stored'[p].end
      BY <2>2, <2>3
    <2> QED BY <1>8, <2>1, <2>4, <2>5 DEF LatestInv
  <1>9. CASE UNCHANGED consumeVars
    BY <1>9 DEF consumeVars, LatestInv, FarEnough, From
  <1> QED BY <1>1, <1>2, <1>3, <1>4, <1>5, <1>6, <1>7, <1>8, <1>9 DEF ConsumeNext, ConsumeMessages

\* As many different offsets do not fit into a shorter stretch.
LEMMA NoRoom ==
    \A l \in Nat \ {0} : \A a, o \in Nat : a <= o /\ o < a + l =>
        \A f \in [1..l -> a..(o - 1)] : \E i \in 1..l, j \in 1..l : i # j /\ f[i] = f[j]
  <1> SUFFICES ASSUME NEW l \in Nat \ {0}, NEW a \in Nat, NEW o \in Nat, a <= o, o < a + l,
                      NEW f \in [1..l -> a..(o - 1)]
               PROVE  \E i \in 1..l, j \in 1..l : i # j /\ f[i] = f[j]
    OBVIOUS
  <1> DEFINE S == 1..l
             T == a..(o - 1)
  <1>1. IsFiniteSet(S) /\ Cardinality(S) = l
    <2>1. 1 \in Int /\ l \in Int /\ ~(1 > l)
      OBVIOUS
    <2>2. IsFiniteSet(S) /\ Cardinality(S) = l - 1 + 1
      BY <2>1, FS_Interval
    <2> QED BY <2>2
  <1>2. IsFiniteSet(T) /\ Cardinality(T) < l
    <2>1. a \in Int /\ o - 1 \in Int
      OBVIOUS
    <2>2. IsFiniteSet(T) /\ Cardinality(T) = IF a > o - 1 THEN 0 ELSE o - 1 - a + 1
      BY <2>1, FS_Interval
    <2> HIDE DEF T
    <2> QED BY <2>2
  <1>3. f \in [S -> T]
    OBVIOUS
  <1> HIDE DEF S, T
  <1>4. Cardinality(T) < Cardinality(S)
    BY <1>1, <1>2
  <1>5. \E i, j \in S : i # j /\ f[i] = f[j]
    BY <1>1, <1>2, <1>3, <1>4, FS_PigeonHole
  <1> QED BY <1>5 DEF S

\* The read of one partition that has enough reaches the last records before the end
\* it was told: so many that are all older would not fit between.
LEMMA FullIsEnough ==
    ASSUME ConsumeTypeOK, ReadInv, LatestInv, request.from = "latest", phase = "full",
           NEW p \in Partitions, request.of = {p},
           NEW o \in From(p, 0), o < ends[p], o + request.limit >= ends[p]
    PROVE  <<p, o>> \in Range(records)
  <1>1. /\ begin[p] + request.limit >= ends[p] /\ Len(records) = request.limit
        /\ \A h \in Positions : stored[p].first <= h /\ h + request.limit >= ends[p] => begin[p] <= h
    BY DEF LatestInv, FarEnough
  <1>2. /\ request.limit \in Nat /\ begin[p] \in Nat /\ ends[p] \in Nat /\ o \in Nat /\ o \in Positions
        /\ DOMAIN records = 1..Len(records)
        /\ stored[p].first <= o /\ o \in stored[p].held
    BY ConsumeNumbers DEF From
  <1>3. begin[p] <= o
    BY <1>1, <1>2
  <1>4. o \in From(p, begin[p])
    BY <1>2, <1>3 DEF From
  <1>5. \A i \in DOMAIN records : /\ records[i] = <<p, records[i][2]>> /\ records[i][1] = p
                                  /\ records[i][2] \in Nat /\ begin[p] <= records[i][2]
    BY ConsumeNumbers DEF ReadInv, Behind
  <1>6. \E i \in DOMAIN records : o <= records[i][2]
    <2> SUFFICES ASSUME \A i \in DOMAIN records : records[i][2] < o PROVE FALSE
      BY <1>2, <1>5
    <2>1. PICK l, a, f : l = request.limit /\ a = begin[p] /\ f = [i \in 1..l |-> records[i][2]]
      OBVIOUS
    <2>2. f \in [1..l -> a..(o - 1)]
      BY <1>1, <1>2, <1>5, <2>1
    <2>3. l \in Nat \ {0} /\ a \in Nat
      BY <2>1, ConsumeNumbers
    <2>4. a <= o /\ o < a + l
      BY <1>1, <1>2, <1>3, <2>1
    <2>5. PICK i \in 1..l, j \in 1..l : i # j /\ f[i] = f[j]
      <3>1. o \in Nat
        BY <1>2
      <3>2. \A g \in [1..l -> a..(o - 1)] : \E i \in 1..l, j \in 1..l : i # j /\ g[i] = g[j]
        BY <2>3, <2>4, <3>1, NoRoom
      <3> QED BY <2>2, <3>2
    <2>6. records[i] = records[j] /\ i \in DOMAIN records /\ j \in DOMAIN records
      BY <1>1, <1>2, <1>5, <2>1, <2>5
    <2> QED BY <2>5, <2>6 DEF ReadInv, NoGaps, IsInjective
  <1> QED BY <1>4, <1>5, <1>6 DEF ReadInv, NoGaps

\* An answer with room left has every record that passes: the first one left out
\* would have had as many before it as were wanted.
LEMMA AllThatPass ==
    ASSUME ConsumeTypeOK, IsInjective(records), request.filtered,
           Cardinality(Answer) < request.want, NEW i \in DOMAIN records, Passing(records[i])
    PROVE  records[i] \in Answer
  <1> DEFINE Taken == {j \in DOMAIN records : FirstThatPass(j)}
             Left == {j \in DOMAIN records : Passing(records[j]) /\ ~FirstThatPass(j)}
  <1>1. Len(records) \in Nat /\ DOMAIN records = 1..Len(records) /\ request.want \in Nat
    BY ConsumeNumbers
  <1>2. Answer = {records[j] : j \in Taken}
    BY DEF Answer
  <1> SUFFICES ASSUME i \in Left PROVE FALSE
    BY <1>2
  <1>3. Left \subseteq Nat /\ Left # {}
    BY <1>1
  <1>4. PICK b \in Left : \A j \in Left : ~(<<j, b>> \in OpToRel(<, Nat))
    BY <1>3, WFMin, NatLessThanWellFounded, Zenon
  <1>5. \A j \in Left : ~(j < b)
    BY <1>3, <1>4, Zenon DEF OpToRel
  <1> DEFINE Before_b == {j \in 1..(b - 1) : Passing(records[j])}
  <1>6. b \in 1..Len(records)
    BY <1>1
  <1>7. Before_b \subseteq Taken /\ Before_b \subseteq 1..Len(records)
    BY <1>1, <1>5, <1>6
  <1>8. IsFiniteSet(1..Len(records))
    BY <1>1, FS_Interval
  <1>9. IsFiniteSet(Before_b) /\ IsFiniteSet(Taken)
    BY <1>1, <1>7, <1>8, FS_Subset
  <1>10. IsFiniteSet(Answer)
    <2> DEFINE g == [j \in Taken |-> records[j]]
    <2>1. g \in Surjection(Taken, Answer)
      BY <1>2 DEF Surjection
    <2> QED BY <1>9, <2>1, FS_Surjection
  <1>11. ~(Cardinality(Before_b) < request.want)
    BY DEF FirstThatPass
  <1>12. Cardinality(Before_b) \in Nat /\ Cardinality(Answer) \in Nat
    BY <1>9, <1>10, FS_CardinalityType
  <1> DEFINE f == [j \in Before_b |-> records[j]]
  <1>13. f \in [Before_b -> Answer]
    BY <1>2, <1>7
  <1>14. \A j, l \in Before_b : f[j] = f[l] => j = l
    BY <1>1, <1>7 DEF IsInjective
  <1> HIDE DEF Before_b, f, Taken, Left
  <1>15. Cardinality(Answer) < Cardinality(Before_b)
    BY <1>1, <1>11, <1>12
  <1>16. \E j, l \in Before_b : j # l /\ f[j] = f[l]
    BY <1>9, <1>10, <1>13, <1>15, FS_PigeonHole
  <1> QED BY <1>14, <1>16

\* A request that has not been looked at yet.
LEMMA ConsumeStarts == ConsumeInit => ConsumeTypeOK /\ ReadInv /\ LatestInv
  <1> SUFFICES ASSUME ConsumeInit PROVE ConsumeTypeOK /\ ReadInv /\ LatestInv
    OBVIOUS
  <1>1. 0 \in Positions /\ Positions \subseteq Nat
    BY ConsumeAssumption DEF Positions
  <1>2. ends \in [Partitions -> Positions] /\ next = ends /\ begin = ends
    BY <1>1 DEF ConsumeInit
  <1>3. records \in Seq(Partitions \X Positions) /\ Len(records) = 0 /\ DOMAIN records = {}
    BY EmptySeq DEF ConsumeInit
  <1>4. ConsumeTypeOK
    <2>1. request.limit \in Nat
      <3>1. PICK k \in Froms, f \in BOOLEAN,
                 P \in {{p} : p \in Partitions} \union {Partitions}, w \in Wants :
              request = [from |-> k[1], at |-> k[2], of |-> P, want |-> w,
                         limit |-> LimitFor(w, f), filtered |-> f]
        BY DEF ConsumeInit, Requests
      <3>2. w \in Nat /\ OverFetch \in Nat /\ HardLimit \in Nat
        BY ConsumeAssumption
      <3>3. w * OverFetch \in Nat
        BY <3>2
      <3> QED BY <3>1, <3>2, <3>3 DEF LimitFor
    <2> QED BY <1>2, <1>3, <2>1, ConsumeAssumption DEF ConsumeInit, ConsumeTypeOK
  <1>5. NoGaps
    BY <1>3 DEF NoGaps, IsInjective
  <1>6. \A p \in Partitions : NotPast(p)
    <2>1. \A p \in Partitions : next[p] \in Nat /\ begin[p] = next[p]
      BY <1>1, <1>2
    <2> QED BY <2>1 DEF NotPast
  <1>7. \A p \in request.of : ReadUpTo(p)
    <2> SUFFICES ASSUME NEW p \in request.of, NEW o \in From(p, begin[p]), o < next[p] PROVE FALSE
      BY DEF ReadUpTo
    <2>1. p \in Partitions /\ o \in Nat /\ next[p] \in Nat /\ begin[p] = next[p] /\ o >= begin[p]
      <3>1. p \in Partitions
        BY <1>4, ConsumeNumbers
      <3>2. o \in stored[p].held /\ o >= begin[p]
        BY DEF From
      <3> QED BY <1>1, <1>2, <1>4, <3>1, <3>2, ConsumeNumbers
    <2> QED BY <2>1
  <1>8. phase = "asked" /\ records = <<>>
    BY DEF ConsumeInit
  <1> QED BY <1>3, <1>4, <1>5, <1>6, <1>7, <1>8 DEF ReadInv, LatestInv

\* The state of a read is well-typed, whatever the topic does (client.go:319-460).
THEOREM ConsumeTypeCorrect == ConsumeSpec => []ConsumeTypeOK
  <1>1. ConsumeInit => ConsumeTypeOK
    BY ConsumeStarts
  <1> QED BY <1>1, ConsumeTypeStep, PTL DEF ConsumeSpec

\* No answer has holes, and a read of the latest that was not cut has the latest
\* (client.go:319-460, message.go:96-134), however the topic changes meanwhile.
THEOREM AnswersAreRuns == ConsumeSpec => []AnswerIsRun
  <1>1. ConsumeTypeOK /\ ReadInv /\ LatestInv => AnswerIsRun
    <2> SUFFICES ASSUME ConsumeTypeOK, ReadInv, LatestInv PROVE LatestAreThere
      BY DEF AnswerIsRun, ReadInv
    <2> SUFFICES ASSUME request.from = "latest",
                        phase = "exhausted" \/ (phase = "full" /\ Cardinality(request.of) = 1),
                        NEW p \in request.of, NEW o \in Positions,
                        o \in From(p, 0), o < ends[p], o + request.limit >= ends[p],
                        request.filtered => Passing(<<p, o>>) /\ Cardinality(Answer) < request.want
                 PROVE  <<p, o>> \in Answer
      BY DEF LatestAreThere
    <2>1. p \in Partitions
      BY ConsumeNumbers
    <2>2. <<p, o>> \in Range(records)
      <3>1. CASE phase = "exhausted"
        <4>1. begin[p] <= o
          BY <2>1, <3>1 DEF LatestInv, FarEnough, From
        <4>2. o \in From(p, begin[p])
          BY <4>1 DEF From
        <4> QED BY <3>1, <4>2 DEF LatestInv
      <3>2. CASE phase = "full" /\ Cardinality(request.of) = 1
        <4>1. IsFiniteSet(request.of)
          BY ConsumeNumbers, ConsumeAssumption, FS_Subset
        <4>2. request.of = {p}
          BY <3>2, <4>1, FS_Singleton
        <4> QED BY <2>1, <3>2, <4>2, FullIsEnough
      <3> QED BY <3>1, <3>2
    <2>3. PICK i \in DOMAIN records : records[i] = <<p, o>>
      BY <2>2 DEF Range
    <2>4. CASE request.filtered
      <3>1. IsInjective(records)
        BY DEF ReadInv, NoGaps
      <3> QED BY <2>3, <2>4, <3>1, AllThatPass
    <2>5. CASE ~request.filtered
      BY <2>3, <2>5 DEF Answer
    <2> QED BY <2>4, <2>5
  <1>2. ConsumeTypeOK /\ ReadInv /\ LatestInv /\ [ConsumeNext]_consumeVars
          => (ConsumeTypeOK /\ ReadInv /\ LatestInv)'
    BY ConsumeTypeStep, ReadStep, LatestStep
  <1> QED BY <1>1, <1>2, ConsumeStarts, PTL DEF ConsumeSpec

\* Without a filter no more is read than was asked for.
LEMMA ShortReads ==
    ASSUME ConsumeTypeOK, ~request.filtered PROVE Len(records) <= request.want
  <1>1. PICK k \in Froms, f \in BOOLEAN,
             P \in {{p} : p \in Partitions} \union {Partitions}, w \in Wants :
             request = [from |-> k[1], at |-> k[2], of |-> P, want |-> w,
                        limit |-> LimitFor(w, f), filtered |-> f]
    BY DEF ConsumeTypeOK, Requests
  <1>2. PICK m : m = LimitFor(w, FALSE)
    OBVIOUS
  <1>3. ~f
    BY <1>1
  <1>4. f = FALSE
    BY <1>3
  <1>5. request.want = w /\ request.limit = m
    BY <1>1, <1>2, <1>4
  <1>6. w \in Nat /\ HardLimit \in Nat
    BY ConsumeAssumption
  <1>7. m \in Nat /\ m <= w
    BY <1>2, <1>6 DEF LimitFor
  <1>8. Len(records) \in Nat /\ Len(records) <= m
    BY <1>5, ConsumeNumbers DEF ConsumeTypeOK
  <1> QED BY <1>5, <1>6, <1>7, <1>8

\* A list has no more members than entries, and the first of them that pass are no
\* more than were wanted: the last of these had fewer before it.
LEMMA TakenAreWanted ==
    ASSUME ConsumeTypeOK
    PROVE  /\ IsFiniteSet({j \in DOMAIN records : request.filtered => FirstThatPass(j)})
           /\ Cardinality({j \in DOMAIN records : request.filtered => FirstThatPass(j)}) <= request.want
  <1> DEFINE Taken == {j \in DOMAIN records : request.filtered => FirstThatPass(j)}
  <1>1. PICK l, w : /\ l = Len(records) /\ l \in Nat /\ DOMAIN records = 1..l
                    /\ w = request.want /\ w \in Nat
    BY ConsumeNumbers
  <1>2. IsFiniteSet(1..l) /\ Cardinality(1..l) = l
    <2>1. 1 \in Int /\ l \in Int
      BY <1>1
    <2>2. IsFiniteSet(1..l) /\ Cardinality(1..l) = IF 1 > l THEN 0 ELSE l - 1 + 1
      BY <2>1, FS_Interval
    <2> QED BY <1>1, <2>2
  <1>3. IsFiniteSet(Taken) /\ Cardinality(Taken) \in Nat /\ Cardinality(Taken) <= l
    <2>1. Taken \subseteq 1..l
      BY <1>1
    <2> HIDE DEF Taken
    <2>2. IsFiniteSet(Taken) /\ Cardinality(Taken) <= Cardinality(1..l)
      BY <1>2, <2>1, FS_Subset
    <2> QED BY <1>2, <2>2, FS_CardinalityType
  <1>7. \A j : j \in Taken <=> j \in 1..l /\ (request.filtered => FirstThatPass(j))
    BY <1>1
  <1> SUFFICES Cardinality(Taken) <= w
    BY <1>1, <1>3
  <1> HIDE DEF Taken
  <1>4. CASE ~request.filtered
    <2>1. l <= w
      BY <1>1, <1>4, ShortReads
    <2> QED BY <1>1, <1>3, <2>1
  <1>5. CASE request.filtered /\ Taken = {}
    <2>1. Cardinality({}) = 0
      BY FS_EmptySet
    <2> QED BY <1>1, <1>3, <1>5, <2>1
  <1>6. CASE request.filtered /\ Taken # {}
    <2> DEFINE Rest == {l - j : j \in Taken}
    <2>1. Rest \subseteq Nat /\ Rest # {}
      BY <1>1, <1>6, <1>7
    <2>2. PICK r \in Rest : \A q \in Rest : ~(<<q, r>> \in OpToRel(<, Nat))
      BY <2>1, WFMin, NatLessThanWellFounded, Zenon
    <2>3. \A q \in Rest : ~(q < r)
      BY <2>1, <2>2, Zenon DEF OpToRel
    <2>4. PICK g \in Taken : r = l - g
      OBVIOUS
    <2>5. ASSUME NEW j \in Taken PROVE j <= g
      <3>1. ~(l - j < l - g)
        BY <2>3, <2>4
      <3> QED BY <1>1, <1>7, <3>1
    <2> DEFINE Before_g == {j \in 1..(g - 1) : Passing(records[j])}
    <2>6. Taken \ {g} \subseteq Before_g
      <3> SUFFICES ASSUME NEW j \in Taken, j # g PROVE j \in 1..(g - 1) /\ Passing(records[j])
        OBVIOUS
      <3>1. j \in 1..l /\ g \in 1..l /\ FirstThatPass(j) /\ j <= g
        BY <1>6, <1>7, <2>5
      <3> QED BY <1>1, <3>1 DEF FirstThatPass
    <2>7. Cardinality(Before_g) < w
      BY <1>1, <1>6, <1>7 DEF FirstThatPass
    <2>8. Before_g \subseteq 1..l
      BY <1>1, <1>7
    <2> HIDE DEF Before_g
    <2>9. IsFiniteSet(Before_g) /\ Cardinality(Before_g) \in Nat
      BY <1>2, <2>8, FS_Subset, FS_CardinalityType
    <2>10. Cardinality(Taken \ {g}) <= Cardinality(Before_g)
      BY <2>6, <2>9, FS_Subset
    <2>11. Cardinality(Taken \ {g}) = Cardinality(Taken) - 1
      BY <1>3, FS_RemoveElement
    <2> QED BY <1>1, <1>3, <2>7, <2>9, <2>10, <2>11
  <1> QED BY <1>4, <1>5, <1>6

\* What is answered is no more than was asked for; and where it is less, nothing that
\* was read and passes is missing from it.
AnswerFits ==
    /\ Cardinality(Answer) <= request.want
    /\ Cardinality(Answer) < request.want =>
          \A i \in DOMAIN records : (request.filtered => Passing(records[i])) => records[i] \in Answer

\* Browse cuts what was read to what was asked for, and only then (message.go:96-134):
\* with a filter it reads OverFetch times as many, up to HardLimit, and answers the
\* first that pass.
THEOREM AnswersAlwaysFit == ConsumeSpec => []AnswerFits
  <1>1. ConsumeTypeOK /\ IsInjective(records) => AnswerFits
    <2> SUFFICES ASSUME ConsumeTypeOK, IsInjective(records) PROVE AnswerFits
      OBVIOUS
    <2> DEFINE Taken == {j \in DOMAIN records : request.filtered => FirstThatPass(j)}
               f == [j \in Taken |-> records[j]]
    <2>1. IsFiniteSet(Taken) /\ Cardinality(Taken) <= request.want
      BY TakenAreWanted
    <2>2. f \in Surjection(Taken, Answer)
      BY DEF Answer, Surjection
    <2>3. request.want \in Nat
      BY ConsumeNumbers
    <2> HIDE DEF Taken, f
    <2>4. IsFiniteSet(Answer) /\ Cardinality(Answer) <= Cardinality(Taken)
      BY <2>1, <2>2, FS_Surjection
    <2>5. Cardinality(Answer) \in Nat /\ Cardinality(Taken) \in Nat
      BY <2>1, <2>4, FS_CardinalityType
    <2>6. Cardinality(Answer) <= request.want
      BY <2>1, <2>3, <2>4, <2>5
    <2>7. \A i \in DOMAIN records : ~request.filtered => records[i] \in Answer
      BY DEF Answer
    <2>8. \A i \in DOMAIN records : request.filtered /\ Passing(records[i])
                                      /\ Cardinality(Answer) < request.want => records[i] \in Answer
      BY AllThatPass
    <2> QED BY <2>6, <2>7, <2>8 DEF AnswerFits
  <1>2. ConsumeTypeOK /\ ReadInv => ConsumeTypeOK /\ IsInjective(records)
    BY DEF ReadInv, NoGaps
  <1>3. ConsumeTypeOK /\ ReadInv /\ [ConsumeNext]_consumeVars => (ConsumeTypeOK /\ ReadInv)'
    BY ConsumeTypeStep, ReadStep
  <1> QED BY <1>1, <1>2, <1>3, ConsumeStarts, PTL DEF ConsumeSpec

-----------------------------------------------------------------------------
(* The four together. *)

\* A behaviour of the run is one of each of the four: what is proved of one alone
\* holds where it runs beside the others.
THEOREM HandlersAreTheFour == HandlersSpec => Spec /\ ProviderSpec /\ PermissionsSpec /\ ConsumeSpec
  <1>1. HandlersInit => Init /\ ProviderInit /\ PermissionsInit /\ ConsumeInit
    BY DEF HandlersInit
  <1>2. [HandlersNext]_handlerVars => [Next]_vars
    BY DEF HandlersNext, handlerVars
  <1>3. [HandlersNext]_handlerVars => [ProviderNext]_providerVars
    BY DEF HandlersNext, handlerVars
  <1>4. [HandlersNext]_handlerVars => [PermissionsNext]_permissionVars
    BY DEF HandlersNext, handlerVars
  <1>5. [HandlersNext]_handlerVars => [ConsumeNext]_consumeVars
    BY DEF HandlersNext, handlerVars
  <1> QED BY <1>1, <1>2, <1>3, <1>4, <1>5, PTL
          DEF HandlersSpec, Spec, ProviderSpec, PermissionsSpec, ConsumeSpec

\* All that the run checks of the four handlers, for every value of the constants.
THEOREM HandlersAreCorrect ==
    HandlersSpec => /\ [](AllTypeOK /\ SpanCap /\ LastLoginComesThrough /\ GrantsAreMeant /\ AnswerIsRun)
                    /\ ImplementsFixedWindow
  <1>1. ProviderInv => ProviderTypeOK
    BY DEF ProviderInv
  <1>2. ExpansionInv => PermissionsTypeOK
    BY DEF ExpansionInv
  <1>3. ProviderSpec => []ProviderTypeOK
    BY <1>1, ProviderInvInit, ProviderInvStep, PTL DEF ProviderSpec
  <1>4. PermissionsSpec => []PermissionsTypeOK
    BY <1>2, ExpansionInvInit, ExpansionInvStep, PTL DEF PermissionsSpec
  <1>5. TypeOK /\ ProviderTypeOK /\ PermissionsTypeOK /\ ConsumeTypeOK => AllTypeOK
    BY DEF AllTypeOK
  <1> QED BY <1>3, <1>4, <1>5, HandlersAreTheFour, LimiterTypeCorrect, ConsumeTypeCorrect, SpansAreCapped,
             LastLoginGetsThrough, GrantsAlwaysMeant, AnswersAreRuns, LimiterImplementsFixedWindow, PTL
=============================================================================
