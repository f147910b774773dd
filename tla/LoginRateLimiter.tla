--------------------------- MODULE LoginRateLimiter ---------------------------
(***************************************************************************)
(* The limiter in front of LoginBasic and Callback                         *)
(* (internal/auth/ratelimit.go).  Allow runs under a mutex, so calls do    *)
(* not overlap, but it reads the clock twice, for the sweep and for the    *)
(* decision, and time passes between the two.  What the credentials are    *)
(* worth is found out afterwards and never reported back.                  *)
(***************************************************************************)
EXTENDS Naturals, Sequences, FiniteSets, Functions

CONSTANTS
    Clients,      \* connections: r.RemoteAddr, address and port
    Addresses,    \* what X-Forwarded-For says behind a trusted proxy
    AddressOf,    \* the address a connection comes from
    TrustProxy,   \* server.trust-proxy, with a proxy that sets the header
    MaxAttempts,  \* auth.basic.rate-limit.max-attempts
    Window,       \* window-seconds, in ticks
    SweepEvery,   \* 100 in the code
    Outcomes,     \* what the credentials of a call may be worth
    MaxClock,     \* bound: ticks
    MaxCalls,     \* bound: calls of Allow
    None          \* nobody is in Allow

ASSUME LimiterAssumption ==
    /\ MaxAttempts \in Nat \ {0}
    /\ Window \in Nat \ {0}
    /\ SweepEvery \in Nat \ {0}
    /\ MaxClock \in Nat /\ MaxCalls \in Nat
    /\ AddressOf \in [Clients -> Addresses]
    /\ TrustProxy \in BOOLEAN
    /\ Outcomes \subseteq {"ok", "failed"}
    /\ None \notin Clients

PerConnection(c) == c                 \* mutant: the header is not looked at

\* The key of an attempt.
KeyOf(c) == IF TrustProxy THEN AddressOf[c] ELSE c
Keys     == IF TrustProxy THEN Addresses ELSE Clients

VARIABLES
    clock,
    attempts,  \* key -> count and windowStart, for the keys in the map
    calls,     \* sweepCounter, modulo SweepEvery
    inside,    \* the connection whose call of Allow holds the mutex, or None
    log        \* history: every call and its outcome

vars == <<clock, attempts, calls, inside, log>>

Attempt == [count : Nat \ {0}, start : Nat]
Event   == [client : Clients, time : Nat, outcome : {"refused", "ok", "failed"}]

TypeOK ==
    /\ clock \in Nat
    /\ DOMAIN attempts \subseteq Keys
    /\ \A k \in DOMAIN attempts : attempts[k] \in Attempt
    /\ calls \in 0..(SweepEvery - 1)
    /\ inside \in Clients \union {None}
    /\ log \in Seq(Event)

Init == clock = 0 /\ attempts = <<>> /\ calls = 0 /\ inside = None /\ log = <<>>

Tick ==
    /\ clock < MaxClock
    /\ clock' = clock + 1
    /\ UNCHANGED <<attempts, calls, inside, log>>

Age(k) == clock - attempts[k].start

Stale(k) == Age(k) > Window           \* mutant: comparison turned round

\* What a sweep leaves in the map.
Kept(k) == Age(k) <= Window

\* Allow up to the sweep, which every SweepEvery-th call makes.
Enter(c) ==
    /\ inside = None /\ Len(log) < MaxCalls
    /\ inside' = c
    /\ calls' = (calls + 1) % SweepEvery
    /\ attempts' = IF calls' = 0
                   THEN Restrict(attempts, {k \in DOMAIN attempts : Kept(k)})
                   ELSE attempts
    /\ UNCHANGED <<clock, log>>

Record(c, outcome) ==
    log' = Append(log, [client |-> c, time |-> clock, outcome |-> outcome])

\* There is no window for k, or it is over.
Over(k) == k \in DOMAIN attempts => Age(k) >= Window

Write(k, attempt) ==
    attempts' = [j \in DOMAIN attempts \union {k} |-> IF j = k THEN attempt ELSE attempts[j]]

FullLate(k) == attempts[k].count > MaxAttempts                \* mutant: > for >=

Full(k) == attempts[k].count >= MaxAttempts

\* Allow returns false; the handler answers 429.
Refuse(c) ==
    LET k == KeyOf(c) IN
    /\ inside = c /\ ~Over(k) /\ Full(k)
    /\ inside' = None
    /\ Record(c, "refused")
    /\ UNCHANGED <<clock, attempts, calls>>

\* Allow returns true; the handler goes on to check the credentials.
LetThrough(c) ==
    LET k == KeyOf(c) IN
    /\ inside = c
    /\ \/ Over(k) /\ Write(k, [count |-> 1, start |-> clock])
       \/ ~Over(k) /\ ~Full(k) /\ Write(k, [attempts[k] EXCEPT !.count = @ + 1])
    /\ inside' = None
    /\ \E outcome \in Outcomes : Record(c, outcome)
    /\ UNCHANGED <<clock, calls>>

Next == Tick \/ \E c \in Clients : Enter(c) \/ Refuse(c) \/ LetThrough(c)
Spec == Init /\ [][Next]_vars

-----------------------------------------------------------------------------
\* The attempts of the connections in S that had one of the outcomes, from tick
\* t on, in a span of Window ticks.
InSpan(S, outcomes, t) ==
    {i \in DOMAIN log : /\ log[i].client \in S /\ log[i].outcome \in outcomes
                        /\ t <= log[i].time /\ log[i].time < t + Window}

SameKey(c) == {d \in Clients : KeyOf(d) = KeyOf(c)}

\* Wherever one lays a span of Window ticks over the calls, it holds fewer than
\* twice MaxAttempts that got through with one key: the end of one window and
\* the beginning of the next, and never more, whatever was swept in between.
SpanCap ==
    \A c \in Clients, t \in 0..clock :
        Cardinality(InSpan(SameKey(c), {"ok", "failed"}, t)) < 2 * MaxAttempts

\* Sweeping the map, and when it happens, can not be noticed: the limiter
\* implements one whose windows close by themselves.
Closed     == [count |-> 0, start |-> 0]
OpenWindow == [k \in Keys |-> IF Over(k) THEN Closed ELSE attempts[k]]

Limit == INSTANCE FixedWindow WITH window <- OpenWindow

ImplementsFixedWindow == Limit!Spec

=============================================================================
