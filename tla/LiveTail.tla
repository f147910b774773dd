------------------------------ MODULE LiveTail ------------------------------
(***************************************************************************)
(* Live tail, both ends of its WebSockets:                                 *)
(*                                                                         *)
(*   the page      frontend/src/pages/TopicMessagesPage.tsx, whose button  *)
(*                 says Live Tail or Stop according to the hook's state    *)
(*   the hook      frontend/src/hooks/useWebSocket.ts, which refers to one *)
(*                 socket and hears of every one it made                   *)
(*   the handler   internal/api/ws/livetail.go: a loop that polls, writes  *)
(*                 and pings, and a goroutine that reads                   *)
(*                                                                         *)
(* The browser calls the hook's event handlers one at a time; what happens *)
(* at the two ends, and when an end hears of the other, interleaves freely.*)
(* The topic has one partition; a record is its offset.                    *)
(***************************************************************************)
EXTENDS Naturals, Sequences, SequencesExt

CONSTANTS
    MaxSockets,  \* bound: sockets the hook makes
    MaxRecords,  \* bound: records produced
    Matching,    \* the records that pass the CEL filter
    Cap,         \* 1000 in the hook: messages it keeps
    Patient,     \* nobody presses Live Tail while a socket is still closing
    MayVanish,   \* may a connection die without a word?
    None         \* no socket, no position

Sockets == 1..MaxSockets
Offsets == 1..MaxRecords

ASSUME TailAssumption ==
    /\ MaxSockets \in Nat /\ MaxRecords \in Nat
    /\ Matching \subseteq Offsets
    /\ Cap \in Nat \ {0}
    /\ Patient \in BOOLEAN /\ MayVanish \in BOOLEAN
    /\ None \notin Nat

VARIABLES
    log,       \* how many records the topic has
    mounted,   \* is the page open?
    ref,       \* wsRef.current
    state,     \* the hook's state, which the page shows
    messages,  \* the hook's messages, newest first
    ws,        \* socket -> its state in the browser, "unused" before it exists
    wire,      \* socket -> records on their way to the browser
    gone,      \* sockets whose connection died without a word
    tail       \* socket -> the handler that serves it

page == <<mounted, ref, state, messages>>
vars == <<log, page, ws, wire, gone, tail>>

Message == [socket : Sockets, offset : Offsets]
TailState == [main : {"none", "refused", "setup", "loop", "done"}, reader : {"none", "reading", "done"},
         cancelled : BOOLEAN, pos : 0..MaxRecords \union {None}, batch : Seq(Offsets)]

TypeOK ==
    /\ log \in 0..MaxRecords
    /\ mounted \in BOOLEAN
    /\ ref \in Sockets \union {None}
    /\ state \in {"disconnected", "connecting", "connected"}
    /\ messages \in Seq(Message) /\ Len(messages) <= Cap
    /\ ws \in [Sockets -> {"unused", "connecting", "open", "closing", "closed"}]
    /\ wire \in [Sockets -> Seq(Offsets)]
    /\ gone \subseteq Sockets
    /\ tail \in [Sockets -> TailState]

NoTail == [main |-> "none", reader |-> "none", cancelled |-> FALSE,
           pos |-> None, batch |-> <<>>]

Init ==
    /\ log = 0
    /\ mounted = TRUE /\ ref = None /\ state = "disconnected" /\ messages = <<>>
    /\ ws = [s \in Sockets |-> "unused"]
    /\ wire = [s \in Sockets |-> <<>>]
    /\ gone = {}
    /\ tail = [s \in Sockets |-> NoTail]

-----------------------------------------------------------------------------
\* The page and the hook.

isLiveTail == state \in {"connecting", "connected"}
Unused     == {s \in Sockets : ws[s] = "unused"}

\* connect: nothing happens while the hook refers to a socket.
connect ==
    /\ mounted /\ ~isLiveTail /\ ref = None
    /\ Patient => \A s \in Sockets : ws[s] # "closing"
    /\ \E s \in Unused :
         /\ \A t \in Unused : s <= t
         /\ ws' = [ws EXCEPT ![s] = "connecting"]
         /\ ref' = s
    /\ state' = "connecting"
    /\ UNCHANGED <<log, mounted, messages, wire, gone, tail>>

\* WebSocket.close(): the close event comes later.
Close(s) == ws' = IF ws[s] \in {"connecting", "open"} THEN [ws EXCEPT ![s] = "closing"] ELSE ws

CloseNothing(s) == UNCHANGED ws           \* mutant: the socket is only forgotten

\* disconnect and the hook's cleanup: close the socket and forget it.
CloseRef(s) == Close(s)

disconnect ==
    /\ mounted /\ isLiveTail
    /\ IF ref = None THEN UNCHANGED ws ELSE CloseRef(ref)
    /\ ref' = None
    /\ state' = "disconnected"
    /\ UNCHANGED <<log, mounted, messages, wire, gone, tail>>

unmount ==
    /\ mounted
    /\ mounted' = FALSE
    /\ IF ref = None THEN UNCHANGED ws ELSE CloseRef(ref)
    /\ ref' = None
    /\ UNCHANGED <<log, state, messages, wire, gone, tail>>

clear ==
    /\ mounted /\ isLiveTail
    /\ messages' = <<>>
    /\ UNCHANGED <<log, mounted, ref, state, ws, wire, gone, tail>>

\* React drops updates of a page that is closed.
SetState(st) == state' = IF mounted THEN st ELSE state

\* The "start" message onopen sends is read and ignored by the handler.
onopen(s) ==
    /\ ws[s] = "connecting" /\ tail[s].main \notin {"none", "refused"} /\ s \notin gone
    /\ ws' = [ws EXCEPT ![s] = "open"]
    /\ SetState("connected")
    /\ UNCHANGED <<log, mounted, ref, messages, wire, gone, tail>>

PrependAll(m) == <<m>> \o messages                    \* mutant: no slice

Prepend(m) == SubSeq(<<m>> \o messages, 1, IF Len(messages) < Cap THEN Len(messages) + 1 ELSE Cap)

\* onmessage: a socket that is closing delivers no more.
onmessage(s) ==
    /\ wire[s] # <<>> /\ ws[s] \in {"open", "closing"} /\ s \notin gone
    /\ wire' = [wire EXCEPT ![s] = Tail(@)]
    /\ messages' = IF ws[s] = "open" /\ mounted
                   THEN Prepend([socket |-> s, offset |-> Head(wire[s])])
                   ELSE messages
    /\ UNCHANGED <<log, mounted, ref, state, ws, gone, tail>>

\* What makes a browser close a socket for good: the hook asked for it, the
\* handshake was refused, or the handler is gone and all it sent has arrived.
HasEnded(s) ==
    \/ ws[s] = "closing"
    \/ ws[s] = "connecting" /\ tail[s].main = "refused" /\ s \notin gone
    \/ ws[s] = "open" /\ tail[s].main = "done" /\ wire[s] = <<>> /\ s \notin gone

\* The reference is cleared whichever socket it is to.
ForgetSocket(s) == ref' = None

\* onerror and onclose; the hook's close() in onerror finds the socket closing.
onclose(s) ==
    /\ HasEnded(s) \/ (s \in gone /\ ws[s] \in {"connecting", "open"})
    /\ ws' = [ws EXCEPT ![s] = "closed"]
    /\ wire' = [wire EXCEPT ![s] = <<>>]
    /\ SetState("disconnected")
    /\ ForgetSocket(s)
    /\ UNCHANGED <<log, mounted, messages, gone, tail>>

-----------------------------------------------------------------------------
\* The handler.

Alive(s) == s \notin gone /\ ws[s] \in {"connecting", "open"}

\* Handle up to Upgrade: an unknown cluster, an ill-formed filter and a failed
\* handshake end it.  The request may come after the page lost interest.
Upgrade(s) ==
    /\ ws[s] # "unused" /\ tail[s].main = "none" /\ s \notin gone
    /\ \E m \in {"setup", "refused"} : tail' = [tail EXCEPT ![s].main = m]
    /\ UNCHANGED <<log, page, ws, wire, gone>>

\* The consumer is made and the reading goroutine started, or both are not.
StartTail(s) ==
    /\ tail[s].main = "setup"
    /\ \/ tail' = [tail EXCEPT ![s].main = "loop", ![s].reader = "reading"]
       \/ tail' = [tail EXCEPT ![s].main = "done"]
    /\ UNCHANGED <<log, page, ws, wire, gone>>

\* The first poll finds out where the topic ends; later ones return what came
\* since, or nothing after two seconds.
PollFetches(s) ==
    LET t == tail[s] IN
    /\ t.main = "loop" /\ t.batch = <<>> /\ ~t.cancelled
    /\ \/ t.pos = None /\ tail' = [tail EXCEPT ![s].pos = log]
       \/ /\ t.pos # None
          /\ \E n \in (t.pos + 1)..log :
               tail' = [tail EXCEPT ![s].pos = n, ![s].batch = [i \in 1..(n - t.pos) |-> t.pos + i]]
    /\ UNCHANGED <<log, page, ws, wire, gone>>

WriteHead(s) == tail' = [tail EXCEPT ![s].batch = Tail(@)]

\* WriteMessage on a connection that is closing or dead: the bytes go nowhere,
\* or the error cancels the context; the rest of the batch is tried all the same.
WriteFails(s) ==
    /\ ~Alive(s)
    /\ \/ WriteHead(s)
       \/ tail' = [tail EXCEPT ![s].batch = Tail(@), ![s].cancelled = TRUE]
    /\ UNCHANGED wire

WriteSkips(s) ==   \* mutant: a record is dropped and the loop goes on
    /\ Alive(s) /\ Head(tail[s].batch) \in Matching
    /\ wire' \in {wire, [wire EXCEPT ![s] = Append(@, Head(tail[s].batch))]}
    /\ WriteHead(s)

WriteMessage(s) ==
    /\ Alive(s) /\ Head(tail[s].batch) \in Matching
    /\ wire' = [wire EXCEPT ![s] = Append(@, Head(tail[s].batch))]
    /\ WriteHead(s)

EachRecord(s) ==
    /\ tail[s].batch # <<>>
    /\ \/ WriteMessage(s)
       \/ Head(tail[s].batch) \notin Matching /\ WriteHead(s) /\ UNCHANGED wire
       \/ Head(tail[s].batch) \in Matching /\ WriteFails(s)
    /\ UNCHANGED <<log, page, ws, gone>>

NoPing(s) == FALSE                         \* mutant: nobody pings

\* A ping that cannot be written ends the loop.
PingFails(s) == tail[s].batch = <<>> /\ ~Alive(s)

\* The loop ends, and with it the context, the consumer and the connection.
Return(s) ==
    /\ tail[s].main = "loop"
    /\ PingFails(s) \/ (tail[s].batch = <<>> /\ tail[s].cancelled)
    /\ tail' = [tail EXCEPT ![s].main = "done", ![s].cancelled = TRUE, ![s].pos = None]
    /\ UNCHANGED <<log, page, ws, wire, gone>>

\* ReadMessage fails, or returns "stop"; both follow from a close at one end.
ReaderEnds(s) ==
    /\ tail[s].reader = "reading"
    /\ \/ s \notin gone /\ ws[s] \in {"closing", "closed"}
       \/ tail[s].main = "done"
    /\ tail' = [tail EXCEPT ![s].reader = "done", ![s].cancelled = TRUE]
    /\ UNCHANGED <<log, page, ws, wire, gone>>

-----------------------------------------------------------------------------
\* The world.

Produce ==
    /\ log < MaxRecords
    /\ log' = log + 1
    /\ UNCHANGED <<page, ws, wire, gone, tail>>

Vanish(s) ==
    /\ MayVanish /\ ws[s] \in {"connecting", "open", "closing"} /\ s \notin gone
    /\ gone' = gone \union {s}
    /\ UNCHANGED <<log, page, ws, wire, tail>>

\* What a browser does with a socket as long as it runs.
Dispatch(s) == onopen(s) \/ onmessage(s) \/ (HasEnded(s) /\ onclose(s))

Handle(s)  == Upgrade(s) \/ StartTail(s) \/ PollFetches(s) \/ EachRecord(s) \/ Return(s)

Next ==
    \/ connect \/ disconnect \/ unmount \/ clear \/ Produce
    \/ \E s \in Sockets : onopen(s) \/ onmessage(s) \/ onclose(s) \/ Handle(s) \/ ReaderEnds(s) \/ Vanish(s)

Spec == Init /\ [][Next]_vars

\* Goroutines run, browsers dispatch their events and report a socket that has
\* ended.  Nobody has to press a button, to produce, or to notice a dead
\* connection, but a write on one fails in the end.
Fairness ==
    \A s \in Sockets : WF_vars(Handle(s)) /\ WF_vars(ReaderEnds(s)) /\ WF_vars(Dispatch(s))

FairSpec == Spec /\ Fairness

-----------------------------------------------------------------------------
\* The page never shows a record twice, and the newest first, though tails stop
\* and start again and batches are in flight: rowKey, TopicMessagesPage.tsx:141,
\* identifies a row by partition and offset.
NewestFirst ==
    \A i, j \in DOMAIN messages : i < j => messages[i].offset > messages[j].offset

\* A tail leaves nothing out: what came after a record on the page, up to the
\* tail's position, and matches the filter, is on the page too or on its way
\* (PollFetches, EachRecord, onmessage, slice).
OnItsWay(s) == ToSet(wire[s]) \union ToSet(tail[s].batch)
NothingLost ==
    \A s \in Sockets, m \in ToSet(messages) :
        (ws[s] = "open" /\ s \notin gone /\ m.socket = s /\ tail[s].main = "loop") =>
            \A o \in Matching \intersect (m.offset + 1)..tail[s].pos :
                o \in OnItsWay(s) \/ [socket |-> s, offset |-> o] \in ToSet(messages)

\* The table is the topic as the tail saw it: in order, once, without a gap
\* (onmessage's slice and prepend against the handler's batches).
TableIsTrue == NewestFirst /\ NothingLost

\* A page that says "disconnected", or is closed, has no stream: the socket that
\* is open is the one the Stop button will close ("Connection indicator",
\* TopicMessagesPage.tsx:298, "Live tail active").
IndicatorTrue ==
    \A s \in Sockets : ws[s] \in {"connecting", "open"} => mounted /\ ref = s /\ isLiveTail

\* The button never does nothing: connect returns at once if the hook still
\* refers to a socket, and it does not when the page offers Live Tail, whichever
\* end closed the socket and in whatever order the events come.
ButtonWorks == mounted /\ ~isLiveTail => ref = None

\* What the hook remembers of its socket is right both ways: nothing streams that
\* it has forgotten, and it holds on to none when the page offers to start.
HookKnowsSocket == IndicatorTrue /\ ButtonWorks

\* The server gets rid of a tail whose other end is closed or dead, also on a
\* topic where nothing happens: loop, goroutine, consumer and connection.
Abandoned(s) == ws[s] \in {"closing", "closed"} \/ s \in gone
TailEnds ==
    \A s \in Sockets :
        Abandoned(s) ~> (tail[s].main \notin {"setup", "loop"} /\ tail[s].reader # "reading")

=============================================================================
