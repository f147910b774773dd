---------------------------- MODULE LiveTailProofs ----------------------------
(***************************************************************************)
(* Theorems about LiveTail for any number of sockets and records: its      *)
(* types, and that a page whose user waits for the close event is never    *)
(* mistaken about what streams and shows what its tail read, in order and  *)
(* without a gap.                                                          *)
(***************************************************************************)
EXTENDS LiveTail, SequenceTheorems, TLAPS

Live    == {"connecting", "open"}
Ongoing == {"connecting", "open", "closing"}

\* While a socket connects or is open every other one is closed or unused: the
\* step that makes the next one waits for the close event of the last.
LiveAlone ==
    \A s, t \in Sockets : (ws[s] \in Live /\ ws[t] \in Ongoing) => s = t

-----------------------------------------------------------------------------
\* What prepending a message keeps: the type, and the cap.
LEMMA PrependTyped ==
    ASSUME TailAssumption, messages \in Seq(Message), Len(messages) <= Cap, NEW m \in Message
    PROVE  Prepend(m) \in Seq(Message) /\ Len(Prepend(m)) <= Cap
<1> DEFINE all == <<m>> \o messages
           n == IF Len(messages) < Cap THEN Len(messages) + 1 ELSE Cap
<1>1. Len(messages) \in Nat /\ Cap \in Nat \ {0} BY LenProperties DEF TailAssumption
<1>2. all \in Seq(Message) /\ Len(all) = 1 + Len(messages) BY ConcatProperties
<1>3. n \in Nat /\ 1 <= n /\ n <= Len(all) /\ n <= Cap BY <1>1, <1>2
<1> HIDE DEF all, n
<1>4. SubSeq(all, 1, n) \in Seq(Message) /\ Len(SubSeq(all, 1, n)) = n
  BY <1>2, <1>3, SubSeqProperties
<1>5. Prepend(m) = SubSeq(all, 1, n) BY DEF Prepend, all, n
<1>6. QED BY <1>3, <1>4, <1>5

\* The types hold at first ...
LEMMA TypeInit == ASSUME TailAssumption, Init PROVE TypeOK
<1>1. <<>> \in Seq(Message) /\ <<>> \in Seq(Offsets) /\ Len(<<>>) = 0 BY EmptySeq
<1>2. NoTail \in TailState BY <1>1 DEF NoTail, TailState
<1>3. QED BY <1>1, <1>2 DEF Init, TypeOK, TailAssumption, Sockets

\* A function on 1..n is a sequence.
LEMMA FunctionSeq ==
    ASSUME NEW S, NEW n \in Nat, NEW f \in [1..n -> S] PROVE f \in Seq(S)
BY SeqDef

\* Most steps of the handler change its own state alone.
LEMMA OnlyTail ==
    ASSUME TypeOK, tail' \in [Sockets -> TailState], UNCHANGED <<log, page, ws, wire, gone>>
    PROVE  TypeOK'
BY DEF TypeOK, page

\* ... and after every step.
LEMMA TypeStep == ASSUME TailAssumption, TypeOK, [Next]_vars PROVE TypeOK'
<1> USE DEF TypeOK
<1>1. CASE connect BY <1>1 DEF connect, Unused
<1>2. CASE disconnect
  BY <1>2 DEF disconnect, CloseRef, Close
<1>3. CASE unmount
  BY <1>3 DEF unmount, CloseRef, Close
<1>4. CASE clear
  <2>1. <<>> \in Seq(Message) /\ Len(<<>>) = 0 BY EmptySeq
  <2>2. Cap \in Nat BY DEF TailAssumption
  <2>3. QED BY <1>4, <2>1, <2>2 DEF clear
<1>5. CASE Produce BY <1>5 DEF Produce, page, TailAssumption
<1>6. ASSUME NEW s \in Sockets, onopen(s) PROVE TypeOK'
  BY <1>6 DEF onopen, SetState
<1>7. ASSUME NEW s \in Sockets, onmessage(s) PROVE TypeOK'
  <2>1. wire[s] \in Seq(Offsets) /\ wire[s] # <<>> BY <1>7 DEF onmessage
  <2>2. Head(wire[s]) \in Offsets /\ Tail(wire[s]) \in Seq(Offsets) BY <2>1, HeadTailProperties
  <2> DEFINE m == [socket |-> s, offset |-> Head(wire[s])]
  <2>3. m \in Message BY <2>2 DEF Message
  <2> HIDE DEF m
  <2>4. Prepend(m) \in Seq(Message) /\ Len(Prepend(m)) <= Cap BY <2>3, PrependTyped
  <2>5. messages' \in Seq(Message) /\ Len(messages') <= Cap
    BY <1>7, <2>4 DEF onmessage, m
  <2>6. wire' \in [Sockets -> Seq(Offsets)] BY <1>7, <2>2 DEF onmessage
  <2>7. QED BY <1>7, <2>5, <2>6 DEF onmessage
<1>8. ASSUME NEW s \in Sockets, onclose(s) PROVE TypeOK'
  <2>1. <<>> \in Seq(Offsets) BY EmptySeq
  <2>2. QED BY <1>8, <2>1 DEF onclose, SetState, ForgetSocket
<1>9. ASSUME NEW s \in Sockets, Upgrade(s) PROVE TypeOK'
  <2>1. tail[s] \in TailState OBVIOUS
  <2>2. PICK m \in {"setup", "refused"} : tail' = [tail EXCEPT ![s].main = m]
    BY <1>9 DEF Upgrade
  <2>3. tail' \in [Sockets -> TailState] BY <2>1, <2>2 DEF TailState
  <2>4. QED BY <1>9, <2>3, OnlyTail DEF Upgrade
<1>10. ASSUME NEW s \in Sockets, StartTail(s) PROVE TypeOK'
  <2>1. tail[s] \in TailState OBVIOUS
  <2>2. CASE tail' = [tail EXCEPT ![s].main = "loop", ![s].reader = "reading"]
    BY <2>1, <2>2, <1>10, OnlyTail DEF StartTail, TailState
  <2>3. CASE tail' = [tail EXCEPT ![s].main = "done"]
    BY <2>1, <2>3, <1>10, OnlyTail DEF StartTail, TailState
  <2>4. QED BY <1>10, <2>2, <2>3 DEF StartTail
<1>11. ASSUME NEW s \in Sockets, PollFetches(s) PROVE TypeOK'
  <2>1. tail[s] \in TailState OBVIOUS
  <2>2. CASE tail' = [tail EXCEPT ![s].pos = log]
    BY <1>11, <2>1, <2>2 DEF PollFetches, TailState, page
  <2>3. CASE tail[s].pos # None /\ \E n \in (tail[s].pos + 1)..log :
               tail' = [tail EXCEPT ![s].pos = n,
                                    ![s].batch = [i \in 1..(n - tail[s].pos) |-> tail[s].pos + i]]
    <3>1. tail[s].pos \in 0..MaxRecords BY <2>1, <2>3 DEF TailState
    <3>2. PICK n \in (tail[s].pos + 1)..log :
               tail' = [tail EXCEPT ![s].pos = n,
                                    ![s].batch = [i \in 1..(n - tail[s].pos) |-> tail[s].pos + i]]
      BY <2>3
    <3> DEFINE b == [i \in 1..(n - tail[s].pos) |-> tail[s].pos + i]
    <3>3. MaxRecords \in Nat /\ log \in 0..MaxRecords BY DEF TailAssumption
    <3>4. n - tail[s].pos \in Nat /\ n \in 0..MaxRecords BY <3>1, <3>3
    <3>5. \A i \in 1..(n - tail[s].pos) : tail[s].pos + i \in Offsets
      <4> DEFINE q == tail[s].pos
      <4>1. q \in Nat /\ n \in Nat /\ MaxRecords \in Nat /\ n <= MaxRecords
        BY <3>1, <3>3, <3>4
      <4> HIDE DEF q
      <4>2. \A i \in 1..(n - q) : q + i \in 1..MaxRecords BY <4>1
      <4> QED BY <4>2 DEF Offsets, q
    <3>6. b \in [1..(n - tail[s].pos) -> Offsets] BY <3>5
    <3>7. b \in Seq(Offsets)
      <4> HIDE DEF b
      <4> QED BY <3>4, <3>6, FunctionSeq
    <3> HIDE DEF b
    <3>8. tail' = [tail EXCEPT ![s].pos = n, ![s].batch = b] BY <3>2 DEF b
    <3>9. tail' \in [Sockets -> TailState] BY <2>1, <3>4, <3>7, <3>8 DEF TailState
    <3>10. QED BY <1>11, <3>9 DEF PollFetches, page
  <2>4. QED BY <1>11, <2>2, <2>3 DEF PollFetches
<1>12. ASSUME NEW s \in Sockets, EachRecord(s) PROVE TypeOK'
  <2>1. tail[s] \in TailState /\ tail[s].batch \in Seq(Offsets) /\ tail[s].batch # <<>>
    BY <1>12 DEF EachRecord, TailState
  <2>2. Head(tail[s].batch) \in Offsets /\ Tail(tail[s].batch) \in Seq(Offsets)
    BY <2>1, HeadTailProperties
  <2>3. Append(wire[s], Head(tail[s].batch)) \in Seq(Offsets) BY <2>2, AppendProperties
  <2>4. wire' \in [Sockets -> Seq(Offsets)]
    BY <1>12, <2>3 DEF EachRecord, WriteMessage, WriteFails
  <2>5. \/ tail' = [tail EXCEPT ![s].batch = Tail(@)]
        \/ tail' = [tail EXCEPT ![s].batch = Tail(@), ![s].cancelled = TRUE]
    BY <1>12 DEF EachRecord, WriteMessage, WriteFails, WriteHead
  <2>6. tail' \in [Sockets -> TailState]
    <3> DEFINE rest == Tail(tail[s].batch)
    <3>1. rest \in Seq(Offsets) BY <2>2
    <3>2. \/ tail' = [tail EXCEPT ![s].batch = rest]
          \/ tail' = [tail EXCEPT ![s].batch = rest, ![s].cancelled = TRUE]
      BY <2>5
    <3> HIDE DEF rest
    <3>3. [tail[s] EXCEPT !.batch = rest] \in TailState BY <2>1, <3>1 DEF TailState
    <3>4. [tail[s] EXCEPT !.batch = rest, !.cancelled = TRUE] \in TailState
      BY <2>1, <3>1 DEF TailState
    <3>5. CASE tail' = [tail EXCEPT ![s].batch = rest] BY <3>3, <3>5
    <3>6. CASE tail' = [tail EXCEPT ![s].batch = rest, ![s].cancelled = TRUE]
      BY <3>4, <3>6
    <3>7. QED BY <3>2, <3>5, <3>6
  <2>7. QED BY <1>12, <2>4, <2>6 DEF EachRecord, page
<1>13. ASSUME NEW s \in Sockets, Return(s) PROVE TypeOK'
  <2>1. tail[s] \in TailState OBVIOUS
  <2>2. tail' \in [Sockets -> TailState] BY <1>13, <2>1 DEF Return, TailState
  <2>3. QED BY <1>13, <2>2, OnlyTail DEF Return
<1>14. ASSUME NEW s \in Sockets, ReaderEnds(s) PROVE TypeOK'
  <2>1. tail[s] \in TailState OBVIOUS
  <2>2. tail' \in [Sockets -> TailState] BY <1>14, <2>1 DEF ReaderEnds, TailState
  <2>3. QED BY <1>14, <2>2, OnlyTail DEF ReaderEnds
<1>15. ASSUME NEW s \in Sockets, Vanish(s) PROVE TypeOK'
  BY <1>15 DEF Vanish, page
<1>16. CASE UNCHANGED vars BY <1>16 DEF vars, page
<1>17. QED
  BY <1>1, <1>2, <1>3, <1>4, <1>5, <1>6, <1>7, <1>8, <1>9, <1>10, <1>11, <1>12, <1>13,
     <1>14, <1>15, <1>16 DEF Next, Handle

-----------------------------------------------------------------------------
\* The button does something: every step that makes the page offer Live Tail
\* also clears the reference.
LEMMA ButtonStep == ASSUME TypeOK, ButtonWorks, [Next]_vars PROVE ButtonWorks'
<1> USE DEF ButtonWorks, isLiveTail
<1>1. CASE connect BY <1>1 DEF connect
<1>2. CASE disconnect BY <1>2 DEF disconnect
<1>3. CASE unmount BY <1>3 DEF unmount
<1>4. CASE clear BY <1>4 DEF clear
<1>5. ASSUME NEW s \in Sockets, onopen(s) PROVE ButtonWorks'
  BY <1>5 DEF onopen, SetState
<1>6. ASSUME NEW s \in Sockets, onmessage(s) PROVE ButtonWorks'
  BY <1>6 DEF onmessage
<1>7. ASSUME NEW s \in Sockets, onclose(s) PROVE ButtonWorks'
  BY <1>7 DEF onclose, SetState, ForgetSocket
<1>8. CASE UNCHANGED page BY <1>8 DEF page
<1>9. ASSUME NEW s \in Sockets, Handle(s) \/ ReaderEnds(s) \/ Vanish(s) PROVE UNCHANGED page
  BY <1>9 DEF Handle, Upgrade, StartTail, PollFetches, EachRecord, Return, ReaderEnds, Vanish
<1>10. ASSUME Produce PROVE UNCHANGED page BY <1>10 DEF Produce
<1>11. ASSUME UNCHANGED vars PROVE UNCHANGED page BY <1>11 DEF vars
<1>12. QED
  BY <1>1, <1>2, <1>3, <1>4, <1>5, <1>6, <1>7, <1>8, <1>9, <1>10, <1>11 DEF Next

Seen == IndicatorTrue /\ LiveAlone

\* With a patient user the stream the page shows is the only one.
LEMMA SeenStep ==
    ASSUME TailAssumption, Patient, TypeOK, Seen, [Next]_vars
    PROVE  Seen'
<1> USE DEF Seen, IndicatorTrue, LiveAlone, isLiveTail, Live, Ongoing, TypeOK
<1>1. CASE connect
  <2>1. PICK s \in Unused : ws' = [ws EXCEPT ![s] = "connecting"] /\ ref' = s
    BY <1>1 DEF connect
  <2>2. \A t \in Sockets : ws[t] \notin Ongoing BY <1>1 DEF connect
  <2>3. \A t \in Sockets : t # s => ws'[t] \notin Ongoing BY <2>1, <2>2
  <2>4. mounted' /\ state' = "connecting" BY <1>1 DEF connect
  <2>5. QED BY <2>1, <2>3, <2>4 DEF Unused
<1>2. CASE disconnect \/ unmount
  <2>1. ref' = None /\ None \notin Sockets BY <1>2 DEF disconnect, unmount, TailAssumption, Sockets
  <2>2. \A s \in Sockets : ws'[s] \notin Live
    <3>1. \A s \in Sockets : ws[s] \in Live => s = ref BY DEF Seen
    <3>2. CASE ref = None BY <1>2, <2>1, <3>1, <3>2 DEF disconnect, unmount
    <3>3. CASE ref # None
      <4>1. ref \in Sockets /\ ws' = IF ws[ref] \in Live THEN [ws EXCEPT ![ref] = "closing"] ELSE ws
        BY <1>2, <3>3 DEF disconnect, unmount, CloseRef, Close
      <4>2. QED BY <3>1, <4>1
    <3>4. QED BY <3>2, <3>3
  <2>3. QED BY <2>2
<1>3. ASSUME NEW s \in Sockets, onopen(s) PROVE Seen'
  <2>1. ws[s] = "connecting" /\ ws' = [ws EXCEPT ![s] = "open"] /\ ref' = ref /\ mounted' = mounted
    BY <1>3 DEF onopen
  <2>2. mounted /\ ref = s BY <2>1
  <2>3. state' = "connected" BY <1>3, <2>2 DEF onopen, SetState
  <2>4. QED BY <2>1, <2>2, <2>3
<1>4. ASSUME NEW s \in Sockets, onclose(s) PROVE Seen'
  <2>1. ws[s] \in Ongoing /\ ws' = [ws EXCEPT ![s] = "closed"]
    BY <1>4 DEF onclose, HasEnded
  <2>2. \A t \in Sockets : ws'[t] \notin Live BY <2>1
  <2>3. QED BY <2>2
<1>5. CASE UNCHANGED <<mounted, ref, state, ws>> BY <1>5
<1>6. ASSUME NEW s \in Sockets, onmessage(s) \/ Handle(s) \/ ReaderEnds(s) \/ Vanish(s)
      PROVE  UNCHANGED <<mounted, ref, state, ws>>
  BY <1>6 DEF onmessage, Handle, Upgrade, StartTail, PollFetches, EachRecord, Return,
              ReaderEnds, Vanish, page
<1>7. ASSUME Produce \/ clear PROVE UNCHANGED <<mounted, ref, state, ws>>
  BY <1>7 DEF Produce, clear, page
<1>8. ASSUME UNCHANGED vars PROVE UNCHANGED <<mounted, ref, state, ws>> BY <1>8 DEF vars, page
<1>9. QED BY <1>1, <1>2, <1>3, <1>4, <1>5, <1>6, <1>7, <1>8 DEF Next

-----------------------------------------------------------------------------
\* The page, the sockets and the handlers stay well-formed, and the page never
\* holds more messages than its cap (useWebSocket.ts, livetail.go).
THEOREM TailTypeCorrect == Spec => []TypeOK
<1>1. Init => TypeOK BY TypeInit, TailAssumption
<1>2. TypeOK /\ [Next]_vars => TypeOK' BY TypeStep, TailAssumption
<1>3. QED BY <1>1, <1>2, PTL DEF Spec

\* Whatever closes a socket and however often the user presses the buttons,
\* Live Tail is offered only when pressing it starts one (useWebSocket.ts:12).
THEOREM ButtonAlwaysWorks == Spec => []ButtonWorks
<1>1. Init => ButtonWorks BY DEF Init, ButtonWorks
<1>2. TypeOK /\ ButtonWorks /\ [Next]_vars => ButtonWorks' BY ButtonStep
<1>3. QED BY <1>1, <1>2, TailTypeCorrect, PTL DEF Spec

\* If nobody presses Live Tail while a socket is closing, what streams is what
\* the page says (useWebSocket.ts:35-38 against :47-56).
THEOREM PatientPageKnows == Patient => (Spec => []IndicatorTrue)
<1> SUFFICES ASSUME Patient PROVE Spec => []IndicatorTrue OBVIOUS
<1>1. Init => Seen BY DEF Init, Seen, IndicatorTrue, LiveAlone, Live
<1>2. TypeOK /\ Seen /\ [Next]_vars => Seen' BY SeenStep, TailAssumption
<1>3. Seen => IndicatorTrue BY DEF Seen
<1>4. QED BY <1>1, <1>2, <1>3, TailTypeCorrect, PTL DEF Spec

\* A patient user's page and hook know their socket: nothing streams unseen, and
\* the button works.
THEOREM HookAlwaysKnows == Patient => (Spec => []HookKnowsSocket)
<1> SUFFICES ASSUME Patient PROVE Spec => []HookKnowsSocket OBVIOUS
<1>1. IndicatorTrue /\ ButtonWorks => HookKnowsSocket
    BY DEF HookKnowsSocket
<1> QED BY <1>1, PatientPageKnows, ButtonAlwaysWorks, PTL
-----------------------------------------------------------------------------
(* The table: what the page shows of the topic.                            *)

\* A socket that may still bring messages, now or once the hook connects it.
Current(s) == ws[s] \in {"unused", "connecting", "open"} /\ s \notin gone

\* The last record the handler is done with: sent, or found not to match.
Handed(s) == tail[s].pos - Len(tail[s].batch)

Shown(s, o) == \E k \in DOMAIN messages : messages[k].socket = s /\ messages[k].offset = o

\* Nothing of the topic has come through the socket yet.
Unheard(s) ==
    /\ wire[s] = <<>> /\ tail[s].batch = <<>>
    /\ \A k \in DOMAIN messages : messages[k].socket # s

\* What is on its way follows what is on the page, in order: first the wire, then
\* the batch, which has everything from there to the tail's position.
InOrder(s) ==
    /\ Len(tail[s].batch) <= tail[s].pos /\ tail[s].pos <= log
    /\ \A i \in DOMAIN tail[s].batch : tail[s].batch[i] = Handed(s) + i
    /\ \A i, j \in DOMAIN wire[s] : i < j => wire[s][i] < wire[s][j]
    /\ \A i \in DOMAIN wire[s] : wire[s][i] <= Handed(s)
    /\ \A k \in DOMAIN messages : messages[k].offset <= Handed(s)
    /\ \A k \in DOMAIN messages, i \in DOMAIN wire[s] : messages[k].offset < wire[s][i]

\* And nothing that matches is missing, on the wire or between it and the page.
Gapless(s) ==
    \A o \in Matching : o <= Handed(s) =>
        /\ \A i \in DOMAIN wire[s] : wire[s][i] < o => \E j \in DOMAIN wire[s] : wire[s][j] = o
        /\ \A k \in DOMAIN messages :
             messages[k].socket = s /\ messages[k].offset < o =>
                 Shown(s, o) \/ \E j \in DOMAIN wire[s] : wire[s][j] = o

Faithful(s) ==
    Current(s) =>
        /\ ws[s] = "unused" => tail[s].main = "none"
        /\ ~tail[s].cancelled /\ (tail[s].main = "loop" \/ tail[s].reader = "none")
        /\ tail[s].main = "loop" \/ tail[s].pos = None
        /\ IF tail[s].main = "loop" /\ tail[s].pos # None
           THEN InOrder(s) /\ Gapless(s)
           ELSE Unheard(s)

\* The page shows records of the topic.
OfTheLog == \A k \in DOMAIN messages : messages[k].offset <= log

TableInv == NewestFirst /\ OfTheLog /\ \A s \in Sockets : Faithful(s)

\* Lists without their head, and with one more element at the end.
LEMMA TailList ==
    ASSUME NEW S, NEW q \in Seq(S), q # <<>>
    PROVE  /\ Len(q) \in Nat \ {0} /\ DOMAIN q = 1..Len(q) /\ Head(q) = q[1]
           /\ Tail(q) \in Seq(S) /\ Len(Tail(q)) = Len(q) - 1
           /\ DOMAIN Tail(q) = 1..(Len(q) - 1)
           /\ \A i \in 1..(Len(q) - 1) : Tail(q)[i] = q[i + 1]
<1>1. Len(q) \in Nat /\ DOMAIN q = 1..Len(q) /\ Len(q) # 0
    BY LenProperties, EmptySeq
<1>2. Head(q) = q[1] /\ Tail(q) \in Seq(S) /\ Len(Tail(q)) = Len(q) - 1
    BY HeadTailProperties
<1>3. \A i \in 1..Len(Tail(q)) : Tail(q)[i] = q[i + 1]
    BY HeadTailProperties
<1>4. DOMAIN Tail(q) = 1..Len(Tail(q)) BY <1>2, LenProperties
<1> QED BY <1>1, <1>2, <1>3, <1>4

LEMMA AppendList ==
    ASSUME NEW S, NEW q \in Seq(S), NEW e \in S
    PROVE  /\ Len(q) \in Nat /\ DOMAIN q = 1..Len(q)
           /\ DOMAIN Append(q, e) = 1..(Len(q) + 1)
           /\ Append(q, e)[Len(q) + 1] = e
           /\ \A i \in 1..Len(q) : Append(q, e)[i] = q[i]
<1>1. Len(q) \in Nat /\ DOMAIN q = 1..Len(q) BY LenProperties
<1>2. Append(q, e) \in Seq(S) /\ Len(Append(q, e)) = Len(q) + 1
      /\ Append(q, e)[Len(q) + 1] = e /\ \A i \in 1..Len(q) : Append(q, e)[i] = q[i]
    BY AppendProperties
<1>3. DOMAIN Append(q, e) = 1..Len(Append(q, e)) BY <1>2, LenProperties
<1> QED BY <1>1, <1>2, <1>3

\* A new message comes first, and the others move down by one, the last perhaps
\* off the page.
LEMMA PrependList ==
    ASSUME messages \in Seq(Message), Len(messages) <= Cap, NEW m \in Message
    PROVE  \E n \in 1..(Len(messages) + 1) :
             /\ DOMAIN Prepend(m) = 1..n
             /\ Prepend(m)[1] = m
             /\ \A k \in 2..n : k - 1 \in DOMAIN messages /\ Prepend(m)[k] = messages[k - 1]
<1> DEFINE all == <<m>> \o messages
           n == IF Len(messages) < Cap THEN Len(messages) + 1 ELSE Cap
<1>1. Len(messages) \in Nat /\ DOMAIN messages = 1..Len(messages) /\ Cap \in Nat \ {0}
    BY LenProperties, TailAssumption DEF TailAssumption
<1>2. <<m>> \in Seq(Message) /\ Len(<<m>>) = 1 /\ <<m>>[1] = m
    OBVIOUS
<1>3. /\ all \in Seq(Message) /\ Len(all) = 1 + Len(messages)
      /\ \A k \in 1..(1 + Len(messages)) : all[k] = IF k <= 1 THEN <<m>>[k] ELSE messages[k - 1]
    BY <1>2, ConcatProperties
<1>4. n \in 1..(Len(messages) + 1) BY <1>1
<1> HIDE DEF all, n
<1>5. /\ SubSeq(all, 1, n) \in Seq(Message) /\ Len(SubSeq(all, 1, n)) = n
      /\ \A k \in 1..n : SubSeq(all, 1, n)[k] = all[k]
    <2>1. 1 \in 1..(Len(all) + 1) /\ n \in 0..Len(all) /\ n \in Nat BY <1>1, <1>3, <1>4
    <2>2. SubSeq(all, 1, n) \in Seq(Message)
          /\ Len(SubSeq(all, 1, n)) = (IF 1 <= n THEN n - 1 + 1 ELSE 0)
          /\ \A k \in 1..(n - 1 + 1) : SubSeq(all, 1, n)[k] = all[1 + k - 1]
        BY <1>3, <2>1, SubSeqProperties
    <2> QED BY <1>1, <1>4, <2>1, <2>2
<1>6. DOMAIN SubSeq(all, 1, n) = 1..n BY <1>5, LenProperties
<1>7. Prepend(m) = SubSeq(all, 1, n) BY DEF Prepend, all, n
<1>8. \A k \in 2..n : k - 1 \in DOMAIN messages /\ Prepend(m)[k] = messages[k - 1]
    BY <1>1, <1>3, <1>4, <1>5, <1>7
<1>9. Prepend(m)[1] = m BY <1>1, <1>2, <1>3, <1>4, <1>5, <1>7
<1> QED BY <1>4, <1>6, <1>7, <1>8, <1>9

\* The numbers the types say are numbers.
LEMMA Numbers ==
    ASSUME TypeOK
    PROVE  /\ log \in Nat
           /\ \A k \in DOMAIN messages : messages[k] \in Message /\ messages[k].offset \in Nat
           /\ \A s \in Sockets :
                /\ tail[s] \in TailState /\ wire[s] \in Seq(Offsets) /\ tail[s].batch \in Seq(Offsets)
                /\ Len(tail[s].batch) \in Nat
                /\ tail[s].pos # None => tail[s].pos \in Nat
                /\ \A i \in DOMAIN wire[s] : wire[s][i] \in Nat
<1>1. log \in Nat BY TailAssumption DEF TypeOK, TailAssumption
<1>0. Offsets \subseteq Nat BY TailAssumption DEF TailAssumption, Offsets
<1>2. \A k \in DOMAIN messages : messages[k] \in Message /\ messages[k].offset \in Nat
    <2>1. messages \in Seq(Message) BY DEF TypeOK
    <2>2. \A k \in DOMAIN messages : messages[k] \in Message
        BY <2>1, ElementOfSeq, LenProperties
    <2> QED BY <1>0, <2>2 DEF Message
<1> SUFFICES ASSUME NEW s \in Sockets
             PROVE  /\ tail[s] \in TailState /\ wire[s] \in Seq(Offsets) /\ tail[s].batch \in Seq(Offsets)
                    /\ Len(tail[s].batch) \in Nat
                    /\ tail[s].pos # None => tail[s].pos \in Nat
                    /\ \A i \in DOMAIN wire[s] : wire[s][i] \in Nat
    BY <1>1, <1>2
<1>3. tail[s] \in TailState /\ wire[s] \in Seq(Offsets) BY DEF TypeOK
<1>4. tail[s].batch \in Seq(Offsets) /\ (tail[s].pos # None => tail[s].pos \in Nat)
    BY <1>3, TailAssumption DEF TailState, TailAssumption
<1>5. \A i \in DOMAIN wire[s] : wire[s][i] \in Nat
    <2>1. \A i \in DOMAIN wire[s] : wire[s][i] \in Offsets
        BY <1>3, ElementOfSeq, LenProperties
    <2> QED BY <1>0, <2>1
<1> QED BY <1>3, <1>4, <1>5, LenProperties

\* Nothing changes for a socket when neither it, its tail nor the page does.
LEMMA FaithfulSame ==
    ASSUME NEW s \in Sockets, TypeOK, Faithful(s), log' \in Nat, log <= log',
           wire'[s] = wire[s], tail'[s] = tail[s], UNCHANGED messages,
           Current(s)' => Current(s), ws'[s] = "unused" => ws[s] = "unused"
    PROVE  Faithful(s)'
<1> SUFFICES ASSUME Current(s)' PROVE Faithful(s)'
    BY DEF Faithful
<1>1. log \in Nat /\ (tail[s].pos # None => tail[s].pos \in Nat) BY Numbers
<1>2. Handed(s)' = Handed(s) BY DEF Handed
<1>3. (\A o : Shown(s, o)' <=> Shown(s, o)) BY DEF Shown
<1>4. Unheard(s) => Unheard(s)' BY DEF Unheard
<1>5. tail[s].pos # None /\ InOrder(s) => InOrder(s)' BY <1>1, <1>2 DEF InOrder
<1>6. Gapless(s) => Gapless(s)' BY <1>2, <1>3 DEF Gapless
<1> QED BY <1>4, <1>5, <1>6 DEF Faithful

\* Nor when the page is emptied.
LEMMA FaithfulCleared ==
    ASSUME NEW s \in Sockets, Faithful(s), messages' = <<>>, UNCHANGED <<log, ws, gone, wire, tail>>
    PROVE  Faithful(s)'
<1>1. DOMAIN messages' = {} OBVIOUS
<1>2. Current(s)' = Current(s) /\ Handed(s)' = Handed(s) BY DEF Current, Handed
<1>3. Unheard(s) => Unheard(s)' BY <1>1 DEF Unheard
<1>4. InOrder(s) => InOrder(s)' BY <1>1, <1>2 DEF InOrder
<1>5. Gapless(s) => Gapless(s)' BY <1>1, <1>2 DEF Gapless
<1> QED BY <1>2, <1>3, <1>4, <1>5 DEF Faithful

\* A poll takes the records from the tail's position on, none left out.
LEMMA FaithfulPoll ==
    ASSUME NEW s \in Sockets, TypeOK, OfTheLog, Faithful(s), PollFetches(s)
    PROVE  Faithful(s)'
<1> SUFFICES ASSUME Current(s) PROVE Faithful(s)'
    BY DEF Faithful, Current, PollFetches
<1> DEFINE t == tail[s]
<1>1. /\ t \in TailState /\ t.main = "loop" /\ t.batch = <<>> /\ ~t.cancelled /\ log \in Nat
      /\ ws[s] # "unused" /\ (t.pos # None => t.pos \in Nat)
    BY Numbers DEF PollFetches, Faithful
<1>2. UNCHANGED <<log, messages, ws, wire, gone>> BY DEF PollFetches, page
<1>3. \A k \in DOMAIN messages : messages[k].offset \in Nat /\ messages[k].offset <= log
    BY Numbers DEF OfTheLog
<1>4. CASE t.pos = None /\ tail' = [tail EXCEPT ![s].pos = log]
    <2>1. tail'[s] = [t EXCEPT !.pos = log] BY <1>4 DEF TypeOK
    <2>2. /\ tail'[s].pos = log /\ tail'[s].batch = <<>> /\ tail'[s].main = "loop"
          /\ ~tail'[s].cancelled /\ log # None
        BY <1>1, <2>1, TailAssumption DEF TailState, TailAssumption
    <2>3. Unheard(s) BY <1>4 DEF Faithful
    <2>4. Handed(s)' = log BY <1>1, <2>2 DEF Handed
    <2>5. InOrder(s)' BY <1>1, <1>2, <1>3, <2>2, <2>3, <2>4 DEF InOrder, Unheard
    <2>6. Gapless(s)' BY <1>2, <2>3 DEF Gapless, Unheard
    <2> QED BY <1>1, <1>2, <2>2, <2>5, <2>6 DEF Faithful
<1>5. ASSUME t.pos # None, NEW n \in (t.pos + 1)..log,
             tail' = [tail EXCEPT ![s].pos = n, ![s].batch = [i \in 1..(n - t.pos) |-> t.pos + i]]
      PROVE  Faithful(s)'
    <2> DEFINE b == [i \in 1..(n - t.pos) |-> t.pos + i]
    <2>1. t.pos \in Nat /\ n \in Nat /\ t.pos < n /\ n <= log BY <1>1, <1>5
    <2>2. DOMAIN b = 1..(n - t.pos) /\ \A i \in DOMAIN b : b[i] = t.pos + i
        OBVIOUS
    <2>3. Len(b) = n - t.pos
        <3>1. n - t.pos \in Nat BY <2>1
        <3>2. b \in Seq(Nat) BY <2>1, <3>1, FunctionSeq
        <3> HIDE DEF b
        <3> QED BY <2>2, <3>1, <3>2, LenProperties
    <2> HIDE DEF b
    <2>4. tail'[s] = [t EXCEPT !.pos = n, !.batch = b] BY <1>5 DEF TypeOK, b
    <2>5. /\ tail'[s].pos = n /\ tail'[s].batch = b /\ tail'[s].main = "loop"
          /\ ~tail'[s].cancelled /\ n # None
        BY <1>1, <2>1, <2>4, TailAssumption DEF TailState, TailAssumption
    <2>6. Handed(s) = t.pos /\ Handed(s)' = t.pos BY <1>1, <2>1, <2>3, <2>5 DEF Handed
    <2>7. InOrder(s) /\ Gapless(s) BY <1>1, <1>5 DEF Faithful
    <2>8. InOrder(s)' BY <1>2, <2>1, <2>2, <2>3, <2>5, <2>6, <2>7 DEF InOrder
    <2>9. Gapless(s)' BY <1>2, <2>6, <2>7 DEF Gapless, Shown
    <2> QED BY <1>1, <1>2, <2>5, <2>8, <2>9 DEF Faithful
<1> QED BY <1>4, <1>5 DEF PollFetches

\* The handler sends the head of its batch if it matches: what is skipped does not
\* match, and what is sent follows what was.
LEMMA FaithfulRecord ==
    ASSUME NEW s \in Sockets, TypeOK, Faithful(s), EachRecord(s)
    PROVE  Faithful(s)'
<1> SUFFICES ASSUME Current(s) PROVE Faithful(s)'
    BY DEF Faithful, Current, EachRecord
<1> DEFINE t == tail[s]
           b == tail[s].batch
           w == wire[s]
<1>1. /\ t \in TailState /\ b \in Seq(Offsets) /\ b # <<>> /\ w \in Seq(Offsets)
      /\ UNCHANGED <<log, messages, ws, gone>>
    BY Numbers DEF EachRecord, page
<1>2. /\ t.main = "loop" /\ t.pos \in Nat /\ t.pos # None /\ ~t.cancelled
      /\ InOrder(s) /\ Gapless(s) /\ ws[s] # "unused"
    BY <1>1, Numbers DEF Faithful, Unheard
<1>3. Alive(s) BY <1>2 DEF Current, Alive
<1>4. \/ Head(b) \in Matching /\ wire' = [wire EXCEPT ![s] = Append(w, Head(b))]
      \/ Head(b) \notin Matching /\ UNCHANGED wire
    BY <1>3 DEF EachRecord, WriteMessage, WriteFails
<1>5. tail' = [tail EXCEPT ![s].batch = Tail(b)]
    BY <1>3 DEF EachRecord, WriteMessage, WriteFails, WriteHead
<1>6. tail'[s] = [t EXCEPT !.batch = Tail(b)] BY <1>5 DEF TypeOK
<1>7. /\ tail'[s].batch = Tail(b) /\ tail'[s].pos = t.pos /\ tail'[s].main = "loop"
      /\ ~tail'[s].cancelled
    BY <1>1, <1>2, <1>6 DEF TailState
<1>8. /\ Len(b) \in Nat \ {0} /\ DOMAIN b = 1..Len(b) /\ Head(b) = b[1]
      /\ Len(Tail(b)) = Len(b) - 1 /\ DOMAIN Tail(b) = 1..(Len(b) - 1)
      /\ \A i \in 1..(Len(b) - 1) : Tail(b)[i] = b[i + 1]
    BY <1>1, TailList
<1>9. Head(b) \in Offsets BY <1>1, HeadTailProperties
<1> DEFINE h == Handed(s)
<1>10. h \in Nat /\ Handed(s)' = h + 1 /\ Head(b) = h + 1
    <2>1. Len(b) <= t.pos BY <1>2 DEF InOrder
    <2>2. h = t.pos - Len(b) /\ Handed(s)' = t.pos - (Len(b) - 1)
        BY <1>7, <1>8 DEF Handed
    <2>3. 1 \in DOMAIN b BY <1>8
    <2>4. b[1] = h + 1 BY <1>2, <2>3 DEF InOrder
    <2> HIDE DEF h, b
    <2> QED BY <1>2, <1>8, <2>1, <2>2, <2>4
<1>11. \A i \in DOMAIN w : w[i] \in Nat BY Numbers
<1>12. \A k \in DOMAIN messages : messages[k].offset \in Nat BY Numbers
<1>13. (\A o : Shown(s, o)' <=> Shown(s, o)) BY <1>1 DEF Shown
<1>14. \/ h + 1 \notin Matching /\ wire'[s] = w
       \/ /\ h + 1 \in Matching
          /\ DOMAIN w = 1..Len(w) /\ Len(w) \in Nat
          /\ DOMAIN wire'[s] = 1..(Len(w) + 1)
          /\ wire'[s][Len(w) + 1] = h + 1
          /\ \A i \in 1..Len(w) : wire'[s][i] = w[i]
    <2>1. CASE Head(b) \in Matching /\ wire' = [wire EXCEPT ![s] = Append(w, Head(b))]
        <3>1. wire'[s] = Append(w, Head(b)) BY <2>1 DEF TypeOK
        <3> QED BY <1>1, <1>9, <1>10, <2>1, <3>1, AppendList
    <2>2. CASE Head(b) \notin Matching /\ UNCHANGED wire
        BY <1>10, <2>2
    <2> QED BY <1>4, <2>1, <2>2
<1>15. /\ \A i, j \in DOMAIN w : i < j => w[i] < w[j]
       /\ \A i \in DOMAIN w : w[i] <= h
       /\ \A k \in DOMAIN messages : messages[k].offset <= h
       /\ \A k \in DOMAIN messages, i \in DOMAIN w : messages[k].offset < w[i]
    BY <1>2 DEF InOrder
<1> HIDE DEF h, w
<1>16. InOrder(s)'
    <2>1. Len(tail'[s].batch) <= tail'[s].pos /\ tail'[s].pos <= log'
        BY <1>1, <1>2, <1>7, <1>8 DEF InOrder
    <2>2. \A i \in DOMAIN tail'[s].batch : tail'[s].batch[i] = h + 1 + i
        <3> SUFFICES ASSUME NEW i \in 1..(Len(b) - 1) PROVE Tail(b)[i] = h + 1 + i
            BY <1>7, <1>8
        <3>1. i \in Nat /\ i + 1 \in DOMAIN b /\ Tail(b)[i] = b[i + 1] BY <1>8
        <3>2. b[i + 1] = h + (i + 1) BY <1>2, <3>1 DEF InOrder, h
        <3> QED BY <1>10, <3>1, <3>2
    <2>3. \A i, j \in DOMAIN wire'[s] : i < j => wire'[s][i] < wire'[s][j]
        <3>1. CASE wire'[s] = w BY <1>15, <3>1
        <3>2. CASE /\ DOMAIN w = 1..Len(w) /\ Len(w) \in Nat
                   /\ DOMAIN wire'[s] = 1..(Len(w) + 1)
                   /\ wire'[s][Len(w) + 1] = h + 1
                   /\ \A i \in 1..Len(w) : wire'[s][i] = w[i]
            <4> SUFFICES ASSUME NEW i \in 1..(Len(w) + 1), NEW j \in 1..(Len(w) + 1), i < j
                         PROVE  wire'[s][i] < wire'[s][j]
                BY <3>2
            <4>1. i \in DOMAIN w /\ wire'[s][i] = w[i] /\ w[i] \in Nat /\ w[i] <= h
                BY <1>11, <1>15, <3>2
            <4>2. CASE j \in DOMAIN w BY <1>15, <3>2, <4>1, <4>2
            <4>3. CASE j = Len(w) + 1 BY <1>10, <3>2, <4>1, <4>3
            <4> QED BY <3>2, <4>2, <4>3
        <3> QED BY <1>14, <3>1, <3>2
    <2>4. \A i \in DOMAIN wire'[s] : wire'[s][i] <= h + 1
        <3>1. \A i \in DOMAIN w : w[i] <= h + 1
            BY <1>10, <1>11, <1>15
        <3> QED BY <1>10, <1>14, <3>1
    <2>5. \A k \in DOMAIN messages : messages[k].offset <= h + 1
        BY <1>10, <1>12, <1>15
    <2>6. \A k \in DOMAIN messages, i \in DOMAIN wire'[s] : messages[k].offset < wire'[s][i]
        <3> SUFFICES ASSUME NEW k \in DOMAIN messages, NEW i \in DOMAIN wire'[s]
                     PROVE  messages[k].offset < wire'[s][i]
            OBVIOUS
        <3>1. CASE i \in DOMAIN w /\ wire'[s][i] = w[i]
            BY <1>15, <3>1
        <3>2. CASE wire'[s][i] = h + 1
            <4>1. messages[k].offset \in Nat /\ messages[k].offset <= h
                BY <1>12, <1>15
            <4> QED BY <1>10, <3>2, <4>1
        <3> QED BY <1>14, <3>1, <3>2
    <2> QED BY <1>1, <1>10, <2>1, <2>2, <2>3, <2>4, <2>5, <2>6 DEF InOrder
<1>17. Gapless(s)'
    <2> SUFFICES ASSUME NEW o \in Matching, o <= h + 1
                 PROVE  /\ \A i \in DOMAIN wire'[s] : wire'[s][i] < o => \E j \in DOMAIN wire'[s] : wire'[s][j] = o
                        /\ \A k \in DOMAIN messages :
                             messages[k].socket = s /\ messages[k].offset < o =>
                                Shown(s, o) \/ \E j \in DOMAIN wire'[s] : wire'[s][j] = o
        BY <1>1, <1>10, <1>13 DEF Gapless
    <2>1. o \in Nat BY TailAssumption DEF TailAssumption, Offsets
    <2>2. CASE o <= h
        <3>1. /\ \A i \in DOMAIN w : w[i] < o => \E j \in DOMAIN w : w[j] = o
              /\ \A k \in DOMAIN messages :
                   messages[k].socket = s /\ messages[k].offset < o =>
                      Shown(s, o) \/ \E j \in DOMAIN w : w[j] = o
            BY <1>2, <2>2 DEF Gapless, h, w
        <3>2. (\E j \in DOMAIN w : w[j] = o) => \E j \in DOMAIN wire'[s] : wire'[s][j] = o
            BY <1>14
        <3>3. \A i \in DOMAIN wire'[s] : wire'[s][i] < o => \E k \in DOMAIN w : w[k] < o
            BY <1>10, <1>14, <2>1, <2>2
        <3> QED BY <3>1, <3>2, <3>3
    <2>3. CASE o = h + 1
        <3>1. \E j \in DOMAIN wire'[s] : wire'[s][j] = o BY <1>14, <2>3
        <3> QED BY <3>1
    <2> QED BY <1>10, <2>1, <2>2, <2>3
<1> QED BY <1>1, <1>2, <1>7, <1>16, <1>17 DEF Faithful

\* The page gets the head of the wire: newer than all it has.  What falls off the
\* page is older than what stays, so nothing between two messages is lost.
LEMMA TableMessage ==
    ASSUME NEW s \in Sockets, TypeOK, Seen, TableInv, onmessage(s)
    PROVE  TableInv'
<1> DEFINE w == wire[s]
           m == [socket |-> s, offset |-> Head(wire[s])]
<1>1. /\ UNCHANGED <<log, mounted, ws, gone, tail>> /\ wire' = [wire EXCEPT ![s] = Tail(w)]
      /\ w # <<>> /\ ws[s] \in {"open", "closing"} /\ s \notin gone /\ log \in Nat
      /\ w \in Seq(Offsets)
    BY Numbers DEF onmessage
<1>2. wire'[s] = Tail(w) /\ \A t \in Sockets : t # s => wire'[t] = wire[t]
    BY <1>1 DEF TypeOK
<1>3. \A t \in Sockets : Current(t)' = Current(t)
    BY <1>1 DEF Current
<1>4. CASE ws[s] = "closing"
    <2>1. UNCHANGED messages BY <1>4 DEF onmessage
    <2>2. Faithful(s)' BY <1>3, <1>4 DEF Faithful, Current
    <2>3. \A t \in Sockets : t # s => Faithful(t)'
        BY <1>1, <1>2, <1>3, <2>1, FaithfulSame DEF TableInv
    <2>4. NewestFirst' /\ OfTheLog' BY <1>1, <2>1 DEF TableInv, NewestFirst, OfTheLog
    <2> QED BY <2>2, <2>3, <2>4 DEF TableInv
<1>5. CASE ws[s] = "open"
    <2>1. messages' = Prepend(m)
        BY <1>1, <1>5 DEF onmessage, Seen, IndicatorTrue
    <2>2. Faithful(s) /\ Current(s) BY <1>1, <1>5 DEF TableInv, Current
    <2>3. InOrder(s) /\ Gapless(s) /\ tail[s].main = "loop" /\ tail[s].pos # None
        BY <1>1, <2>2 DEF Faithful, Unheard
    <2>4. /\ Len(w) \in Nat \ {0} /\ DOMAIN w = 1..Len(w) /\ Head(w) = w[1]
          /\ DOMAIN wire'[s] = 1..(Len(w) - 1)
          /\ \A i \in 1..(Len(w) - 1) : wire'[s][i] = w[i + 1]
        BY <1>1, <1>2, TailList
    <2>5. m \in Message /\ m.socket = s /\ m.offset = w[1]
        BY <1>1, <2>4, HeadTailProperties DEF Message
    <2>6. PICK n \in 1..(Len(messages) + 1) :
             /\ DOMAIN messages' = 1..n
             /\ messages'[1] = m
             /\ \A k \in 2..n : k - 1 \in DOMAIN messages /\ messages'[k] = messages[k - 1]
        BY <2>1, <2>5, PrependList DEF TypeOK
    <2>7. n \in Nat /\ DOMAIN messages = 1..Len(messages) /\ Len(messages) \in Nat
        BY <2>6, LenProperties DEF TypeOK
    <2>8. /\ \A i \in DOMAIN w : w[i] \in Nat /\ w[i] <= Handed(s)
          /\ \A i, j \in DOMAIN w : i < j => w[i] < w[j]
          /\ \A k \in DOMAIN messages : messages[k].offset \in Nat /\ messages[k].offset <= Handed(s)
          /\ \A k \in DOMAIN messages, i \in DOMAIN w : messages[k].offset < w[i]
          /\ Handed(s)' = Handed(s) /\ Handed(s) \in Nat /\ Handed(s) <= log
        <3>1. tail[s].pos \in Nat /\ Len(tail[s].batch) \in Nat BY <2>3, Numbers
        <3>2. Len(tail[s].batch) <= tail[s].pos /\ tail[s].pos <= log BY <2>3 DEF InOrder
        <3>3. Handed(s) \in Nat /\ Handed(s) <= log BY <1>1, <3>1, <3>2 DEF Handed
        <3>4. Handed(s)' = Handed(s) BY <1>1 DEF Handed
        <3> QED BY <2>3, <3>3, <3>4, Numbers DEF InOrder
    <2> HIDE DEF m, w
    <2>9. 1 \in DOMAIN w /\ \A i \in 1..(Len(w) - 1) : i + 1 \in DOMAIN w /\ w[1] < w[i + 1]
        <3>1. 1 \in DOMAIN w BY <2>4
        <3>2. ASSUME NEW i \in 1..(Len(w) - 1) PROVE i + 1 \in DOMAIN w /\ w[1] < w[i + 1]
            <4>1. i + 1 \in DOMAIN w /\ 1 < i + 1 BY <2>4
            <4> QED BY <2>8, <3>1, <4>1
        <3> QED BY <3>1, <3>2
    <2>10. NewestFirst'
        <3> SUFFICES ASSUME NEW i \in 1..n, NEW j \in 1..n, i < j
                     PROVE  messages'[i].offset > messages'[j].offset
            BY <2>6 DEF NewestFirst
        <3>1. j \in 2..n /\ j - 1 \in DOMAIN messages /\ messages'[j] = messages[j - 1] BY <2>6, <2>7
        <3>2. CASE i = 1
            <4>1. messages[j - 1].offset < w[1] /\ messages[j - 1].offset \in Nat /\ w[1] \in Nat
                BY <2>8, <2>9, <3>1
            <4> QED BY <2>5, <2>6, <3>1, <3>2, <4>1
        <3>3. CASE i \in 2..n
            <4>1. i - 1 \in DOMAIN messages /\ messages'[i] = messages[i - 1] /\ i - 1 < j - 1
                BY <2>6, <2>7, <3>3
            <4> QED BY <3>1, <4>1 DEF TableInv, NewestFirst
        <3> QED BY <2>7, <3>2, <3>3
    <2>11. \A k \in DOMAIN messages' : messages'[k].offset \in Nat /\ messages'[k].offset <= Handed(s)
        <3> SUFFICES ASSUME NEW k \in 1..n
                     PROVE  messages'[k].offset \in Nat /\ messages'[k].offset <= Handed(s)
            BY <2>6
        <3>1. CASE k = 1 BY <2>5, <2>6, <2>8, <2>9, <3>1
        <3>2. CASE k \in 2..n BY <2>6, <2>8, <3>2
        <3> QED BY <2>7, <3>1, <3>2
    <2>12. OfTheLog' BY <1>1, <2>8, <2>11 DEF OfTheLog
    <2>13. InOrder(s)'
        <3>1. /\ Len(tail'[s].batch) <= tail'[s].pos /\ tail'[s].pos <= log'
              /\ \A i \in DOMAIN tail'[s].batch : tail'[s].batch[i] = Handed(s) + i
            BY <1>1, <2>3 DEF InOrder
        <3>2. \A i \in DOMAIN wire'[s] : wire'[s][i] <= Handed(s) BY <2>4, <2>8, <2>9
        <3>3. \A i, j \in DOMAIN wire'[s] : i < j => wire'[s][i] < wire'[s][j]
            <4> SUFFICES ASSUME NEW i \in 1..(Len(w) - 1), NEW j \in 1..(Len(w) - 1), i < j
                         PROVE  wire'[s][i] < wire'[s][j]
                BY <2>4
            <4>1. i + 1 < j + 1 /\ i + 1 \in DOMAIN w /\ j + 1 \in DOMAIN w BY <2>4
            <4> QED BY <2>4, <2>8, <4>1
        <3>4. \A k \in DOMAIN messages', i \in DOMAIN wire'[s] : messages'[k].offset < wire'[s][i]
            <4> SUFFICES ASSUME NEW k \in 1..n, NEW i \in 1..(Len(w) - 1)
                         PROVE  messages'[k].offset < w[i + 1]
                BY <2>4, <2>6
            <4>1. CASE k = 1 BY <2>5, <2>6, <2>9, <4>1
            <4>2. CASE k \in 2..n BY <2>6, <2>8, <2>9, <4>2
            <4> QED BY <2>7, <4>1, <4>2
        <3> QED BY <2>8, <2>11, <3>1, <3>2, <3>3, <3>4 DEF InOrder
    <2>14. Gapless(s)'
        <3> SUFFICES ASSUME NEW o \in Matching, o <= Handed(s)
                     PROVE  /\ \A i \in DOMAIN wire'[s] : wire'[s][i] < o => \E j \in DOMAIN wire'[s] : wire'[s][j] = o
                            /\ \A k \in DOMAIN messages' :
                                 messages'[k].socket = s /\ messages'[k].offset < o =>
                                    Shown(s, o)' \/ \E j \in DOMAIN wire'[s] : wire'[s][j] = o
            BY <2>8 DEF Gapless
        <3>1. o \in Nat BY TailAssumption DEF TailAssumption, Offsets
        <3>2. /\ \A i \in DOMAIN w : w[i] < o => \E j \in DOMAIN w : w[j] = o
              /\ \A k \in DOMAIN messages :
                   messages[k].socket = s /\ messages[k].offset < o =>
                      Shown(s, o) \/ \E j \in DOMAIN w : w[j] = o
            BY <2>3 DEF Gapless, w
        <3>3. ASSUME NEW j \in DOMAIN w, w[j] = o
              PROVE  o = w[1] \/ \E i \in DOMAIN wire'[s] : wire'[s][i] = o
            <4>1. CASE j = 1 BY <3>3, <4>1
            <4>2. CASE j # 1
                <5>1. j - 1 \in 1..(Len(w) - 1) /\ (j - 1) + 1 = j BY <2>4, <4>2
                <5>2. wire'[s][j - 1] = o BY <2>4, <3>3, <5>1
                <5> QED BY <2>4, <5>1, <5>2
            <4> QED BY <4>1, <4>2
        <3>4. w[1] < o => \E i \in DOMAIN wire'[s] : wire'[s][i] = o
            BY <2>8, <2>9, <3>1, <3>2, <3>3
        <3>5. ASSUME NEW i \in DOMAIN wire'[s], wire'[s][i] < o PROVE w[1] < o
            <4>1. i + 1 \in DOMAIN w /\ w[1] < w[i + 1] /\ w[i + 1] < o BY <2>4, <2>9, <3>5
            <4> QED BY <2>8, <2>9, <3>1, <4>1
        <3>6. ASSUME NEW k \in DOMAIN messages', messages'[k].socket = s, messages'[k].offset < o
              PROVE  Shown(s, o)' \/ \E j \in DOMAIN wire'[s] : wire'[s][j] = o
            <4>1. CASE k = 1 BY <2>5, <2>6, <3>4, <3>6, <4>1
            <4>2. CASE k \in 2..n
                <5>1. k - 1 \in DOMAIN messages /\ messages'[k] = messages[k - 1] BY <2>6, <4>2
                <5>2. Shown(s, o) \/ \E j \in DOMAIN w : w[j] = o BY <3>2, <3>6, <5>1
                <5>3. CASE \E j \in DOMAIN w : w[j] = o
                    <6>1. CASE o = w[1]
                        <7>1. 1 \in DOMAIN messages' /\ messages'[1].socket = s /\ messages'[1].offset = o
                            BY <2>5, <2>6, <2>7, <6>1
                        <7> QED BY <7>1 DEF Shown
                    <6>2. CASE o # w[1] BY <3>3, <5>3, <6>2
                    <6> QED BY <6>1, <6>2
                <5>4. CASE Shown(s, o)
                    <6>1. PICK l \in DOMAIN messages : messages[l].socket = s /\ messages[l].offset = o
                        BY <5>4 DEF Shown
                    <6>2. ~(k - 1 <= l)
                        <7>1. k - 1 < l => messages[k - 1].offset > messages[l].offset
                            BY <5>1 DEF TableInv, NewestFirst
                        <7>2. messages[k - 1].offset < o /\ messages[k - 1].offset \in Nat
                            BY <2>8, <3>6, <5>1
                        <7> QED BY <2>7, <3>1, <4>2, <6>1, <7>1, <7>2
                    <6>3. l + 1 \in 2..n /\ (l + 1) - 1 = l BY <2>7, <4>2, <6>2
                    <6>4. l + 1 \in DOMAIN messages' /\ messages'[l + 1] = messages[l] BY <2>6, <2>7, <6>3
                    <6> QED BY <6>1, <6>4 DEF Shown
                <5> QED BY <5>2, <5>3, <5>4
            <4> QED BY <2>6, <2>7, <4>1, <4>2
        <3> QED BY <3>4, <3>5, <3>6
    <2>15. Faithful(s)' BY <1>1, <2>2, <2>3, <2>13, <2>14 DEF Faithful
    <2>16. ASSUME NEW t \in Sockets, t # s PROVE Faithful(t)'
        <3> SUFFICES ASSUME Current(t) PROVE Faithful(t)'
            BY <1>3 DEF Faithful
        <3>1. Faithful(t) BY DEF TableInv
        <3>2. ws[t] = "unused"
            BY <1>5, <2>16 DEF Seen, LiveAlone, Live, Ongoing, Current
        <3>3. tail[t].main = "none" /\ Unheard(t) BY <3>1, <3>2 DEF Faithful
        <3>4. \A k \in DOMAIN messages' : messages'[k].socket # t
            <4> SUFFICES ASSUME NEW k \in 1..n PROVE messages'[k].socket # t
                BY <2>6
            <4>1. CASE k = 1 BY <2>5, <2>6, <2>16, <4>1
            <4>2. CASE k \in 2..n BY <2>6, <3>3, <4>2 DEF Unheard
            <4> QED BY <2>7, <4>1, <4>2
        <3>5. Unheard(t)' BY <1>1, <1>2, <2>16, <3>3, <3>4 DEF Unheard
        <3> QED BY <1>1, <3>1, <3>3, <3>5 DEF Faithful
    <2> QED BY <2>10, <2>12, <2>15, <2>16 DEF TableInv
<1> QED BY <1>1, <1>4, <1>5

LEMMA TableStep ==
    ASSUME Patient, TypeOK, TypeOK', Seen, TableInv, [Next]_vars
    PROVE  TableInv'
<1>1. log \in Nat /\ log' \in Nat /\ log <= log' /\ (log' # log => UNCHANGED messages)
    <2>1. log \in Nat BY Numbers
    <2>2. log' = log \/ (log' = log + 1 /\ UNCHANGED page)
        BY DEF Next, vars, connect, disconnect, unmount, clear, Produce, onopen, onmessage, onclose,
               Handle, Upgrade, StartTail, PollFetches, EachRecord, Return, ReaderEnds, Vanish
    <2> QED BY <2>1, <2>2 DEF page
<1>2. ASSUME UNCHANGED messages, \A s \in Sockets : Faithful(s)' PROVE TableInv'
    <2>1. NewestFirst' BY <1>2 DEF TableInv, NewestFirst
    <2>2. \A k \in DOMAIN messages : messages[k].offset \in Nat BY Numbers
    <2>3. OfTheLog' BY <1>1, <1>2, <2>2 DEF TableInv, OfTheLog
    <2> QED BY <1>2, <2>1, <2>3 DEF TableInv
<1>3. ASSUME UNCHANGED <<messages, wire, tail>>, 
             \A s \in Sockets : /\ Current(s)' => Current(s)
                                /\ ws'[s] = "unused" => ws[s] = "unused"
      PROVE  TableInv'
    <2>1. \A s \in Sockets : Faithful(s)' BY <1>1, <1>3, FaithfulSame DEF TableInv
    <2> QED BY <1>2, <1>3, <2>1
<1>4. CASE connect
    BY <1>3, <1>4 DEF connect, Current, Unused, TypeOK
<1>5. CASE disconnect \/ unmount
    <2>1. \A s \in Sockets : ws'[s] = ws[s] \/ (ws'[s] = "closing" /\ ws[s] # "unused")
        BY <1>5 DEF disconnect, unmount, CloseRef, Close, TypeOK
    <2>2. UNCHANGED <<messages, wire, tail, gone>> BY <1>5 DEF disconnect, unmount
    <2> QED BY <1>3, <2>1, <2>2 DEF Current
<1>6. CASE clear
    <2>1. messages' = <<>> /\ UNCHANGED <<log, ws, gone, wire, tail>> BY <1>6 DEF clear
    <2>2. \A s \in Sockets : Faithful(s)' BY <2>1, FaithfulCleared DEF TableInv
    <2>3. NewestFirst' /\ OfTheLog' BY <2>1 DEF NewestFirst, OfTheLog
    <2> QED BY <2>2, <2>3 DEF TableInv
<1>7. CASE Produce
    BY <1>3, <1>7 DEF Produce, page, Current
<1>8. ASSUME NEW s \in Sockets, onopen(s) PROVE TableInv'
    BY <1>3, <1>8 DEF onopen, Current, TypeOK
<1>9. ASSUME NEW s \in Sockets, onclose(s) PROVE TableInv'
    <2>1. /\ ws'[s] = "closed" /\ \A t \in Sockets : t # s => wire'[t] = wire[t] /\ ws'[t] = ws[t]
          /\ UNCHANGED <<messages, gone, tail>>
        BY <1>9 DEF onclose, TypeOK
    <2>2. Faithful(s)' BY <2>1 DEF Faithful, Current
    <2>3. \A t \in Sockets : t # s => Faithful(t)'
        BY <1>1, <2>1, FaithfulSame DEF TableInv, Current
    <2> QED BY <1>2, <2>1, <2>2, <2>3
<1>10. ASSUME NEW s \in Sockets, Vanish(s) PROVE TableInv'
    BY <1>3, <1>10 DEF Vanish, page, Current
<1>11. ASSUME NEW s \in Sockets, UNCHANGED <<log, page, ws, gone>>, Faithful(s)',
              \A t \in Sockets : t # s => tail'[t] = tail[t] /\ wire'[t] = wire[t]
       PROVE  TableInv'
    <2>1. \A t \in Sockets : t # s => Faithful(t)'
        BY <1>1, <1>11, FaithfulSame DEF TableInv, Current, page
    <2> QED BY <1>2, <1>11, <2>1 DEF page
<1>12. ASSUME NEW s \in Sockets, Upgrade(s) \/ StartTail(s) \/ Return(s) \/ ReaderEnds(s)
       PROVE  TableInv'
    <2>1. /\ UNCHANGED <<log, page, ws, wire, gone>>
          /\ \A t \in Sockets : t # s => tail'[t] = tail[t]
        BY <1>12 DEF Upgrade, StartTail, Return, ReaderEnds, TypeOK
    <2>2. ASSUME Current(s) PROVE Faithful(s)'
        <3>1. /\ ws[s] = "unused" => tail[s].main = "none"
              /\ ~tail[s].cancelled /\ (tail[s].main = "loop" \/ tail[s].reader = "none")
              /\ tail[s].main = "loop" \/ tail[s].pos = None
              /\ tail[s].main # "loop" => Unheard(s)
            BY <2>2 DEF TableInv, Faithful
        <3>2. ~Return(s) /\ ~ReaderEnds(s)
            BY <2>2, <3>1 DEF Return, ReaderEnds, PingFails, Alive, Current
        <3>3. tail[s] \in TailState BY Numbers
        <3>4. /\ tail[s].main # "loop" /\ ws[s] # "unused"
              /\ tail'[s].pos = None /\ tail'[s].batch = tail[s].batch
              /\ ~tail'[s].cancelled /\ (tail'[s].main = "loop" \/ tail'[s].reader = "none")
            BY <1>12, <3>1, <3>2, <3>3 DEF Upgrade, StartTail, TypeOK, TailState
        <3>5. Unheard(s)' BY <2>1, <3>1, <3>4 DEF Unheard, page
        <3> QED BY <2>1, <3>4, <3>5 DEF Faithful
    <2>3. Faithful(s)' BY <2>1, <2>2 DEF Faithful, Current
    <2> QED BY <1>11, <2>1, <2>3
<1>13. ASSUME NEW s \in Sockets, PollFetches(s) \/ EachRecord(s) PROVE TableInv'
    <2>1. /\ UNCHANGED <<log, page, ws, gone>>
          /\ \A t \in Sockets : t # s => tail'[t] = tail[t] /\ wire'[t] = wire[t]
        BY <1>13 DEF PollFetches, EachRecord, WriteMessage, WriteFails, WriteHead, TypeOK
    <2>2. Faithful(s)' BY <1>13, FaithfulPoll, FaithfulRecord DEF TableInv
    <2> QED BY <1>11, <2>1, <2>2
<1>14. CASE UNCHANGED vars
    BY <1>3, <1>14 DEF vars, page, Current
<1> QED
    BY <1>4, <1>5, <1>6, <1>7, <1>8, <1>9, <1>10, <1>12, <1>13, <1>14, TableMessage DEF Next, Handle

\* For a patient user the table is the topic as its tail saw it: in order, once,
\* and without a gap, from the handler's batches to the hook's slice.
THEOREM TableAlwaysTrue == Patient => (Spec => []TableIsTrue)
<1> SUFFICES ASSUME Patient PROVE Spec => []TableIsTrue
    OBVIOUS
<1>1. Init => TableInv
    <2> SUFFICES ASSUME Init PROVE TableInv
        OBVIOUS
    <2>1. DOMAIN messages = {} BY DEF Init
    <2>2. \A s \in Sockets : Faithful(s) BY <2>1 DEF Init, NoTail, Faithful, Unheard
    <2> QED BY <2>1, <2>2 DEF TableInv, NewestFirst, OfTheLog
<1>2. TypeOK /\ TypeOK' /\ Seen /\ TableInv /\ [Next]_vars => TableInv'
    BY TableStep
<1>3. TypeOK /\ TableInv => TableIsTrue
    <2> SUFFICES ASSUME TypeOK, TableInv PROVE NothingLost
        BY DEF TableIsTrue, TableInv
    <2> SUFFICES ASSUME NEW s \in Sockets, NEW m \in ToSet(messages), ws[s] = "open", s \notin gone,
                        m.socket = s, tail[s].main = "loop",
                        NEW o \in Matching \intersect (m.offset + 1)..tail[s].pos
                 PROVE  o \in OnItsWay(s) \/ [socket |-> s, offset |-> o] \in ToSet(messages)
        BY DEF NothingLost
    <2>1. PICK k \in DOMAIN messages : messages[k] = m BY DEF ToSet
    <2>2. InOrder(s) /\ Gapless(s) /\ tail[s].pos # None
        BY <2>1 DEF TableInv, Faithful, Current, Unheard
    <2>3. tail[s].pos \in Nat /\ Len(tail[s].batch) \in Nat /\ m.offset \in Nat
        BY <2>1, <2>2, Numbers
    <2>4. o \in Nat /\ m.offset < o /\ o <= tail[s].pos BY <2>3
    <2>5. CASE o <= Handed(s)
        <3>1. Shown(s, o) \/ \E j \in DOMAIN wire[s] : wire[s][j] = o
            BY <2>1, <2>2, <2>4, <2>5 DEF Gapless
        <3>2. CASE Shown(s, o)
            <4>1. PICK l \in DOMAIN messages : messages[l].socket = s /\ messages[l].offset = o
                BY <3>2 DEF Shown
            <4>2. messages[l] = [socket |-> s, offset |-> o] BY <4>1, Numbers DEF Message
            <4> QED BY <4>2 DEF ToSet
        <3> QED BY <3>1, <3>2 DEF OnItsWay, ToSet
    <2>6. CASE ~(o <= Handed(s))
        <3> DEFINE i == o - Handed(s)
        <3>1. i \in 1..Len(tail[s].batch) BY <2>3, <2>4, <2>6 DEF Handed
        <3>2. i \in DOMAIN tail[s].batch BY <3>1, LenProperties, Numbers
        <3>3. Handed(s) + i = o BY <2>3, <2>4 DEF Handed
        <3>4. tail[s].batch[i] = o BY <2>2, <3>2, <3>3 DEF InOrder
        <3> QED BY <3>2, <3>4 DEF OnItsWay, ToSet
    <2> QED BY <2>5, <2>6
<1>4. Spec => []Seen
    <2>1. Init => Seen BY DEF Init, Seen, IndicatorTrue, LiveAlone, Live
    <2>2. TypeOK /\ Seen /\ [Next]_vars => Seen' BY SeenStep, TailAssumption
    <2> QED BY <2>1, <2>2, TailTypeCorrect, PTL DEF Spec
<1> QED BY <1>1, <1>2, <1>3, <1>4, TailTypeCorrect, PTL DEF Spec
=============================================================================
