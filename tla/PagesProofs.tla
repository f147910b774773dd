----------------------------- MODULE PagesProofs -----------------------------
(***************************************************************************)
(* The pages that show and change what the server has, the page of a       *)
(* topic's messages and its CEL filter, for any things, filters,           *)
(* parameters and bounds: what a resource page shows and keeps, what the   *)
(* filter's verdict is about, and what the Fetch and Live Tail buttons do; *)
(* at the end, all of them side by side.                                   *)
(***************************************************************************)
EXTENDS MCPages, TLAPS

-----------------------------------------------------------------------------
(* The CEL filter. *)

CelInv == CelTypeOK /\ VerdictIsForFilter

LEMMA CelInitInv == CelInit => CelInv
BY DEF CelInit, CelInv, CelTypeOK, VerdictIsForFilter, Mark, ErrorText

\* No validation is live once all are cancelled.
LEMMA CancelledDead ==
    ASSUME CelTypeOK
    PROVE  /\ Cancelled \subseteq [of : Filters, live : BOOLEAN]
           /\ \A c \in Cancelled : ~c.live
BY DEF CelTypeOK, Cancelled

\* There is one live validation at most.
LEMMA OneLive ==
    ASSUME CelTypeOK, NEW c \in checks, c.live
    PROVE  \A d \in checks \ {c} : ~d.live
<1>1. \A d \in checks : d.live => d = [of |-> filter, live |-> TRUE]
    BY DEF CelTypeOK
<1> QED BY <1>1

LEMMA SetCelFilterStep ==
    ASSUME CelInv, NEW f \in Filters \cup {Blank}, SetCelFilter(f)
    PROVE  CelInv'
<1>1. CelTypeOK'
    BY CancelledDead DEF CelInv, CelTypeOK, SetCelFilter
<1>2. VerdictIsForFilter'
    BY DEF CelInv, VerdictIsForFilter, Mark, ErrorText, SetCelFilter
<1> QED BY <1>1, <1>2 DEF CelInv

LEMMA ValidateStep ==
    ASSUME CelInv, Validate
    PROVE  CelInv'
<1>1. \A c \in checks : ~c.live
    BY DEF CelInv, CelTypeOK, Validate
<1>2. filter \in Filters /\ validating
    BY DEF CelInv, CelTypeOK, Validate
<1>3. checks' = checks \cup {[of |-> filter, live |-> TRUE]} /\ timer' = FALSE
    BY DEF Validate
<1>4. UNCHANGED <<mounted, filter, verdict, validating>>
    BY DEF Validate
<1> DEFINE new == [of |-> filter, live |-> TRUE]
<1>a. new \in [of : Filters, live : BOOLEAN]
    BY <1>2, Zenon
<1>b. new.live
    BY Zenon
<1>5. checks' \subseteq [of : Filters, live : BOOLEAN]
    BY <1>a, <1>3 DEF CelInv, CelTypeOK
<1>6. \A c \in checks' : c.live => c.of = filter
    BY <1>1, <1>3
<1>7. new \in checks' /\ new.live
    BY <1>3, <1>b
<1> HIDE DEF new
<1>8. CelTypeOK'
    BY <1>2, <1>3, <1>4, <1>5, <1>6, <1>7 DEF CelInv, CelTypeOK
<1>9. VerdictIsForFilter'
    BY <1>2, <1>4 DEF CelInv, VerdictIsForFilter, Mark, ErrorText
<1> QED BY <1>8, <1>9 DEF CelInv

LEMMA ValidatedStep ==
    ASSUME CelInv, NEW c \in checks, Validated(c)
    PROVE  CelInv'
<1>1. c.of \in Filters /\ c.live \in BOOLEAN
    BY DEF CelInv, CelTypeOK
<1>2. CASE c.live
    <2>1. \A d \in checks' : ~d.live
        BY <1>2, OneLive DEF CelInv, Validated
    <2>2. c.of = filter /\ ~timer
        BY <1>2 DEF CelInv, CelTypeOK
    <2>3. verdict' \in Answers(filter) /\ validating' = FALSE
        BY <1>2, <2>2 DEF Validated
    <2>4. UNCHANGED <<mounted, filter, timer>> /\ checks' \subseteq checks
        BY DEF Validated
    <2>5. verdict' \in [of : Filters, valid : BOOLEAN] \cup {Blank}
        <3>1. (filter \in ValidFilters) \in BOOLEAN
            OBVIOUS
        <3>2. [of |-> filter, valid |-> filter \in ValidFilters] \in [of : Filters, valid : BOOLEAN]
            BY <1>1, <2>2, <3>1, Zenon
        <3> QED BY <2>3, <3>2 DEF Answers
    <2>6. CelTypeOK'
        BY <2>1, <2>2, <2>3, <2>4, <2>5 DEF CelInv, CelTypeOK
    <2>7. VerdictIsForFilter'
        BY <1>1, <2>2, <2>3, <2>4, CelAssumption DEF VerdictIsForFilter, Mark, ErrorText, Answers
    <2> QED BY <2>6, <2>7 DEF CelInv
<1>3. CASE ~c.live
    <2>1. \A d \in checks : d.live => d \in checks'
        BY <1>3 DEF Validated
    <2>2. UNCHANGED <<mounted, filter, verdict, validating, timer>> /\ checks' \subseteq checks
        BY <1>3 DEF Validated
    <2>3. CelTypeOK'
        BY <2>1, <2>2 DEF CelInv, CelTypeOK
    <2>4. VerdictIsForFilter'
        BY <2>2 DEF CelInv, VerdictIsForFilter, Mark, ErrorText
    <2> QED BY <2>3, <2>4 DEF CelInv
<1> QED BY <1>1, <1>2, <1>3

LEMMA CelStep == CelInv /\ [CelNext]_celVars => CelInv'
<1> SUFFICES ASSUME CelInv, [CelNext]_celVars PROVE CelInv'
    OBVIOUS
<1>1. ASSUME NEW f \in Filters \cup {Blank}, SetCelFilter(f) PROVE CelInv'
    BY <1>1, SetCelFilterStep
<1>2. CASE Validate
    BY <1>2, ValidateStep
<1>3. CASE ValidateAnswered
    BY <1>3, ValidatedStep DEF ValidateAnswered, Validated
<1>4. CASE Remount
    <2>1. CelTypeOK'
        BY <1>4, CancelledDead DEF CelInv, CelTypeOK, Remount
    <2> QED BY <1>4, <2>1 DEF CelInv, VerdictIsForFilter, Mark, ErrorText, Remount
<1>5. CASE UNCHANGED celVars
    BY <1>5 DEF CelInv, CelTypeOK, VerdictIsForFilter, Mark, ErrorText, celVars
<1> QED BY <1>1, <1>2, <1>3, <1>4, <1>5 DEF CelNext

\* One validation at most is live, it is about the filter that is there, and the
\* wheel turns exactly while it or its timer runs.
THEOREM CelTypeCorrect == CelSpec => []CelTypeOK
<1>1. CelInv => CelTypeOK
    BY DEF CelInv
<1> QED BY <1>1, CelInitInv, CelStep, PTL DEF CelSpec

\* The mark beside the expression is about the expression, in whatever order the
\* validations of earlier ones are answered; the text of an error may be older, but
\* only while the wheel turns.
THEOREM VerdictCorrect == CelSpec => []VerdictIsForFilter
<1>1. CelInv => VerdictIsForFilter
    BY DEF CelInv
<1> QED BY <1>1, CelInitInv, CelStep, PTL DEF CelSpec

-----------------------------------------------------------------------------
(* Fetch and Live Tail. *)

Message == [params : Queries, topic : 0..MaxGrowth]

\* What is cached under a key, or under way for it, is of the key's parameters.
KeysHold ==
    \A k \in AnswerKeys :
        /\ answers[k].data # NoQuery => answers[k].data.params = k[1]
        /\ answers[k].stage # "idle" => answers[k].params = k[1]

\* The fetch of the last press, before it arrives and after.
Fresh ==
    here /\ browse # NoQuery /\ ~pressed.excused =>
        LET e == answers[CurrentKey] IN
        /\ e.stage = "read" => e.at >= pressed.topic
        /\ e.stage = "idle" /\ e.data # NoQuery => e.data.topic >= pressed.topic

\* A press has a number; before the first, and while a tail runs, there are no
\* parameters; no press is of the future.
Pressing ==
    /\ browse # NoQuery => nonce \in 1..MaxPresses
    /\ TailStandsAlone
    /\ pressed.topic <= topic

MessagesInv == MessagesTypeOK /\ KeysHold /\ Fresh /\ Pressing

Answer == [stage : {"idle", "asked", "read"}, params : Queries \cup {NoQuery},
           at : 0..MaxGrowth, data : Message \cup {NoQuery}]

LEMMA MessagesTypes ==
    ASSUME MessagesTypeOK
    PROVE  /\ answers \in [AnswerKeys -> Answer]
           /\ nonce \in Nat /\ topic \in Nat /\ pressed.topic \in Nat
           /\ browse # NoQuery => CurrentKey \in AnswerKeys
<1>1. MaxPresses \in Nat /\ MaxGrowth \in Nat
    BY MessagesAssumption
<1> QED BY <1>1 DEF MessagesTypeOK, Answer, Message, CurrentKey, KeyOf, AnswerKeys

LEMMA NoAnswerType == NoAnswer \in Answer
BY MessagesAssumption DEF NoAnswer, Answer

LEMMA MessagesInitInv == MessagesInit => MessagesInv
<1> SUFFICES ASSUME MessagesInit PROVE MessagesInv
    OBVIOUS
<1> USE MessagesAssumption
<1>0. 0 \in 0..MaxGrowth /\ 0 \in 0..MaxPresses
    OBVIOUS
<1>1. AtMount \in [topic : 0..MaxGrowth, excused : BOOLEAN]
    BY <1>0, Zenon DEF AtMount
<1>2. answers \in [AnswerKeys -> Answer]
    BY NoAnswerType DEF MessagesInit
<1>3. \A k \in AnswerKeys : answers[k] = NoAnswer
    BY DEF MessagesInit
<1>4. NoAnswer.stage = "idle" /\ NoAnswer.params = NoQuery /\ NoAnswer.data = NoQuery
    BY DEF NoAnswer
<1>5. \A q \in Queries : answers[<<q, 0>>] = NoAnswer
    BY <1>0, <1>3 DEF AnswerKeys
<1>a. \A k \in AnswerKeys : answers[k].stage = "idle" <=> answers[k].params = NoQuery
    BY <1>3, <1>4
<1>b. here = TRUE /\ tailing = FALSE /\ browse = NoQuery /\ nonce = 0 /\ topic = 0 /\ pressed = AtMount
    BY DEF MessagesInit
<1>6. MessagesTypeOK
    BY <1>0, <1>1, <1>2, <1>5, <1>a, <1>b DEF MessagesTypeOK, Answer, Message
<1>7. KeysHold
    BY <1>3, <1>4 DEF KeysHold
<1>8. Fresh /\ Pressing
    BY DEF MessagesInit, Fresh, Pressing, TailStandsAlone, AtMount
<1> QED BY <1>6, <1>7, <1>8 DEF MessagesInv

\* What a change of one entry of the cache has to respect.
LEMMA EntryChanged ==
    ASSUME MessagesInv, NEW k \in AnswerKeys, NEW e \in Answer,
           answers' = [answers EXCEPT ![k] = e],
           k[2] # 0 \/ e = NoAnswer,
           e.stage = "idle" <=> e.params = NoQuery,
           e.data # NoQuery => e.data.params = k[1],
           e.stage # "idle" => e.params = k[1]
    PROVE  /\ answers' \in [AnswerKeys -> Answer]
           /\ \A q \in Queries : answers'[<<q, 0>>] = NoAnswer
           /\ \A j \in AnswerKeys : answers'[j].stage = "idle" <=> answers'[j].params = NoQuery
           /\ KeysHold'
           /\ answers'[k] = e
           /\ \A j \in AnswerKeys : j # k => answers'[j] = answers[j]
<1>1. answers \in [AnswerKeys -> Answer]
    BY MessagesTypes DEF MessagesInv
<1>2. answers'[k] = e /\ \A j \in AnswerKeys : j # k => answers'[j] = answers[j]
    BY <1>1
<1>3. answers' \in [AnswerKeys -> Answer]
    BY <1>1
<1>4. \A q \in Queries : answers'[<<q, 0>>] = NoAnswer
    <2> TAKE q \in Queries
    <2>1. <<q, 0>> \in AnswerKeys
        BY MessagesAssumption DEF AnswerKeys
    <2>2. answers[<<q, 0>>] = NoAnswer
        BY DEF MessagesInv, MessagesTypeOK
    <2> QED BY <1>2, <2>1, <2>2
<1>5. \A j \in AnswerKeys : answers'[j].stage = "idle" <=> answers'[j].params = NoQuery
    BY <1>2 DEF MessagesInv, MessagesTypeOK
<1>6. KeysHold'
    BY <1>2 DEF MessagesInv, KeysHold
<1> QED BY <1>2, <1>3, <1>4, <1>5, <1>6

LEMMA HandleFetchStep ==
    ASSUME MessagesInv, NEW q \in Queries, HandleFetch(q)
    PROVE  MessagesInv'
<1> DEFINE k == <<q, nonce + 1>>
<1> DEFINE e == [answers[k] EXCEPT !.stage = "asked", !.params = q]
<1> USE MessagesAssumption
<1>1. nonce + 1 \in 1..MaxPresses /\ k \in AnswerKeys /\ k[1] = q /\ k[2] # 0
    BY DEF MessagesInv, MessagesTypeOK, HandleFetch, AnswerKeys
<1>2. here' = here /\ tailing' = tailing /\ topic' = topic /\ ~tailing /\ browse' = q
      /\ nonce' = nonce + 1 /\ here
    BY DEF HandleFetch
<1>3. CurrentKey' = k /\ q # NoQuery
    BY <1>2 DEF CurrentKey, KeyOf
<1>4. ~InUse(k)
    BY DEF InUse, CurrentKey, KeyOf, MessagesInv, MessagesTypeOK
<1>5. pressed'.topic = topic /\ pressed'.excused = (answers[k].stage # "idle")
    BY Zenon DEF HandleFetch, PressedAt, KeyOf
<1>6. pressed' \in [topic : 0..MaxGrowth, excused : BOOLEAN]
    <2>1. topic \in 0..MaxGrowth /\ (answers[k].stage # "idle") \in BOOLEAN
        BY DEF MessagesInv, MessagesTypeOK
    <2>2. pressed' = [topic |-> topic, excused |-> answers[k].stage # "idle"]
        BY DEF HandleFetch, PressedAt, KeyOf
    <2> QED BY <2>1, <2>2, Zenon
<1>7. answers[k] \in Answer
    BY <1>1, MessagesTypes DEF MessagesInv
<1>8. CASE answers[k].stage # "idle"
    <2>1. answers' = answers
        BY <1>8 DEF HandleFetch, Asked, KeyOf
    <2>2. MessagesTypeOK'
        BY <1>1, <1>2, <1>6, <2>1 DEF MessagesInv, MessagesTypeOK
    <2>3. KeysHold'
        BY <2>1 DEF MessagesInv, KeysHold
    <2>4. Fresh'
        BY <1>5, <1>8 DEF Fresh
    <2>5. Pressing'
        BY <1>1, <1>2, <1>5 DEF Pressing, TailStandsAlone, MessagesInv, MessagesTypeOK
    <2> QED BY <2>2, <2>3, <2>4, <2>5 DEF MessagesInv
<1>9. CASE answers[k].stage = "idle"
    <2>1. answers' = [answers EXCEPT ![k] = e]
        BY <1>4, <1>9 DEF HandleFetch, Asked, KeyOf
    <2>2. e \in Answer /\ e.stage = "asked" /\ e.params = q /\ e.data = answers[k].data
        BY <1>7 DEF Answer
    <2>3. e.data # NoQuery => e.data.params = k[1]
        BY <1>1, <2>2 DEF MessagesInv, KeysHold
    <2> HIDE DEF e
    <2>4. /\ answers' \in [AnswerKeys -> Answer]
          /\ \A r \in Queries : answers'[<<r, 0>>] = NoAnswer
          /\ \A j \in AnswerKeys : answers'[j].stage = "idle" <=> answers'[j].params = NoQuery
          /\ KeysHold'
          /\ answers'[k] = e
        <3> HIDE DEF k
        <3> QED BY <1>1, <1>3, <2>1, <2>2, <2>3, EntryChanged
    <2>5. MessagesTypeOK'
        BY <1>1, <1>2, <1>6, <2>4 DEF MessagesInv, MessagesTypeOK, Answer, Message
    <2>6. Fresh'
        BY <1>3, <2>2, <2>4 DEF Fresh
    <2>7. Pressing'
        BY <1>1, <1>2, <1>5 DEF Pressing, TailStandsAlone, MessagesInv, MessagesTypeOK
    <2> QED BY <2>4, <2>5, <2>6, <2>7 DEF MessagesInv
<1> QED BY <1>8, <1>9

\* Only presses have numbers, so only their keys have entries.
LEMMA NumberedKey ==
    ASSUME MessagesTypeOK, NEW k \in AnswerKeys, answers[k] # NoAnswer
    PROVE  k[2] # 0
<1>1. PICK q \in Queries, n \in 0..MaxPresses : k = <<q, n>>
    BY DEF AnswerKeys
<1> QED BY <1>1 DEF MessagesTypeOK

\* A step of the cache alone, which may excuse the last press.
LEMMA CacheStep ==
    ASSUME MessagesInv, NEW k \in AnswerKeys, NEW e \in Answer,
           answers' = [answers EXCEPT ![k] = e],
           k[2] # 0 \/ e = NoAnswer,
           e.stage = "idle" <=> e.params = NoQuery,
           e.data # NoQuery => e.data.params = k[1],
           e.stage # "idle" => e.params = k[1],
           UNCHANGED <<here, browse, nonce, tailing, topic>>,
           pressed' = pressed \/ (pressed' = [pressed EXCEPT !.excused = TRUE]),
           InUse(k) /\ pressed' = pressed /\ ~pressed.excused =>
               /\ e.stage = "read" => e.at >= pressed.topic
               /\ e.stage = "idle" /\ e.data # NoQuery => e.data.topic >= pressed.topic
    PROVE  MessagesInv'
<1>1. /\ answers' \in [AnswerKeys -> Answer]
      /\ \A q \in Queries : answers'[<<q, 0>>] = NoAnswer
      /\ \A j \in AnswerKeys : answers'[j].stage = "idle" <=> answers'[j].params = NoQuery
      /\ KeysHold'
      /\ answers'[k] = e
      /\ \A j \in AnswerKeys : j # k => answers'[j] = answers[j]
    BY EntryChanged
<1>2. pressed \in [topic : 0..MaxGrowth, excused : BOOLEAN]
    BY DEF MessagesInv, MessagesTypeOK
<1>3. CASE pressed' = pressed
    <2>1. MessagesTypeOK'
        BY <1>1, <1>3 DEF MessagesInv, MessagesTypeOK, Answer, Message
    <2>2. Fresh'
        <3> SUFFICES ASSUME here, browse # NoQuery, ~pressed.excused
                     PROVE  /\ answers'[CurrentKey].stage = "read" =>
                                   answers'[CurrentKey].at >= pressed.topic
                            /\ answers'[CurrentKey].stage = "idle"
                               /\ answers'[CurrentKey].data # NoQuery =>
                                   answers'[CurrentKey].data.topic >= pressed.topic
            BY <1>3 DEF Fresh, CurrentKey
        <3>1. CurrentKey \in AnswerKeys
            BY MessagesTypes DEF MessagesInv
        <3>2. CASE CurrentKey = k
            BY <1>1, <1>3, <3>2 DEF InUse
        <3>3. CASE CurrentKey # k
            BY <1>1, <3>1, <3>3 DEF MessagesInv, Fresh
        <3> QED BY <3>2, <3>3
    <2>3. Pressing'
        BY <1>3 DEF MessagesInv, Pressing, TailStandsAlone
    <2> QED BY <1>1, <2>1, <2>2, <2>3 DEF MessagesInv
<1>4. CASE pressed' = [pressed EXCEPT !.excused = TRUE]
    <2>1. pressed' \in [topic : 0..MaxGrowth, excused : BOOLEAN]
        BY <1>2, <1>4
    <2>2. pressed'.excused /\ pressed'.topic = pressed.topic
        BY <1>2, <1>4
    <2>3. MessagesTypeOK'
        BY <1>1, <2>1 DEF MessagesInv, MessagesTypeOK, Answer, Message
    <2>4. Fresh'
        BY <2>2 DEF Fresh
    <2>5. Pressing'
        BY <2>2 DEF MessagesInv, Pressing, TailStandsAlone
    <2> QED BY <1>1, <2>3, <2>4, <2>5 DEF MessagesInv
<1> QED BY <1>3, <1>4

LEMMA BrowsedStep ==
    ASSUME MessagesInv, NEW k \in AnswerKeys, Browsed(k)
    PROVE  MessagesInv'
<1> DEFINE e == [answers[k] EXCEPT !.stage = "read", !.at = topic]
<1> USE MessagesAssumption
<1>1. answers[k] \in Answer /\ answers[k].stage = "asked"
    BY MessagesTypes DEF MessagesInv, Browsed
<1>2. e \in Answer /\ e.stage = "read" /\ e.at = topic /\ e.params = answers[k].params
      /\ e.data = answers[k].data
    BY <1>1 DEF Answer, MessagesInv, MessagesTypeOK
<1>3. answers' = [answers EXCEPT ![k] = e]
    BY DEF Browsed
<1>4. k[2] # 0
    BY <1>1, NumberedKey DEF MessagesInv, NoAnswer
<1>5. /\ e.stage = "idle" <=> e.params = NoQuery
      /\ e.data # NoQuery => e.data.params = k[1]
      /\ e.stage # "idle" => e.params = k[1]
    BY <1>1, <1>2 DEF MessagesInv, MessagesTypeOK, KeysHold
<1>6. topic >= pressed.topic
    BY MessagesTypes DEF MessagesInv, Pressing
<1>7. UNCHANGED <<here, browse, nonce, tailing, topic, pressed>>
    BY DEF Browsed
<1> HIDE DEF e
<1> QED BY <1>2, <1>3, <1>4, <1>5, <1>6, <1>7, CacheStep

LEMMA BrowseArrivesStep ==
    ASSUME MessagesInv, NEW k \in AnswerKeys, BrowseArrives(k)
    PROVE  MessagesInv'
<1> DEFINE d == [params |-> answers[k].params, topic |-> answers[k].at]
<1> DEFINE e == [NoAnswer EXCEPT !.data = d]
<1> USE MessagesAssumption
<1>1. answers[k] \in Answer /\ answers[k].stage = "read"
    BY MessagesTypes DEF MessagesInv, BrowseArrives
<1>2. answers[k].params = k[1] /\ answers[k].params # NoQuery /\ answers[k].params \in Queries
    BY <1>1 DEF MessagesInv, MessagesTypeOK, KeysHold, Answer
<1>3. d \in Message /\ d.params = k[1] /\ d.topic = answers[k].at
    BY <1>1, <1>2 DEF Answer, Message
<1>4. e.stage = "idle" /\ e.params = NoQuery /\ e.data = d /\ e \in Answer
    BY <1>3, NoAnswerType DEF Answer, NoAnswer
<1>5. answers' = [answers EXCEPT ![k] = e]
    BY DEF BrowseArrives
<1>6. k[2] # 0
    BY <1>1, NumberedKey DEF MessagesInv, NoAnswer
<1>7. UNCHANGED <<here, browse, nonce, tailing, topic, pressed>>
    BY DEF BrowseArrives
<1>8. InUse(k) /\ ~pressed.excused => d.topic >= pressed.topic
    BY <1>1, <1>3 DEF InUse, MessagesInv, Fresh
<1> HIDE DEF d, e
<1> QED BY <1>3, <1>4, <1>5, <1>6, <1>7, <1>8, CacheStep

LEMMA BrowseFailsStep ==
    ASSUME MessagesInv, NEW k \in AnswerKeys, BrowseFails(k)
    PROVE  MessagesInv'
<1> DEFINE e == [NoAnswer EXCEPT !.data = answers[k].data]
<1>1. answers[k] \in Answer /\ answers[k].stage # "idle"
    BY MessagesTypes DEF MessagesInv, BrowseFails
<1>2. e.stage = "idle" /\ e.params = NoQuery /\ e.data = answers[k].data /\ e \in Answer
    BY <1>1, NoAnswerType DEF Answer, NoAnswer
<1>3. answers' = [answers EXCEPT ![k] = e]
    BY DEF BrowseFails
<1>4. k[2] # 0
    BY <1>1, NumberedKey DEF MessagesInv, NoAnswer
<1>5. e.data # NoQuery => e.data.params = k[1]
    BY <1>2 DEF MessagesInv, KeysHold
<1>6. UNCHANGED <<here, browse, nonce, tailing, topic>>
    BY DEF BrowseFails
<1>7. pressed' = IF InUse(k) THEN [pressed EXCEPT !.excused = TRUE] ELSE pressed
    BY DEF BrowseFails
<1>8. InUse(k) /\ pressed' = pressed => pressed.excused
    <2>1. pressed \in [topic : 0..MaxGrowth, excused : BOOLEAN]
        BY DEF MessagesInv, MessagesTypeOK
    <2>2. [pressed EXCEPT !.excused = TRUE].excused
        BY <2>1
    <2> QED BY <1>7, <2>2
<1> HIDE DEF e
<1> QED BY <1>2, <1>3, <1>4, <1>5, <1>6, <1>7, <1>8, CacheStep

LEMMA CollectAnswerStep ==
    ASSUME MessagesInv, NEW k \in AnswerKeys, CollectAnswer(k)
    PROVE  MessagesInv'
<1>1. NoAnswer.stage = "idle" /\ NoAnswer.params = NoQuery /\ NoAnswer.data = NoQuery
    BY DEF NoAnswer
<1>2. answers' = [answers EXCEPT ![k] = NoAnswer]
    BY DEF CollectAnswer
<1>3. UNCHANGED <<here, browse, nonce, tailing, topic, pressed>>
    BY DEF CollectAnswer
<1> QED BY <1>1, <1>2, <1>3, NoAnswerType, CacheStep

\* The steps that leave the cache alone: a tail that starts or ends, the page left
\* or there anew, a topic that grows.
LEMMA ElsewhereStep ==
    ASSUME MessagesInv, StartTail \/ TailEnds \/ LeaveOrReturn \/ TopicGrows
    PROVE  MessagesInv'
<1> USE MessagesAssumption
<1>1. answers' = answers /\ KeysHold'
    BY DEF StartTail, TailEnds, LeaveOrReturn, TopicGrows, MessagesInv, KeysHold
<1>2. CASE StartTail \/ TailEnds
    <2>1. browse' = NoQuery /\ UNCHANGED <<here, nonce, topic, pressed>> /\ tailing' \in BOOLEAN
        BY <1>2 DEF StartTail, TailEnds, MessagesInv, Pressing, TailStandsAlone
    <2>2. MessagesTypeOK'
        BY <1>1, <2>1 DEF MessagesInv, MessagesTypeOK
    <2>3. Fresh' /\ Pressing'
        BY <2>1 DEF MessagesInv, Fresh, Pressing, TailStandsAlone
    <2> QED BY <1>1, <2>2, <2>3 DEF MessagesInv
<1>3. CASE LeaveOrReturn
    <2>1. AtMount \in [topic : 0..MaxGrowth, excused : BOOLEAN] /\ AtMount.topic = 0
        <3>1. 0 \in 0..MaxGrowth
            OBVIOUS
        <3> QED BY <3>1, Zenon DEF AtMount
    <2>2. /\ browse' = NoQuery /\ nonce' = 0 /\ tailing' = FALSE /\ pressed' = AtMount
          /\ topic' = topic
        BY <1>3 DEF LeaveOrReturn
    <2>a. here' \in BOOLEAN
        BY <1>3, Zenon DEF LeaveOrReturn
    <2>b. nonce' \in 0..MaxPresses
        BY <1>3 DEF LeaveOrReturn
    <2>d. browse' \in Queries \cup {NoQuery} /\ tailing' \in BOOLEAN
        BY <2>2, Zenon
    <2>c. pressed' \in [topic : 0..MaxGrowth, excused : BOOLEAN]
        BY <2>1, <2>2
    <2>3. MessagesTypeOK'
        BY <1>1, <2>2, <2>a, <2>b, <2>c, <2>d, Zenon DEF MessagesInv, MessagesTypeOK
    <2>4. Fresh' /\ Pressing'
        BY <2>1, <2>2, MessagesTypes DEF MessagesInv, Fresh, Pressing, TailStandsAlone
    <2> QED BY <1>1, <2>3, <2>4 DEF MessagesInv
<1>4. CASE TopicGrows
    <2>1. UNCHANGED <<here, browse, nonce, tailing, pressed>> /\ topic' = topic + 1
          /\ topic + 1 \in 0..MaxGrowth
        BY <1>4 DEF TopicGrows, MessagesInv, MessagesTypeOK
    <2>2. MessagesTypeOK'
        BY <1>1, <2>1 DEF MessagesInv, MessagesTypeOK
    <2>3. Fresh' /\ Pressing'
        BY <1>1, <2>1, MessagesTypes
           DEF MessagesInv, Fresh, CurrentKey, Pressing, TailStandsAlone
    <2> QED BY <1>1, <2>2, <2>3 DEF MessagesInv
<1> QED BY <1>2, <1>3, <1>4

LEMMA MessagesStep == MessagesInv /\ [MessagesNext]_messageVars => MessagesInv'
<1> SUFFICES ASSUME MessagesInv, [MessagesNext]_messageVars PROVE MessagesInv'
    OBVIOUS
<1>1. ASSUME NEW q \in Queries, HandleFetch(q) PROVE MessagesInv'
    BY <1>1, HandleFetchStep
<1>2. ASSUME NEW k \in AnswerKeys,
             Browsed(k) \/ BrowseArrives(k) \/ BrowseFails(k) \/ CollectAnswer(k)
      PROVE  MessagesInv'
    BY <1>2, BrowsedStep, BrowseArrivesStep, BrowseFailsStep, CollectAnswerStep
<1>3. CASE StartTail \/ TailEnds \/ LeaveOrReturn \/ TopicGrows
    BY <1>3, ElsewhereStep
<1>4. CASE UNCHANGED messageVars
    BY <1>4 DEF messageVars, MessagesInv, MessagesTypeOK, KeysHold, Fresh, CurrentKey,
                Pressing, TailStandsAlone
<1> QED BY <1>1, <1>2, <1>3, <1>4 DEF MessagesNext

LEMMA MessagesAlways == MessagesSpec => []MessagesInv
BY MessagesInitInv, MessagesStep, PTL DEF MessagesSpec

\* The messages view, its toolbar and the cached fetches hold what they are meant
\* to hold, over any visits, fetches and tails.
THEOREM MessagesTypeCorrect == MessagesSpec => []MessagesTypeOK
<1>1. MessagesInv => MessagesTypeOK
    BY DEF MessagesInv
<1> QED BY <1>1, MessagesAlways, PTL

\* The messages shown are an answer to the parameters of the last press: whatever
\* earlier visits left in the cache and under way is under their own parameters.
THEOREM ShownWasAskedAlways == MessagesSpec => []ShownWasAsked
<1>1. MessagesInv => ShownWasAsked
    <2> SUFFICES ASSUME MessagesInv, FetchedMessages # NoQuery
                 PROVE  FetchedMessages.params = browse
        BY DEF ShownWasAsked
    <2>1. browse # NoQuery /\ FetchedMessages = answers[CurrentKey].data
        BY DEF FetchedMessages
    <2>2. CurrentKey \in AnswerKeys /\ CurrentKey[1] = browse
        BY <2>1, MessagesTypes DEF MessagesInv, CurrentKey, KeyOf
    <2> QED BY <2>1, <2>2 DEF MessagesInv, KeysHold
<1> QED BY <1>1, MessagesAlways, PTL

\* Messages that are shown after Fetch was pressed and answered were read after the
\* press, unless it failed or joined a fetch of an earlier visit.
THEOREM ShownIsFreshAlways == MessagesSpec => []ShownIsFresh
<1>1. MessagesInv => ShownIsFresh
    BY DEF MessagesInv, Fresh, ShownIsFresh, FetchedMessages
<1> QED BY <1>1, MessagesAlways, PTL

\* Nothing is fetched behind a running tail.
THEOREM TailStandsAloneAlways == MessagesSpec => []TailStandsAlone
<1>1. MessagesInv => TailStandsAlone
    BY DEF MessagesInv, Pressing
<1> QED BY <1>1, MessagesAlways, PTL

\* The fetched messages in the table are those of the last press.
THEOREM TableOfLastPress == MessagesSpec => []TableIsOfLastPress
<1>1. ShownWasAsked /\ ShownIsFresh /\ TailStandsAlone => TableIsOfLastPress
    BY DEF TableIsOfLastPress
<1> QED BY <1>1, ShownWasAskedAlways, ShownIsFreshAlways, TailStandsAloneAlways, PTL
-----------------------------------------------------------------------------
(* The resource pages. *)

Job == [stage : {"none", "sent", "done", "refused"}, kind : Kinds,
        thing : Things \cup {Absent}, val : Vals \cup {Absent},
        mine : BOOLEAN, held : BOOLEAN]
Cache == [loaded : BOOLEAN, failed : BOOLEAN, data : State,
          fetch : {"idle", "asked", "read"}, snap : State]
Dialog == [open : BOOLEAN, text : Text, base : Text, hasty : BOOLEAN]

PageTypes ==
    /\ page \in Pages /\ server \in State /\ cache \in Cache
    /\ place \in {"page", "list", "elsewhere"}
    /\ form \in Dialog /\ confirm \in Things \cup {Absent}
    /\ unseen \in SUBSET Things /\ requests \in 0..MaxRequests

\* A mutation is about a thing, a submission says something of it.
JobTypes ==
    /\ jobs \in [Slots -> Job]
    /\ \A s \in Slots : jobs[s].stage # "none" =>
          jobs[s].thing \in Things /\ (jobs[s].kind = "submit" => jobs[s].val \in Vals)

\* No two of a kind are pending, but deletions where they are not guarded.
Alone ==
    \A s, r \in Slots : s # r /\ jobs[s].held /\ jobs[r].held /\ jobs[s].kind = jobs[r].kind
        => jobs[s].kind = "delete" /\ ~page.guarded

\* Where a confirmation closes at once, the guard of the button that opens it is enough.
Guarded == confirm # Absent /\ page.guarded /\ page.delete # "stays" => ~Pending("delete")

\* The form holds what was submitted, or what it began with, or was changed since.
Submitted ==
    \A s \in Slots : jobs[s].mine /\ jobs[s].kind = "submit" /\ ~form.hasty =>
        form.text \in {<<jobs[s].thing, jobs[s].val>>, form.base}

\* Only a page with a form has a dialog or submits one.
Formed ==
    /\ form.open => page.form # "none"
    /\ \A s \in Slots : jobs[s].mine /\ jobs[s].kind = "submit" => page.form # "none"

\* A copy of what the server has, but for what is noted as unseen.
Same(copy) == \A t \in Things : copy[t] = server[t] \/ t \in unseen

\* What was read may arrive at any time; what is shown at rest is what was read last.
Current ==
    /\ cache.fetch = "read" => Same(cache.snap)
    /\ place = "page" /\ page.asks /\ cache.loaded /\ ~cache.failed /\ cache.fetch = "idle"
          => Same(cache.data)

PageInv == PageTypes /\ JobTypes /\ Alone /\ Guarded /\ Submitted /\ Formed /\ Current

LEMMA NothingState == Nothing \in State
BY DEF Nothing, State

LEMMA NoJobType == NoJob \in Job /\ ~NoJob.mine /\ ~NoJob.held /\ NoJob.stage = "none"
BY DEF NoJob, Job, Kinds

LEMMA ClosedFormType == ClosedForm \in Dialog /\ ~ClosedForm.hasty /\ ~ClosedForm.open
BY DEF ClosedForm, Dialog, Text

Described == [form : {"none", "create", "edit", "own", "choice", "command"},
              delete : {"none", "first", "stays", "leaves"},
              guarded : BOOLEAN, presses : BOOLEAN, polls : BOOLEAN, asks : BOOLEAN]

\* Pages differ in these fields only, and in these ways.
LEMMA PagesDescribed == Pages \subseteq Described
<1>1. ReadOnly \in Described
    BY DEF ReadOnly, Described
<1>2. {BrokersPage, ClustersPage, ConsumerGroupsPage, SchemaDetailPage} \subseteq Described
    BY <1>1 DEF BrokersPage, ClustersPage, ConsumerGroupsPage, SchemaDetailPage
<1>3. {DashboardPage, TopicsPage, AclPage, UsersPage} \subseteq Described
    BY <1>1 DEF DashboardPage, TopicsPage, AclPage, UsersPage, Described
<1>4. {SchemaRegistryPage, KafkaConnectPage, TopicDetailPage} \subseteq Described
    BY <1>1 DEF SchemaRegistryPage, KafkaConnectPage, TopicDetailPage, Described
<1>5. {ConnectorDetailPage, ConsumerGroupDetailPage, AdminUsersPage, KsqlPage} \subseteq Described
    BY <1>1 DEF ConnectorDetailPage, ConsumerGroupDetailPage, AdminUsersPage, KsqlPage, Described
<1> QED BY <1>2, <1>3, <1>4, <1>5 DEF Pages

LEMMA PageFields ==
    ASSUME page \in Pages
    PROVE  /\ page.asks \in BOOLEAN /\ page.guarded \in BOOLEAN
           /\ page.form \in {"none", "create", "edit", "own", "choice", "command"}
           /\ page.delete \in {"none", "first", "stays", "leaves"}
BY PagesDescribed DEF Described

LEMMA PagesInitInv == PagesInit => PageInv
<1> SUFFICES ASSUME PagesInit PROVE PageInv
    OBVIOUS
<1>1. page \in Pages /\ page.asks \in BOOLEAN
    BY PageFields DEF PagesInit
<1>2. cache \in Cache /\ cache.fetch # "read" /\ (cache.fetch = "idle" => ~page.asks)
    <2>1. (~page.asks) \in BOOLEAN
        BY <1>1
    <2> DEFINE b == ~page.asks
    <2>2. b \in BOOLEAN
        BY <2>1
    <2>3. /\ cache = [loaded |-> b, failed |-> FALSE, data |-> Nothing,
                      fetch |-> IF page.asks THEN "asked" ELSE "idle", snap |-> Nothing]
        BY DEF PagesInit
    <2> HIDE DEF b
    <2> QED BY <2>2, <2>3, NothingState DEF Cache
<1>3. PageTypes
    BY <1>1, <1>2, ClosedFormType, PagesAssumption DEF PagesInit, PageTypes, State
<1>4. JobTypes /\ \A s \in Slots : ~jobs[s].mine /\ ~jobs[s].held
    BY NoJobType DEF PagesInit, JobTypes
<1>5. Alone /\ Guarded /\ Submitted /\ Formed
    BY <1>4, ClosedFormType DEF PagesInit, Alone, Guarded, Submitted, Formed
<1> QED BY <1>2, <1>3, <1>4, <1>5 DEF PageInv, Current

\* What does not change.
LEMMA PagesUnchanged == ASSUME PageInv, UNCHANGED pageVars PROVE PageInv'
BY DEF pageVars, PageInv, PageTypes, JobTypes, Alone, Guarded, Submitted, Formed, Current, Same,
       Pending

LEMMA JobsUnchanged ==
    ASSUME JobTypes, Alone, UNCHANGED <<page, jobs>>
    PROVE  JobTypes' /\ Alone'
BY DEF JobTypes, Alone

\* A dialog that goes leaves every request as it is, but perhaps less pending.
LEMMA DialogGoneFacts ==
    ASSUME JobTypes
    PROVE  /\ DialogGone \in [Slots -> Job]
           /\ \A s \in Slots :
                 /\ DialogGone[s].stage = jobs[s].stage /\ DialogGone[s].kind = jobs[s].kind
                 /\ DialogGone[s].thing = jobs[s].thing /\ DialogGone[s].val = jobs[s].val
                 /\ DialogGone[s].mine = jobs[s].mine /\ (DialogGone[s].held => jobs[s].held)
BY DEF DialogGone, JobTypes, Job

LEMMA DialogGoneInv ==
    ASSUME JobTypes, Alone, UNCHANGED page, jobs' = DialogGone
    PROVE  JobTypes' /\ Alone'
BY DialogGoneFacts DEF JobTypes, Alone

\* A fetch that is asked for.
LEMMA AskFacts ==
    ASSUME cache \in Cache
    PROVE  Ask(cache) \in Cache /\ Ask(cache).fetch = "asked"
<1> DEFINE b == cache.failed /\ cache.loaded
<1>1. b \in BOOLEAN
    BY DEF Cache
<1>2. Ask(cache) = [cache EXCEPT !.fetch = "asked", !.snap = Nothing, !.failed = b]
    BY DEF Ask
<1> HIDE DEF b
<1> QED BY <1>1, <1>2, NothingState DEF Cache

\* The query.
LEMMA FetchSteps ==
    ASSUME PageInv, FetchRead \/ FetchArrives \/ Retry \/ Collect \/ Visit
    PROVE  PageInv'
<1> USE DEF PageInv
<1>1. UNCHANGED <<page, server, form, confirm, jobs, requests>>
    BY DEF FetchRead, FetchArrives, Retry, Collect, Visit
<1>2. cache \in Cache
    BY DEF PageTypes
<1>3. PageTypes' /\ Current'
    <2>1. CASE FetchRead
        BY <1>1, <1>2, <2>1 DEF FetchRead, PageTypes, Current, Same, Cache
    <2>2. CASE FetchArrives
        BY <1>1, <1>2, <2>2, NothingState DEF FetchArrives, PageTypes, Current, Same, Cache
    <2>3. CASE Retry
        BY <1>1, <1>2, <2>3, AskFacts DEF Retry, PageTypes, Current, Same
    <2>4. CASE Collect
        BY <1>1, <1>2, <2>4, NothingState DEF Collect, PageTypes, Current, Same, Cache
    <2>5. CASE Visit
        BY <1>1, <1>2, <2>5, AskFacts DEF Visit, PageTypes, Current, Same
    <2> QED BY <2>1, <2>2, <2>3, <2>4, <2>5
<1>4. JobTypes' /\ Alone' /\ Guarded' /\ Submitted' /\ Formed'
    BY <1>1, JobsUnchanged DEF Guarded, Submitted, Formed, Pending
<1> QED BY <1>3, <1>4

LEMMA FetchFailsStep == ASSUME PageInv, FetchFails PROVE PageInv'
<1> USE DEF PageInv
<1>1. UNCHANGED <<page, server, place, confirm, unseen, requests>> /\ jobs' = DialogGone
    BY DEF FetchFails
<1>2. cache' \in Cache /\ cache'.failed /\ cache'.fetch = "idle"
    BY NothingState DEF FetchFails, PageTypes, Cache
<1>3. /\ form' \in Dialog /\ form'.base = form.base /\ form'.hasty = form.hasty /\ form'.open = form.open
      /\ form'.text \in {form.text, form.base}
    BY DEF FetchFails, PageTypes, Dialog
<1>4. PageTypes' /\ Current'
    BY <1>1, <1>2, <1>3 DEF PageTypes, Current
<1>5. JobTypes' /\ Alone' /\ Guarded' /\ Submitted' /\ Formed'
    BY <1>1, <1>3, DialogGoneFacts, DialogGoneInv DEF Guarded, Submitted, Formed, Pending
<1> QED BY <1>4, <1>5

\* The page goes, with its dialogs; the requests are nobody's.
LEMMA LeaveStep ==
    ASSUME PageInv, NEW to \in {"list", "elsewhere"}, Leave(to)
    PROVE  PageInv'
<1> USE DEF PageInv
<1>1. place' = to /\ form' = ClosedForm /\ confirm' = Absent
    BY DEF Leave
<1>2. UNCHANGED <<page, server, cache, unseen, requests>>
    BY DEF Leave
<1>3. jobs' = [s \in Slots |-> [jobs[s] EXCEPT !.mine = FALSE, !.held = FALSE]]
    BY DEF Leave
<1>4. \A s \in Slots : /\ jobs'[s] \in Job /\ ~jobs'[s].mine /\ ~jobs'[s].held
                       /\ jobs'[s].stage = jobs[s].stage /\ jobs'[s].kind = jobs[s].kind
                       /\ jobs'[s].thing = jobs[s].thing /\ jobs'[s].val = jobs[s].val
    BY <1>3 DEF JobTypes, Job
<1>5. JobTypes'
    BY <1>3, <1>4 DEF JobTypes
<1>6. PageTypes'
    BY <1>1, <1>2, ClosedFormType DEF PageTypes
<1>7. Alone' /\ Guarded' /\ Submitted' /\ Formed'
    BY <1>1, <1>4, ClosedFormType DEF Alone, Guarded, Submitted, Formed
<1>8. Current'
    BY <1>1, <1>2 DEF Current, Same
<1> QED BY <1>5, <1>6, <1>7, <1>8

\* The dialogs.
LEMMA DialogSteps ==
    ASSUME PageInv,
           \/ OpenForm \/ Cancel
           \/ \E t \in Things : AskDelete(t) \/ \E v \in Vals : Enter(t, v)
    PROVE  PageInv'
<1> USE DEF PageInv
<1>1. UNCHANGED <<page, server, cache, place, jobs, unseen, requests>>
    BY DEF OpenForm, Cancel, AskDelete, Enter
<1>2. Current' /\ JobTypes' /\ Alone'
    BY <1>1, JobsUnchanged DEF Current, Same
<1>3. PageTypes' /\ Submitted' /\ Guarded' /\ Formed'
    <2>1. CASE OpenForm
        <3>0. UNCHANGED confirm /\ Sending \in BOOLEAN /\ page.form # "none"
            BY <2>1 DEF OpenForm, Sending
        <3>1. CASE \E t \in Shown : form' = [open |-> TRUE, text |-> <<t, cache.data[t]>>,
                                             base |-> <<t, cache.data[t]>>,
                                             hasty |-> Sending]
            <4>1. PICK t \in Shown : form' = [open |-> TRUE, text |-> <<t, cache.data[t]>>,
                                             base |-> <<t, cache.data[t]>>,
                                             hasty |-> Sending]
                BY <3>1
            <4>2. t \in Things /\ cache.data[t] \in Vals
                BY DEF Shown, PageTypes, Cache, State
            <4>3. <<t, cache.data[t]>> \in Text
                BY <4>2 DEF Text
            <4>4. form' \in Dialog /\ form'.text = form'.base
                BY <3>0, <4>1, <4>3 DEF Dialog
            <4> QED BY <1>1, <3>0, <4>4 DEF PageTypes, Submitted, Guarded, Formed, Pending
        <3>2. CASE form' = [form EXCEPT !.open = TRUE, !.hasty = Sending]
            <4>1. form' \in Dialog /\ (form'.hasty <=> Sending)
                BY <3>0, <3>2 DEF Dialog, PageTypes
            <4> QED BY <1>1, <3>0, <4>1 DEF PageTypes, Submitted, Guarded, Formed, Pending, Sending
        <3> QED BY <2>1, <3>1, <3>2 DEF OpenForm
    <2>2. CASE \E t \in Things, v \in Vals : Enter(t, v)
        <3>1. PICK t \in Things, v \in Vals : Enter(t, v)
            BY <2>2
        <3>2. <<t, v>> \in Text /\ Hasty \in BOOLEAN /\ UNCHANGED confirm /\ form.open
            BY <3>1 DEF Text, Hasty, Enter, Sending, PageTypes, Dialog
        <3>3. form' \in Dialog /\ (form'.hasty <=> Hasty)
            BY <3>1, <3>2 DEF Enter, PageTypes, Dialog
        <3> QED BY <1>1, <3>2, <3>3 DEF PageTypes, Submitted, Guarded, Formed, Hasty, Pending, Sending
    <2>3. CASE Cancel
        BY <1>1, <2>3 DEF Cancel, PageTypes, Submitted, Guarded, Formed, Pending
    <2>4. CASE \E t \in Things : AskDelete(t)
        BY <1>1, <2>4 DEF AskDelete, PageTypes, Submitted, Guarded, Formed, Pending
    <2> QED BY <2>1, <2>2, <2>3, <2>4
<1> QED BY <1>2, <1>3

\* A dialog is closed: the form stays, and is hasty if something is being sent.
LEMMA CloseFormStep == ASSUME PageInv, CloseForm PROVE PageInv'
<1> USE DEF PageInv
<1>1. UNCHANGED <<page, server, cache, place, confirm, unseen, requests>> /\ jobs' = DialogGone
    BY DEF CloseForm
<1>2. Hasty \in BOOLEAN
    BY DEF Hasty, Sending, PageTypes, Dialog
<1>3. form' \in Dialog /\ (form'.hasty <=> Hasty) /\ ~form'.open /\ form'.text = form.text
    BY <1>2 DEF CloseForm, PageTypes, Dialog
<1>4. PageTypes' /\ Current'
    BY <1>1, <1>3 DEF PageTypes, Current, Same
<1>5. JobTypes' /\ Alone'
    BY <1>1, DialogGoneInv
<1>6. Guarded'
    BY <1>1, DialogGoneFacts DEF Guarded, Pending
<1>7. Submitted' /\ Formed'
    BY <1>1, <1>3, DialogGoneFacts DEF Submitted, Formed, Hasty, Sending
<1> QED BY <1>4, <1>5, <1>6, <1>7

\* A request takes a free slot, and is the only one of its kind if none was pending.
LEMMA StartJob ==
    ASSUME PageInv, UNCHANGED page, NEW kind \in Kinds, NEW t \in Things, NEW v \in Vals \cup {Absent},
           kind = "submit" => v \in Vals,
           Start(kind, t, v),
           ~Pending(kind) \/ (kind = "delete" /\ ~page.guarded)
    PROVE  /\ JobTypes' /\ Alone' /\ requests' \in 0..MaxRequests
           /\ \A r \in Slots : jobs'[r].mine \/ jobs'[r].held =>
                 \/ jobs'[r] = jobs[r]
                 \/ jobs'[r].kind = kind /\ jobs'[r].thing = t /\ jobs'[r].val = v
<1> USE DEF PageInv
<1> DEFINE new == [stage |-> "sent", kind |-> kind, thing |-> t, val |-> v,
                  mine |-> TRUE, held |-> TRUE]
<1>1. PICK s \in Slots : jobs' = [jobs EXCEPT ![s] = new]
    BY DEF Start
<1>2. /\ new \in Job /\ new.kind = kind /\ new.thing = t /\ new.val = v
      /\ new.stage = "sent" /\ new.mine /\ new.held
    BY DEF Job
<1> HIDE DEF new
<1>3. jobs'[s] = new /\ \A r \in Slots \ {s} : jobs'[r] = jobs[r]
    BY <1>1 DEF JobTypes
<1>4. JobTypes'
    BY <1>1, <1>2, <1>3 DEF JobTypes
<1>5. Alone'
    BY <1>2, <1>3 DEF Alone, Pending
<1>6. requests' \in 0..MaxRequests
    BY PagesAssumption DEF Start, PageTypes
<1> QED BY <1>2, <1>3, <1>4, <1>5, <1>6

LEMMA SubmitStep == ASSUME PageInv, Submit PROVE PageInv'
<1> USE DEF PageInv
<1>1. UNCHANGED <<page, server, cache, place, confirm, unseen>>
    BY DEF Submit
<1>2. form.text \in Things \X Vals
    BY DEF Submit, PageTypes, Dialog, Text
<1>3. PICK t \in Things, v \in Vals : form.text = <<t, v>>
    BY <1>2
<1>4. Start("submit", t, v) /\ ~Pending("submit")
    BY <1>3 DEF Submit
<1>5. form' \in Dialog /\ form'.text = <<t, v>> /\ (form'.hasty <=> Sending)
    <2>1. Sending \in BOOLEAN
        BY DEF Sending
    <2> QED BY <1>3, <2>1 DEF Submit, PageTypes, Dialog
<1>6. /\ JobTypes' /\ Alone' /\ requests' \in 0..MaxRequests
      /\ \A r \in Slots : jobs'[r].mine \/ jobs'[r].held =>
            \/ jobs'[r] = jobs[r]
            \/ jobs'[r].kind = "submit" /\ jobs'[r].thing = t /\ jobs'[r].val = v
    BY <1>1, <1>4, StartJob DEF Kinds
<1>7. PageTypes' /\ Current'
    BY <1>1, <1>5, <1>6 DEF PageTypes, Current, Same
<1>8. Submitted' /\ Formed'
    BY <1>1, <1>4, <1>5, <1>6 DEF Submit, Submitted, Formed, Sending
<1>9. Guarded'
    BY <1>1, <1>6 DEF Guarded, Pending
<1> QED BY <1>6, <1>7, <1>8, <1>9

LEMMA ConfirmStep == ASSUME PageInv, Confirm PROVE PageInv'
<1> USE DEF PageInv
<1>1. UNCHANGED <<page, server, cache, place, form, unseen>>
    BY DEF Confirm
<1>2. ~Pending("delete") \/ ~page.guarded
    BY DEF Confirm, Guarded
<1>3. /\ JobTypes' /\ Alone' /\ requests' \in 0..MaxRequests
      /\ \A r \in Slots : jobs'[r].mine \/ jobs'[r].held =>
            jobs'[r] = jobs[r] \/ jobs'[r].kind = "delete"
    BY <1>1, <1>2, StartJob DEF Confirm, Kinds, PageTypes
<1>4. PageTypes' /\ Current'
    BY <1>1, <1>3 DEF Confirm, PageTypes, Current, Same
<1>5. Submitted' /\ Guarded' /\ Formed'
    BY <1>1, <1>3 DEF Confirm, Submitted, Guarded, Formed
<1> QED BY <1>3, <1>4, <1>5

LEMMA PressStep ==
    ASSUME PageInv, NEW kind \in {"restart", "pause", "resume"}, NEW t \in Things, Press(kind, t)
    PROVE  PageInv'
<1> USE DEF PageInv
<1>1. UNCHANGED <<page, server, cache, place, form, confirm, unseen>> /\ confirm = Absent
    BY DEF Press
<1>2. /\ JobTypes' /\ Alone' /\ requests' \in 0..MaxRequests
      /\ \A r \in Slots : jobs'[r].mine \/ jobs'[r].held =>
            jobs'[r] = jobs[r] \/ jobs'[r].kind = kind
    BY <1>1, StartJob DEF Press, Kinds
<1>3. PageTypes' /\ Current'
    BY <1>1, <1>2 DEF PageTypes, Current, Same
<1>4. Submitted' /\ Guarded' /\ Formed'
    BY <1>1, <1>2 DEF Submitted, Guarded, Formed
<1> QED BY <1>2, <1>3, <1>4

\* What the server does to a thing is noted.
LEMMA ServerChanged ==
    ASSUME PageInv, NEW t \in Things, NEW v \in Vals \cup {Absent},
           server' = [server EXCEPT ![t] = v], unseen' = unseen \cup {t},
           UNCHANGED <<page, cache, place>>
    PROVE  server' \in State /\ unseen' \in SUBSET Things /\ Current'
<1>1. server' \in State /\ unseen' \in SUBSET Things
    BY DEF PageInv, PageTypes, State
<1>2. \A copy : Same(copy) => Same(copy)'
    BY DEF PageInv, PageTypes, State, Same
<1>3. (cache.fetch = "read" => Same(cache.snap)) => (cache.fetch = "read" => Same(cache.snap))'
    BY DEF PageInv, PageTypes, State, Same
<1>4. Current'
    BY <1>3 DEF PageInv, PageTypes, State, Same, Current
<1> QED BY <1>1, <1>4

LEMMA HandledStep == ASSUME PageInv, NEW s \in Slots, Handled(s) PROVE PageInv'
<1> USE DEF PageInv
<1>1. UNCHANGED <<page, cache, place, form, confirm, requests>> /\ jobs[s].stage = "sent"
    BY DEF Handled
<1>2. PICK stage \in {"done", "refused"} : jobs' = [jobs EXCEPT ![s].stage = stage]
    BY DEF Handled
<1>3. \A r \in Slots : /\ jobs'[r] \in Job /\ (jobs'[r].stage # "none" <=> jobs[r].stage # "none")
                       /\ jobs'[r].kind = jobs[r].kind /\ jobs'[r].thing = jobs[r].thing
                       /\ jobs'[r].val = jobs[r].val /\ jobs'[r].mine = jobs[r].mine
                       /\ jobs'[r].held = jobs[r].held
    BY <1>1, <1>2 DEF JobTypes, Job
<1>4. JobTypes'
    <2>1. jobs' \in [Slots -> Job]
        BY <1>2, <1>3 DEF JobTypes
    <2> QED BY <1>3, <2>1 DEF JobTypes
<1>5. Alone' /\ Guarded' /\ Submitted' /\ Formed'
    BY <1>1, <1>3 DEF Alone, Guarded, Submitted, Formed, Pending
<1>6. server' \in State /\ unseen' \in SUBSET Things /\ Current'
    <2>1. CASE UNCHANGED <<server, unseen>>
        BY <1>1, <2>1 DEF PageTypes, Current, Same
    <2>2. CASE /\ \E v \in Outcome(jobs[s]) : server' = [server EXCEPT ![jobs[s].thing] = v]
               /\ unseen' = unseen \cup {jobs[s].thing}
        <3>1. jobs[s] \in Job /\ jobs[s].thing \in Things /\ (jobs[s].kind = "submit" => jobs[s].val \in Vals)
            BY <1>1 DEF JobTypes
        <3>2. Outcome(jobs[s]) \subseteq Vals \cup {Absent}
            BY <3>1 DEF Outcome, Job, Kinds, PageTypes, State
        <3> QED BY <1>1, <2>2, <3>1, <3>2, ServerChanged
    <2> QED BY <2>1, <2>2 DEF Handled
<1> QED BY <1>1, <1>4, <1>5, <1>6 DEF PageTypes

LEMMA SomebodyElseStep == ASSUME PageInv, NEW t \in Things, SomebodyElse(t) PROVE PageInv'
<1> USE DEF PageInv
<1>1. UNCHANGED <<page, cache, place, form, confirm, jobs>>
    BY DEF SomebodyElse
<1>2. server' \in State /\ unseen' \in SUBSET Things /\ Current'
    BY <1>1, ServerChanged DEF SomebodyElse
<1>3. requests' \in 0..MaxRequests
    BY PagesAssumption DEF SomebodyElse, PageTypes
<1>4. JobTypes' /\ Alone' /\ Guarded' /\ Submitted' /\ Formed'
    BY <1>1, JobsUnchanged DEF Guarded, Submitted, Formed, Pending
<1> QED BY <1>1, <1>2, <1>3, <1>4 DEF PageTypes

\* An announcement leaves what is shown asked for, or unseen what a joined fetch misses.
LEMMA AnnounceFacts ==
    ASSUME PageInv, NEW t \in Things, Announce(t), UNCHANGED <<page, server, place>>
    PROVE  cache' \in Cache /\ unseen' \in SUBSET Things /\ Current'
<1> USE DEF PageInv
<1>1. cache \in Cache /\ unseen' \in SUBSET Things
    BY DEF PageTypes, Announce
<1>2. CASE cache' = Ask(cache)
    BY <1>1, <1>2, AskFacts DEF Current
<1>3. CASE cache' = cache /\ unseen' = unseen
    BY <1>1, <1>3 DEF Current, Same
<1>4. CASE cache' = cache /\ cache.fetch = "idle" /\ ~(place = "page" /\ page.asks)
    BY <1>1, <1>4 DEF Current
<1> QED BY <1>2, <1>3, <1>4 DEF Announce

LEMMA AnsweredStep == ASSUME PageInv, NEW s \in Slots, Answered(s) PROVE PageInv'
<1> USE DEF PageInv
<1>1. /\ UNCHANGED <<page, server, place, requests>> /\ jobs[s].stage # "none"
      /\ jobs' = [(IF Closes(s) THEN DialogGone ELSE jobs) EXCEPT ![s] = NoJob]
    BY DEF Answered
<1>2. /\ jobs' \in [Slots -> Job] /\ jobs'[s] = NoJob
      /\ \A r \in Slots \ {s} :
            /\ jobs'[r].stage = jobs[r].stage /\ jobs'[r].kind = jobs[r].kind
            /\ jobs'[r].thing = jobs[r].thing /\ jobs'[r].val = jobs[r].val
            /\ jobs'[r].mine = jobs[r].mine /\ (jobs'[r].held => jobs[r].held)
    <2>1. CASE Closes(s)
        BY <1>1, <2>1, NoJobType, DialogGoneFacts
    <2>2. CASE ~Closes(s)
        BY <1>1, <2>2, NoJobType DEF JobTypes
    <2> QED BY <2>1, <2>2
<1>3. JobTypes'
    BY <1>2, NoJobType DEF JobTypes
<1>4. Alone'
    BY <1>1, <1>2, NoJobType DEF Alone
<1>5. confirm' \in {confirm, Absent}
    BY DEF Answered
<1>6. Guarded'
    BY <1>1, <1>2, <1>5, NoJobType DEF Guarded, Pending
<1>7. form' \in Dialog /\ Submitted' /\ Formed'
    <2>1. CASE UNCHANGED form
        BY <1>1, <1>2, <2>1, NoJobType DEF PageTypes, Submitted, Formed
    <2>2. CASE /\ form' \in Dialog /\ (form'.open => form.open)
               /\ \/ form'.text = form'.base
                  \/ form'.text = form.text /\ form'.base = form.base /\ form'.hasty = form.hasty
        BY <1>1, <1>2, <2>2, NoJobType DEF Submitted, Formed
    <2>3. CASE ~UNCHANGED form
        <3>1. jobs[s].mine /\ jobs[s].kind = "submit"
            BY <2>3 DEF Answered, FormAfter, Closes
        <3>2. form' = CASE page.form \in {"create", "edit", "own"} -> ClosedForm
                        [] page.form = "choice"  -> [form EXCEPT !.open = FALSE]
                        [] page.form = "command" -> form
            BY <2>3 DEF Answered, FormAfter
        <3>3. page.form \in {"create", "edit", "own", "choice", "command"}
            BY <3>1, PageFields DEF PageTypes, Formed
        <3>4. CASE form' = ClosedForm
            BY <2>2, <3>4, ClosedFormType DEF ClosedForm
        <3>5. CASE form' = [form EXCEPT !.open = FALSE]
            BY <2>2, <3>5 DEF PageTypes, Dialog
        <3> QED BY <2>3, <3>2, <3>3, <3>4, <3>5
    <2> QED BY <2>1, <2>3
<1>8. cache' \in Cache /\ unseen' \in SUBSET Things /\ Current'
    <2>1. CASE UNCHANGED <<cache, unseen>>
        BY <1>1, <2>1 DEF PageTypes, Current, Same
    <2>2. CASE Announce(jobs[s].thing)
        BY <1>1, <2>2, AnnounceFacts DEF JobTypes
    <2> QED BY <2>1, <2>2 DEF Answered
<1> QED BY <1>1, <1>3, <1>4, <1>5, <1>6, <1>7, <1>8 DEF PageTypes

LEMMA AnsweredAwayStep == ASSUME PageInv, NEW s \in Slots, AnsweredAway(s) PROVE PageInv'
<1> USE DEF PageInv
<1>1. place' = "list" /\ form' = ClosedForm /\ confirm' = Absent
    BY DEF AnsweredAway
<1>2. UNCHANGED <<page, server, cache, unseen, requests>>
    BY DEF AnsweredAway
<1>3. jobs' = [r \in Slots |-> IF r = s THEN NoJob
                                  ELSE [jobs[r] EXCEPT !.mine = FALSE, !.held = FALSE]]
    BY DEF AnsweredAway
<1>4. \A r \in Slots : /\ jobs'[r] \in Job /\ ~jobs'[r].mine /\ ~jobs'[r].held
                       /\ jobs'[r].stage # "none" =>
                             /\ jobs'[r].stage = jobs[r].stage /\ jobs'[r].kind = jobs[r].kind
                             /\ jobs'[r].thing = jobs[r].thing /\ jobs'[r].val = jobs[r].val
    <2> TAKE r \in Slots
    <2>1. CASE r = s
        BY <1>3, <2>1, NoJobType
    <2>2. CASE r # s
        BY <1>3, <2>2 DEF JobTypes, Job
    <2> QED BY <2>1, <2>2
<1>5. JobTypes'
    <2>1. jobs' \in [Slots -> Job]
        BY <1>3, <1>4
    <2> QED BY <1>4, <2>1 DEF JobTypes
<1>6. PageTypes'
    BY <1>1, <1>2, ClosedFormType DEF PageTypes
<1>7. Alone' /\ Guarded' /\ Submitted' /\ Formed'
    BY <1>1, <1>4, ClosedFormType DEF Alone, Guarded, Submitted, Formed
<1>8. Current'
    BY <1>1, <1>2 DEF Current, Same
<1> QED BY <1>5, <1>6, <1>7, <1>8

LEMMA PagesStep == PageInv /\ [PagesNext]_pageVars => PageInv'
<1> SUFFICES ASSUME PageInv, [PagesNext]_pageVars PROVE PageInv'
    OBVIOUS
<1>1. CASE UNCHANGED pageVars
    BY <1>1, PagesUnchanged
<1>2. CASE PageUser
    BY <1>2, FetchSteps, LeaveStep, DialogSteps, CloseFormStep, SubmitStep, ConfirmStep, PressStep DEF PageUser
<1>3. CASE PageAnswer
    BY <1>3, FetchSteps, HandledStep, AnsweredStep, AnsweredAwayStep DEF PageAnswer, Fetches
<1>4. CASE FetchFails \/ Collect \/ \E t \in Things : SomebodyElse(t)
    BY <1>4, FetchFailsStep, FetchSteps, SomebodyElseStep
<1> QED BY <1>1, <1>2, <1>3, <1>4 DEF PagesNext

LEMMA PagesAlways == PagesSpec => []PageInv
BY PagesInitInv, PagesStep, PTL DEF PagesSpec

\* The state of a resource page is well-formed, and the mutations that are pending in
\* what is mounted exclude each other where its buttons say so, for any things and
\* bounds.
THEOREM PagesTypeCorrect == PagesSpec => []PagesTypeOK
<1>1. PageInv => PagesTypeOK
    BY DEF PageInv, PageTypes, JobTypes, Alone, PagesTypeOK, Cache, Dialog, Job
<1> QED BY <1>1, PagesAlways, PTL

\* At rest every page shows what the server has, but for what others changed, what a
\* request changed that is not answered yet or was answered with an error, and what
\* a joined fetch missed: react-query's invalidation as the pages use it.
THEOREM PageAlwaysShows == PagesSpec => []PageShowsServer
<1>1. PageInv => PageShowsServer
    BY DEF PageInv, Current, Same, PageShowsServer, Visible
<1> QED BY <1>1, PagesAlways, PTL

LEMMA TypedStaysStep ==
    ASSUME PageInv, [PagesNext]_pageVars
    PROVE  form.open /\ form.text \notin {NoText, form.base} /\ form'.text # form.text =>
              \/ PageUser \/ form.hasty \/ place' # "page"
              \/ FetchFails /\ page.form = "own"
              \/ \E s \in Slots : jobs[s].stage = "done" /\ form.text = <<jobs[s].thing, jobs[s].val>>
<1> SUFFICES ASSUME form.text # form.base, form'.text # form.text, ~PageUser, ~form.hasty,
                    place' = "page", ~(FetchFails /\ page.form = "own")
             PROVE  \E s \in Slots :
                       jobs[s].stage = "done" /\ form.text = <<jobs[s].thing, jobs[s].val>>
    OBVIOUS
<1>1. \/ FetchRead \/ FetchArrives \/ FetchFails \/ Collect
      \/ \E t \in Things : SomebodyElse(t)
      \/ \E s \in Slots : Handled(s) \/ Answered(s) \/ AnsweredAway(s)
    BY DEF PagesNext, PageAnswer, Fetches, pageVars
<1>2. \E s \in Slots : Answered(s)
    BY <1>1 DEF FetchRead, FetchArrives, FetchFails, Collect, SomebodyElse, Handled, AnsweredAway
<1>3. PICK s \in Slots : Answered(s)
    BY <1>2
<1>4. jobs[s].stage = "done" /\ jobs[s].mine /\ jobs[s].kind = "submit"
    BY <1>3 DEF Answered, FormAfter, Closes
<1> QED BY <1>4 DEF PageInv, Submitted

\* What was typed stays through every answer but that to a submission of exactly
\* it: a form is emptied by the success of its own request, as long as it is neither
\* opened, changed, closed nor sent while an earlier one is under way, and no failing
\* list unmounts a roles dialog.
THEOREM TypedAlwaysStays == PagesSpec => TypedStays
BY PagesAlways, TypedStaysStep, PTL DEF PagesSpec, TypedStays

-----------------------------------------------------------------------------
(* The three together. *)

\* A behaviour of the run is one of the pages, one of the messages, one of the filter.
THEOREM BrowserIsTheThree == BrowserSpec => PagesSpec /\ MessagesSpec /\ CelSpec
<1>1. BrowserInit => PagesInit /\ MessagesInit /\ CelInit
    BY DEF BrowserInit
<1>2. [BrowserNext]_browserVars => [PagesNext]_pageVars
    BY DEF BrowserNext, browserVars
<1>3. [BrowserNext]_browserVars => [MessagesNext]_messageVars
    BY DEF BrowserNext, browserVars
<1>4. [BrowserNext]_browserVars => [CelNext]_celVars
    BY DEF BrowserNext, browserVars
<1> QED BY <1>1, <1>2, <1>3, <1>4, PTL DEF BrowserSpec, PagesSpec, MessagesSpec, CelSpec

\* All that the run checks of the pages, for every set of things and values.
THEOREM BrowserIsCorrect ==
    BrowserSpec => /\ [](TypeOK /\ PageShowsServer /\ TableIsOfLastPress /\ VerdictIsForFilter)
                   /\ TypedStays
<1>1. PagesTypeOK /\ MessagesTypeOK /\ CelTypeOK => TypeOK
    BY DEF TypeOK
<1> QED BY <1>1, BrowserIsTheThree, PagesTypeCorrect, MessagesTypeCorrect, CelTypeCorrect, PageAlwaysShows,
           TableOfLastPress, VerdictCorrect, TypedAlwaysStays, PTL
=============================================================================
