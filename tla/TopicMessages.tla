---------------------------- MODULE TopicMessages ----------------------------
(***************************************************************************)
(* How TopicMessagesPage.tsx fetches messages: the Fetch button, whose     *)
(* answers are cached under what the toolbar said and a number that grows  *)
(* with each press, and the Live Tail button, of which here only counts    *)
(* whether a tail runs (LiveTail has the rest). The user may leave the     *)
(* page and come back: its state is new then, the cache is not.            *)
(***************************************************************************)
EXTENDS Naturals

CONSTANTS
    Queries,      \* what the toolbar may say: partition, offset, limit, filter
    NoQuery,      \* no parameters, no messages
    MaxPresses,   \* bound: presses of Fetch in one visit
    MaxGrowth     \* bound: times the topic grows

ASSUME MessagesAssumption ==
    /\ NoQuery \notin Queries \cup [params : Queries, topic : 0..MaxGrowth]
    /\ MaxPresses \in Nat /\ MaxGrowth \in Nat

VARIABLES
    here,       \* is the page mounted?
    browse,     \* browseParams
    nonce,      \* fetchNonce
    tailing,    \* isLiveTail
    answers,    \* the query cache
    topic,      \* how often the topic has grown
    pressed     \* what it was at the last press; excused: see ShownIsFresh

messageVars == <<here, browse, nonce, tailing, answers, topic, pressed>>

AnswerKeys   == Queries \X (0..MaxPresses)
NoAnswer     == [stage |-> "idle", params |-> NoQuery, at |-> 0, data |-> NoQuery]
AtMount      == [topic |-> 0, excused |-> FALSE]

\* The queryKey: not the parameters alone, so that the same ones are asked again.
KeyWithoutNonce(params, n)  == <<params, 0>>                \* mutant
KeyOf(params, n) == <<params, n>>

CurrentKey == KeyOf(browse, nonce)
InUse(k)   == here /\ browse # NoQuery /\ k = CurrentKey

MessagesInit ==
    /\ here = TRUE
    /\ browse = NoQuery /\ nonce = 0 /\ tailing = FALSE
    /\ answers = [k \in AnswerKeys |-> NoAnswer]
    /\ topic = 0
    /\ pressed = AtMount
-----------------------------------------------------------------------------
\* The new key starts a fetch, unless one is under way for it since an earlier
\* visit; data of such a visit are shown until it is answered.
Asked(k, params) ==
    IF answers[k].stage # "idle" \/ InUse(k) THEN answers
    ELSE [answers EXCEPT ![k].stage = "asked", ![k].params = params]

\* An answer that is under way by then was asked before the press.
PressedAt(k) == [topic |-> topic, excused |-> answers[k].stage # "idle"]

\* By the button, or by Enter in the filter, which unlike the button also works
\* while messages are awaited; q is what the toolbar says. (When no Date can be
\* made of its timestamp that throws before anything is set.)
HandleFetch(q) ==
    /\ here /\ ~tailing /\ nonce < MaxPresses
    /\ nonce' = nonce + 1 /\ browse' = q
    /\ answers' = Asked(KeyOf(q, nonce + 1), q)
    /\ pressed' = PressedAt(KeyOf(q, nonce + 1))
    /\ UNCHANGED <<here, tailing, topic>>

Browsed(k) ==
    /\ answers[k].stage = "asked"
    /\ answers' = [answers EXCEPT ![k].stage = "read", ![k].at = topic]
    /\ UNCHANGED <<here, browse, nonce, tailing, topic, pressed>>

BrowseArrives(k) ==
    /\ answers[k].stage = "read"
    /\ answers' = [answers EXCEPT ![k] =
           [NoAnswer EXCEPT !.data = [params |-> answers[k].params, topic |-> answers[k].at]]]
    /\ UNCHANGED <<here, browse, nonce, tailing, topic, pressed>>

\* The error is shown above the messages that there are.
BrowseFails(k) ==
    /\ answers[k].stage # "idle"
    /\ answers' = [answers EXCEPT ![k] = [NoAnswer EXCEPT !.data = answers[k].data]]
    /\ pressed' = IF InUse(k) THEN [pressed EXCEPT !.excused = TRUE] ELSE pressed
    /\ UNCHANGED <<here, browse, nonce, tailing, topic>>

\* After five minutes without use.
CollectAnswer(k) ==
    /\ answers[k].stage = "idle" /\ answers[k] # NoAnswer /\ ~InUse(k)
    /\ answers' = [answers EXCEPT ![k] = NoAnswer]
    /\ UNCHANGED <<here, browse, nonce, tailing, topic, pressed>>

\* The messages in the table that come from a fetch.
FetchedMessages == IF ~here \/ tailing \/ browse = NoQuery THEN NoQuery ELSE answers[CurrentKey].data

StartTail ==                    \* toggleLiveTail
    /\ here /\ ~tailing
    /\ tailing' = TRUE
    /\ browse' = NoQuery
    /\ UNCHANGED <<here, nonce, answers, topic, pressed>>

\* toggleLiveTail, or the connection ends by itself.
TailEnds ==
    /\ here /\ tailing
    /\ tailing' = FALSE
    /\ UNCHANGED <<here, browse, nonce, answers, topic, pressed>>

\* The page is left with its state, or is there anew.
LeaveOrReturn ==
    /\ here' = ~here
    /\ browse' = NoQuery /\ nonce' = 0 /\ tailing' = FALSE
    /\ pressed' = AtMount
    /\ UNCHANGED <<answers, topic>>

TopicGrows ==
    /\ topic < MaxGrowth
    /\ topic' = topic + 1
    /\ UNCHANGED <<here, browse, nonce, tailing, answers, pressed>>
-----------------------------------------------------------------------------
MessagesNext ==
    \/ \E q \in Queries : HandleFetch(q)
    \/ \E k \in AnswerKeys : \/ Browsed(k) \/ BrowseArrives(k) \/ BrowseFails(k)
                             \/ CollectAnswer(k)
    \/ StartTail \/ TailEnds \/ LeaveOrReturn \/ TopicGrows

MessagesSpec == MessagesInit /\ [][MessagesNext]_messageVars
-----------------------------------------------------------------------------
\* Type correctness; nothing is asked under the number 0, which no press has, and
\* what is under way knows its parameters.
MessagesTypeOK ==
    /\ here \in BOOLEAN /\ tailing \in BOOLEAN
    /\ browse \in Queries \cup {NoQuery} /\ nonce \in 0..MaxPresses
    /\ topic \in 0..MaxGrowth
    /\ pressed \in [topic : 0..MaxGrowth, excused : BOOLEAN]
    /\ answers \in [AnswerKeys -> [stage : {"idle", "asked", "read"},
           params : Queries \cup {NoQuery}, at : 0..MaxGrowth,
           data : [params : Queries, topic : 0..MaxGrowth] \cup {NoQuery}]]
    /\ \A q \in Queries : answers[<<q, 0>>] = NoAnswer
    /\ \A k \in AnswerKeys : answers[k].stage = "idle" <=> answers[k].params = NoQuery

\* The messages shown are an answer to the parameters of the last press, also
\* when an earlier visit left answers and fetches in the cache.
ShownWasAsked == FetchedMessages # NoQuery => FetchedMessages.params = browse

\* Once Fetch is pressed and answered, the messages shown were read after the
\* press, not found in the cache. Excused: the fetch failed, or it is one that an
\* earlier visit started under the same key and may have read before the press.
ShownIsFresh ==
    FetchedMessages # NoQuery /\ answers[CurrentKey].stage = "idle" /\ ~pressed.excused
        => FetchedMessages.topic >= pressed.topic

\* While a tail runs nothing can be fetched behind it: what was fetched before it
\* does not come back, and nothing else appears, when it ends.
TailStandsAlone == tailing => browse = NoQuery

\* The table's fetched messages are those of the last press: for its parameters,
\* read after it, and not behind a tail.
TableIsOfLastPress == ShownWasAsked /\ ShownIsFresh /\ TailStandsAlone
=============================================================================
