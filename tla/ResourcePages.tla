---------------------------- MODULE ResourcePages ----------------------------
(***************************************************************************)
(* The pages of the web interface that show what the server has and change *)
(* it: topics, ACLs, users, schemas, connectors, groups, roles. They share  *)
(* one pattern: a query whose result is cached, a form in a dialog, a      *)
(* confirmation, and mutations that ask for the query again when they      *)
(* succeed. A page is described by what is particular to it; a behaviour   *)
(* is about one page, which the user visits and leaves.                    *)
(*                                                                         *)
(* The query cache (@tanstack/react-query 5) is modelled by what it does:  *)
(* a mount fetches unless a fetch is under way, data stay after the page   *)
(* is left, an invalidation drops a fetch only when there are data, and a  *)
(* mutation's callback runs though its page is gone.                       *)
(***************************************************************************)
EXTENDS Naturals, FiniteSets

CONSTANTS
    Things,       \* topics, rules, users, subjects, connectors ...
    Vals,         \* what may be said of one: configuration, roles, state
    Absent,       \* no such thing
    NoText,       \* an empty form
    InitialServer,\* what the server may have when the page is opened
    MaxRequests   \* bound: changes requested on the page or made by others

ASSUME PagesAssumption ==
    /\ Absent \notin Vals \cup Things /\ NoText \notin Things \X Vals
    /\ InitialServer \subseteq [Things -> Vals \cup {Absent}]
    /\ MaxRequests \in Nat

(* What is particular to a page.                                            *)
(*   form:    none; create, emptied by a success; edit, filled from what    *)
(*            the page shows; own, the same in a component of its own, to   *)
(*            which its mutation belongs as well; choice and command, which *)
(*            a success leaves as they are                                  *)
(*   delete:  none; first, the confirmation closes before the request;      *)
(*            stays, it waits for the answer; leaves, a success goes on to  *)
(*            the list                                                      *)
(*   guarded: deleting is disabled while a deletion is under way            *)
(*   presses: there are buttons to restart, pause and resume                *)
(*   polls:   it asks again by itself                                       *)
(*   asks:    it has a query                                                *)
ReadOnly == [form |-> "none", delete |-> "none", guarded |-> TRUE,
             presses |-> FALSE, polls |-> FALSE, asks |-> TRUE]

BrokersPage        == ReadOnly
ClustersPage       == ReadOnly
ConsumerGroupsPage == ReadOnly
SchemaDetailPage   == ReadOnly
DashboardPage      == [ReadOnly EXCEPT !.polls = TRUE]
TopicsPage         == [ReadOnly EXCEPT !.form = "create", !.delete = "first", !.guarded = FALSE]
AclPage            == [ReadOnly EXCEPT !.form = "create", !.delete = "first"]
UsersPage          == [ReadOnly EXCEPT !.form = "create", !.delete = "first"]
SchemaRegistryPage == [ReadOnly EXCEPT !.form = "create", !.delete = "first"]
KafkaConnectPage   == [ReadOnly EXCEPT !.form = "create", !.delete = "first", !.presses = TRUE]
TopicDetailPage    == [ReadOnly EXCEPT !.delete = "leaves"]
ConnectorDetailPage ==
    [ReadOnly EXCEPT !.form = "edit", !.delete = "leaves", !.presses = TRUE]
ConsumerGroupDetailPage == [ReadOnly EXCEPT !.form = "choice"]
AdminUsersPage     == [ReadOnly EXCEPT !.form = "own", !.delete = "stays"]
KsqlPage           == [ReadOnly EXCEPT !.form = "command", !.asks = FALSE]

Pages == {BrokersPage, ClustersPage, ConsumerGroupsPage, SchemaDetailPage, DashboardPage,
          TopicsPage, AclPage, UsersPage, SchemaRegistryPage, KafkaConnectPage,
          TopicDetailPage, ConnectorDetailPage, ConsumerGroupDetailPage, AdminUsersPage,
          KsqlPage}

State == [Things -> Vals \cup {Absent}]
Nothing == [t \in Things |-> Absent]
Text  == (Things \X Vals) \cup {NoText}

VARIABLES
    page,      \* which page the behaviour is about
    server,    \* what the server has
    cache,     \* the page's query: data, and the fetch under way
    place,     \* where the user is: on the page, on its list, elsewhere
    form,      \* the dialog: open, what it holds, whether it was hasty
    confirm,   \* what the confirmation asks about
    jobs,      \* mutations under way (bound: two)
    unseen,    \* things changed since they were read, of which the page was not told
    requests   \* changes requested or made by others so far

pageVars == <<page, server, cache, place, form, confirm, jobs, unseen, requests>>

Slots == 1..2
Kinds == {"submit", "delete", "restart", "pause", "resume"}
\* mine: the page that sent it is still there, so its callback has effect; held: so
\* is the component whose mutation it is, which knows that it is pending.
NoJob == [stage |-> "none", kind |-> "submit", thing |-> Absent, val |-> Absent,
          mine |-> FALSE, held |-> FALSE]
\* hasty: opened, changed, closed or sent while a submission was under way.
ClosedForm == [open |-> FALSE, text |-> NoText, base |-> NoText, hasty |-> FALSE]

\* A mutation of what is mounted now: what `isPending` tells.
Pending(kind) == \E s \in Slots : jobs[s].kind = kind /\ jobs[s].held

\* A submission whose success will close the dialog, pending or not.
Sending == \E s \in Slots : jobs[s].kind = "submit" /\ jobs[s].mine

\* A dialog that is a component of its own goes, and its mutation with it: the
\* request goes on, and closes the dialog of the page, but no next one waits for it.
DialogGone ==
    IF page.form = "own"
    THEN [s \in Slots |-> IF jobs[s].kind = "submit" THEN [jobs[s] EXCEPT !.held = FALSE]
                                                     ELSE jobs[s]]
    ELSE jobs

\* The page shows its table or its object: not a skeleton, not an error.
Visible == place = "page" /\ cache.loaded /\ ~cache.failed

Shown == {t \in Things : cache.data[t] # Absent}

PagesInit ==
    /\ page \in Pages
    /\ server \in InitialServer
    /\ cache = [loaded |-> ~page.asks, failed |-> FALSE, data |-> Nothing,
                fetch |-> IF page.asks THEN "asked" ELSE "idle",
                snap |-> Nothing]
    /\ place = "page"
    /\ form = ClosedForm
    /\ confirm = Absent
    /\ jobs = [s \in Slots |-> NoJob]
    /\ unseen = Things
    /\ requests = 0
-----------------------------------------------------------------------------
(* The query. *)

\* A fetch starts; an error without data gives way to the skeleton.
Ask(c) == [c EXCEPT !.fetch = "asked", !.snap = Nothing, !.failed = @ /\ c.loaded]

FetchRead ==
    /\ cache.fetch = "asked"
    /\ cache' = [cache EXCEPT !.fetch = "read", !.snap = server]
    /\ unseen' = {}
    /\ UNCHANGED <<page, server, place, form, confirm, jobs, requests>>

FetchArrives ==
    /\ cache.fetch = "read"
    /\ cache' = [cache EXCEPT !.fetch = "idle", !.data = cache.snap, !.loaded = TRUE,
                              !.failed = FALSE, !.snap = Nothing]
    /\ UNCHANGED <<page, server, place, form, confirm, jobs, unseen, requests>>

\* The error view takes the place of everything else. Dialogs come back with the
\* page, but one that is a component of its own starts from its user again and
\* knows nothing of a request it sent.
FetchFails ==
    /\ cache.fetch \in {"asked", "read"}
    /\ cache' = [cache EXCEPT !.fetch = "idle", !.failed = TRUE, !.snap = Nothing]
    /\ form' = IF page.form = "own" THEN [form EXCEPT !.text = form.base] ELSE form
    /\ jobs' = DialogGone
    /\ UNCHANGED <<page, server, place, confirm, unseen, requests>>

\* ErrorAlert's button, and the interval of a page that polls.
Retry ==
    /\ place = "page" /\ cache.fetch = "idle"
    /\ cache.failed \/ page.polls
    /\ cache' = Ask(cache)
    /\ UNCHANGED <<page, server, place, form, confirm, jobs, unseen, requests>>

\* Data of a page that is not in use are dropped after five minutes.
Collect ==
    /\ place # "page" /\ page.asks /\ cache.loaded /\ cache.fetch = "idle"
    /\ cache' = [cache EXCEPT !.loaded = FALSE, !.failed = FALSE,
                              !.data = Nothing]
    /\ UNCHANGED <<page, server, place, form, confirm, jobs, unseen, requests>>

VisitWithoutFetch ==            \* mutant: cached data count as fresh
    /\ place # "page"
    /\ place' = "page"
    /\ UNCHANGED <<page, server, cache, form, confirm, jobs, unseen, requests>>

\* The page is mounted: it fetches, or joins the fetch that is under way.
Visit ==
    /\ place # "page"
    /\ place' = "page"
    /\ cache' = IF page.asks /\ cache.fetch = "idle" THEN Ask(cache) ELSE cache
    /\ UNCHANGED <<page, server, form, confirm, jobs, unseen, requests>>

\* The page is unmounted with its dialogs; its requests go on.
Leave(to) ==
    /\ place # to /\ (to = "list" => page.delete = "leaves")
    /\ place' = to
    /\ form' = ClosedForm
    /\ confirm' = Absent
    /\ jobs' = [s \in Slots |-> [jobs[s] EXCEPT !.mine = FALSE, !.held = FALSE]]
    /\ UNCHANGED <<page, server, cache, unseen, requests>>

(* The form. *)

Hasty == form.hasty \/ Sending

OpenForm ==
    /\ Visible /\ page.form # "none" /\ ~form.open /\ confirm = Absent
    /\ \/ /\ page.form \in {"edit", "own"}
          /\ \E t \in Shown : form' = [open |-> TRUE, text |-> <<t, cache.data[t]>>,
                                       base |-> <<t, cache.data[t]>>,
                                       hasty |-> Sending]
       \/ /\ page.form \in {"create", "choice", "command"}
          /\ form' = [form EXCEPT !.open = TRUE, !.hasty = Sending]
    /\ UNCHANGED <<page, server, cache, place, confirm, jobs, unseen, requests>>

\* Entering: any thing for a new one, one that is shown for a choice, and what is
\* said of it for an edit.
Enter(t, v) ==
    /\ Visible /\ form.open /\ form.text # <<t, v>>
    /\ page.form \in {"edit", "own"} => t = form.base[1]
    /\ page.form = "choice" => t \in Shown
    /\ form' = [form EXCEPT !.text = <<t, v>>, !.hasty = Hasty]
    /\ UNCHANGED <<page, server, cache, place, confirm, jobs, unseen, requests>>

CloseForm ==
    /\ Visible /\ form.open
    /\ form' = [form EXCEPT !.open = FALSE, !.hasty = Hasty]
    /\ jobs' = DialogGone
    /\ UNCHANGED <<page, server, cache, place, confirm, unseen, requests>>

(* Requests. *)

Start(kind, t, v) ==
    /\ requests < MaxRequests
    /\ requests' = requests + 1
    /\ \E s \in Slots :
          /\ jobs[s] = NoJob /\ \A r \in Slots : r < s => jobs[r] # NoJob
          /\ jobs' = [jobs EXCEPT ![s] = [stage |-> "sent", kind |-> kind, thing |-> t,
                                          val |-> v, mine |-> TRUE, held |-> TRUE]]

SubmitWhilePending ==           \* mutant: the button stays enabled
    /\ Visible /\ form.open /\ form.text # NoText
    /\ Start("submit", form.text[1], form.text[2])
    /\ form' = [form EXCEPT !.hasty = Sending]
    /\ UNCHANGED <<page, server, cache, place, confirm, unseen>>

\* Not while this dialog's submission is pending; of one that an earlier dialog sent
\* it does not know.
Submit ==
    /\ Visible /\ form.open /\ form.text # NoText /\ ~Pending("submit")
    /\ Start("submit", form.text[1], form.text[2])
    /\ form' = [form EXCEPT !.hasty = Sending]
    /\ UNCHANGED <<page, server, cache, place, confirm, unseen>>

AskDelete(t) ==
    /\ Visible /\ page.delete # "none" /\ t \in Shown /\ ~form.open /\ confirm = Absent
    /\ page.guarded /\ page.delete # "stays" => ~Pending("delete")
    /\ confirm' = t
    /\ UNCHANGED <<page, server, cache, place, form, jobs, unseen, requests>>

Cancel ==
    /\ Visible /\ confirm # Absent
    /\ confirm' = Absent
    /\ UNCHANGED <<page, server, cache, place, form, jobs, unseen, requests>>

Confirm ==
    /\ Visible /\ confirm # Absent
    /\ page.delete = "stays" => ~Pending("delete")
    /\ Start("delete", confirm, Absent)
    /\ confirm' = IF page.delete = "stays" THEN confirm ELSE Absent
    /\ UNCHANGED <<page, server, cache, place, form, unseen>>

Press(kind, t) ==
    /\ Visible /\ page.presses /\ t \in Shown /\ ~form.open /\ confirm = Absent
    /\ ~Pending(kind)
    /\ Start(kind, t, Absent)
    /\ UNCHANGED <<page, server, cache, place, form, confirm, unseen>>

\* What an accepted request leaves of its thing: what was submitted, nothing, the
\* same (restart), or a state of the server's (pause, resume).
Outcome(j) ==
    CASE j.kind = "submit"  -> {j.val}
      [] j.kind = "delete"  -> {Absent}
      [] j.kind = "restart" -> {server[j.thing]}
      [] j.kind \in {"pause", "resume"} -> Vals

\* A statement of ksqlDB changes things of which no page here knows. What was done
\* may still be answered with an error: a connector is created or changed and then
\* asked for (connect/client.go:161-177), and any answer may be late or lost.
Handled(s) ==
    /\ jobs[s].stage = "sent"
    /\ \/ /\ jobs[s].kind = "submit" \/ server[jobs[s].thing] # Absent
          /\ \E v \in Outcome(jobs[s]) : server' = [server EXCEPT ![jobs[s].thing] = v]
          /\ \E answer \in {"done", "refused"} : jobs' = [jobs EXCEPT ![s].stage = answer]
          /\ unseen' = unseen \cup {jobs[s].thing}
       \/ /\ jobs' = [jobs EXCEPT ![s].stage = "refused"]
          /\ UNCHANGED <<server, unseen>>
    /\ UNCHANGED <<page, cache, place, form, confirm, requests>>

\* invalidateQueries: a page in use asks again, unless its first fetch is under
\* way, which it joins; one that is not in use asks when it is visited, or joins.
Announce(t) ==
    LET inUse == place = "page" /\ page.asks IN
    /\ cache' = IF inUse /\ (cache.loaded \/ cache.fetch = "idle") THEN Ask(cache) ELSE cache
    /\ unseen' = IF cache.fetch = "idle" \/ (inUse /\ cache.loaded) THEN unseen \ {t} ELSE unseen

\* The success of a submission reaches the page's dialog, whichever is open by then.
Closes(s) == jobs[s].stage = "done" /\ jobs[s].mine /\ jobs[s].kind = "submit"

FormWipedAlways(s) ==           \* mutant: onSettled instead of onSuccess
    IF jobs[s].mine /\ jobs[s].kind = "submit" THEN form' = ClosedForm ELSE UNCHANGED form

\* What an accepted submission does to the dialog of the page that sent it.
FormAfter(s) ==
    IF ~Closes(s) THEN UNCHANGED form
    ELSE form' = CASE page.form \in {"create", "edit", "own"} -> ClosedForm
                   [] page.form = "choice"  -> [form EXCEPT !.open = FALSE]
                   [] page.form = "command" -> form

\* An accepted deletion that leaves for the list.
Leads(s) == jobs[s].stage = "done" /\ jobs[s].kind = "delete" /\ page.delete = "leaves"

\* The answer reaches the browser.
Answered(s) ==
    /\ jobs[s].stage \in {"done", "refused"} /\ ~Leads(s)
    /\ FormAfter(s)
    /\ confirm' = IF jobs[s].stage = "done" /\ jobs[s].mine /\ jobs[s].kind = "delete"
                     /\ page.delete = "stays"
                  THEN Absent ELSE confirm
    /\ IF jobs[s].stage = "done" THEN Announce(jobs[s].thing) ELSE UNCHANGED <<cache, unseen>>
    /\ jobs' = [(IF Closes(s) THEN DialogGone ELSE jobs) EXCEPT ![s] = NoJob]
    /\ UNCHANGED <<page, server, place, requests>>

\* It tells the list, not the page, and leads there, wherever the user is by then.
AnsweredAway(s) ==
    /\ Leads(s)
    /\ place' = "list"
    /\ form' = ClosedForm
    /\ confirm' = Absent
    /\ jobs' = [r \in Slots |-> IF r = s THEN NoJob 
                                  ELSE [jobs[r] EXCEPT !.mine = FALSE, !.held = FALSE]]
    /\ UNCHANGED <<page, server, cache, unseen, requests>>

SomebodyElse(t) ==
    /\ requests < MaxRequests
    /\ requests' = requests + 1
    /\ \E v \in (Vals \cup {Absent}) \ {server[t]} : server' = [server EXCEPT ![t] = v]
    /\ unseen' = unseen \cup {t}
    /\ UNCHANGED <<page, cache, place, form, confirm, jobs>>
-----------------------------------------------------------------------------
PageUser ==
    \/ Retry \/ Visit \/ Leave("list") \/ Leave("elsewhere")
    \/ OpenForm \/ CloseForm \/ Submit \/ Cancel \/ Confirm
    \/ \E t \in Things : \/ AskDelete(t) \/ (\E kind \in {"restart", "pause", "resume"} : Press(kind, t))
                         \/ \E v \in Vals : Enter(t, v)

Fetches == FetchRead \/ FetchArrives

PageAnswer ==
    \/ Fetches
    \/ \E s \in Slots : Handled(s) \/ Answered(s) \/ AnsweredAway(s)

PagesNext == PageUser \/ PageAnswer \/ FetchFails \/ Collect \/ \E t \in Things : SomebodyElse(t)

PagesSpec == PagesInit /\ [][PagesNext]_pageVars
-----------------------------------------------------------------------------
\* Type correctness; what is mounted never has two submissions pending at once, nor
\* two deletions where the button is guarded. (A roles dialog that is cancelled while
\* saving and opened again may save a second time beside the first.)
PagesTypeOK ==
    /\ page \in Pages /\ server \in State
    /\ cache \in [loaded : BOOLEAN, failed : BOOLEAN, data : State,
                  fetch : {"idle", "asked", "read"}, snap : State]
    /\ place \in {"page", "list", "elsewhere"}
    /\ form \in [open : BOOLEAN, text : Text, base : Text, hasty : BOOLEAN]
    /\ confirm \in Things \cup {Absent}
    /\ jobs \in [Slots -> [stage : {"none", "sent", "done", "refused"}, kind : Kinds,
                           thing : Things \cup {Absent}, val : Vals \cup {Absent},
                           mine : BOOLEAN, held : BOOLEAN]]
    /\ unseen \in SUBSET Things /\ requests \in 0..MaxRequests
    /\ \A s, r \in Slots : s # r /\ jobs[s].held /\ jobs[r].held /\ jobs[s].kind = jobs[r].kind
          => jobs[s].kind = "delete" /\ ~page.guarded

\* At rest a page shows what the server has, except for what others changed since
\* it was read, for what a request changed that is still under way or was answered
\* with an error, of which the page hears nothing, and for what was announced during
\* a fetch that is joined. Apart from these, neither a request that overlaps a later
\* fetch, nor an answer that comes after the page is left, nor coming back to it, nor
\* dropped data make it stay with old data.
PageShowsServer ==
    Visible /\ page.asks /\ cache.fetch = "idle" =>
        \A t \in Things : cache.data[t] = server[t] \/ t \in unseen

\* What was typed stays until the user goes, or until the server has taken exactly
\* that; unless the form was opened, changed or sent while an earlier submission was
\* under way, which then closes and empties it (of a roles dialog the next one does
\* not even know that the one before it is still saving), or the list fails under a
\* dialog with a state of its own.
TypedStays ==
    [][form.open /\ form.text \notin {NoText, form.base} /\ form'.text # form.text =>
          \/ PageUser \/ form.hasty \/ place' # "page"
          \/ FetchFails /\ page.form = "own"
          \/ \E s \in Slots : jobs[s].stage = "done" /\ form.text = <<jobs[s].thing, jobs[s].val>>
      ]_pageVars
=============================================================================
