------------------------------- MODULE Session -------------------------------
(***************************************************************************)
(* What a browser tab knows of the session: AuthProvider, RequireAuth, the *)
(* login page, the Logout button, the permissions query, and request(),    *)
(* which loads the whole page anew after an answer of 401. The cookie is   *)
(* shared with other tabs and may expire at any time.                      *)
(***************************************************************************)
EXTENDS Naturals, FiniteSets

CONSTANTS
    Accounts,    \* who may log in
    Nobody,      \* no session; also the owner of an empty set of permissions
    Everything,  \* permissions of nobody in particular: every action
    NoEmail,     \* the key of permissions when no email is known
    NoData       \* nothing under a key yet

ASSUME SessionAssumption ==
    /\ Nobody # NoEmail /\ Nobody # NoData /\ NoEmail # NoData
    /\ {Nobody, NoEmail, NoData} \cap Accounts = {}
    /\ Everything \notin Accounts \cup {Nobody}

Keys   == Accounts \cup {NoEmail}
Owners == Accounts \cup {Nobody}

VARIABLES
    enabled,   \* the server asks for a login (never changes)
    cookie,    \* whose session the browser's cookie is
    start,     \* the two requests at load, with the cookie they carry
    status,    \* AuthStatus as the tab has it: enabled or not
    user,      \* AuthUser: authenticated, who it is, the email if known
    login,     \* the login request of the form
    logouts,   \* logout requests under way (the button stays enabled): two at most
    request,   \* a request of a page or of the sidebar: with a session, or bare
    perms,     \* the permissions query, for each key
    past       \* of this load: who was signed in; and what disturbs the rest

sessionVars == <<enabled, cookie, start, status, user, login, logouts, request, perms, past>>

Presses     == {1, 2}
SignedOut   == [authenticated |-> FALSE, who |-> Nobody, email |-> NoEmail]
NoPerms     == [data |-> NoData, asked |-> FALSE, as |-> Nobody]
LogoutStage == {"none", "sent", "done"}
Idle        == [stage |-> "none", who |-> Nobody]

\* The sidebar asks once when it is shown; what fails is sent once more.
RequestStage == {"due", "carries", "bare", "idle", "failed"}
Request(stage) == [stage |-> stage, last |-> FALSE]

\* RequireAuth: what the tab shows.
View == IF start.stage # "over" THEN "loading"
        ELSE IF status /\ ~user.authenticated THEN "login" ELSE "app"

SessionInit ==
    /\ enabled \in BOOLEAN
    /\ cookie \in IF enabled THEN Accounts \cup {Nobody} ELSE {Nobody}
    /\ start = [stage |-> "asked", who |-> cookie]
    /\ status = FALSE
    /\ user = SignedOut
    /\ login = Idle
    /\ logouts = [i \in Presses |-> "none"]
    /\ request = Request("due")
    /\ perms = [k \in Keys |-> NoPerms]
    /\ past = [who |-> {}, disturbed |-> FALSE]
-----------------------------------------------------------------------------
\* The page is loaded with the cookie c: nothing of the tab is left, its requests
\* are aborted.
Reload(c) ==
    /\ past' = [who |-> {}, disturbed |-> FALSE]
    /\ cookie' = c
    /\ start' = [stage |-> "asked", who |-> c]
    /\ status' = FALSE /\ user' = SignedOut
    /\ login' = Idle /\ request' = Request("due")
    /\ logouts' = [i \in Presses |-> "none"]
    /\ perms' = [k \in Keys |-> NoPerms]

(* AuthProvider: the start. *)

StartAssumed ==                 \* mutant: no answer of /auth/me counts as a user
    /\ start.stage = "asked"
    /\ start' = [stage |-> "over", who |-> Nobody]
    /\ status' = enabled
    /\ user' = [authenticated |-> TRUE, who |-> start.who, email |-> NoEmail]
    /\ UNCHANGED <<enabled, cookie, login, logouts, request, perms, past>>

\* /auth/status is always the same, /auth/me goes by the cookie that came with it
\* (sessions are signed, the server keeps none) and knows the email.
StartArrives ==
    /\ start.stage = "asked"
    /\ start' = [stage |-> "over", who |-> Nobody]
    /\ status' = enabled
    /\ user' = IF start.who = Nobody THEN SignedOut
               ELSE [authenticated |-> TRUE, who |-> start.who, email |-> start.who]
    /\ past' = [past EXCEPT !.who = IF start.who = Nobody THEN {} ELSE {start.who}]
    /\ UNCHANGED <<enabled, cookie, login, logouts, request, perms>>

\* When one of the two fails the tab takes it that the server asks for no login.
StartFails ==
    /\ start.stage = "asked"
    /\ start' = [stage |-> "over", who |-> Nobody]
    /\ status' = FALSE
    /\ user' = SignedOut
    /\ UNCHANGED <<enabled, cookie, login, logouts, request, perms, past>>

(* The login page. *)

HandleSubmit(a) ==
    /\ View = "login" /\ login.stage = "none"
    /\ login' = [stage |-> "sent", who |-> a]
    /\ UNCHANGED <<enabled, cookie, start, status, user, logouts, request, perms, past>>

\* LoginBasic; or a refusal, for whatever reason, which leaves the cookie and the
\* tab as they are.
LoginHandled ==
    /\ login.stage = "sent"
    /\ \/ cookie' = login.who /\ login' = [login EXCEPT !.stage = "done"]
       \/ UNCHANGED cookie /\ login' = Idle
    /\ UNCHANGED <<enabled, start, status, user, logouts, request, perms, past>>

\* The answer has a name and roles, but no email. The application is shown, and
\* its sidebar asks, unless it still waits for an answer.
LoginAnswered ==
    /\ login.stage = "done"
    /\ login' = Idle
    /\ user' = [authenticated |-> TRUE, who |-> login.who, email |-> NoEmail]
    /\ past' = [past EXCEPT !.who = @ \cup {login.who}]
    /\ request' = IF request.stage \in {"idle", "failed"} THEN Request("due") ELSE request
    /\ UNCHANGED <<enabled, cookie, start, status, logouts, perms>>

\* An external provider: the browser goes there and comes back with a session.
LoginWithProvider(a) ==
    /\ View = "login" /\ enabled
    /\ Reload(a)
    /\ UNCHANGED enabled

(* Logout. *)

Logout ==
    /\ View = "app" /\ status /\ user.authenticated
    /\ \E i \in Presses :
          /\ logouts[i] = "none"
          /\ logouts' = [logouts EXCEPT ![i] = "sent"]
          /\ past' = [past EXCEPT !.disturbed = @ \/ \E j \in Presses : logouts[j] # "none"]
    /\ UNCHANGED <<enabled, cookie, start, status, user, login, request, perms>>

LogoutAssumed(i) ==             \* mutant: signed out here whatever the answer
    /\ logouts[i] = "sent"
    /\ \/ cookie' = Nobody /\ logouts' = [logouts EXCEPT ![i] = "done"] /\ UNCHANGED user
       \/ UNCHANGED cookie /\ logouts' = [logouts EXCEPT ![i] = "none"] /\ user' = SignedOut
    /\ UNCHANGED <<enabled, start, status, login, request, perms, past>>

\* Logout; when it fails the tab keeps its user.
LogoutHandled(i) ==
    /\ logouts[i] = "sent"
    /\ \/ cookie' = Nobody /\ logouts' = [logouts EXCEPT ![i] = "done"]
       \/ UNCHANGED cookie /\ logouts' = [logouts EXCEPT ![i] = "none"]
    /\ UNCHANGED <<enabled, start, status, user, login, request, perms, past>>

\* The caches of the queries stay as they are.
LogoutAnswered(i) ==
    /\ logouts[i] = "done"
    /\ logouts' = [logouts EXCEPT ![i] = "none"]
    /\ user' = SignedOut
    /\ UNCHANGED <<enabled, cookie, start, status, login, request, perms, past>>

(* Requests of the pages; the sidebar sends one when the application is shown. *)

PageRequest ==
    /\ View = "app" /\ request.stage \in {"due", "idle", "failed"}
    /\ request' = IF enabled /\ cookie = Nobody THEN [request EXCEPT !.stage = "bare"]
                  ELSE Request("carries")
    /\ UNCHANGED <<enabled, cookie, start, status, user, login, logouts, perms, past>>

\* What the answer says is the page's own affair.
PageAnswered ==
    /\ request.stage = "carries"
    /\ request' = Request("idle")
    /\ UNCHANGED <<enabled, cookie, start, status, user, login, logouts, perms, past>>

\* The network fails, or a proxy before the server: the query is sent once more, and
\* then not until somebody asks again, by going to another page or by a button.
RequestFails ==
    /\ request.stage = "bare"
    /\ request' = IF request.last THEN Request("failed")
                  ELSE [stage |-> "due", last |-> TRUE]
    /\ UNCHANGED <<enabled, cookie, start, status, user, login, logouts, perms, past>>

UnauthorizedShown ==            \* mutant: the error is shown and that is all
    /\ request.stage = "bare"
    /\ request' = Request("idle")
    /\ UNCHANGED <<enabled, cookie, start, status, user, login, logouts, perms, past>>

\* The middleware Auth answers 401, and request() loads the page anew: whatever is
\* shown by then, it is gone.
Unauthorized ==
    /\ request.stage = "bare"
    /\ Reload(cookie)
    /\ UNCHANGED enabled

(* usePermissions: a query for the email that is known, asked again at any time. *)

Needed(k) == View = "app" /\ user.authenticated /\ user.email = k

PermsAsk(k) ==
    /\ Needed(k) /\ ~perms[k].asked
    /\ perms' = [perms EXCEPT ![k].asked = TRUE, ![k].as = cookie]
    /\ UNCHANGED <<enabled, cookie, start, status, user, login, logouts, request, past>>

\* Permissions: without a session, no actions and no error.
PermsArrive(k) ==
    /\ perms[k].asked
    /\ perms' = [perms EXCEPT ![k] = [NoPerms EXCEPT !.data = perms[k].as]]
    /\ UNCHANGED <<enabled, cookie, start, status, user, login, logouts, request, past>>

PermsCollect(k) ==
    /\ ~Needed(k) /\ ~perms[k].asked /\ perms[k].data # NoData
    /\ perms' = [perms EXCEPT ![k] = NoPerms]
    /\ UNCHANGED <<enabled, cookie, start, status, user, login, logouts, request, past>>

\* useHasAction: whose permissions the tab's buttons go by. Where no login is asked
\* for, or the tab takes it so, every button is shown; Nobody's permissions are none.
Granted == IF ~status THEN Everything
           ELSE IF ~Needed(user.email) \/ perms[user.email].data = NoData THEN Nobody
           ELSE perms[user.email].data

(* The world outside the tab. *)

\* The session expires, the user presses the browser's reload button, or another
\* tab logs in or out.
Expire ==
    /\ cookie # Nobody
    /\ cookie' = Nobody
    /\ past' = [past EXCEPT !.disturbed = TRUE]
    /\ UNCHANGED <<enabled, start, status, user, login, logouts, request, perms>>

PressReload == Reload(cookie) /\ UNCHANGED enabled

OtherTab(a) ==
    /\ enabled /\ a # cookie
    /\ cookie' = a
    /\ past' = [past EXCEPT !.disturbed = TRUE]
    /\ UNCHANGED <<enabled, start, status, user, login, logouts, request, perms>>
-----------------------------------------------------------------------------
\* What goes on by itself: the sidebar's own request, a retry, and the answers.
PageRequests ==
    \/ request.stage = "due" /\ PageRequest
    \/ PageAnswered \/ RequestFails \/ Unauthorized

SessionNext ==
    \/ StartArrives \/ StartFails
    \/ LoginHandled \/ LoginAnswered \/ Logout
    \/ \E a \in Accounts : HandleSubmit(a) \/ LoginWithProvider(a) \/ OtherTab(a)
    \/ \E i \in Presses : LogoutHandled(i) \/ LogoutAnswered(i)
    \/ PageRequest \/ PageRequests
    \/ \E k \in Keys : \/ PermsAsk(k) \/ PermsArrive(k) \/ PermsCollect(k)
    \/ Expire \/ PressReload

SessionSpec == SessionInit /\ [][SessionNext]_sessionVars

\* The network is not down for ever: a start that is tried over and over succeeds
\* once. The sidebar asks when it is shown and once more after a failure, its requests
\* are answered or fail, and the browser reloads; nothing makes it ask a third time.
SessionFairness == SF_sessionVars(StartArrives) /\ WF_sessionVars(PageRequests)
-----------------------------------------------------------------------------
\* Type correctness; without a login at the server there are no sessions.
SessionTypeOK ==
    /\ enabled \in BOOLEAN /\ status \in BOOLEAN
    /\ cookie \in Owners
    /\ start \in [stage : {"asked", "over"}, who : Owners]
    /\ user \in [authenticated : BOOLEAN, who : Owners, email : Keys]
    /\ login \in [stage : {"none", "sent", "done"}, who : Owners]
    /\ logouts \in [Presses -> LogoutStage]
    /\ request \in [stage : RequestStage, last : BOOLEAN]
    /\ perms \in [Keys -> [data : Owners \cup {NoData}, asked : BOOLEAN,
                           as : Owners]]
    /\ past \in [who : SUBSET Accounts, disturbed : BOOLEAN]
    /\ user.authenticated <=> user.who # Nobody
    /\ ~enabled => cookie = Nobody /\ ~status

Quiet == login.stage = "none" /\ \A i \in Presses : logouts[i] = "none"

\* Once the requests are answered, the tab believes the session that the cookie
\* has: a refused login and a failed logout change neither. Not promised when the
\* session expired, another tab changed it, or Logout was pressed twice: the late
\* answer of the second signs out whoever logged in meanwhile.
TabKnowsSession ==
    start.stage = "over" /\ status /\ Quiet /\ ~past.disturbed =>
        user.who = cookie

\* Where the tab knows that a login is asked for, its buttons go by the permissions
\* of the account it shows, or by none, though no cache is cleared at logout: for an
\* account whose email is known whoever was signed in before, for one without only if
\* it is the first since the page was loaded (form logins share the key of an unknown
\* email, and the second sees the first one's buttons). A tab whose start failed shows
\* every button, as it does where no login is asked for.
PermissionsAreMine ==
    status /\ ~past.disturbed /\ (user.email # NoEmail \/ Cardinality(past.who) <= 1) =>
        Granted \in {user.who, Nobody}

\* The tab agrees with the cookie, and its buttons with the tab.
TabAgrees == TabKnowsSession /\ PermissionsAreMine

\* A tab that is loaded without a session comes to the login page, though its
\* first requests may fail and make it show the application: the sidebar's
\* request is answered with 401 and the page is loaded again. It does not if that
\* request, too, fails both times it is sent: then the application stays.
StartLeadsToLogin ==
    enabled /\ View = "loading" /\ cookie = Nobody ~>
        View = "login" \/ cookie # Nobody \/ request.stage = "failed"
=============================================================================
