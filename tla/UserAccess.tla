----------------------------- MODULE UserAccess -----------------------------
(***************************************************************************)
(* Who is a user of KafkaUI, with which roles, and what the roles let them *)
(* do to other users: the login handlers (internal/api/handlers/auth.go),  *)
(* the admin user handlers (admin_users.go), the role middleware           *)
(* (internal/api/middleware/auth.go) and the SQLite store they share       *)
(* (internal/auth/store.go).                                               *)
(*                                                                         *)
(* The store has one connection, so a statement or transaction is one      *)
(* step; a handler issues several, and other handlers, or a crash, come    *)
(* between them.  A session is a signed cookie with the user's id: nothing *)
(* on the server ends it, so it is state of the browser.                   *)
(***************************************************************************)
EXTENDS Naturals, Sequences, FiniteSets

CONSTANTS
    Browsers,      \* where people log in and send requests from
    Accounts,      \* identities at the providers: provider and external id
    AccountOf,     \* the account that is used in a browser
    Names,         \* what a request may give for role names
    Roles,         \* those that are well formed (validateRole)
    Admin,         \* the role the admin routes ask for
    AutoRoles,     \* what the auto-assignment rules give an account
    DefaultRoles,  \* {auth.default-role}, or {} without one
    ConfigRoles,   \* auth.basic.users: the roles of an account, in order
    Requestable,   \* the role sets an admin may ask for
    MaxUsers,      \* bound: user rows created over time
    MaxBusy,       \* bound: requests that are served at a time
    StoreFaults,   \* may writing a role assignment fail?
    MayCrash,      \* may the process be killed?
    None           \* no user id, no account

Ids == 1..MaxUsers

ASSUME AccessAssumption ==
    /\ MaxUsers \in Nat /\ MaxBusy \in Nat
    /\ Admin \in Roles
    /\ Roles \subseteq Names
    /\ DefaultRoles \subseteq Roles
    /\ AccountOf \in [Browsers -> Accounts]
    /\ AutoRoles \in [Accounts -> SUBSET Roles]
    /\ ConfigRoles \in [Accounts -> Seq(Roles)]
    /\ Requestable \subseteq SUBSET Names
    /\ StoreFaults \in BOOLEAN
    /\ MayCrash \in BOOLEAN
    /\ None \notin Ids /\ None \notin Accounts

VARIABLES
    rows,      \* table users: id -> its account, or None
    assigned,  \* table role_assignments: id -> roles
    lastId,    \* the ids given out so far are 1..lastId
    cookie,    \* browser -> the user id in its session cookie, or None
    task,      \* browser -> the handler that serves its request
    override   \* history, id -> the roles an admin last gave it and whether no
               \* login of that user was under way then; or None

vars == <<rows, assigned, lastId, cookie, task, override>>

Stages == {"idle", "load", "count", "promote", "seedcheck", "seed", "session",
           "roles", "target", "write", "delete"}

Task == [stage : Stages, user : Ids \union {None}, created : BOOLEAN,
         op : {"none", "set", "delete"}, target : Ids \union {None},
         want : SUBSET Names, next : Nat]

TypeOK ==
    /\ rows \in [Ids -> Accounts \union {None}]
    /\ assigned \in [Ids -> SUBSET Roles]
    /\ lastId \in 0..MaxUsers
    /\ cookie \in [Browsers -> Ids \union {None}]
    /\ task \in [Browsers -> Task]
    /\ override \in [Ids -> [roles : SUBSET Roles, calm : BOOLEAN] \union {None}]

Idle == [stage |-> "idle", user |-> None, created |-> FALSE, op |-> "none",
         target |-> None, want |-> {}, next |-> 1]

Users     == {u \in Ids : rows[u] # None}
Idling(b) == task[b].stage = "idle"
Room      == Cardinality({b \in Browsers : ~Idling(b)}) < MaxBusy
At(b, s)  == task[b].stage = s
Goto(b, s) == task' = [task EXCEPT ![b].stage = s]
Finish(b) == task' = [task EXCEPT ![b] = Idle]

\* ResolveRoles for an account: roles in the table, else automatic ones, else
\* the default.
Effective(own, account) ==
    IF own # {} THEN own
    ELSE IF AutoRoles[account] # {} THEN AutoRoles[account]
    ELSE DefaultRoles

\* INSERT OR IGNORE INTO role_assignments: the foreign key refuses a user that
\* is gone.
InsertRole(u, r) ==
    assigned' = IF u \in Users THEN [assigned EXCEPT ![u] = @ \union {r}] ELSE assigned

-----------------------------------------------------------------------------
\* A login: LoginBasic or Callback from upsertAndResolve on.

\* UpsertUser: one INSERT ... ON CONFLICT ... RETURNING id.
UpsertTwice(b) ==            \* mutant: no ON CONFLICT
    /\ Idling(b) /\ Room /\ lastId < MaxUsers
    /\ lastId' = lastId + 1
    /\ rows' = [rows EXCEPT ![lastId + 1] = AccountOf[b]]
    /\ task' = [task EXCEPT ![b] = [Idle EXCEPT !.stage = "load", !.user = lastId + 1,
                                                !.created = TRUE]]
    /\ UNCHANGED <<assigned, cookie, override>>

UpsertUser(b) ==
    /\ Idling(b) /\ Room
    /\ \/ \E u \in Users :
            /\ rows[u] = AccountOf[b]
            /\ task' = [task EXCEPT ![b] = [Idle EXCEPT !.stage = "load", !.user = u]]
            /\ UNCHANGED <<rows, lastId>>
       \/ /\ \A u \in Users : rows[u] # AccountOf[b]
          /\ lastId < MaxUsers
          /\ lastId' = lastId + 1
          /\ rows' = [rows EXCEPT ![lastId + 1] = AccountOf[b]]
          /\ task' = [task EXCEPT ![b] =
                        [Idle EXCEPT !.stage = "load", !.user = lastId + 1, !.created = TRUE]]
    /\ UNCHANGED <<assigned, cookie, override>>

\* The user is read back; one that was deleted meanwhile ends the login.
LoadUser(b) ==
    /\ At(b, "load")
    /\ IF task[b].user \notin Users THEN Finish(b)
       ELSE Goto(b, IF task[b].created THEN "count" ELSE "seedcheck")
    /\ UNCHANGED <<rows, assigned, lastId, cookie, override>>

AnyUser   == Cardinality(Users) >= 1     \* mutant: off by a comparison

\* Promotion of the very first user: created, and the table has one row.
FirstUser == Cardinality(Users) = 1

CountUsers(b) ==
    /\ At(b, "count")
    /\ Goto(b, IF FirstUser THEN "promote" ELSE "seedcheck")
    /\ UNCHANGED <<rows, assigned, lastId, cookie, override>>

\* A failure is only logged.
Promote(b) ==
    /\ At(b, "promote")
    /\ Goto(b, "seedcheck")
    /\ \/ InsertRole(task[b].user, Admin)
       \/ StoreFaults /\ UNCHANGED assigned
    /\ UNCHANGED <<rows, lastId, cookie, override>>

AlwaysSeeded(b) == ConfigRoles[AccountOf[b]] # <<>>   \* mutant: roles not looked at

\* LoginBasic: roles from the configuration file become assignments of a user
\* who has none.
ToSeed(b) == ConfigRoles[AccountOf[b]] # <<>> /\ assigned[task[b].user] = {}

SeedCheck(b) ==
    /\ At(b, "seedcheck")
    /\ Goto(b, IF ToSeed(b) THEN "seed" ELSE "session")
    /\ UNCHANGED <<rows, assigned, lastId, cookie, override>>

\* One AssignRole after the other; a failure is only logged.
Seed(b) ==
    LET seeds == ConfigRoles[AccountOf[b]]
        k     == task[b].next IN
    /\ At(b, "seed")
    /\ \/ InsertRole(task[b].user, seeds[k])
       \/ StoreFaults /\ UNCHANGED assigned
    /\ IF k < Len(seeds) THEN task' = [task EXCEPT ![b].next = k + 1]
       ELSE Goto(b, "session")
    /\ UNCHANGED <<rows, lastId, cookie, override>>

CreateSession(b) ==
    /\ At(b, "session")
    /\ cookie' = [cookie EXCEPT ![b] = task[b].user]
    /\ Finish(b)
    /\ UNCHANGED <<rows, assigned, lastId, override>>

\* Logout only clears the cookie, if there is one.
Logout(b) ==
    /\ Idling(b)
    /\ cookie' = [cookie EXCEPT ![b] = None]
    /\ UNCHANGED <<rows, assigned, lastId, task, override>>

-----------------------------------------------------------------------------
\* An admin request: the middleware, then SetRoles or Delete.

AnySession(b) == cookie[b] # None            \* mutant: any session will do

\* Auth and the first query of RequireRole: the session's user still exists.
SignedIn(b) == cookie[b] \in Users

Identify(b) ==
    /\ Idling(b) /\ Room /\ SignedIn(b)
    /\ \E u \in 1..lastId, op \in {"set", "delete"}, want \in Requestable :
         /\ op = "delete" => want = CHOOSE w \in Requestable : TRUE
         /\ task' = [task EXCEPT ![b] =
              [Idle EXCEPT !.stage = "roles", !.user = cookie[b], !.op = op,
                           !.target = u, !.want = want]]
    /\ UNCHANGED <<rows, assigned, lastId, cookie, override>>

\* RequireRole("admin"): ResolveRoles for the account that was just read.
IsAdmin(b) == Admin \in Effective(assigned[task[b].user], AccountOf[b])

AnyRoles(b) == TRUE                          \* mutant: no validateRole

\* SetRoles refuses a request with an ill-formed role name.
ValidRoles(b) == task[b].want \subseteq Roles

\* SetRoles refuses a request about the sender's own roles.
OwnRoles(b) == task[b].target = task[b].user

Acceptable(b) == ValidRoles(b) /\ ~OwnRoles(b)

Authorize(b) ==
    /\ At(b, "roles")
    /\ \/ ~IsAdmin(b) /\ Finish(b)
       \/ IsAdmin(b) /\ task[b].op = "set" /\ ~Acceptable(b) /\ Finish(b)
       \/ IsAdmin(b) /\ task[b].op = "set" /\ Acceptable(b) /\ Goto(b, "target")
       \/ IsAdmin(b) /\ task[b].op = "delete" /\ Goto(b, "delete")
    /\ UNCHANGED <<rows, assigned, lastId, cookie, override>>

FindTarget(b) ==
    /\ At(b, "target")
    /\ IF task[b].target \in Users THEN Goto(b, "write") ELSE Finish(b)
    /\ UNCHANGED <<rows, assigned, lastId, cookie, override>>

\* No login of user u has read or is about to write roles.
Calm(u) == \A c \in Browsers :
             task[c].user = u => task[c].stage \notin {"load", "count", "promote",
                                                     "seedcheck", "seed", "session"}

\* UserStore.SetRoles: one transaction, all of it or nothing; the foreign key
\* refuses roles for a user that is gone, and clearing them is no error.
SetRoles(b) ==
    LET u == task[b].target IN
    /\ At(b, "write")
    /\ \/ /\ u \in Users
          /\ assigned' = [assigned EXCEPT ![u] = task[b].want]
          /\ override' = [override EXCEPT ![u] = [roles |-> task[b].want, calm |-> Calm(u)]]
       \/ /\ u \notin Users \/ StoreFaults
          /\ UNCHANGED <<assigned, override>>
    /\ Finish(b)
    /\ UNCHANGED <<rows, lastId, cookie>>

\* DeleteUser: ON DELETE CASCADE takes the assignments along.
DeleteUser(b) ==
    LET u == task[b].target IN
    /\ At(b, "delete")
    /\ rows' = [rows EXCEPT ![u] = None]
    /\ assigned' = [assigned EXCEPT ![u] = {}]
    /\ override' = [override EXCEPT ![u] = None]
    /\ Finish(b)
    /\ UNCHANGED <<lastId, cookie>>

-----------------------------------------------------------------------------
\* The database and the cookies outlive the process; its handlers do not.
Crash ==
    /\ MayCrash
    /\ \E b \in Browsers : ~Idling(b)
    /\ task' = [b \in Browsers |-> Idle]
    /\ UNCHANGED <<rows, assigned, lastId, cookie, override>>

Init ==
    /\ rows = [u \in Ids |-> None]
    /\ assigned = [u \in Ids |-> {}]
    /\ lastId = 0
    /\ cookie = [b \in Browsers |-> None]
    /\ task = [b \in Browsers |-> Idle]
    /\ override = [u \in Ids |-> None]

Login(b) == \/ LoadUser(b) \/ CountUsers(b) \/ Promote(b)
            \/ SeedCheck(b) \/ Seed(b) \/ CreateSession(b)
Manage(b) == Authorize(b) \/ FindTarget(b) \/ SetRoles(b) \/ DeleteUser(b)

Next ==
    \/ Crash
    \/ \E b \in Browsers : UpsertUser(b) \/ Login(b) \/ Logout(b) \/ Identify(b) \/ Manage(b)

Spec == Init /\ [][Next]_vars

-----------------------------------------------------------------------------
\* However logins and deletions interleave, an assignment belongs to a user that
\* exists: ids are never reused, but a login goes on writing roles for its user
\* after another admin deleted it (AssignRole, SetRoles, the foreign key).
NoOrphanRoles == \A u \in Ids : assigned[u] # {} => u \in Users

\* Two browsers that log in with one account at the same time end up with one
\* user (UpsertUser's ON CONFLICT).
OneUserPerAccount == \A u, v \in Users : rows[u] = rows[v] => u = v

\* The store's own rules, under every interleaving of logins and deletions:
\* NoOrphanRoles and OneUserPerAccount.
StoreSound == NoOrphanRoles /\ OneUserPerAccount

\* Being first makes one admin at most: who is about to be promoted is the oldest
\* account of all, whatever the order of the statements of overlapping logins and
\* whoever is deleted meanwhile (auth.go:481, the count after the insertion).
PromotedIsOldest ==
    \A b \in Browsers : At(b, "promote") /\ task[b].user \in Users =>
        \A u \in Users : task[b].user <= u

\* Nobody changes roles of their own (admin_users.go:112, "Prevent
\* self-modification of roles"): the handler compares user ids, yet the account
\* whose roles are about to be written is never the sender's, though accounts
\* are deleted and come back under another id while the request is served, or while
\* another browser still has a session of the one that was deleted.
NoSelfService ==
    \A b \in Browsers : At(b, "write") => rows[task[b].target] # AccountOf[b]

\* Roles given by an admin replace every other and stay until the next such
\* request (docs/authentication/roles-and-permissions.md:140, "Manual
\* assignment", "overrides everything else"), however many logins, seeds and
\* promotions follow: if no login of that user was under way when they were
\* given, and the set was not empty.
CalmOverrideStands ==
    \A u \in Users : override[u] # None =>
        (override[u].calm /\ override[u].roles # {} => assigned[u] = override[u].roles)

\* Once somebody has logged in and no request is under way, there is an admin:
\* auth.go:464-465, "The very first user to log in is automatically granted the
\* admin role so there is always someone who can access the admin panel".
SomeoneIsAdmin ==
    (Users # {} /\ \A b \in Browsers : Idling(b)) =>
        \E u \in Users : Admin \in Effective(assigned[u], rows[u])
=============================================================================
