--------------------------- MODULE UserAccessProofs ---------------------------
(***************************************************************************)
(* For any number of browsers, accounts and roles, any rules and seeds,    *)
(* with store faults and crashes: what the login and admin handlers keep   *)
(* true of the user store whatever the order of their statements.          *)
(*                                                                         *)
(* None of the properties is inductive by itself.  The strengthening says  *)
(* what a handler knows of the ids it carries from one statement to the    *)
(* next: they have been given out, so no later login gets them; the user   *)
(* it acts for has the browser's account or is gone; and a target other    *)
(* than the sender never had the sender's account.  At the end: where      *)
(* requests do not overlap, there is always an admin between them.         *)
(***************************************************************************)
EXTENDS UserAccess, FiniteSetTheorems, TLAPS

LoginStages  == {"load", "count", "promote", "seedcheck", "seed", "session"}
ManageStages == {"roles", "target", "write", "delete"}

Known(u) == u \in 1..lastId

LoginTask(b) == task[b].stage \in LoginStages =>
    /\ Known(task[b].user)
    /\ rows[task[b].user] \in {None, AccountOf[b]}
    /\ task[b].stage \notin {"seed", "session"} => task[b].next = 1
    /\ task[b].stage = "seed" => task[b].next \in 1..Len(ConfigRoles[AccountOf[b]])

ManageTask(b) == task[b].stage \in ManageStages =>
    /\ Known(task[b].user) /\ Known(task[b].target)
    /\ task[b].target # task[b].user => rows[task[b].target] # AccountOf[b]

WriteTask(b) == task[b].stage \in {"target", "write"} =>
    task[b].want \subseteq Roles /\ task[b].target # task[b].user

CookieOwn(b) == cookie[b] # None =>
    Known(cookie[b]) /\ rows[cookie[b]] \in {None, AccountOf[b]}

Allocated == \A u \in Users : u <= lastId
TaskInv   == \A b \in Browsers : LoginTask(b) /\ ManageTask(b) /\ WriteTask(b)
CookieInv == \A b \in Browsers : CookieOwn(b)

IInv ==
    /\ TypeOK
    /\ NoOrphanRoles
    /\ OneUserPerAccount
    /\ Allocated
    /\ TaskInv
    /\ CookieInv

\* Ids that were given out are ids.
LEMMA KnownIds == ASSUME lastId \in 0..MaxUsers, NEW u, Known(u) PROVE u \in Ids
  BY AccessAssumption DEF Known, Ids

\* An assignment that is inserted belongs to a user that exists.
LEMMA InsertSafe ==
    ASSUME TypeOK, NoOrphanRoles, NEW u \in Ids, NEW r \in Roles,
           InsertRole(u, r), UNCHANGED rows
    PROVE  assigned' \in [Ids -> SUBSET Roles] /\ NoOrphanRoles'
  <1>1. assigned' \in [Ids -> SUBSET Roles]
    BY DEF InsertRole, TypeOK
  <1>2. ASSUME NEW v \in Ids, assigned'[v] # {} PROVE v \in Users'
    BY <1>2 DEF InsertRole, TypeOK, NoOrphanRoles, Users
  <1> QED BY <1>1, <1>2 DEF NoOrphanRoles

\* A step of browser b's handler that leaves the users and cookies alone needs
\* attention only for the assignments and b's own record.
LEMMA OwnStep ==
    ASSUME IInv, NEW b \in Browsers, NEW t \in Task,
           task' = [task EXCEPT ![b] = t],
           UNCHANGED <<rows, lastId, cookie>>,
           assigned' \in [Ids -> SUBSET Roles], NoOrphanRoles',
           override' \in [Ids -> [roles : SUBSET Roles, calm : BOOLEAN] \union {None}],
           LoginTask(b)', ManageTask(b)', WriteTask(b)'
    PROVE  IInv'
  <1>1. task \in [Browsers -> Task] /\ task' \in [Browsers -> Task]
    BY DEF IInv, TypeOK
  <1>2. TypeOK'
    BY <1>1 DEF IInv, TypeOK
  <1>3. ASSUME NEW d \in Browsers PROVE LoginTask(d)' /\ ManageTask(d)' /\ WriteTask(d)'
    <2>1. CASE d = b
      BY <2>1
    <2>2. CASE d # b
      <3>1. task'[d] = task[d]
        BY <1>1, <2>2
      <3> QED BY <3>1 DEF IInv, TaskInv, LoginTask, ManageTask, WriteTask, Known
    <2> QED BY <2>1, <2>2
  <1>4. OneUserPerAccount' /\ Allocated' /\ CookieInv'
    BY DEF IInv, OneUserPerAccount, Allocated, CookieInv, CookieOwn, Known, Users
  <1> QED BY <1>2, <1>3, <1>4 DEF IInv, TaskInv

\* An idle record claims nothing.
LEMMA IdleTask ==
    /\ Idle \in Task
    /\ \A b \in Browsers : task[b] = Idle => LoginTask(b) /\ ManageTask(b) /\ WriteTask(b)
  BY DEF Idle, Task, Stages, LoginTask, ManageTask, WriteTask, LoginStages, ManageStages

\* The same step, when the handler is done.
LEMMA OwnFinish ==
    ASSUME IInv, NEW b \in Browsers, Finish(b),
           UNCHANGED <<rows, lastId, cookie>>,
           assigned' \in [Ids -> SUBSET Roles], NoOrphanRoles',
           override' \in [Ids -> [roles : SUBSET Roles, calm : BOOLEAN] \union {None}]
    PROVE  IInv'
  <1>1. task'[b] = Idle
    BY DEF IInv, TypeOK, Finish
  <1>2. LoginTask(b)' /\ ManageTask(b)' /\ WriteTask(b)'
    BY <1>1, IdleTask DEF LoginTask, ManageTask, WriteTask, Idle, LoginStages, ManageStages
  <1> QED BY <1>2, IdleTask, OwnStep DEF Finish

\* The same step, when the handler goes on with the next statement.
LEMMA OwnGoto ==
    ASSUME IInv, NEW b \in Browsers, NEW s \in Stages, Goto(b, s),
           UNCHANGED <<rows, lastId, cookie>>,
           assigned' \in [Ids -> SUBSET Roles], NoOrphanRoles',
           override' \in [Ids -> [roles : SUBSET Roles, calm : BOOLEAN] \union {None}],
           \/ task[b].stage \in LoginStages \ {"seed", "session"}
                /\ s \in {"count", "promote", "seedcheck"}
           \/ task[b].stage \in LoginStages \ {"seed", "session"}
                /\ s = "seed" /\ ConfigRoles[AccountOf[b]] # <<>>
           \/ task[b].stage \in LoginStages /\ s = "session"
           \/ task[b].stage \in ManageStages /\ s = "delete"
           \/ task[b].stage \in ManageStages /\ s \in {"target", "write"}
                /\ task[b].want \subseteq Roles /\ task[b].target # task[b].user
    PROVE  IInv'
  <1> DEFINE t == [task[b] EXCEPT !.stage = s]
  <1>1. task[b] \in Task
    BY DEF IInv, TypeOK
  <1>2. /\ t \in Task /\ t.stage = s /\ t.user = task[b].user /\ t.target = task[b].target
        /\ t.want = task[b].want /\ t.next = task[b].next
    BY <1>1 DEF Task
  <1>3. task' = [task EXCEPT ![b] = t] /\ task'[b] = t
    BY DEF Goto, IInv, TypeOK
  <1>4. ConfigRoles[AccountOf[b]] \in Seq(Roles)
    BY AccessAssumption
  <1>5. ConfigRoles[AccountOf[b]] # <<>> => 1 \in 1..Len(ConfigRoles[AccountOf[b]])
    BY <1>4
  <1>6. LoginTask(b) /\ ManageTask(b) /\ WriteTask(b)
    BY DEF IInv, TaskInv
  <1> HIDE DEF t
  <1>7. LoginTask(b)' /\ ManageTask(b)' /\ WriteTask(b)'
    BY <1>2, <1>3, <1>5, <1>6 DEF LoginTask, ManageTask, WriteTask, LoginStages, ManageStages, Known
  <1> QED BY <1>2, <1>3, <1>7, OwnStep

-----------------------------------------------------------------------------
LEMMA InitIInv == Init => IInv
  <1> SUFFICES ASSUME Init PROVE IInv
    OBVIOUS
  <1>1. TypeOK
    BY IdleTask, AccessAssumption DEF Init, TypeOK
  <1>2. Users = {}
    BY DEF Init, Users
  <1>3. \A b \in Browsers : task[b] = Idle /\ cookie[b] = None
    BY DEF Init
  <1>4. NoOrphanRoles /\ OneUserPerAccount /\ Allocated
    BY <1>2 DEF Init, NoOrphanRoles, OneUserPerAccount, Allocated
  <1> QED BY <1>1, <1>3, <1>4, IdleTask DEF IInv, TaskInv, CookieInv, CookieOwn

LEMMA UpsertIInv ==
    ASSUME IInv, NEW b \in Browsers, UpsertUser(b)
    PROVE  IInv'
  <1>1. CASE \E u \in Users : /\ rows[u] = AccountOf[b]
                             /\ task' = [task EXCEPT ![b] = [Idle EXCEPT !.stage = "load", !.user = u]]
                             /\ UNCHANGED <<rows, lastId>>
    <2>1. PICK u \in Users :
             /\ rows[u] = AccountOf[b]
             /\ task' = [task EXCEPT ![b] = [Idle EXCEPT !.stage = "load", !.user = u]]
             /\ UNCHANGED <<rows, lastId>>
      BY <1>1
    <2> DEFINE t == [Idle EXCEPT !.stage = "load", !.user = u]
    <2>2. u \in Ids /\ Known(u)
      BY DEF IInv, Allocated, Users, Known, Ids, TypeOK
    <2>3. t \in Task /\ t.stage = "load" /\ t.user = u /\ t.next = 1
      BY <2>2 DEF Task, Stages, Idle
    <2>4. task'[b] = t
      BY <2>1 DEF IInv, TypeOK
    <2>5. UNCHANGED <<assigned, cookie, override>>
      BY DEF UpsertUser
    <2> HIDE DEF t
    <2>6. LoginTask(b)' /\ ManageTask(b)' /\ WriteTask(b)'
      BY <2>1, <2>2, <2>3, <2>4 DEF LoginTask, ManageTask, WriteTask, ManageStages, Known
    <2>7. NoOrphanRoles' /\ assigned' \in [Ids -> SUBSET Roles]
          /\ override' \in [Ids -> [roles : SUBSET Roles, calm : BOOLEAN] \union {None}]
      BY <2>1, <2>5 DEF IInv, NoOrphanRoles, Users, TypeOK
    <2> QED BY <2>1, <2>3, <2>5, <2>6, <2>7, OwnStep DEF t
  <1>2. CASE /\ \A u \in Users : rows[u] # AccountOf[b]
             /\ lastId < MaxUsers
             /\ lastId' = lastId + 1
             /\ rows' = [rows EXCEPT ![lastId + 1] = AccountOf[b]]
             /\ task' = [task EXCEPT ![b] =
                   [Idle EXCEPT !.stage = "load", !.user = lastId + 1, !.created = TRUE]]
    <2> DEFINE n == lastId + 1
               t == [Idle EXCEPT !.stage = "load", !.user = n, !.created = TRUE]
    <2>1. n \in Ids /\ lastId' = n /\ lastId \in Nat /\ n \in Nat /\ lastId < n
      BY <1>2, AccessAssumption DEF IInv, TypeOK, Ids
    <2>2. t \in Task /\ t.stage = "load" /\ t.user = n /\ t.next = 1
      BY <2>1 DEF Task, Stages, Idle
    <2>3. task'[b] = t /\ \A d \in Browsers : d # b => task'[d] = task[d]
      BY <1>2 DEF IInv, TypeOK
    <2>4. AccountOf[b] \in Accounts /\ AccountOf[b] # None
      BY AccessAssumption
    <2>5. rows'[n] = AccountOf[b] /\ \A v \in Ids : v # n => rows'[v] = rows[v]
      BY <1>2, <2>1 DEF IInv, TypeOK
    <2>6. \A v : Known(v) => v \in Ids /\ v # n /\ Known(v)'
      BY <1>2, <2>1, AccessAssumption DEF Known, Ids, IInv, TypeOK
    <2>7. UNCHANGED <<assigned, cookie, override>>
      BY DEF UpsertUser
    <2>8. Users' = Users \union {n}
      BY <2>1, <2>4, <2>5 DEF Users
    <2>9. task' = [task EXCEPT ![b] = t]
      BY <1>2
    <2> HIDE DEF n, t
    <2>10. TypeOK'
      <3>1. rows' \in [Ids -> Accounts \union {None}]
        BY <1>2, <2>4 DEF IInv, TypeOK, n
      <3>2. lastId' \in 0..MaxUsers
        BY <1>2, <2>1, AccessAssumption DEF IInv, TypeOK, n
      <3>3. task' \in [Browsers -> Task]
        BY <2>2, <2>9 DEF IInv, TypeOK
      <3> QED BY <2>7, <3>1, <3>2, <3>3 DEF IInv, TypeOK
    <2>11. NoOrphanRoles'
      BY <2>7, <2>8 DEF IInv, NoOrphanRoles
    <2>12. OneUserPerAccount'
      <3>1. n \notin Users
        BY <2>1 DEF IInv, Allocated, n
      <3>2. ASSUME NEW u \in Users', NEW v \in Users', rows'[u] = rows'[v] PROVE u = v
        BY <1>2, <2>5, <2>8, <3>1, <3>2 DEF IInv, OneUserPerAccount, Users
      <3> QED BY <3>2 DEF OneUserPerAccount
    <2>13. Allocated'
      <3>1. \A u \in Users : u \in Nat /\ u <= lastId
        BY AccessAssumption DEF IInv, Allocated, Users, Ids
      <3> QED BY <2>1, <2>8, <3>1 DEF Allocated
    <2>14. ASSUME NEW d \in Browsers PROVE LoginTask(d)' /\ ManageTask(d)' /\ WriteTask(d)'
      <3>1. CASE d = b
        <4>1. n \in 1..lastId'
          BY <2>1 DEF n
        <4>2. task'[b].stage = "load" /\ task'[b].user = n /\ task'[b].next = 1
          BY <2>2, <2>3
        <4> QED BY <2>5, <3>1, <4>1, <4>2
              DEF LoginTask, ManageTask, WriteTask, ManageStages, Known
      <3>2. CASE d # b
        <4>1. task'[d] = task[d]
          BY <2>3, <3>2
        <4>2. LoginTask(d) /\ ManageTask(d) /\ WriteTask(d)
          BY DEF IInv, TaskInv
        <4> QED BY <2>5, <2>6, <4>1, <4>2 DEF LoginTask, ManageTask, WriteTask
      <3> QED BY <3>1, <3>2
    <2>15. ASSUME NEW d \in Browsers PROVE CookieOwn(d)'
      BY <2>5, <2>6, <2>7 DEF IInv, CookieInv, CookieOwn
    <2> QED BY <2>10, <2>11, <2>12, <2>13, <2>14, <2>15 DEF IInv, TaskInv, CookieInv
  <1> QED BY <1>1, <1>2 DEF UpsertUser

LEMMA LoadIInv ==
    ASSUME IInv, NEW b \in Browsers, LoadUser(b)
    PROVE  IInv'
  <1>1. assigned' \in [Ids -> SUBSET Roles] /\ NoOrphanRoles'
        /\ override' \in [Ids -> [roles : SUBSET Roles, calm : BOOLEAN] \union {None}]
    BY DEF LoadUser, IInv, TypeOK, NoOrphanRoles, Users
  <1>2. CASE Finish(b)
    BY <1>1, <1>2, OwnFinish DEF LoadUser
  <1>3. CASE ~Finish(b)
    <2>1. PICK s \in {"count", "seedcheck"} : Goto(b, s)
      BY <1>3 DEF LoadUser
    <2>2. task[b].stage \in LoginStages \ {"seed", "session"}
      BY DEF LoadUser, At, LoginStages
    <2> QED BY <1>1, <2>1, <2>2, OwnGoto DEF LoadUser, Stages
  <1> QED BY <1>2, <1>3

LEMMA CountIInv ==
    ASSUME IInv, NEW b \in Browsers, CountUsers(b)
    PROVE  IInv'
  <1>1. assigned' \in [Ids -> SUBSET Roles] /\ NoOrphanRoles'
        /\ override' \in [Ids -> [roles : SUBSET Roles, calm : BOOLEAN] \union {None}]
    BY DEF CountUsers, IInv, TypeOK, NoOrphanRoles, Users
  <1>2. PICK s \in {"promote", "seedcheck"} : Goto(b, s)
    BY DEF CountUsers
  <1>3. task[b].stage \in LoginStages \ {"seed", "session"}
    BY DEF CountUsers, At, LoginStages
  <1> QED BY <1>1, <1>2, <1>3, OwnGoto DEF CountUsers, Stages

\* The user whom a login is about to give a role has been given out an id.
LEMMA LoginUser ==
    ASSUME IInv, NEW b \in Browsers, task[b].stage \in LoginStages
    PROVE  task[b].user \in Ids
  <1>1. Known(task[b].user)
    BY DEF IInv, TaskInv, LoginTask
  <1> QED BY <1>1, KnownIds DEF IInv, TypeOK

LEMMA PromoteIInv ==
    ASSUME IInv, NEW b \in Browsers, Promote(b)
    PROVE  IInv'
  <1>1. task[b].stage \in LoginStages \ {"seed", "session"}
    BY DEF Promote, At, LoginStages
  <1>2. assigned' \in [Ids -> SUBSET Roles] /\ NoOrphanRoles'
    <2>1. CASE InsertRole(task[b].user, Admin)
      BY <1>1, <2>1, LoginUser, InsertSafe, AccessAssumption DEF Promote, IInv
    <2>2. CASE UNCHANGED assigned
      BY <2>2 DEF Promote, IInv, TypeOK, NoOrphanRoles, Users
    <2> QED BY <2>1, <2>2 DEF Promote
  <1>3. override' \in [Ids -> [roles : SUBSET Roles, calm : BOOLEAN] \union {None}]
    BY DEF Promote, IInv, TypeOK
  <1> QED BY <1>1, <1>2, <1>3, OwnGoto DEF Promote, Stages

LEMMA SeedCheckIInv ==
    ASSUME IInv, NEW b \in Browsers, SeedCheck(b)
    PROVE  IInv'
  <1>1. assigned' \in [Ids -> SUBSET Roles] /\ NoOrphanRoles'
        /\ override' \in [Ids -> [roles : SUBSET Roles, calm : BOOLEAN] \union {None}]
    BY DEF SeedCheck, IInv, TypeOK, NoOrphanRoles, Users
  <1>2. task[b].stage \in LoginStages \ {"seed", "session"}
    BY DEF SeedCheck, At, LoginStages
  <1>3. CASE ToSeed(b)
    BY <1>1, <1>2, <1>3, OwnGoto DEF SeedCheck, ToSeed, Stages
  <1>4. CASE ~ToSeed(b)
    BY <1>1, <1>2, <1>4, OwnGoto DEF SeedCheck, Stages
  <1> QED BY <1>3, <1>4

LEMMA SeedIInv ==
    ASSUME IInv, NEW b \in Browsers, Seed(b)
    PROVE  IInv'
  <1> DEFINE seeds == ConfigRoles[AccountOf[b]]
             k     == task[b].next
  <1>1. task[b].stage = "seed" /\ task[b].stage \in LoginStages
    BY DEF Seed, At, LoginStages
  <1>2. seeds \in Seq(Roles) /\ k \in 1..Len(seeds) /\ Len(seeds) \in Nat
    BY <1>1, AccessAssumption DEF IInv, TaskInv, LoginTask
  <1>3. seeds[k] \in Roles
    BY <1>2
  <1>4. assigned' \in [Ids -> SUBSET Roles] /\ NoOrphanRoles'
    <2>1. CASE InsertRole(task[b].user, seeds[k])
      BY <1>1, <1>3, <2>1, LoginUser, InsertSafe DEF Seed, IInv
    <2>2. CASE UNCHANGED assigned
      BY <2>2 DEF Seed, IInv, TypeOK, NoOrphanRoles, Users
    <2> QED BY <2>1, <2>2 DEF Seed
  <1>5. override' \in [Ids -> [roles : SUBSET Roles, calm : BOOLEAN] \union {None}]
    BY DEF Seed, IInv, TypeOK
  <1>6. CASE k < Len(seeds)
    <2> DEFINE t == [task[b] EXCEPT !.next = k + 1]
    <2>1. task[b] \in Task
      BY DEF IInv, TypeOK
    <2>2. t \in Task /\ t.stage = "seed" /\ t.user = task[b].user /\ t.next = k + 1
      BY <1>1, <1>2, <2>1 DEF Task
    <2>3. task' = [task EXCEPT ![b] = t] /\ task'[b] = t
      BY <1>6 DEF Seed, IInv, TypeOK
    <2>4. k + 1 \in 1..Len(seeds)
      BY <1>2, <1>6
    <2>5. LoginTask(b)
      BY DEF IInv, TaskInv
    <2>6. UNCHANGED <<rows, lastId, cookie>>
      BY DEF Seed
    <2> HIDE DEF t
    <2>7. LoginTask(b)' /\ ManageTask(b)' /\ WriteTask(b)'
      BY <1>1, <2>2, <2>3, <2>4, <2>5, <2>6
         DEF LoginTask, ManageTask, WriteTask, ManageStages, Known
    <2> QED BY <1>4, <1>5, <2>2, <2>3, <2>6, <2>7, OwnStep
  <1>7. CASE ~(k < Len(seeds))
    BY <1>1, <1>4, <1>5, <1>7, OwnGoto DEF Seed, Stages
  <1> QED BY <1>6, <1>7

LEMMA SessionIInv ==
    ASSUME IInv, NEW b \in Browsers, CreateSession(b)
    PROVE  IInv'
  <1>1. task[b].stage \in LoginStages
    BY DEF CreateSession, At, LoginStages
  <1>2. Known(task[b].user) /\ rows[task[b].user] \in {None, AccountOf[b]}
    BY <1>1 DEF IInv, TaskInv, LoginTask
  <1>3. cookie' = [cookie EXCEPT ![b] = task[b].user] /\ task' = [task EXCEPT ![b] = Idle]
        /\ UNCHANGED <<rows, assigned, lastId, override>>
    BY DEF CreateSession, Finish
  <1>4. TypeOK'
    BY <1>1, <1>3, LoginUser, IdleTask DEF IInv, TypeOK
  <1>5. ASSUME NEW d \in Browsers PROVE LoginTask(d)' /\ ManageTask(d)' /\ WriteTask(d)'
    <2>1. task'[d] \in {task[d], Idle}
      BY <1>3 DEF IInv, TypeOK
    <2>2. LoginTask(d) /\ ManageTask(d) /\ WriteTask(d)
      BY DEF IInv, TaskInv
    <2> QED BY <1>3, <2>1, <2>2
          DEF LoginTask, ManageTask, WriteTask, Idle, LoginStages, ManageStages, Known
  <1>6. ASSUME NEW d \in Browsers PROVE CookieOwn(d)'
    <2>1. CASE d = b
      BY <1>2, <1>3, <2>1 DEF IInv, TypeOK, CookieOwn, Known
    <2>2. CASE d # b
      BY <1>3, <2>2 DEF IInv, TypeOK, CookieInv, CookieOwn, Known
    <2> QED BY <2>1, <2>2
  <1>7. NoOrphanRoles' /\ OneUserPerAccount' /\ Allocated'
    BY <1>3 DEF IInv, NoOrphanRoles, OneUserPerAccount, Allocated, Users
  <1> QED BY <1>4, <1>5, <1>6, <1>7 DEF IInv, TaskInv, CookieInv

LEMMA LogoutIInv ==
    ASSUME IInv, NEW b \in Browsers, Logout(b)
    PROVE  IInv'
  <1>1. cookie' = [cookie EXCEPT ![b] = None] /\ UNCHANGED <<rows, assigned, lastId, task, override>>
    BY DEF Logout
  <1>2. TypeOK'
    BY <1>1 DEF IInv, TypeOK
  <1>3. TaskInv'
    BY <1>1 DEF IInv, TaskInv, LoginTask, ManageTask, WriteTask, Known
  <1>4. ASSUME NEW d \in Browsers PROVE CookieOwn(d)'
    BY <1>1 DEF IInv, TypeOK, CookieInv, CookieOwn, Known
  <1>5. NoOrphanRoles' /\ OneUserPerAccount' /\ Allocated'
    BY <1>1 DEF IInv, NoOrphanRoles, OneUserPerAccount, Allocated, Users
  <1> QED BY <1>2, <1>3, <1>4, <1>5 DEF IInv, CookieInv

-----------------------------------------------------------------------------
LEMMA IdentifyIInv ==
    ASSUME IInv, NEW b \in Browsers, Identify(b)
    PROVE  IInv'
  <1>1. PICK u \in 1..lastId, op \in {"set", "delete"}, want \in Requestable :
           task' = [task EXCEPT ![b] = [Idle EXCEPT !.stage = "roles", !.user = cookie[b],
                                          !.op = op, !.target = u, !.want = want]]
    BY DEF Identify
  <1> DEFINE t == [Idle EXCEPT !.stage = "roles", !.user = cookie[b], !.op = op,
                               !.target = u, !.want = want]
  <1>2. UNCHANGED <<rows, assigned, lastId, cookie, override>> /\ cookie[b] \in Users
    BY DEF Identify, SignedIn
  <1>3. u \in Ids /\ cookie[b] \in Ids /\ cookie[b] # None
    BY <1>2, KnownIds, AccessAssumption DEF IInv, TypeOK, Known, Users
  <1>4. Known(cookie[b]) /\ rows[cookie[b]] = AccountOf[b]
    BY <1>2, <1>3 DEF IInv, CookieInv, CookieOwn, Users
  <1>5. u # cookie[b] => rows[u] # AccountOf[b]
    <2>1. AccountOf[b] # None
      BY AccessAssumption
    <2> QED BY <1>2, <1>3, <1>4, <2>1 DEF IInv, OneUserPerAccount, Users
  <1>6. t \in Task /\ t.stage = "roles" /\ t.user = cookie[b] /\ t.target = u
    BY <1>3, AccessAssumption DEF Task, Stages, Idle
  <1>7. task' = [task EXCEPT ![b] = t] /\ task'[b] = t
    BY <1>1 DEF IInv, TypeOK
  <1> HIDE DEF t
  <1>8. LoginTask(b)' /\ ManageTask(b)' /\ WriteTask(b)'
    BY <1>2, <1>4, <1>5, <1>6, <1>7
       DEF LoginTask, ManageTask, WriteTask, LoginStages, Known
  <1>9. assigned' \in [Ids -> SUBSET Roles] /\ NoOrphanRoles'
        /\ override' \in [Ids -> [roles : SUBSET Roles, calm : BOOLEAN] \union {None}]
    BY <1>2 DEF IInv, TypeOK, NoOrphanRoles, Users
  <1> QED BY <1>2, <1>6, <1>7, <1>8, <1>9, OwnStep

LEMMA AuthorizeIInv ==
    ASSUME IInv, NEW b \in Browsers, Authorize(b)
    PROVE  IInv'
  <1>1. assigned' \in [Ids -> SUBSET Roles] /\ NoOrphanRoles'
        /\ override' \in [Ids -> [roles : SUBSET Roles, calm : BOOLEAN] \union {None}]
    BY DEF Authorize, IInv, TypeOK, NoOrphanRoles, Users
  <1>2. task[b].stage \in ManageStages
    BY DEF Authorize, At, ManageStages
  <1>3. CASE Finish(b)
    BY <1>1, <1>3, OwnFinish DEF Authorize
  <1>4. CASE Goto(b, "delete")
    BY <1>1, <1>2, <1>4, OwnGoto DEF Authorize, Stages
  <1>5. CASE Acceptable(b) /\ Goto(b, "target")
    BY <1>1, <1>2, <1>5, OwnGoto DEF Authorize, Stages, Acceptable, ValidRoles, OwnRoles
  <1> QED BY <1>3, <1>4, <1>5 DEF Authorize

LEMMA FindTargetIInv ==
    ASSUME IInv, NEW b \in Browsers, FindTarget(b)
    PROVE  IInv'
  <1>1. assigned' \in [Ids -> SUBSET Roles] /\ NoOrphanRoles'
        /\ override' \in [Ids -> [roles : SUBSET Roles, calm : BOOLEAN] \union {None}]
    BY DEF FindTarget, IInv, TypeOK, NoOrphanRoles, Users
  <1>2. task[b].stage \in ManageStages /\ WriteTask(b) /\ task[b].stage = "target"
    BY DEF FindTarget, At, ManageStages, IInv, TaskInv
  <1>3. CASE Finish(b)
    BY <1>1, <1>3, OwnFinish DEF FindTarget
  <1>4. CASE Goto(b, "write")
    BY <1>1, <1>2, <1>4, OwnGoto DEF FindTarget, Stages, WriteTask
  <1> QED BY <1>3, <1>4 DEF FindTarget

LEMMA SetRolesIInv ==
    ASSUME IInv, NEW b \in Browsers, SetRoles(b)
    PROVE  IInv'
  <1> DEFINE u == task[b].target
  <1>1. u \in Ids /\ task[b].want \subseteq Roles
    <2>1. Known(u) /\ task[b].want \subseteq Roles
      BY DEF SetRoles, At, IInv, TaskInv, ManageTask, ManageStages, WriteTask
    <2> QED BY <2>1, KnownIds DEF IInv, TypeOK
  <1>2. Finish(b) /\ UNCHANGED <<rows, lastId, cookie>>
    BY DEF SetRoles
  <1>3. CASE UNCHANGED <<assigned, override>>
    BY <1>2, <1>3, OwnFinish DEF IInv, TypeOK, NoOrphanRoles, Users
  <1>4. CASE /\ u \in Users
             /\ assigned' = [assigned EXCEPT ![u] = task[b].want]
             /\ override' = [override EXCEPT ![u] = [roles |-> task[b].want, calm |-> Calm(u)]]
    <2>1. assigned' \in [Ids -> SUBSET Roles]
      BY <1>1, <1>4 DEF IInv, TypeOK
    <2>2. Calm(u) \in BOOLEAN
      BY DEF Calm
    <2>3. override' \in [Ids -> [roles : SUBSET Roles, calm : BOOLEAN] \union {None}]
      BY <1>1, <1>4, <2>2 DEF IInv, TypeOK
    <2>4. NoOrphanRoles'
      BY <1>1, <1>2, <1>4 DEF IInv, TypeOK, NoOrphanRoles, Users
    <2> QED BY <1>2, <2>1, <2>3, <2>4, OwnFinish
  <1> QED BY <1>3, <1>4 DEF SetRoles

LEMMA DeleteIInv ==
    ASSUME IInv, NEW b \in Browsers, DeleteUser(b)
    PROVE  IInv'
  <1> DEFINE u == task[b].target
  <1>1. u \in Ids
    <2>1. Known(u)
      BY DEF DeleteUser, At, IInv, TaskInv, ManageTask, ManageStages
    <2> QED BY <2>1, KnownIds DEF IInv, TypeOK
  <1>2. /\ rows' = [rows EXCEPT ![u] = None]
        /\ assigned' = [assigned EXCEPT ![u] = {}]
        /\ override' = [override EXCEPT ![u] = None]
        /\ task' = [task EXCEPT ![b] = Idle]
        /\ UNCHANGED <<lastId, cookie>>
    BY DEF DeleteUser, Finish
  <1> HIDE DEF u
  <1>3. TypeOK'
    BY <1>1, <1>2, IdleTask DEF IInv, TypeOK
  <1>4. \A v \in Ids : rows'[v] \in {rows[v], None}
    BY <1>1, <1>2 DEF IInv, TypeOK
  <1>5. NoOrphanRoles'
    BY <1>1, <1>2 DEF IInv, TypeOK, NoOrphanRoles, Users
  <1>6. OneUserPerAccount' /\ Allocated'
    BY <1>2, <1>4 DEF IInv, OneUserPerAccount, Allocated, Users
  <1>7. \A v : Known(v) => v \in Ids /\ Known(v)'
    BY <1>2, KnownIds DEF IInv, TypeOK, Known
  <1>8. ASSUME NEW d \in Browsers PROVE LoginTask(d)' /\ ManageTask(d)' /\ WriteTask(d)'
    <2>1. task'[d] \in {task[d], Idle}
      BY <1>2 DEF IInv, TypeOK
    <2>2. LoginTask(d) /\ ManageTask(d) /\ WriteTask(d) /\ AccountOf[d] # None
      BY AccessAssumption DEF IInv, TaskInv
    <2> QED BY <1>4, <1>7, <2>1, <2>2
          DEF LoginTask, ManageTask, WriteTask, Idle, LoginStages, ManageStages
  <1>9. CookieInv'
    BY <1>2, <1>4, <1>7 DEF IInv, CookieInv, CookieOwn
  <1> QED BY <1>3, <1>5, <1>6, <1>8, <1>9 DEF IInv, TaskInv

LEMMA CrashIInv == ASSUME IInv, Crash PROVE IInv'
  <1>1. task' = [b \in Browsers |-> Idle] /\ UNCHANGED <<rows, assigned, lastId, cookie, override>>
    BY DEF Crash
  <1>2. TypeOK'
    BY <1>1, IdleTask DEF IInv, TypeOK
  <1>3. TaskInv'
    BY <1>1 DEF TaskInv, LoginTask, ManageTask, WriteTask, Idle, LoginStages, ManageStages
  <1> QED BY <1>1, <1>2, <1>3
        DEF IInv, NoOrphanRoles, OneUserPerAccount, Allocated, Users, CookieInv, CookieOwn, Known

LEMMA NextIInv == IInv /\ [Next]_vars => IInv'
  <1> SUFFICES ASSUME IInv, [Next]_vars PROVE IInv'
    OBVIOUS
  <1>1. CASE Crash
    BY <1>1, CrashIInv
  <1>2. ASSUME NEW b \in Browsers, UpsertUser(b) \/ Login(b) \/ Logout(b) PROVE IInv'
    BY <1>2, UpsertIInv, LoadIInv, CountIInv, PromoteIInv, SeedCheckIInv, SeedIInv,
       SessionIInv, LogoutIInv DEF Login
  <1>3. ASSUME NEW b \in Browsers, Identify(b) \/ Manage(b) PROVE IInv'
    BY <1>3, IdentifyIInv, AuthorizeIInv, FindTargetIInv, SetRolesIInv, DeleteIInv DEF Manage
  <1>4. CASE UNCHANGED vars
    BY <1>4 DEF vars, IInv, TypeOK, NoOrphanRoles, OneUserPerAccount, Allocated, Users,
                TaskInv, LoginTask, ManageTask, WriteTask, Known, CookieInv, CookieOwn
  <1> QED BY <1>1, <1>2, <1>3, <1>4 DEF Next

-----------------------------------------------------------------------------
\* What the handlers know of the ids they carry holds in every state.
THEOREM AccessInductive == Spec => []IInv
  BY InitIInv, NextIInv, PTL DEF Spec

\* The state is well-typed; in particular only well-formed role names are ever
\* stored (validateRole).
THEOREM AccessTypeCorrect == Spec => []TypeOK
  <1>1. IInv => TypeOK
    BY DEF IInv
  <1> QED BY <1>1, AccessInductive, PTL

\* No assignment outlives its user, though logins go on writing roles for users
\* who were deleted meanwhile (AssignRole, the foreign key and its cascade).
THEOREM RolesHaveUsers == Spec => []NoOrphanRoles
  <1>1. IInv => NoOrphanRoles
    BY DEF IInv
  <1> QED BY <1>1, AccessInductive, PTL

\* Logins with one account, however concurrent, share one user (UpsertUser).
THEOREM AccountsAreUsers == Spec => []OneUserPerAccount
  <1>1. IInv => OneUserPerAccount
    BY DEF IInv
  <1> QED BY <1>1, AccessInductive, PTL

\* Comparing ids is enough to keep people from changing roles of their own
\* (admin_users.go:112-116), though users are deleted and created again.
THEOREM NobodyServesThemselves == Spec => []NoSelfService
  <1>1. IInv => NoSelfService
    <2> SUFFICES ASSUME IInv, NEW b \in Browsers, At(b, "write")
                 PROVE  rows[task[b].target] # AccountOf[b]
      BY DEF NoSelfService
    <2> QED BY DEF IInv, TaskInv, ManageTask, WriteTask, ManageStages, At
  <1> QED BY <1>1, AccessInductive, PTL

-----------------------------------------------------------------------------
(* The promotion. *)

\* A table with one row has no older row.
LEMMA FirstIsOldest ==
    ASSUME TypeOK, FirstUser, NEW u \in Users, NEW v \in Users
    PROVE  u = v
  <1>1. IsFiniteSet(Ids)
    BY FS_Interval, AccessAssumption DEF Ids
  <1>2. IsFiniteSet(Users)
    BY <1>1, FS_Subset DEF Users
  <1>3. PICK x : Users = {x}
    BY <1>2, FS_Singleton DEF FirstUser
  <1> QED BY <1>3

\* Who is about to be promoted already was, or has just been counted; and rows
\* appear only under the next id.
LEMMA Origins ==
    ASSUME IInv, [Next]_vars
    PROVE  /\ \A b \in Browsers : task'[b].stage = "promote" =>
                 /\ task'[b].user = task[b].user
                 /\ task[b].stage = "promote" \/ (task[b].stage = "count" /\ FirstUser)
           /\ Users' \subseteq Users \cup {lastId + 1}
  <1>1. task \in [Browsers -> Task] /\ rows \in [Ids -> Accounts \union {None}]
    BY DEF IInv, TypeOK
  <1>2. Idle.stage = "idle"
    BY DEF Idle
  <1>3. CASE Crash
    BY <1>2, <1>3 DEF Crash, Users
  <1>4. ASSUME NEW d \in Browsers, UpsertUser(d)
        PROVE  /\ task'[d].stage = "load" /\ \A b \in Browsers \ {d} : task'[b] = task[b]
               /\ Users' \subseteq Users \cup {lastId + 1}
    BY <1>1, <1>4 DEF UpsertUser, Idle, Users
  <1>5. ASSUME NEW d \in Browsers, CountUsers(d)
        PROVE  /\ task[d].stage = "count" /\ task'[d].user = task[d].user
               /\ task'[d].stage = "promote" => FirstUser
               /\ \A b \in Browsers \ {d} : task'[b] = task[b]
               /\ Users' = Users
    BY <1>1, <1>5 DEF CountUsers, Goto, At, Users, Task
  <1>6. ASSUME NEW d \in Browsers,
               \/ LoadUser(d) \/ Promote(d) \/ SeedCheck(d) \/ Seed(d) \/ CreateSession(d)
               \/ Logout(d) \/ Identify(d) \/ Authorize(d) \/ FindTarget(d)
        PROVE  /\ task'[d].stage # "promote" \/ task' = task
               /\ \A b \in Browsers \ {d} : task'[b] = task[b]
               /\ Users' = Users
    <2>1. Users' = Users
      BY <1>6 DEF LoadUser, Promote, SeedCheck, Seed, CreateSession, Logout, Identify,
                  Authorize, FindTarget, Users
    <2>2. Finish(d) => /\ task'[d].stage # "promote"
                       /\ \A b \in Browsers \ {d} : task'[b] = task[b]
      BY <1>1, <1>2 DEF Finish
    <2>3. ASSUME NEW s, Goto(d, s)
          PROVE  task'[d].stage = s /\ \A b \in Browsers \ {d} : task'[b] = task[b]
      BY <1>1, <2>3 DEF Goto, Task
    <2>4. CASE LoadUser(d) \/ Promote(d) \/ SeedCheck(d)
      BY <2>1, <2>2, <2>3, <2>4 DEF LoadUser, Promote, SeedCheck
    <2>5. CASE CreateSession(d) \/ Authorize(d) \/ FindTarget(d)
      BY <2>1, <2>2, <2>3, <2>5 DEF CreateSession, Authorize, FindTarget
    <2>6. CASE Seed(d)
      <3>1. CASE Goto(d, "session")
        BY <2>1, <2>3, <3>1
      <3>2. CASE task' = [task EXCEPT ![d].next = task[d].next + 1]
        BY <1>1, <2>1, <2>6, <3>2 DEF Seed, At, Task
      <3> QED BY <2>6, <3>1, <3>2 DEF Seed
    <2>7. CASE Logout(d)
      BY <2>1, <2>7 DEF Logout
    <2>8. CASE Identify(d)
      BY <1>1, <2>1, <2>8 DEF Identify, Idle
    <2> QED BY <1>6, <2>4, <2>5, <2>6, <2>7, <2>8
  <1>7. ASSUME NEW d \in Browsers, SetRoles(d) \/ DeleteUser(d)
        PROVE  /\ task'[d].stage # "promote"
               /\ \A b \in Browsers \ {d} : task'[b] = task[b]
               /\ Users' \subseteq Users
    BY <1>1, <1>2, <1>7 DEF SetRoles, DeleteUser, Finish, Users, Idle
  <1>8. CASE UNCHANGED vars
    BY <1>8 DEF vars, Users
  <1> QED BY <1>3, <1>4, <1>5, <1>6, <1>7, <1>8 DEF Next, Login, Manage

\* The count that finds one row alone finds the oldest, and rows that appear
\* afterwards are younger.
LEMMA OldestStep ==
    ASSUME IInv, PromotedIsOldest, [Next]_vars
    PROVE  PromotedIsOldest'
  <1> SUFFICES ASSUME NEW b \in Browsers, task'[b].stage = "promote",
                      task'[b].user \in Users', NEW v \in Users'
               PROVE  task'[b].user <= v
    BY DEF PromotedIsOldest, At
  <1> DEFINE u == task[b].user
  <1>1. task'[b].user = u /\ (task[b].stage = "promote" \/ (task[b].stage = "count" /\ FirstUser))
    BY Origins
  <1>2. u \in 1..lastId /\ lastId \in Nat
    BY <1>1 DEF IInv, TypeOK, TaskInv, LoginTask, LoginStages, Known
  <1>3. Users' \subseteq Users \cup {lastId + 1}
    BY Origins
  <1>4. u \in Users
    BY <1>1, <1>2, <1>3
  <1>5. CASE v = lastId + 1
    BY <1>1, <1>2, <1>5
  <1>6. CASE v \in Users
    <2>1. CASE task[b].stage = "promote"
      BY <1>1, <1>4, <1>6, <2>1 DEF PromotedIsOldest, At
    <2>2. CASE FirstUser
      BY <1>1, <1>2, <1>4, <1>6, <2>2, FirstIsOldest DEF IInv
    <2> QED BY <1>1, <2>1, <2>2
  <1> QED BY <1>3, <1>5, <1>6

\* However many first logins overlap, and whoever is deleted meanwhile, only the
\* oldest account is promoted: two never are at once.
THEOREM OldestIsPromoted == Spec => []PromotedIsOldest
  <1>1. Init => PromotedIsOldest
    BY DEF Init, PromotedIsOldest, At, Idle
  <1> QED BY <1>1, OldestStep, AccessInductive, PTL DEF Spec

\* The store keeps its own rules under every interleaving (store.go's keys).
THEOREM StoreIsSound == Spec => []StoreSound
<1>1. NoOrphanRoles /\ OneUserPerAccount => StoreSound
    BY DEF StoreSound
<1> QED BY <1>1, RolesHaveUsers, AccountsAreUsers, PTL
-----------------------------------------------------------------------------
(* Roles that an admin gave. *)

\* An admin gave user u roles, and no login of u was under way then.
Steady(u) == override[u] # None /\ override[u].calm /\ override[u].roles # {}

\* A login of u that came later finds a user who was there before and has roles:
\* it neither promotes nor seeds.
Harmless(b, u) == task[b].user = u /\ task[b].stage \in LoginStages =>
    task[b].stage \in {"load", "seedcheck", "session"} /\ ~task[b].created

\* Nothing is overridden for an id that a later login may get.
Unclaimed == \A u \in Ids : u > lastId => override[u] = None

CalmInv ==
    /\ Unclaimed
    /\ \A u \in Ids : Steady(u) =>
          assigned[u] = override[u].roles /\ \A b \in Browsers : Harmless(b, u)

\* Inserting a role for one user leaves the others'.
LEMMA InsertElsewhere ==
    ASSUME NEW u \in Ids, NEW v, v # u, NEW r, TypeOK, InsertRole(v, r)
    PROVE  assigned'[u] = assigned[u]
  BY DEF InsertRole, TypeOK

\* A step of one handler that gives nobody new roles as an admin.
LEMMA CalmKept ==
    ASSUME CalmInv, TypeOK, NEW b \in Browsers, UNCHANGED override, lastId' \in Nat, lastId <= lastId',
           \A c \in Browsers \ {b} : task'[c] = task[c],
           \A u \in Ids : Steady(u) => assigned'[u] = assigned[u] /\ Harmless(b, u)'
    PROVE  CalmInv'
  <1>1. Unclaimed'
    <2>1. Ids \subseteq Nat /\ lastId \in Nat
      BY AccessAssumption DEF Ids, TypeOK
    <2> QED BY <2>1 DEF CalmInv, Unclaimed
  <1>2. ASSUME NEW u \in Ids, Steady(u)', NEW c \in Browsers PROVE Harmless(c, u)'
    <2>1. Steady(u)
      BY <1>2 DEF Steady
    <2>2. CASE c = b
      BY <2>1, <2>2
    <2>3. CASE c # b
      BY <2>1, <2>3 DEF CalmInv, Harmless
    <2> QED BY <2>2, <2>3
  <1>3. ASSUME NEW u \in Ids, Steady(u)' PROVE assigned'[u] = override'[u].roles
    BY <1>3 DEF CalmInv, Steady
  <1> QED BY <1>1, <1>2, <1>3 DEF CalmInv

\* What the statements of a login make of the handler.
LEMMA LoginMoves ==
    ASSUME IInv, NEW b \in Browsers
    PROVE  /\ Finish(b) => task'[b].stage = "idle"
           /\ \A s \in Stages : Goto(b, s) =>
                task'[b].stage = s /\ task'[b].user = task[b].user /\ task'[b].created = task[b].created
           /\ (Finish(b) \/ \E s \in Stages : Goto(b, s)) =>
                \A c \in Browsers \ {b} : task'[c] = task[c]
  <1>1. task \in [Browsers -> Task]
    BY DEF IInv, TypeOK
  <1>2. Finish(b) => task'[b].stage = "idle" /\ \A c \in Browsers \ {b} : task'[c] = task[c]
    BY <1>1 DEF Finish, Idle
  <1>3. ASSUME NEW s \in Stages, Goto(b, s)
        PROVE  /\ task'[b].stage = s /\ task'[b].user = task[b].user /\ task'[b].created = task[b].created
               /\ \A c \in Browsers \ {b} : task'[c] = task[c]
    BY <1>1, <1>3 DEF Goto, Task
  <1> QED BY <1>2, <1>3

\* Each statement of a login keeps away from roles an admin gave.
LEMMA CalmLogin ==
    ASSUME IInv, CalmInv, NEW b \in Browsers, Login(b)
    PROVE  CalmInv'
  <1>1. /\ UNCHANGED <<override, lastId>> /\ TypeOK /\ lastId \in Nat
        /\ task[b] \in Task
    BY AccessAssumption
    DEF IInv, TypeOK, Login, LoadUser, CountUsers, Promote, SeedCheck, Seed, CreateSession
  <1> SUFFICES ASSUME \A u \in Ids : Steady(u) =>
                         assigned[u] = override[u].roles /\ Harmless(b, u)
               PROVE  /\ \A c \in Browsers \ {b} : task'[c] = task[c]
                      /\ \A u \in Ids : Steady(u) => assigned'[u] = assigned[u] /\ Harmless(b, u)'
    BY <1>1, CalmKept DEF CalmInv
  <1>2. \A s \in {"count", "promote", "seedcheck", "seed", "session"} : s \in Stages
    BY DEF Stages
  <1>3. CASE LoadUser(b)
    <2>1. Finish(b) \/ Goto(b, IF task[b].created THEN "count" ELSE "seedcheck")
      BY <1>3 DEF LoadUser
    <2>2. task[b].stage = "load" /\ UNCHANGED assigned
      BY <1>3 DEF LoadUser, At
    <2> QED BY <1>2, <2>1, <2>2, LoginMoves DEF Harmless, LoginStages
  <1>4. CASE CountUsers(b) \/ Promote(b)
    <2>1. task[b].stage \in {"count", "promote"}
      BY <1>4 DEF CountUsers, Promote, At
    <2>2. Goto(b, "promote") \/ Goto(b, "seedcheck")
      BY <1>4 DEF CountUsers, Promote
    <2>3. \A u \in Ids : Steady(u) => task[b].user # u
      BY <2>1 DEF Harmless, LoginStages
    <2>4. UNCHANGED assigned \/ InsertRole(task[b].user, Admin)
      BY <1>4 DEF CountUsers, Promote
    <2> QED BY <1>1, <1>2, <2>2, <2>3, <2>4, LoginMoves, InsertElsewhere DEF Harmless
  <1>5. CASE SeedCheck(b)
    <2>1. task[b].stage = "seedcheck" /\ UNCHANGED assigned
      BY <1>5 DEF SeedCheck, At
    <2>2. \/ Goto(b, "seed") /\ assigned[task[b].user] = {}
          \/ Goto(b, "session")
      BY <1>5 DEF SeedCheck, ToSeed
    <2>3. \A u \in Ids : Steady(u) => assigned[u] # {}
      BY DEF Steady
    <2> QED BY <1>2, <2>1, <2>2, <2>3, LoginMoves DEF Harmless, LoginStages
  <1>6. CASE Seed(b)
    <2>1. task[b].stage = "seed"
      BY <1>6 DEF Seed, At
    <2>2. \A u \in Ids : Steady(u) => task[b].user # u
      BY <2>1 DEF Harmless, LoginStages
    <2>3. \A u \in Ids : Steady(u) => assigned'[u] = assigned[u]
      <3>1. UNCHANGED assigned \/ \E r : InsertRole(task[b].user, r)
        BY <1>6 DEF Seed
      <3> QED BY <1>1, <2>2, <3>1, InsertElsewhere
    <2>4. /\ task'[b].user = task[b].user
          /\ \A c \in Browsers \ {b} : task'[c] = task[c]
      <3>1. CASE Goto(b, "session")
        BY <1>2, <3>1, LoginMoves
      <3>2. CASE task' = [task EXCEPT ![b].next = task[b].next + 1]
        BY <1>1, <3>2 DEF TypeOK, Task
      <3> QED BY <1>6, <3>1, <3>2 DEF Seed
    <2> QED BY <2>2, <2>3, <2>4 DEF Harmless
  <1>7. CASE CreateSession(b)
    BY <1>7, LoginMoves DEF CreateSession, Harmless, LoginStages
  <1> QED BY <1>3, <1>4, <1>5, <1>6, <1>7 DEF Login

LEMMA CalmStep == IInv /\ CalmInv /\ [Next]_vars => CalmInv'
  <1> SUFFICES ASSUME IInv, CalmInv, [Next]_vars PROVE CalmInv'
    OBVIOUS
  <1>1. TypeOK /\ lastId \in Nat /\ task \in [Browsers -> Task] /\ Ids \subseteq Nat
    BY AccessAssumption DEF IInv, TypeOK, Ids
  <1>2. CASE Crash \/ UNCHANGED vars
    <2>1. UNCHANGED <<override, lastId, assigned>> /\ (task' = task \/ \A b \in Browsers : task'[b].stage = "idle")
      BY <1>2 DEF Crash, vars, Idle
    <2>2. Unclaimed' BY <2>1 DEF CalmInv, Unclaimed
    <2> QED BY <2>1, <2>2 DEF CalmInv, Steady, Harmless, LoginStages
  <1>3. ASSUME NEW b \in Browsers, UpsertUser(b) PROVE CalmInv'
    <2>1. /\ UNCHANGED <<assigned, override>>
          /\ \A c \in Browsers \ {b} : task'[c] = task[c]
      BY <1>1, <1>3 DEF UpsertUser
    <2>2. \/ /\ task'[b].stage = "load" /\ ~task'[b].created /\ lastId' = lastId
          \/ task'[b].user = lastId + 1 /\ lastId' = lastId + 1
      BY <1>1, <1>3 DEF UpsertUser, Idle
    <2>3. ASSUME NEW u \in Ids, Steady(u) PROVE u <= lastId
      <3>1. ~(u > lastId)
        BY <2>3 DEF CalmInv, Unclaimed, Steady
      <3>2. u \in Nat /\ lastId \in Nat
        BY <1>1
      <3> QED BY <3>1, <3>2
    <2>4. \A u \in Ids : Steady(u) => Harmless(b, u)'
      BY <1>1, <2>2, <2>3 DEF Harmless
    <2>5. lastId' \in Nat /\ lastId <= lastId'
      <3>1. lastId' = lastId \/ lastId' = lastId + 1
        BY <2>2
      <3> QED BY <1>1, <3>1
    <2>6. UNCHANGED override /\ \A u \in Ids : assigned'[u] = assigned[u]
      BY <2>1
    <2> QED BY <1>1, <2>1, <2>4, <2>5, <2>6, CalmKept
  <1>4. ASSUME NEW b \in Browsers, Logout(b) \/ Identify(b) \/ Authorize(b) \/ FindTarget(b)
        PROVE  CalmInv'
    <2>1. UNCHANGED <<assigned, override, lastId>>
      BY <1>4 DEF Logout, Identify, Authorize, FindTarget
    <2>2. /\ \A c \in Browsers \ {b} : task'[c] = task[c]
          /\ task' = task \/ task'[b].stage \in {"idle", "roles", "target", "write", "delete"}
      <3>1. CASE Logout(b)
        BY <3>1 DEF Logout
      <3>2. CASE Identify(b)
        BY <1>1, <3>2 DEF Identify, Idle
      <3>3. CASE Authorize(b) \/ FindTarget(b)
        <4>1. Finish(b) \/ \E s \in {"target", "write", "delete"} : s \in Stages /\ Goto(b, s)
          BY <3>3 DEF Authorize, FindTarget, Stages
        <4> QED BY <4>1, LoginMoves
      <3> QED BY <1>4, <3>1, <3>2, <3>3
    <2>3. \A u \in Ids : Steady(u) => Harmless(b, u)'
      BY <2>2 DEF CalmInv, Harmless, LoginStages
    <2>4. lastId' \in Nat /\ lastId <= lastId' /\ \A u \in Ids : assigned'[u] = assigned[u]
      BY <1>1, <2>1
    <2>5. UNCHANGED override /\ \A c \in Browsers \ {b} : task'[c] = task[c]
      BY <2>1, <2>2
    <2> QED BY <1>1, <2>3, <2>4, <2>5, CalmKept
  <1>5. ASSUME NEW b \in Browsers, SetRoles(b) \/ DeleteUser(b) PROVE CalmInv'
    <2>0. PICK u : u = task[b].target
      OBVIOUS
    <2>1. u \in 1..lastId /\ u \in Ids /\ lastId' = lastId
      <3>1. task[b].stage \in ManageStages
        BY <1>5 DEF SetRoles, DeleteUser, At, ManageStages
      <3>2. Known(u)
        BY <2>0, <3>1 DEF IInv, TaskInv, ManageTask
      <3> QED BY <1>1, <1>5, <3>2, KnownIds DEF SetRoles, DeleteUser, Known, IInv, TypeOK
    <2>2. task'[b].stage = "idle" /\ \A c \in Browsers \ {b} : task'[c] = task[c]
      BY <1>5, LoginMoves DEF SetRoles, DeleteUser
    <2>3. \A v \in Ids : \A c \in Browsers : Harmless(c, v) => Harmless(c, v)'
      BY <2>2 DEF Harmless, LoginStages
    <2>4. \/ UNCHANGED <<assigned, override>>
          \/ \E r : /\ assigned' = [assigned EXCEPT ![u] = r]
                   /\ \/ override' = [override EXCEPT ![u] = None]
                      \/ override' = [override EXCEPT ![u] = [roles |-> r, calm |-> Calm(u)]]
      BY <1>5, <2>0 DEF SetRoles, DeleteUser
    <2>5. \A v \in Ids : v # u => override'[v] = override[v] /\ assigned'[v] = assigned[v]
      BY <1>1, <2>4 DEF TypeOK
    <2>6. Unclaimed'
      <3>1. \A v \in Ids : v > lastId => v # u
        BY <1>1, <2>1
      <3> QED BY <2>1, <2>5, <3>1 DEF CalmInv, Unclaimed
    <2>7. ASSUME NEW v \in Ids, v # u, Steady(v)'
          PROVE  assigned'[v] = override'[v].roles /\ \A c \in Browsers : Harmless(c, v)'
      <3>1. Steady(v)
        BY <2>5, <2>7 DEF Steady
      <3> QED BY <2>3, <2>5, <2>7, <3>1 DEF CalmInv
    <2>8. ASSUME Steady(u)'
          PROVE  assigned'[u] = override'[u].roles /\ \A c \in Browsers : Harmless(c, u)'
      <3>1. CASE UNCHANGED <<assigned, override>>
        <4>1. Steady(u)
          BY <2>8, <3>1 DEF Steady
        <4> QED BY <2>1, <2>3, <3>1, <4>1 DEF CalmInv
      <3>2. ASSUME NEW r, assigned' = [assigned EXCEPT ![u] = r],
                   override' = [override EXCEPT ![u] = None]
            PROVE  FALSE
        <4>1. override'[u] = None
          BY <1>1, <2>1, <3>2 DEF TypeOK
        <4> QED BY <2>8, <4>1 DEF Steady
      <3>3. ASSUME NEW r, assigned' = [assigned EXCEPT ![u] = r],
                   override' = [override EXCEPT ![u] = [roles |-> r, calm |-> Calm(u)]]
            PROVE  assigned'[u] = override'[u].roles /\ \A c \in Browsers : Harmless(c, u)'
        <4> PICK calm : calm = Calm(u)
          OBVIOUS
        <4>1. override' = [override EXCEPT ![u] = [roles |-> r, calm |-> calm]]
          BY <3>3, Zenon
        <4>2. /\ assigned'[u] = r
              /\ override'[u].roles = r /\ override'[u].calm = calm
          BY <1>1, <2>1, <3>3, <4>1 DEF TypeOK
        <4>3. Calm(u)
          <5>1. calm
            BY <2>8, <4>2 DEF Steady
          <5> QED BY <5>1, Zenon
        <4>4. \A c \in Browsers : Harmless(c, u)'
          BY <2>1, <2>3, <4>3 DEF Calm, Harmless, LoginStages
        <4> QED BY <4>2, <4>4
      <3> QED BY <2>4, <3>1, <3>2, <3>3
    <2> QED BY <2>6, <2>7, <2>8 DEF CalmInv
  <1> QED BY <1>2, <1>3, <1>4, <1>5, CalmLogin DEF Next, Manage

\* Roles an admin gave while no login of the user was under way stay, whatever
\* logins, promotions and seeds follow (roles-and-permissions.md:140).
THEOREM CalmOverridesStand == Spec => []CalmOverrideStands
  <1>1. Init => CalmInv
    BY DEF Init, CalmInv, Unclaimed, Steady
  <1>2. CalmInv => CalmOverrideStands
    BY DEF CalmInv, CalmOverrideStands, Steady, Users
  <1> QED BY <1>1, <1>2, CalmStep, AccessInductive, PTL DEF Spec

-----------------------------------------------------------------------------
(* Requests one after the other.                                            *)

\* One request is served at a time, and nobody deletes the own account.
OneAtATime   == \A b, c \in Browsers : Idling(b) \/ Idling(c) \/ b = c
NobodyLeaves == \A b \in Browsers : At(b, "delete") => task[b].target # task[b].user

\* Who is an admin by the rules alone is one by the configuration file too, if that
\* names roles for the account: seeding takes nothing away.
SeedsKeepAdmins ==
    \A a \in Accounts : ConfigRoles[a] # <<>> /\ Admin \in Effective({}, a) =>
        \E j \in DOMAIN ConfigRoles[a] : ConfigRoles[a][j] = Admin

IsAnAdmin(u) == u \in Users /\ Admin \in Effective(assigned[u], rows[u])

\* What a handler knows while no other one runs: its user is there, may go on if it
\* was found to be an admin, and has roles when the seeding has begun.
Own(b) ==
    /\ ~Idling(b) => task[b].user \in Users /\ rows[task[b].user] = AccountOf[b]
    /\ task[b].stage \in {"target", "write", "delete"} => IsAnAdmin(task[b].user)
    /\ task[b].stage = "seed" => task[b].next = 1 \/ assigned[task[b].user] # {}

\* A login that will make an admin: the first one, or one that seeds the role.
Promised(b) ==
    \/ task[b].stage \in {"load", "count", "promote"} /\ task[b].created /\ Users = {task[b].user}
    \/ task[b].stage = "seed" /\ \E j \in DOMAIN ConfigRoles[AccountOf[b]] :
          task[b].next <= j /\ ConfigRoles[AccountOf[b]][j] = Admin

Secured == Users = {} \/ (\E u \in Ids : IsAnAdmin(u)) \/ \E b \in Browsers : Promised(b)

AloneInv == Secured /\ \A b \in Browsers : Own(b)

\* An idle handler claims and promises nothing.
LEMMA IdleOwns ==
    ASSUME NEW c \in Browsers, Idling(c) PROVE Own(c) /\ ~Promised(c)
  BY DEF Idling, Own, Promised

\* What is to be shown of a step of one handler.
LEMMA AloneFrame ==
    ASSUME AloneInv, NEW b \in Browsers,
           \A c \in Browsers \ {b} : task'[c] = task[c] /\ Idling(c),
           Own(b)', Secured'
    PROVE  AloneInv'
  <1>1. ASSUME NEW c \in Browsers, c # b PROVE Own(c)'
    <2>1. Idling(c)'
      BY <1>1 DEF Idling
    <2> QED BY <2>1 DEF Own, Idling
  <1> QED BY <1>1 DEF AloneInv

\* Nobody else promises anything meanwhile.
LEMMA AloneSecured ==
    ASSUME AloneInv, NEW b \in Browsers, \A c \in Browsers \ {b} : Idling(c), ~Promised(b)
    PROVE  Users = {} \/ \E u \in Ids : IsAnAdmin(u)
  BY IdleOwns DEF AloneInv, Secured

LEMMA GoesOn ==
    ASSUME IInv, NEW b \in Browsers, NEW s \in Stages, Goto(b, s)
    PROVE  /\ task'[b].stage = s /\ task'[b].user = task[b].user
           /\ task'[b].created = task[b].created /\ task'[b].next = task[b].next
           /\ task'[b].target = task[b].target
           /\ \A c \in Browsers \ {b} : task'[c] = task[c]
  <1>1. task \in [Browsers -> Task] /\ task[b] \in Task
    BY DEF IInv, TypeOK
  <1> QED BY <1>1 DEF Goto, Task

LEMMA Done ==
    ASSUME IInv, NEW b \in Browsers, Finish(b)
    PROVE  task'[b].stage = "idle" /\ \A c \in Browsers \ {b} : task'[c] = task[c]
  BY DEF IInv, TypeOK, Finish, Idle

\* A step that writes nothing takes no admin away.
LEMMA ReadsOnly ==
    ASSUME UNCHANGED <<rows, assigned>>
    PROVE  Users' = Users /\ \A u : IsAnAdmin(u)' = IsAnAdmin(u)
  BY DEF Users, IsAnAdmin, Effective

LEMMA UpsertAlone ==
    ASSUME IInv, AloneInv, OneAtATime', NEW b \in Browsers, UpsertUser(b)
    PROVE  AloneInv'
  <1>1. task \in [Browsers -> Task] /\ rows \in [Ids -> Accounts \union {None}] /\ lastId \in Nat
    BY AccessAssumption DEF IInv, TypeOK
  <1>2. \A c \in Browsers \ {b} : task'[c] = task[c]
    BY <1>1 DEF UpsertUser
  <1>3. task'[b].stage = "load" /\ Idling(b)
    BY <1>1 DEF UpsertUser, Idle
  <1>4. \A c \in Browsers \ {b} : Idling(c)
    BY <1>2, <1>3 DEF OneAtATime, Idling
  <1>5. Users = {} \/ \E u \in Ids : IsAnAdmin(u)
    BY <1>3, <1>4, IdleOwns, AloneSecured
  <1>6. ASSUME NEW u \in Users, rows[u] = AccountOf[b], UNCHANGED <<rows, lastId>>,
               task' = [task EXCEPT ![b] = [Idle EXCEPT !.stage = "load", !.user = u]]
        PROVE  AloneInv'
    <2>1. task'[b].user = u
      BY <1>1, <1>6 DEF Idle
    <2>2. Users' = Users /\ \A v : IsAnAdmin(v)' = IsAnAdmin(v)
      BY <1>6, ReadsOnly DEF UpsertUser
    <2>3. Own(b)'
      BY <1>3, <1>6, <2>1, <2>2 DEF Own
    <2>4. Secured'
      BY <1>5, <1>6, <2>2 DEF Secured
    <2> QED BY <1>2, <1>4, <2>3, <2>4, AloneFrame
  <1>7. ASSUME lastId < MaxUsers, rows' = [rows EXCEPT ![lastId + 1] = AccountOf[b]],
               task' = [task EXCEPT ![b] =
                  [Idle EXCEPT !.stage = "load", !.user = lastId + 1, !.created = TRUE]],
               NEW v, v = lastId + 1
        PROVE  AloneInv'
    <2>1. task'[b].user = v /\ task'[b].created
      BY <1>1, <1>7 DEF Idle
    <2>2. v \in Ids /\ AccountOf[b] # None
      <3>1. MaxUsers \in Nat /\ AccountOf[b] \in Accounts /\ None \notin Accounts
        BY AccessAssumption
      <3>2. v \in 1..MaxUsers
        BY <1>1, <1>7, <3>1
      <3> QED BY <3>1, <3>2 DEF Ids
    <2>3. rows'[v] = AccountOf[b] /\ \A u \in Ids : u # v => rows'[u] = rows[u]
      BY <1>1, <1>7, <2>2
    <2>4. Users' = Users \union {v}
      BY <2>2, <2>3 DEF Users
    <2>5. v \notin Users
      BY <1>1, <1>7 DEF IInv, Allocated
    <2>6. Own(b)'
      BY <1>3, <2>1, <2>3, <2>4 DEF Own
    <2>7. \A u \in Ids : IsAnAdmin(u) => IsAnAdmin(u)'
      BY <2>3, <2>4, <2>5 DEF UpsertUser, IsAnAdmin, Effective
    <2>8. Users = {} => Promised(b)'
      BY <1>3, <2>1, <2>4 DEF Promised
    <2>9. Secured'
      BY <1>5, <2>7, <2>8 DEF Secured
    <2> QED BY <1>2, <1>4, <2>6, <2>9, AloneFrame
  <1> QED BY <1>6, <1>7 DEF UpsertUser

\* A role that is inserted takes no admin away, if its user did not live by the rules.
LEMMA InsertKeeps ==
    ASSUME TypeOK, NEW u \in Users, NEW r \in Roles, InsertRole(u, r), UNCHANGED rows
    PROVE  /\ Users' = Users /\ assigned'[u] = assigned[u] \union {r}
           /\ \A v \in Ids : v # u => IsAnAdmin(v)' = IsAnAdmin(v)
           /\ Admin \in assigned[u] => IsAnAdmin(u)'
           /\ r = Admin => IsAnAdmin(u)'
  <1>1. u \in Ids /\ Users' = Users
    BY DEF Users
  <1>2. assigned' = [assigned EXCEPT ![u] = @ \union {r}]
    BY DEF InsertRole
  <1>3. assigned'[u] = assigned[u] \union {r} /\ \A v \in Ids : v # u => assigned'[v] = assigned[v]
    BY <1>1, <1>2 DEF TypeOK
  <1> QED BY <1>1, <1>3 DEF IsAnAdmin, Effective

LEMMA LoginAlone ==
    ASSUME IInv, AloneInv, OneAtATime, ~StoreFaults, SeedsKeepAdmins, NEW b \in Browsers, Login(b)
    PROVE  AloneInv'
  <1>0. /\ ~Idling(b) /\ UNCHANGED rows /\ TypeOK /\ Users' = Users
        /\ Own(b) /\ task \in [Browsers -> Task] /\ task[b] \in Task
    BY DEF Login, LoadUser, CountUsers, Promote, SeedCheck, Seed, CreateSession, At, Idling,
           Users, AloneInv, IInv, TypeOK
  <1>1. \A c \in Browsers \ {b} : Idling(c)
    BY <1>0 DEF OneAtATime
  <1>2. task[b].user \in Users /\ rows[task[b].user] = AccountOf[b] /\ task[b].user \in Ids
    BY <1>0 DEF Own, Users
  <1>3. \A s \in {"count", "promote", "seedcheck", "seed", "session"} : s \in Stages
    BY DEF Stages
  <1>4. Users # {} /\ (Promised(b) \/ \E u \in Ids : IsAnAdmin(u))
    BY <1>1, <1>2, AloneSecured
  \* One that goes on without writing, and does not leave a promise behind.
  <1>5. ASSUME NEW s \in {"count", "promote", "seedcheck", "seed", "session"}, Goto(b, s),
               UNCHANGED assigned, s = "seed" => task[b].next = 1,
               Promised(b) => Promised(b)'
        PROVE  AloneInv'
    <2>1. /\ task'[b].stage = s /\ task'[b].user = task[b].user /\ task'[b].next = task[b].next
          /\ \A c \in Browsers \ {b} : task'[c] = task[c]
      BY <1>3, <1>5, GoesOn
    <2>2. \A u : IsAnAdmin(u)' = IsAnAdmin(u)
      BY <1>0, <1>5, ReadsOnly
    <2>3. Own(b)'
      BY <1>0, <1>2, <1>5, <2>1 DEF Own
    <2>4. Secured'
      BY <1>4, <1>5, <2>2 DEF Secured
    <2> QED BY <1>1, <2>1, <2>3, <2>4, AloneFrame
  <1>6. CASE LoadUser(b)
    <2>1. task[b].stage = "load" /\ UNCHANGED assigned
      BY <1>6 DEF LoadUser, At
    <2>2. Goto(b, IF task[b].created THEN "count" ELSE "seedcheck")
      BY <1>2, <1>6 DEF LoadUser
    <2>3. CASE task[b].created
      <3>1. task'[b].stage = "count" /\ task'[b].user = task[b].user /\ task'[b].created
        BY <1>3, <2>2, <2>3, GoesOn
      <3>2. Promised(b) => Promised(b)'
        BY <1>0, <2>1, <3>1 DEF Promised
      <3> QED BY <1>5, <2>1, <2>2, <2>3, <3>2
    <2>4. CASE ~task[b].created
      BY <1>5, <2>1, <2>2, <2>4 DEF Promised
    <2> QED BY <2>3, <2>4
  <1>7. CASE CountUsers(b)
    <2>1. task[b].stage = "count" /\ UNCHANGED assigned
      BY <1>7 DEF CountUsers, At
    <2>2. Goto(b, IF FirstUser THEN "promote" ELSE "seedcheck")
      BY <1>7 DEF CountUsers
    <2>3. Promised(b) => FirstUser
      <3>1. Cardinality({task[b].user}) = 1
        BY FS_Singleton
      <3> QED BY <2>1, <3>1 DEF Promised, FirstUser
    <2>4. CASE FirstUser
      <3>1. /\ task'[b].stage = "promote" /\ task'[b].user = task[b].user
            /\ task'[b].created = task[b].created
        BY <1>3, <2>2, <2>4, GoesOn
      <3>2. Promised(b) => Promised(b)'
        BY <1>0, <2>1, <3>1 DEF Promised
      <3> QED BY <1>5, <2>1, <2>2, <2>4, <3>2
    <2>5. CASE ~FirstUser
      BY <1>5, <2>1, <2>2, <2>3, <2>5
    <2> QED BY <2>4, <2>5
  <1>8. CASE Promote(b)
    <2>1. InsertRole(task[b].user, Admin) /\ Goto(b, "seedcheck")
      BY <1>8 DEF Promote
    <2>2. PICK u : u = task[b].user
      OBVIOUS
    <2>5. IsAnAdmin(u)'
      <3>1. Admin \in Roles
        BY AccessAssumption
      <3> QED BY <1>0, <1>2, <2>1, <2>2, <3>1, InsertKeeps
    <2>3. /\ task'[b].stage = "seedcheck" /\ task'[b].user = task[b].user
          /\ \A c \in Browsers \ {b} : task'[c] = task[c]
      BY <1>3, <2>1, GoesOn
    <2>4. Own(b)' /\ Secured'
      BY <1>0, <1>2, <2>2, <2>3, <2>5 DEF Own, Secured
    <2> QED BY <1>1, <2>3, <2>4, AloneFrame
  <1>9. CASE SeedCheck(b)
    <2>1. task[b].stage = "seedcheck" /\ UNCHANGED assigned
      BY <1>9 DEF SeedCheck, At
    <2>2. task[b].next = 1
      BY <2>1 DEF IInv, TaskInv, LoginTask, LoginStages
    <2>3. Goto(b, "seed") \/ Goto(b, "session")
      BY <1>9 DEF SeedCheck
    <2> QED BY <1>5, <2>1, <2>2, <2>3 DEF Promised
  <1>10. CASE Seed(b)
    <2> DEFINE seeds == ConfigRoles[AccountOf[b]]
    <2>1. PICK k : k = task[b].next
      OBVIOUS
    <2>2. PICK u : u = task[b].user
      OBVIOUS
    <2>3. task[b].stage = "seed" /\ k \in 1..Len(seeds)
      BY <1>10, <2>1 DEF Seed, At, IInv, TaskInv, LoginTask, LoginStages
    <2>4. seeds \in Seq(Roles) /\ Len(seeds) \in Nat /\ DOMAIN seeds = 1..Len(seeds)
      BY AccessAssumption
    <2>5. seeds[k] \in Roles
      BY <2>3, <2>4
    <2>6. u \in Users /\ u \in Ids /\ rows[u] = AccountOf[b] /\ AccountOf[b] \in Accounts
      BY <1>2, <2>2, AccessAssumption
    <2>7. InsertRole(u, seeds[k])
      BY <1>10, <2>1, <2>2 DEF Seed
    <2>8. /\ assigned'[u] = assigned[u] \union {seeds[k]}
          /\ \A v \in Ids : v # u => IsAnAdmin(v)' = IsAnAdmin(v)
          /\ Admin \in assigned[u] => IsAnAdmin(u)'
          /\ seeds[k] = Admin => IsAnAdmin(u)'
      BY <1>0, <2>5, <2>6, <2>7, InsertKeeps
    <2>9. /\ task'[b].user = u /\ \A c \in Browsers \ {b} : task'[c] = task[c]
          /\ \/ k < Len(seeds) /\ task'[b].stage = "seed" /\ task'[b].next = k + 1
             \/ k = Len(seeds) /\ task'[b].stage = "session"
      <3>1. CASE k < Len(seeds)
        <4>1. task' = [task EXCEPT ![b].next = k + 1]
          BY <1>10, <2>1, <3>1 DEF Seed
        <4> QED BY <1>0, <2>2, <2>3, <3>1, <4>1 DEF Task
      <3>2. CASE ~(k < Len(seeds))
        <4>1. Goto(b, "session")
          BY <1>10, <2>1, <3>2 DEF Seed
        <4>2. k = Len(seeds)
          BY <2>3, <2>4, <3>2
        <4> QED BY <1>3, <2>2, <4>1, <4>2, GoesOn
      <3> QED BY <3>1, <3>2
    <2>10. Own(b)'
      BY <1>0, <2>6, <2>8, <2>9 DEF Own
    <2>11. ASSUME NEW j \in DOMAIN seeds, k <= j, seeds[j] = Admin
           PROVE  IsAnAdmin(u)' \/ Promised(b)'
      <3>1. CASE j = k
        BY <2>8, <2>11, <3>1
      <3>2. CASE j # k
        <4>1. k < Len(seeds) /\ k + 1 <= j
          BY <2>3, <2>4, <2>11, <3>2
        <4>2. task'[b].stage = "seed" /\ task'[b].next = k + 1
          BY <2>3, <2>4, <2>9, <4>1
        <4> QED BY <2>11, <4>1, <4>2 DEF Promised
      <3> QED BY <3>1, <3>2
    <2>12. IsAnAdmin(u) => IsAnAdmin(u)' \/ Promised(b)'
      <3> SUFFICES ASSUME IsAnAdmin(u), Admin \notin assigned[u] PROVE IsAnAdmin(u)' \/ Promised(b)'
        BY <2>8
      <3>1. assigned[u] = {} /\ Admin \in Effective({}, AccountOf[b])
        BY <2>6 DEF IsAnAdmin, Effective
      <3>2. k = 1
        BY <1>0, <2>1, <2>2, <2>3, <3>1 DEF Own
      <3>3. seeds # <<>>
        BY <2>3, <2>4
      <3>4. PICK j \in DOMAIN seeds : seeds[j] = Admin
        BY <2>6, <3>1, <3>3 DEF SeedsKeepAdmins
      <3>5. k <= j
        BY <2>4, <3>2
      <3> QED BY <2>11, <3>4, <3>5
    <2>13. Promised(b) => \E j \in DOMAIN seeds : k <= j /\ seeds[j] = Admin
      BY <2>1, <2>3 DEF Promised
    <2>14. Secured'
      BY <1>4, <2>6, <2>8, <2>11, <2>12, <2>13 DEF Secured
    <2> QED BY <1>1, <2>9, <2>10, <2>14, AloneFrame
  <1>11. CASE CreateSession(b)
    <2>1. task[b].stage = "session" /\ UNCHANGED assigned /\ Finish(b)
      BY <1>11 DEF CreateSession, At
    <2>2. task'[b].stage = "idle" /\ \A c \in Browsers \ {b} : task'[c] = task[c]
      BY <2>1, Done
    <2>3. Own(b)'
      BY <2>2 DEF Own, Idling
    <2>4. \A u : IsAnAdmin(u)' = IsAnAdmin(u)
      BY <1>0, <2>1, ReadsOnly
    <2>5. Secured'
      BY <1>4, <2>1, <2>4 DEF Promised, Secured
    <2> QED BY <1>1, <2>2, <2>3, <2>5, AloneFrame
  <1> QED BY <1>0, <1>6, <1>7, <1>8, <1>9, <1>10, <1>11 DEF Login

\* An admin who serves others stays one.
LEMMA ManageAlone ==
    ASSUME IInv, AloneInv, OneAtATime, NobodyLeaves, NEW b \in Browsers, Manage(b)
    PROVE  AloneInv'
  <1>0. ~Idling(b) /\ ~Promised(b) /\ Own(b) /\ TypeOK
    BY DEF Manage, Authorize, FindTarget, SetRoles, DeleteUser, At, Idling, Promised, AloneInv, IInv
  <1>1. \A c \in Browsers \ {b} : Idling(c)
    BY <1>0 DEF OneAtATime
  <1>2. task[b].user \in Users /\ rows[task[b].user] = AccountOf[b] /\ task[b].user \in Ids
    BY <1>0 DEF Own, Users
  <1>3. \E u \in Ids : IsAnAdmin(u)
    BY <1>0, <1>1, <1>2, AloneSecured
  <1>4. ASSUME Authorize(b) \/ FindTarget(b) PROVE AloneInv'
    <2>1. Users' = Users /\ (\A u : IsAnAdmin(u)' = IsAnAdmin(u)) /\ UNCHANGED <<rows, assigned>>
      BY <1>4, ReadsOnly DEF Authorize, FindTarget
    <2>2. Secured'
      BY <1>3, <2>1 DEF Secured
    <2>3. CASE Finish(b)
      <3>1. task'[b].stage = "idle" /\ \A c \in Browsers \ {b} : task'[c] = task[c]
        BY <2>3, Done
      <3>2. Own(b)'
        BY <3>1 DEF Own, Idling
      <3> QED BY <1>1, <2>2, <3>1, <3>2, AloneFrame
    <2>4. ASSUME NEW s \in {"target", "delete", "write"}, Goto(b, s), IsAnAdmin(task[b].user)
          PROVE  AloneInv'
      <3>1. s \in Stages
        BY DEF Stages
      <3>2. /\ task'[b].stage = s /\ task'[b].user = task[b].user
            /\ \A c \in Browsers \ {b} : task'[c] = task[c]
        BY <2>4, <3>1, GoesOn
      <3>3. Own(b)'
        BY <1>2, <2>1, <2>4, <3>2 DEF Own
      <3> QED BY <1>1, <2>2, <3>2, <3>3, AloneFrame
    <2>5. CASE Authorize(b)
      <3>1. IsAdmin(b) => IsAnAdmin(task[b].user)
        BY <1>2 DEF IsAdmin, IsAnAdmin
      <3> QED BY <2>3, <2>4, <2>5, <3>1 DEF Authorize
    <2>6. CASE FindTarget(b)
      <3>1. IsAnAdmin(task[b].user)
        BY <1>0, <2>6 DEF FindTarget, At, Own
      <3> QED BY <2>3, <2>4, <2>6, <3>1 DEF FindTarget
    <2> QED BY <1>4, <2>5, <2>6
  <1>5. ASSUME NEW u, u = task[b].user, SetRoles(b) \/ DeleteUser(b) PROVE AloneInv'
    <2>1. task[b].stage \in {"write", "delete"} /\ Finish(b)
      BY <1>5 DEF SetRoles, DeleteUser, At
    <2>2. task[b].target # u
      BY <1>5 DEF SetRoles, DeleteUser, At, NobodyLeaves, IInv, TaskInv, WriteTask
    <2>3. IsAnAdmin(u)
      BY <1>0, <1>5, <2>1 DEF Own
    <2>4. rows'[u] = rows[u] /\ assigned'[u] = assigned[u]
      BY <1>0, <1>2, <1>5, <2>2 DEF SetRoles, DeleteUser, TypeOK
    <2>5. IsAnAdmin(u)'
      BY <1>2, <1>5, <2>3, <2>4 DEF IsAnAdmin, Users, Effective
    <2>6. task'[b].stage = "idle" /\ \A c \in Browsers \ {b} : task'[c] = task[c]
      BY <2>1, Done
    <2>7. Own(b)' /\ Secured'
      BY <1>2, <1>5, <2>5, <2>6 DEF Own, Idling, Secured
    <2> QED BY <1>1, <2>6, <2>7, AloneFrame
  <1> QED BY <1>4, <1>5 DEF Manage

LEMMA IdentifyAlone ==
    ASSUME IInv, AloneInv, OneAtATime', NEW b \in Browsers, Identify(b)
    PROVE  AloneInv'
  <1>1. task \in [Browsers -> Task] /\ Idling(b) /\ cookie[b] \in Users
    BY DEF IInv, TypeOK, Identify, SignedIn
  <1>2. /\ task'[b].stage = "roles" /\ task'[b].user = cookie[b]
        /\ \A c \in Browsers \ {b} : task'[c] = task[c]
    BY <1>1 DEF Identify, Idle
  <1>3. \A c \in Browsers \ {b} : Idling(c)
    BY <1>2 DEF OneAtATime, Idling
  <1>4. Users' = Users /\ (\A u : IsAnAdmin(u)' = IsAnAdmin(u)) /\ UNCHANGED rows
    BY ReadsOnly DEF Identify
  <1>5. rows[cookie[b]] = AccountOf[b]
    <2>1. cookie[b] # None /\ rows[cookie[b]] # None
      BY <1>1, AccessAssumption DEF Users
    <2> QED BY <2>1 DEF IInv, CookieInv, CookieOwn
  <1>6. Own(b)'
    BY <1>1, <1>2, <1>4, <1>5 DEF Own
  <1>7. Secured'
    BY <1>1, <1>3, <1>4, IdleOwns, AloneSecured DEF Secured
  <1> QED BY <1>2, <1>3, <1>6, <1>7, AloneFrame

LEMMA AloneStep ==
    ASSUME ~StoreFaults, ~MayCrash, SeedsKeepAdmins, IInv, AloneInv,
           OneAtATime, OneAtATime', NobodyLeaves, [Next]_vars
    PROVE  AloneInv'
  <1>1. ASSUME UNCHANGED <<rows, assigned, task>> PROVE AloneInv'
    <2>1. Users' = Users /\ (\A u : IsAnAdmin(u)' = IsAnAdmin(u))
      BY <1>1, ReadsOnly
    <2> QED BY <1>1, <2>1 DEF AloneInv, Own, Secured, Promised, Idling
  <1>2. CASE UNCHANGED vars \/ \E b \in Browsers : Logout(b)
    BY <1>1, <1>2 DEF vars, Logout
  <1>3. ~Crash
    BY DEF Crash
  <1> QED BY <1>2, <1>3, UpsertAlone, LoginAlone, ManageAlone, IdentifyAlone DEF Next

\* There is always an admin again when a request is done (auth.go:464-465), if
\* requests come one after the other, none is cut short, nobody deletes the own
\* account and the seeds take no admin's role away: overlap is what breaks it.
THEOREM AdminWhenAlone ==
    ~StoreFaults /\ ~MayCrash /\ SeedsKeepAdmins =>
        (Spec /\ []OneAtATime /\ []NobodyLeaves => []SomeoneIsAdmin)
  <1> SUFFICES ASSUME ~StoreFaults, ~MayCrash, SeedsKeepAdmins
               PROVE  Spec /\ []OneAtATime /\ []NobodyLeaves => []SomeoneIsAdmin
    OBVIOUS
  <1>1. Init => AloneInv
    <2> SUFFICES ASSUME Init PROVE AloneInv
      OBVIOUS
    <2>1. Users = {} /\ \A b \in Browsers : Idling(b)
      BY DEF Init, Users, Idling, Idle
    <2> QED BY <2>1, IdleOwns DEF AloneInv, Secured
  <1>2. IInv /\ AloneInv /\ OneAtATime /\ OneAtATime' /\ NobodyLeaves /\ [Next]_vars => AloneInv'
    BY AloneStep
  <1>3. AloneInv => SomeoneIsAdmin
    BY IdleOwns DEF AloneInv, Secured, SomeoneIsAdmin, IsAnAdmin
  <1> QED BY <1>1, <1>2, <1>3, AccessInductive, PTL DEF Spec
=============================================================================
