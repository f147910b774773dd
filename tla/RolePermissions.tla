---------------------------- MODULE RolePermissions ----------------------------
(***************************************************************************)
(* What a role permits (internal/auth/rbac.go), how a user comes by roles  *)
(* (auto_assignment.go, role_resolver.go), and those that ask: the         *)
(* middleware in front of a handler, RequireAction or, for the routes of   *)
(* the administration, RequireRole, and the Permissions endpoint, by whose *)
(* answer the pages show their buttons.  NewRBAC takes the rules one after *)
(* the other and opens the groups they list, which may list each other, in *)
(* circles too; afterwards nothing here changes.                           *)
(***************************************************************************)
EXTENDS Naturals, Sequences, Functions

CONSTANTS
    Names,     \* what a rule or a group may list: leaf actions and role groups
    All,       \* "*"
    AdminActions,  \* those of the administration's buttons
    Clusters, Roles,
    Admin,     \* the role that RequireRole asks for
    Facts,     \* the conditions of auto-assignment rules which a user may meet
    HasId,     \* the condition authenticated: there is an external id
    NoRole,    \* no default role
    Configs    \* the configurations

Entries == Names \union {All}
Rules   == [role : Roles, clusters : SUBSET (Clusters \union {All}), actions : Seq(Entries)]

ASSUME PermissionsAssumption ==
    /\ All \notin Names /\ All \notin Clusters
    /\ AdminActions \subseteq Names
    /\ NoRole \notin Roles
    /\ HasId \in Facts
    /\ \A c \in Configs :
          /\ DOMAIN c.groups \subseteq Names
          /\ \A g \in DOMAIN c.groups : c.groups[g] \in Seq(Entries)
          /\ c.rules \in Seq(Rules)
          /\ c.auto \subseteq [match : SUBSET Facts, role : Roles]
          /\ c.default \in Roles \union {NoRole}

VARIABLES
    config,
    expandedRules,  \* for the rules dealt with: their leaf actions
    seen, todo,     \* of expandActions, for the rule it is at
    result

permissionVars == <<config, expandedRules, seen, todo, result>>

\* The rule NewRBAC is at; there is none when it is through.
At    == Len(expandedRules) + 1
Ready == At > Len(config.rules)

ActionsOf(i) == IF i <= Len(config.rules) THEN config.rules[i].actions ELSE <<>>

containsWildcard(list) == All \in Range(list)

PermissionsTypeOK ==
    /\ config \in Configs
    /\ expandedRules \in Seq(Seq(Entries)) /\ Len(expandedRules) <= Len(config.rules)
    /\ seen \subseteq Entries
    /\ todo \in Seq(Entries) /\ result \in Seq(Entries)

PermissionsInit ==
    /\ config \in Configs
    /\ expandedRules = <<>> /\ seen = {} /\ result = <<>>
    /\ todo = ActionsOf(1)

\* On to the next rule.
Conclude(actions) ==
    /\ expandedRules' = Append(expandedRules, actions)
    /\ todo' = ActionsOf(At + 1)
    /\ seen' = {} /\ result' = <<>>
    /\ UNCHANGED config

\* A rule that lists "*" is not expanded.
TakeWildcard ==
    /\ ~Ready /\ containsWildcard(ActionsOf(At))
    /\ Conclude(<<All>>)

\* expandActions comes to the next item, which it has seen ...
SkipSeen ==
    /\ Head(todo) \in seen
    /\ todo' = Tail(todo)
    /\ UNCHANGED <<config, expandedRules, seen, result>>

\* ... or which is a group: its items come before the rest of the list ...
OpenGroup ==
    /\ Head(todo) \in DOMAIN config.groups \ seen
    /\ seen' = seen \union {Head(todo)}
    /\ todo' = config.groups[Head(todo)] \o Tail(todo)
    /\ UNCHANGED <<config, expandedRules, result>>

\* ... or which is an action.
TakeAction ==
    /\ Head(todo) \notin seen /\ Head(todo) \notin DOMAIN config.groups
    /\ seen' = seen \union {Head(todo)}
    /\ result' = Append(result, Head(todo))
    /\ todo' = Tail(todo)
    /\ UNCHANGED <<config, expandedRules>>

expandActions ==
    /\ ~Ready /\ ~containsWildcard(ActionsOf(At))
    /\ \/ todo # <<>> /\ (SkipSeen \/ OpenGroup \/ TakeAction)
       \/ todo = <<>> /\ Conclude(result)

PermissionsNext == TakeWildcard \/ expandActions

PermissionsSpec == PermissionsInit /\ [][PermissionsNext]_permissionVars

-----------------------------------------------------------------------------
matchesEntry(list, value) == All \in list \/ value \in list

\* The rules, by number, that speak for one of the roles on the cluster.
RulesFor(roles, cluster) ==
    {i \in DOMAIN expandedRules : /\ config.rules[i].role \in roles
                                  /\ matchesEntry(config.rules[i].clusters, cluster)}

IsAllowed(roles, cluster, action) ==
    \E i \in RulesFor(roles, cluster) : matchesEntry(Range(expandedRules[i]), action)

ExpandedAnywhere(roles, cluster) ==   \* mutant: the cluster is not looked at
    UNION {Range(expandedRules[i]) :
              i \in {j \in DOMAIN expandedRules : config.rules[j].role \in roles}}

ExpandedActions(roles, cluster) ==
    UNION {Range(expandedRules[i]) : i \in RulesFor(roles, cluster)}

\* A match without a condition matches nobody.
matchesRule(match, facts) == match # {} /\ match \subseteq facts

AutoAssign(facts) == {r.role : r \in {s \in config.auto : matchesRule(s.match, facts)}}

ResolveRoles(assigned, facts) ==
    IF assigned # {} THEN assigned
    ELSE IF AutoAssign(facts) # {} THEN AutoAssign(facts)
    ELSE {config.default} \ {NoRole}

\* The user's row tells the middleware all there is to know, the external id
\* included.
RequireAction(assigned, facts, cluster, action) ==
    IsAllowed(ResolveRoles(assigned, facts \union {HasId}), cluster, action)

\* In front of the administration's routes: no action is asked for but the role.
RequireRole(assigned, facts) ==
    Admin \in ResolveRoles(assigned, facts \union {HasId})

\* The request that the button of an action sends is let through.
MayDo(assigned, facts, cluster, action) ==
    IF action \in AdminActions THEN RequireRole(assigned, facts)
    ELSE RequireAction(assigned, facts, cluster, action)

\* The identity Permissions makes of the same row is without the external id.
ShownRoles(assigned, facts) == ResolveRoles(assigned, facts \ {HasId})

Permissions(assigned, facts) == ExpandedActions(ShownRoles(assigned, facts), All)

\* A page shows the button of an action.
useHasAction(assigned, facts, action) ==
    Permissions(assigned, facts) \intersect {action, All} # {}
-----------------------------------------------------------------------------
Opened(S) == \A g \in S \intersect DOMAIN config.groups : Range(config.groups[g]) \subseteq S

\* What the items stand for: the least set that has them and, with a group, all
\* that the group lists.
Reach(items) ==
    {x \in Entries : \A S \in SUBSET Entries : items \subseteq S /\ Opened(S) => x \in S}

Meant(list) == IF containsWildcard(list) THEN {All} ELSE Reach(Range(list)) \ DOMAIN config.groups

\* Whatever the groups list, each other or themselves, each rule ends with all
\* the actions it stands for, no other, and each once.
ExpansionExact ==
    \A i \in DOMAIN expandedRules :
        /\ Range(expandedRules[i]) = Meant(config.rules[i].actions)
        /\ IsInjective(expandedRules[i])

\* For want of the external id the default role stands in for roles that the
\* middleware knows of.
DefaultStandsIn(assigned, facts) ==
    /\ assigned = {} /\ AutoAssign(facts \ {HasId}) = {}
    /\ AutoAssign(facts \union {HasId}) # {}

\* A button that a page shows works on every cluster the user may be looking at:
\* the endpoint speaks of all clusters at once, of a user it knows less about,
\* and still never promises what the middleware refuses, but for the default
\* role where that is the wrong one.  The buttons of the administration work for
\* whom the endpoint takes for an Admin; to others with their actions, by any rule
\* or "*", they are shown and refused.
ButtonsWork ==
    Ready => \A assigned \in SUBSET Roles, facts \in SUBSET Facts, action \in Names :
                /\ useHasAction(assigned, facts, action) /\ ~DefaultStandsIn(assigned, facts)
                /\ action \in AdminActions => Admin \in ShownRoles(assigned, facts)
                => \A cluster \in Clusters \union {All} :
                       MayDo(assigned, facts, cluster, action)

\* Both: what the rules grant is what they say, and what is shown is granted, as
\* far as it goes by actions.
GrantsAreMeant == ExpansionExact /\ ButtonsWork
=============================================================================
