------------------------------ MODULE MCHandlers ------------------------------
(***************************************************************************)
(* Four parts of the server that do not meet, for model checking in one    *)
(* run: the login limiter, logins with a provider, what roles permit, and  *)
(* the read of a topic.  A behaviour is about one of them, which `about`   *)
(* tells, and the others stay as they begin.  Each is done at some point,  *)
(* or reaches its bound.                                                   *)
(***************************************************************************)
EXTENDS LoginRateLimiter, ProviderLogin, RolePermissions, Consume, TLC

CONSTANTS c1, c2, c3, home, away, view, manage, ga, gb, dev, ops, prod, corp, p1, p2

\* Two connections from one address, and one from another.
MCAddressOf == [c \in Clients |-> IF c = c3 THEN away ELSE home]

\* Two groups that list each other, themselves, an action or everything, and a rule
\* with them; the second rule is for all clusters, and of the administration.
MCConfigs ==
    LET Lists == {view, ga, gb, All} \X {view, ga, gb}
    IN  {[groups  |-> ga :> g @@ gb :> h,
          rules   |-> <<[role |-> dev, clusters |-> c, actions |-> l],
                        [role |-> ops, clusters |-> {All}, actions |-> <<manage>>]>>,
          auto    |-> {[match |-> {HasId}, role |-> dev], [match |-> {HasId, corp}, role |-> ops]},
          default |-> d] :
            g \in Lists, h \in Lists \union {<<>>}, c \in {{prod}, {All}},
            l \in {<<ga>>, <<gb, ga>>, <<view, All>>}, d \in {NoRole, ops}}

\* One partition with records that are compacted later, or were; and one that has
\* lost its oldest.
MCTopics ==
    {p1 :> l @@ p2 :> [first |-> 1, end |-> 2, held |-> {1}] :
        l \in {[first |-> 0, end |-> 2, held |-> {0, 1}], [first |-> 0, end |-> 3, held |-> {0, 2}]}}

MCPasses == {p1, p2} \X {0, 2}

VARIABLE about

handlerVars == <<about, vars, providerVars, permissionVars, consumeVars>>

HandlersInit ==
    /\ about \in {"limiter", "provider", "permissions", "consume"}
    /\ \/ about = "permissions" /\ config \in Configs
       \/ about # "permissions" /\ config = CHOOSE c \in Configs : TRUE
    /\ \/ about = "consume" /\ stored \in Topics /\ request \in Requests
       \/ /\ about # "consume"
          /\ stored = CHOOSE t \in Topics : TRUE
          /\ request = CHOOSE q \in Requests : TRUE
    /\ Init /\ ProviderInit /\ PermissionsInit /\ ConsumeInit

HandlersNext ==
    \/ /\ about = "limiter" /\ Next
       /\ UNCHANGED <<about, providerVars, permissionVars, consumeVars>>
    \/ /\ about = "provider" /\ ProviderNext
       /\ UNCHANGED <<about, vars, permissionVars, consumeVars>>
    \/ /\ about = "permissions" /\ PermissionsNext
       /\ UNCHANGED <<about, vars, providerVars, consumeVars>>
    \/ /\ about = "consume" /\ ConsumeNext
       /\ UNCHANGED <<about, vars, providerVars, permissionVars>>

HandlersSpec == HandlersInit /\ [][HandlersNext]_handlerVars

\* Type correctness of the four, each where it is what the behaviour is about.
AllTypeOK ==
    /\ about = "limiter"     => TypeOK
    /\ about = "provider"    => ProviderTypeOK
    /\ about = "permissions" => PermissionsTypeOK
    /\ about = "consume"     => ConsumeTypeOK
=============================================================================
