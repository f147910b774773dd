---------------------------- MODULE ClusterAdmin ----------------------------
(***************************************************************************)
(* Dynamic cluster management of KafkaUI: the admin handlers               *)
(* (internal/api/handlers/admin.go) change, one after the other and under  *)
(* three different locks or none,                                          *)
(*                                                                         *)
(*   dynamic.yaml      internal/config/dynamic.go, under DynamicConfig.mu  *)
(*   the registry      internal/kafka/registry.go, under Registry.mu       *)
(*   the serde chains  a plain map shared by main.go, admin.go, livetail   *)
(*                                                                         *)
(* and main.go rebuilds the last two from config.yaml and dynamic.yaml at  *)
(* every start.  A handler runs in its own goroutine, so what one handler  *)
(* does under one lock is one step here and any other handler, or a crash, *)
(* may come between two of its steps.                                      *)
(***************************************************************************)
EXTENDS Naturals, Sequences, SequencesExt

CONSTANTS
    Admins,           \* the requests that may be in flight at one time
    Names,            \* cluster names
    Conns,            \* connection settings of a cluster (all but serde)
    BuildableConns,   \* those that kafka.NewClient accepts
    SerdeRules,       \* serde sections a configuration file may contain
    NoRules,          \* the empty serde section
    StaticClusters,   \* the clusters of config.yaml, in order
    InitialFiles,     \* what dynamic.yaml may contain before the first start
    Targets,          \* the names each admin's requests are about
    ValidateChoices,  \* the values of the query parameter "validate" an admin uses
    ReadFaults,       \* may reading dynamic.yaml at the start fail?
    WriteFaults,      \* may writing it fail?
    MayCrash,         \* may the process be killed?
    NoChain           \* a client whose serde chain was never set

Config  == [conn : Conns, serde : SerdeRules]
Entry   == [name : Names, cfg : Config]

\* The names of a list of clusters, and the lists without a repeated name.
NamesOf(entries)  == {entries[i].name : i \in DOMAIN entries}
DistinctNames(entries) ==
    \A i, j \in DOMAIN entries : entries[i].name = entries[j].name => i = j

StaticNames == NamesOf(StaticClusters)

ASSUME ConfigAssumption ==
    /\ Names # {} /\ Conns # {}
    /\ NoRules \in SerdeRules
    /\ NoChain \notin Config
    /\ BuildableConns \subseteq Conns
    /\ Targets \in [Admins -> SUBSET Names]
    /\ ValidateChoices \in [Admins -> SUBSET BOOLEAN]
    /\ ReadFaults \in BOOLEAN /\ WriteFaults \in BOOLEAN
    /\ MayCrash \in BOOLEAN

\* config.yaml and the first dynamic.yaml are written by hand; the code has no
\* check for a name that occurs twice in one of them.
ASSUME FilesAssumption ==
    /\ StaticClusters \in Seq(Entry)
    /\ DistinctNames(StaticClusters)
    /\ \A f \in InitialFiles : f \in Seq(Entry) /\ DistinctNames(f)

VARIABLES
    server,   \* "down", "up", or "refused": main exited with status 1
    file,     \* dynamic.yaml
    order,    \* Registry.order
    clients,  \* Registry.clients: name -> the client's config and serde chain
    configs,  \* Registry.configs
    chains,   \* the shared map serdeChains
    job       \* one record per admin: the handler that serves its request

registry == <<order, clients, configs>>
vars     == <<server, file, order, clients, configs, chains, job>>

Stages  == {"idle", "test", "save", "apply", "chain", "attach"}
Ops     == {"none", "add", "update", "delete"}
Replies == {"none", "ok", "refused", "error"}

Job == [stage : Stages, op : Ops, name : Names, cfg : Config, reply : Replies]

Partial(S, T) == UNION {[D -> T] : D \in SUBSET S}
Client        == [cfg : Config, serde : Config \union {NoChain}]

TypeOK ==
    /\ server \in {"down", "up", "refused"}
    /\ file \in Seq(Entry)
    /\ order \in Seq(Names)
    /\ clients \in Partial(Names, Client)
    /\ configs \in Partial(Names, Config)
    /\ chains \in Partial(Names, Config)
    /\ job \in [Admins -> Job]

Empty == [n \in {} |-> n]     \* the empty map

Idle == [stage |-> "idle", op |-> "none",
         name |-> CHOOSE n \in Names : TRUE,
         cfg |-> CHOOSE c \in Config : TRUE, reply |-> "none"]

-----------------------------------------------------------------------------
\* Start and crash.

\* mergeDynamicClusters keeps the entries of dynamic.yaml whose name is not
\* static, in the order of the file: ks are their positions.
KeptPositions(ks) ==
    LET kept == {i \in DOMAIN file : file[i].name \notin StaticNames} IN
    /\ \A i, j \in DOMAIN ks : i < j => ks[i] < ks[j]
    /\ {ks[i] : i \in DOMAIN ks} = kept

MergedStaticOnly(ks) == StaticClusters   \* mutant: dynamic.yaml never merged

\* The clusters main.go hands to NewRegistry, in order.
Merged(ks) == StaticClusters \o [i \in DOMAIN ks |-> file[ks[i]]]

\* NewRegistry writes the maps entry by entry, so the last one of a name wins.
ConfigIn(entries, n) ==
    entries[CHOOSE i \in DOMAIN entries :
              /\ entries[i].name = n
              /\ \A j \in DOMAIN entries : j > i => entries[j].name # n].cfg

ConfigMap(entries) == [n \in NamesOf(entries) |-> ConfigIn(entries, n)]

AllBuildable(entries) ==
    \A i \in DOMAIN entries : entries[i].cfg.conn \in BuildableConns

\* main.go up to ListenAndServe with the clusters `entries`: NewRegistry, then a
\* serde chain for each cluster, or exit(1) when one client cannot be built.
Boot(entries) ==
    IF AllBuildable(entries)
    THEN /\ server' = "up"
         /\ order' = [i \in DOMAIN entries |-> entries[i].name]
         /\ configs' = ConfigMap(entries)
         /\ clients' = [n \in NamesOf(entries) |->
                          [cfg |-> ConfigIn(entries, n), serde |-> ConfigIn(entries, n)]]
         /\ chains' = ConfigMap(entries)
    ELSE /\ server' = "refused"
         /\ UNCHANGED <<order, clients, configs, chains>>

\* An unreadable dynamic.yaml is only logged: the static clusters are served.
Start ==
    /\ server = "down"
    /\ \/ \E len \in 0..Len(file) : \E ks \in [1..len -> DOMAIN file] :
            KeptPositions(ks) /\ Boot(Merged(ks))
       \/ ReadFaults /\ Boot(StaticClusters)
    /\ UNCHANGED <<file, job>>

\* The supervisor starts the program again (external: Dockerfile, charts).
Supervise ==
    /\ server = "refused"
    /\ server' = "down"
    /\ UNCHANGED <<file, order, clients, configs, chains, job>>

Crash ==
    /\ MayCrash
    /\ server = "up"
    /\ server' = "down"
    /\ order' = <<>> /\ clients' = Empty /\ configs' = Empty /\ chains' = Empty
    /\ job' = [p \in Admins |-> Idle]
    /\ UNCHANGED file

-----------------------------------------------------------------------------
\* The handlers.

At(p, stage)  == server = "up" /\ job[p].stage = stage
Goto(p, stage) == job' = [job EXCEPT ![p].stage = stage]
Answer(p, r)  == job' = [job EXCEPT ![p].stage = "idle", ![p].reply = r]

\* A request as its handler begins, answered at once or about to go on.
Begin(p, op, n, c, stage, r) ==
    job' = [job EXCEPT ![p] =
              [stage |-> stage, op |-> op, name |-> n, cfg |-> c, reply |-> r]]
Refuse(p, op, n, c)         == Begin(p, op, n, c, "idle", "refused")
Proceed(p, op, n, c, stage) == Begin(p, op, n, c, stage, "none")

\* The request has no serde section: requestToClusterConfig leaves it empty.
requestToClusterConfig(conn) == [conn |-> conn, serde |-> NoRules]

NeverTested(validate) == "save"             \* mutant: the test is skipped
\* ?validate=false skips the connection test.
FirstStage(validate) == IF validate THEN "test" ELSE "save"

NeverStatic(n) == FALSE                     \* mutant: staticNames is empty
isStatic(n)  == n \in StaticNames
ClusterCount == Len(order)

BeginAdd(p) ==
    /\ At(p, "idle")
    /\ \E n \in Targets[p], conn \in Conns, validate \in ValidateChoices[p] :
         LET cc == requestToClusterConfig(conn) IN
         \/ n \in DOMAIN clients    /\ Refuse(p, "add", n, cc)
         \/ n \notin DOMAIN clients /\ Proceed(p, "add", n, cc, FirstStage(validate))
    /\ UNCHANGED <<server, file, registry, chains>>

BeginUpdate(p) ==
    /\ At(p, "idle")
    /\ \E n \in Targets[p], conn \in Conns, validate \in ValidateChoices[p] :
         LET cc == requestToClusterConfig(conn) IN
         \/ isStatic(n)  /\ Refuse(p, "update", n, cc)
         \/ ~isStatic(n) /\ Proceed(p, "update", n, cc, FirstStage(validate))
    /\ UNCHANGED <<server, file, registry, chains>>

MayDelete(n) == ~isStatic(n) /\ ClusterCount > 1

BeginDelete(p) ==
    /\ At(p, "idle")
    /\ \E n \in Targets[p] :
         \/ ~MayDelete(n) /\ Refuse(p, "delete", n, Idle.cfg)
         \/ MayDelete(n)  /\ Proceed(p, "delete", n, Idle.cfg, "save")
    /\ UNCHANGED <<server, file, registry, chains>>

\* testConnection: a client for the request's settings lists the brokers, which
\* may be out of reach whatever the settings are.
TestConnection(p) ==
    /\ At(p, "test")
    /\ \/ job[p].cfg.conn \in BuildableConns /\ Goto(p, "save")
       \/ Answer(p, "refused")
    /\ UNCHANGED <<server, file, registry, chains>>

FirstWith(entries, n) == 
    CHOOSE i \in DOMAIN entries :
        /\ entries[i].name = n
        /\ \A j \in DOMAIN entries : j < i => entries[j].name # n

NewEntry(p) == [name |-> job[p].name, cfg |-> job[p].cfg]

\* DynamicConfig.Add, Update and Remove, each from load to rename under mu; the
\* rename makes the new contents appear at once.
SaveAddTwice(p) ==         \* mutant: the duplicate test is dropped
    /\ job[p].op = "add"
    /\ file' = Append(file, NewEntry(p))

SaveAdd(p) ==
    /\ job[p].op = "add"
    /\ job[p].name \notin NamesOf(file)
    /\ file' = Append(file, NewEntry(p))

SaveUpdateNothing(p) ==    \* mutant: clusters[i] = cluster is forgotten
    /\ job[p].op = "update"
    /\ job[p].name \in NamesOf(file)
    /\ UNCHANGED file

SaveUpdate(p) ==
    /\ job[p].op = "update"
    /\ job[p].name \in NamesOf(file)
    /\ file' = [file EXCEPT ![FirstWith(file, job[p].name)] = NewEntry(p)]

SaveDelete(p) ==
    /\ job[p].op = "delete"
    /\ job[p].name \in NamesOf(file)
    /\ file' = RemoveAt(file, FirstWith(file, job[p].name))

\* The precondition of each: Add wants a new name, Update and Remove a known one.
Savable(p) == (job[p].op = "add") # (job[p].name \in NamesOf(file))

Save(p) ==
    /\ At(p, "save")
    /\ \/ (SaveAdd(p) \/ SaveUpdate(p) \/ SaveDelete(p)) /\ Goto(p, "apply")
       \/ (~Savable(p) \/ WriteFaults) /\ Answer(p, "error") /\ UNCHANGED file
    /\ UNCHANGED <<server, registry, chains>>

Buildable(p) == job[p].cfg.conn \in BuildableConns
NewClient(p) == [cfg |-> job[p].cfg, serde |-> NoChain]

\* The map m with k bound to v, and without k.
Bind(m, k, v) == [x \in DOMAIN m \union {k} |-> IF x = k THEN v ELSE m[x]]
DropToNil(m, k) == Bind(m, k, NoChain)   \* mutant: nil in place of delete
Drop(m, k)    == [x \in DOMAIN m \ {k} |-> m[x]]

\* Registry.AddCluster, UpdateCluster and RemoveCluster, each under mu.
ApplyAdd(p) ==
    LET n == job[p].name IN
    /\ job[p].op = "add"
    /\ n \notin DOMAIN clients /\ Buildable(p)
    /\ clients' = Bind(clients, n, NewClient(p))
    /\ configs' = Bind(configs, n, job[p].cfg)
    /\ order' = Append(order, n)
    /\ Goto(p, "chain")

ApplyUpdate(p) ==
    LET n == job[p].name IN
    /\ job[p].op = "update"
    /\ n \in DOMAIN clients /\ Buildable(p)
    /\ clients' = [clients EXCEPT ![n] = NewClient(p)]
    /\ configs' = Bind(configs, n, job[p].cfg)
    /\ Goto(p, "chain")
    /\ UNCHANGED order

PositionOf(s, n) ==
    CHOOSE i \in DOMAIN s : s[i] = n /\ \A j \in DOMAIN s : j < i => s[j] # n

ApplyDelete(p) ==
    LET n == job[p].name IN
    /\ job[p].op = "delete"
    /\ n \in DOMAIN clients
    /\ clients' = Drop(clients, n)
    /\ configs' = Drop(configs, n)
    /\ order' = IF n \in ToSet(order) THEN RemoveAt(order, PositionOf(order, n)) ELSE order
    /\ Answer(p, "ok")

Applicable(p) ==
    CASE job[p].op = "add"    -> job[p].name \notin DOMAIN clients /\ Buildable(p)
      [] job[p].op = "update" -> job[p].name \in DOMAIN clients /\ Buildable(p)
      [] OTHER                -> job[p].name \in DOMAIN clients

ApplyIgnoresError(p) ==   \* mutant: the registry's error is dropped
    /\ At(p, "apply")
    /\ \/ ApplyAdd(p) \/ ApplyUpdate(p) \/ ApplyDelete(p)
       \/ ~Applicable(p) /\ Answer(p, "ok") /\ UNCHANGED registry
    /\ UNCHANGED <<server, file, chains>>

\* A refused change is answered with 500; dynamic.yaml keeps what Save wrote.
Apply(p) ==
    /\ At(p, "apply")
    /\ \/ ApplyAdd(p) \/ ApplyUpdate(p) \/ ApplyDelete(p)
       \/ ~Applicable(p) /\ Answer(p, "error") /\ UNCHANGED registry
    /\ UNCHANGED <<server, file, chains>>

\* buildSerDeChain: the chain enters the shared map without a lock ...
StoreChain(p) ==
    /\ At(p, "chain")
    /\ chains' = Bind(chains, job[p].name, job[p].cfg)
    /\ Goto(p, "attach")
    /\ UNCHANGED <<server, file, registry>>

\* ... and is then set on the client that is registered under the name by now.
AttachChain(p) ==
    LET n == job[p].name IN
    /\ At(p, "attach")
    /\ clients' = IF n \in DOMAIN clients
                  THEN [clients EXCEPT ![n].serde = job[p].cfg]
                  ELSE clients
    /\ Answer(p, "ok")
    /\ UNCHANGED <<server, file, order, configs, chains>>

-----------------------------------------------------------------------------
Init ==
    /\ server = "down"
    /\ file \in InitialFiles
    /\ order = <<>> /\ clients = Empty /\ configs = Empty /\ chains = Empty
    /\ job = [p \in Admins |-> Idle]

Work(p)  == TestConnection(p) \/ Save(p) \/ Apply(p) \/ StoreChain(p) \/ AttachChain(p)
Begins(p) == BeginAdd(p) \/ BeginUpdate(p) \/ BeginDelete(p)

Next ==
    \/ Start \/ Supervise \/ Crash
    \/ \E p \in Admins : Begins(p) \/ Work(p)

Spec == Init /\ [][Next]_vars

\* A goroutine that can run is eventually scheduled, and the supervisor starts
\* the program again; nobody has to send a request and nothing has to crash.
Fairness == WF_vars(Start) /\ WF_vars(Supervise) /\ \A p \in Admins : WF_vars(Work(p))
FairSpec == Spec /\ Fairness
-----------------------------------------------------------------------------
\* What the handlers promise.

\* The settings the next start will find under a name, and those served under
\* it now: a set with one member, or none.
Saved(n)  == {file[i].cfg : i \in {k \in DOMAIN file : file[k].name = n}}
Served(n) == {configs[m] : m \in DOMAIN configs \intersect {n}}

DynamicNames == Names \ StaticNames
InFlight(n)  == \E p \in Admins : job[p].stage # "idle" /\ job[p].name = n

\* The three parts of the registry agree at every unlock: each name is listed
\* once, and has a client built from the configuration the registry reports
\* (registry.go AddCluster, RemoveCluster, UpdateCluster, NewRegistry).
RegistryConsistent ==
    /\ DOMAIN clients = ToSet(order)
    /\ DOMAIN configs = ToSet(order)
    /\ \A i, j \in DOMAIN order : order[i] = order[j] => i = j
    /\ \A n \in DOMAIN clients : clients[n].cfg = configs[n]

\* No interleaving of admin requests takes a cluster of config.yaml out of a
\* running server or changes the settings it was started with (isStatic).
StaticServed ==
    server = "up" =>
        \A i \in DOMAIN StaticClusters :
            LET n == StaticClusters[i].name IN
            n \in DOMAIN configs /\ configs[n] = StaticClusters[i].cfg

\* Concurrent adds of one name both find it free in the registry; the file still
\* gets it once (DynamicConfig.Add checks again under its own lock).
FileDistinct == DistinctNames(file)

\* A handler never gets as far as the file with a static name: the add handler
\* has no isStatic test and relies on the registry holding every static cluster.
HandlersAvoidStatic ==
    \A p \in Admins : job[p].stage # "idle" => job[p].name \notin StaticNames

\* A registered client without a serde chain is one whose chain some handler is
\* about to set, also when updates of its cluster overtake each other: nobody
\* reads messages undecoded for good (buildSerDeChain after each registry change).
NakedClientHasBuilder ==
    \A n \in DOMAIN clients :
        clients[n].serde = NoChain =>
            \E p \in Admins : job[p].stage \in {"chain", "attach"} /\ job[p].name = n

\* The three together: whatever of two handlers' saves and registry changes comes
\* first, the registry agrees with itself, the file names a cluster once, and no
\* served client stays without a chain.
OverlapsAgree == RegistryConsistent /\ FileDistinct /\ NakedClientHasBuilder

\* What dynamic.yaml says about a static name, put there by hand, is never
\* touched (isStatic and the registry check of AddCluster).
StaticEntriesUntouched ==
    [][\A n \in StaticNames : Saved(n)' = Saved(n)]_vars

\* The file is the catalogue and the registry follows it: through every step,
\* failure, crash and start the handlers implement ClusterCatalog, for admins
\* who do not work on the same cluster (Save and Apply are separate steps).
Catalog == INSTANCE ClusterCatalog WITH
    Names   <- DynamicNames,
    running <- server = "up",
    saved   <- [n \in DynamicNames |-> Saved(n)],
    served  <- [n \in DynamicNames |-> Served(n)]
ImplementsCatalog == Catalog!Spec

\* An admin who was answered 200 or 201 finds the cluster served with the
\* settings that survive a restart, decoded by the chain built for them, until
\* the next request about it (AddCluster, UpdateCluster, DeleteCluster).
OkMeansDone ==
    \A p \in Admins :
        (job[p].stage = "idle" /\ job[p].reply = "ok") =>
            LET n == job[p].name IN
            /\ Saved(n) = Served(n)
            /\ (job[p].op = "delete") = (Saved(n) = {})
            /\ n \in DOMAIN clients =>
                 clients[n].serde = configs[n] /\ chains[n] = configs[n]

\* A cluster whose every change passes the connection test.
Tested(n) == \A p \in Admins : n \in Targets[p] => FALSE \notin ValidateChoices[p]

\* Such a cluster never keeps the server from starting again (testConnection before
\* DynamicConfig.Add and Update, NewRegistry).
FileBuildable ==
    \A i \in DOMAIN file : Tested(file[i].name) => file[i].cfg.conn \in BuildableConns

\* Whatever was saved of such a cluster is served after a while, or is saved
\* differently by then (the handler goes on to the registry, and a start reads the
\* whole file); unless another, untested one keeps the server from starting.
SavedIsServed ==
    \A n \in {m \in DynamicNames : Tested(m)} :
        (Saved(n) # Served(n)) ~> (Saved(n) = Served(n) \/ ~AllBuildable(file))

\* When every request so far was answered with success and none is in flight,
\* the file and the registry agree: README.md:28 "persisted in `dynamic.yaml`".
PersistedAtRest ==
    (server = "up" /\ \A p \in Admins : job[p].stage = "idle" /\ job[p].reply = "ok") =>
        \A n \in DynamicNames : Saved(n) = Served(n)

=============================================================================
