-------------------------- MODULE ClusterAdminProofs --------------------------
(***************************************************************************)
(* Theorems about ClusterAdmin for any number of requests in flight, any   *)
(* clusters, any initial files, with crashes and file faults: what is      *)
(* always so of file, registry and chains, and that the whole implements   *)
(* ClusterCatalog while admins keep to different clusters.  For them, file *)
(* and registry differ only where a handler is about to apply what was     *)
(* saved; and deletions that do not overlap leave one cluster.             *)
(***************************************************************************)
EXTENDS ClusterAdmin, SequenceTheorems, TLAPS

-----------------------------------------------------------------------------
(* The maps of the registry. *)

\* What belonging to Partial says of a map.
LEMMA PartialMap ==
    ASSUME NEW S, NEW T, NEW m
    PROVE  m \in Partial(S, T) <=>
             /\ DOMAIN m \subseteq S
             /\ m = [x \in DOMAIN m |-> m[x]]
             /\ \A x \in DOMAIN m : m[x] \in T
<1>1. ASSUME m \in Partial(S, T)
      PROVE  DOMAIN m \subseteq S /\ m = [x \in DOMAIN m |-> m[x]] /\ \A x \in DOMAIN m : m[x] \in T
  <2>1. PICK D \in SUBSET S : m \in [D -> T]
    BY <1>1 DEF Partial
  <2>2. QED BY <2>1
<1>2. ASSUME DOMAIN m \subseteq S, m = [x \in DOMAIN m |-> m[x]], \A x \in DOMAIN m : m[x] \in T
      PROVE  m \in Partial(S, T)
  <2>1. m \in [DOMAIN m -> T] BY <1>2
  <2>2. QED BY <1>2, <2>1 DEF Partial
<1>3. QED BY <1>1, <1>2

\* Assigning to a key keeps the type of a map.
LEMMA BindMap ==
    ASSUME NEW S, NEW T, NEW m \in Partial(S, T), NEW k \in S, NEW v \in T
    PROVE  /\ Bind(m, k, v) \in Partial(S, T)
           /\ DOMAIN Bind(m, k, v) = DOMAIN m \union {k}
           /\ \A x \in DOMAIN m \union {k} : Bind(m, k, v)[x] = IF x = k THEN v ELSE m[x]
<1>1. DOMAIN m \subseteq S /\ \A x \in DOMAIN m : m[x] \in T BY PartialMap
<1> DEFINE b == Bind(m, k, v)
<1>2. b = [x \in DOMAIN m \union {k} |-> IF x = k THEN v ELSE m[x]] BY DEF Bind
<1>3. DOMAIN b = DOMAIN m \union {k} /\ \A x \in DOMAIN b : b[x] \in T BY <1>1, <1>2
<1>4. b = [x \in DOMAIN b |-> b[x]] BY <1>2
<1>5. DOMAIN b \subseteq S BY <1>1, <1>3
<1>6. b \in Partial(S, T)
  <2> HIDE DEF b
  <2> QED BY <1>3, <1>4, <1>5, PartialMap
<1>7. QED BY <1>2, <1>6

\* So does deleting one.
LEMMA DropMap ==
    ASSUME NEW S, NEW T, NEW m \in Partial(S, T), NEW k
    PROVE  /\ Drop(m, k) \in Partial(S, T)
           /\ DOMAIN Drop(m, k) = DOMAIN m \ {k}
           /\ \A x \in DOMAIN m \ {k} : Drop(m, k)[x] = m[x]
<1>1. DOMAIN m \subseteq S /\ \A x \in DOMAIN m : m[x] \in T BY PartialMap
<1> DEFINE d == Drop(m, k)
<1>2. d = [x \in DOMAIN m \ {k} |-> m[x]] BY DEF Drop
<1>3. DOMAIN d = DOMAIN m \ {k} /\ \A x \in DOMAIN d : d[x] \in T BY <1>1, <1>2
<1>4. d = [x \in DOMAIN d |-> d[x]] BY <1>2
<1>5. DOMAIN d \subseteq S BY <1>1, <1>3
<1>6. d \in Partial(S, T)
  <2> HIDE DEF d
  <2> QED BY <1>3, <1>4, <1>5, PartialMap
<1>7. QED BY <1>2, <1>6

-----------------------------------------------------------------------------
(* The lists of the file and the registry. *)

\* Removing a position shifts what follows down by one.
LEMMA RemoveAtList ==
    ASSUME NEW S, NEW s \in Seq(S), NEW i \in DOMAIN s
    PROVE  /\ RemoveAt(s, i) \in Seq(S)
           /\ DOMAIN RemoveAt(s, i) = 1..(Len(s) - 1)
           /\ \A j \in 1..(Len(s) - 1) :
                RemoveAt(s, i)[j] = IF j < i THEN s[j] ELSE s[j + 1]
<1> DEFINE a == SubSeq(s, 1, i - 1)
           b == SubSeq(s, i + 1, Len(s))
<1>1. i \in 1..Len(s) /\ Len(s) \in Nat BY LenProperties
<1>2. a \in Seq(S) /\ Len(a) = i - 1 /\ \A j \in 1..(i - 1) : a[j] = s[j]
  BY <1>1, SubSeqProperties
<1>3. b \in Seq(S) /\ Len(b) = Len(s) - i /\ \A j \in 1..(Len(s) - i) : b[j] = s[i + j]
  BY <1>1, SubSeqProperties
<1> HIDE DEF a, b
<1>4. a \o b \in Seq(S) /\ Len(a \o b) = Len(s) - 1 /\
      \A j \in 1..(Len(s) - 1) : (a \o b)[j] = IF j <= i - 1 THEN a[j] ELSE b[j - (i - 1)]
  BY <1>1, <1>2, <1>3, ConcatProperties
<1>5. ASSUME NEW j \in 1..(Len(s) - 1)
      PROVE  (a \o b)[j] = IF j < i THEN s[j] ELSE s[j + 1]
  <2>1. CASE j < i BY <1>1, <1>2, <1>4, <2>1
  <2>2. CASE ~(j < i)
    <3>1. j - (i - 1) \in 1..(Len(s) - i) BY <1>1, <2>2
    <3>2. b[j - (i - 1)] = s[j + 1] BY <1>1, <1>3, <3>1
    <3>3. QED BY <1>1, <1>4, <2>2, <3>2
  <2>3. QED BY <2>1, <2>2
<1>6. RemoveAt(s, i) = a \o b BY DEF RemoveAt, a, b
<1>7. QED BY <1>1, <1>4, <1>5, <1>6, LenProperties

\* Removing the only occurrence of an element removes it from the set of
\* elements and keeps the others apart.
LEMMA RemoveOnly ==
    ASSUME NEW S, NEW s \in Seq(S), NEW i \in DOMAIN s,
           \A j, k \in DOMAIN s : s[j] = s[k] => j = k
    PROVE  LET r == RemoveAt(s, i) IN
           /\ ToSet(r) = ToSet(s) \ {s[i]}
           /\ \A j, k \in DOMAIN r : r[j] = r[k] => j = k
<1> DEFINE r == RemoveAt(s, i)
           up(j) == IF j < i THEN j ELSE j + 1
<1>1. i \in 1..Len(s) /\ Len(s) \in Nat /\ DOMAIN s = 1..Len(s) BY LenProperties
<1>2. DOMAIN r = 1..(Len(s) - 1) /\ \A j \in DOMAIN r : r[j] = s[up(j)]
  BY <1>1, RemoveAtList
<1> HIDE DEF r
<1>3. \A j \in DOMAIN r : up(j) \in DOMAIN s \ {i} BY <1>1, <1>2
<1>4. \A k \in DOMAIN s \ {i} : \E j \in DOMAIN r : up(j) = k
  <2> TAKE k \in DOMAIN s \ {i}
  <2>1. CASE k < i BY <1>1, <1>2, <2>1
  <2>2. CASE k > i
    <3>1. k - 1 \in DOMAIN r /\ up(k - 1) = k BY <1>1, <1>2, <2>2
    <3>2. QED BY <3>1
  <2>3. QED BY <1>1, <2>1, <2>2
<1>5. \A j, k \in DOMAIN r : up(j) = up(k) => j = k BY <1>2
<1> HIDE DEF up
<1>6. \A j, k \in DOMAIN r : r[j] = r[k] => j = k BY <1>2, <1>3, <1>5
<1>7. ToSet(r) \subseteq ToSet(s) \ {s[i]} BY <1>2, <1>3 DEF ToSet
<1>8. ToSet(s) \ {s[i]} \subseteq ToSet(r) BY <1>2, <1>3, <1>4 DEF ToSet
<1>9. QED BY <1>6, <1>7, <1>8 DEF r

\* Appending a new element keeps the elements apart.
LEMMA AppendNew ==
    ASSUME NEW S, NEW s \in Seq(S), NEW e \in S
    PROVE  LET r == Append(s, e) IN
           /\ r \in Seq(S)
           /\ DOMAIN r = DOMAIN s \union {Len(s) + 1}
           /\ Len(s) + 1 \notin DOMAIN s
           /\ r[Len(s) + 1] = e
           /\ \A j \in DOMAIN s : r[j] = s[j]
           /\ ToSet(r) = ToSet(s) \union {e}
<1>1. DOMAIN s = 1..Len(s) /\ Len(s) \in Nat BY LenProperties
<1> DEFINE r == Append(s, e)
<1>2. r \in Seq(S) /\ DOMAIN r = 1..(Len(s) + 1) /\ r[Len(s) + 1] = e
      /\ \A j \in DOMAIN s : r[j] = s[j]
  BY <1>1, AppendProperties, LenProperties
<1> HIDE DEF r
<1>3. DOMAIN r = DOMAIN s \union {Len(s) + 1} /\ Len(s) + 1 \notin DOMAIN s BY <1>1, <1>2
<1>4. ToSet(r) = ToSet(s) \union {e} BY <1>2, <1>3 DEF ToSet
<1>5. QED BY <1>2, <1>3, <1>4 DEF r

-----------------------------------------------------------------------------
(* What a start loads. *)

\* In a list without repeated names, the settings of a name are its entry's.
LEMMA ConfigOfEntry ==
    ASSUME NEW entries \in Seq(Entry), DistinctNames(entries), NEW i \in DOMAIN entries
    PROVE  ConfigIn(entries, entries[i].name) = entries[i].cfg
<1> DEFINE n == entries[i].name
           last(k) == /\ entries[k].name = n
                      /\ \A j \in DOMAIN entries : j > k => entries[j].name # n
<1>1. DOMAIN entries \subseteq Nat BY LenProperties
<1>2. \A j \in DOMAIN entries : j > i => entries[j].name # n
  <2> SUFFICES ASSUME NEW j \in DOMAIN entries, j > i, entries[j].name = n PROVE FALSE
    OBVIOUS
  <2>1. j = i BY DEF DistinctNames
  <2>2. QED BY <1>1, <2>1
<1>3. last(i) BY <1>2
<1>4. \A k \in DOMAIN entries : last(k) => k = i BY DEF DistinctNames
<1>5. (CHOOSE k \in DOMAIN entries : last(k)) = i BY <1>3, <1>4
<1>6. QED BY <1>5 DEF ConfigIn

\* The merged list has the entries of config.yaml, then entries of the file with
\* other names, and no name twice.
LEMMA MergedList ==
    ASSUME TypeOK, FileDistinct,
           NEW len \in 0..Len(file), NEW ks \in [1..len -> DOMAIN file], KeptPositions(ks)
    PROVE  /\ Merged(ks) \in Seq(Entry)
           /\ DistinctNames(Merged(ks))
           /\ \A i \in DOMAIN StaticClusters :
                i \in DOMAIN Merged(ks) /\ Merged(ks)[i] = StaticClusters[i]
           /\ \A i \in DOMAIN Merged(ks) :
                \/ i \in DOMAIN StaticClusters
                \/ \E k \in DOMAIN file : /\ Merged(ks)[i] = file[k]
                                          /\ file[k].name \notin StaticNames
           /\ \A k \in DOMAIN file : file[k].name \notin StaticNames =>
                \E i \in DOMAIN Merged(ks) : Merged(ks)[i] = file[k]
<1> DEFINE st == StaticClusters
           dyn == [i \in DOMAIN ks |-> file[ks[i]]]
           m == Merged(ks)
<1>1. /\ st \in Seq(Entry) /\ file \in Seq(Entry) /\ len \in Nat
      /\ DOMAIN st = 1..Len(st) /\ Len(st) \in Nat
      /\ DOMAIN file = 1..Len(file) /\ Len(file) \in Nat
  BY FilesAssumption, LenProperties DEF TypeOK
<1>2. /\ dyn \in Seq(Entry) /\ Len(dyn) = len /\ DOMAIN dyn = 1..len
      /\ \A j \in 1..len : dyn[j] = file[ks[j]]
  <2>1. \A i \in 1..len : file[ks[i]] \in Entry BY <1>1, ElementOfSeq
  <2>2. DOMAIN ks = 1..len OBVIOUS
  <2>3. QED BY <1>1, <2>1, <2>2, IsASeq
<1> HIDE DEF dyn
<1>3. m = st \o dyn BY DEF Merged, dyn
<1> HIDE DEF m, st
<1>4. /\ m \in Seq(Entry) /\ Len(m) = Len(st) + len /\ DOMAIN m = 1..(Len(st) + len)
      /\ \A i \in 1..(Len(st) + len) : m[i] = IF i <= Len(st) THEN st[i] ELSE dyn[i - Len(st)]
  <2>1. /\ st \o dyn \in Seq(Entry) /\ Len(st \o dyn) = Len(st) + Len(dyn)
        /\ \A i \in 1..(Len(st) + Len(dyn)) :
             (st \o dyn)[i] = IF i <= Len(st) THEN st[i] ELSE dyn[i - Len(st)]
    BY <1>1, <1>2, ConcatProperties
  <2>2. QED BY <1>2, <1>3, <2>1, LenProperties
<1>5. \A i \in DOMAIN st : i \in DOMAIN m /\ m[i] = st[i] BY <1>1, <1>4
<1>6. \A i \in DOMAIN m \ DOMAIN st : i - Len(st) \in 1..len /\ m[i] = file[ks[i - Len(st)]]
  BY <1>1, <1>2, <1>4
<1>7. \A a \in 1..len : ks[a] \in DOMAIN file /\ file[ks[a]].name \notin StaticNames
  BY DEF KeptPositions
<1>8. \A a, b \in 1..len : ks[a] = ks[b] => a = b
  <2> SUFFICES ASSUME NEW a \in 1..len, NEW b \in 1..len, ks[a] = ks[b], a < b PROVE FALSE
    BY <1>1
  <2>1. ks[a] < ks[b] BY DEF KeptPositions
  <2>2. QED BY <1>1, <1>7, <2>1
<1>9. DistinctNames(m)
  <2> SUFFICES ASSUME NEW i \in DOMAIN m, NEW j \in DOMAIN m, m[i].name = m[j].name
               PROVE  i = j
    BY DEF DistinctNames
  <2>1. CASE i \in DOMAIN st /\ j \in DOMAIN st
    BY <1>5, <2>1, FilesAssumption DEF DistinctNames, st
  <2>2. CASE i \in DOMAIN st /\ j \notin DOMAIN st
    BY <1>5, <1>6, <1>7, <2>2 DEF StaticNames, NamesOf, st
  <2>3. CASE i \notin DOMAIN st /\ j \in DOMAIN st
    BY <1>5, <1>6, <1>7, <2>3 DEF StaticNames, NamesOf, st
  <2>4. CASE i \notin DOMAIN st /\ j \notin DOMAIN st
    <3>1. ks[i - Len(st)] = ks[j - Len(st)]
      BY <1>6, <1>7, <2>4 DEF FileDistinct, DistinctNames
    <3>2. i - Len(st) = j - Len(st) BY <1>6, <1>8, <2>4, <3>1
    <3>3. QED BY <1>1, <1>4, <3>2
  <2>5. QED BY <2>1, <2>2, <2>3, <2>4
<1>10. \A i \in DOMAIN m : \/ i \in DOMAIN st
                           \/ \E k \in DOMAIN file : m[i] = file[k] /\ file[k].name \notin StaticNames
  BY <1>6, <1>7
<1>11. ASSUME NEW k \in DOMAIN file, file[k].name \notin StaticNames
       PROVE  \E i \in DOMAIN m : m[i] = file[k]
  <2>1. PICK a \in 1..len : ks[a] = k BY <1>11 DEF KeptPositions
  <2>2. Len(st) + a \in DOMAIN m /\ m[Len(st) + a] = file[k]
    BY <1>1, <1>2, <1>4, <2>1
  <2>3. QED BY <2>2
<1>12. QED BY <1>4, <1>5, <1>9, <1>10, <1>11 DEF m, st

-----------------------------------------------------------------------------
(* The inductive invariant.  StaticServed alone is not inductive: that an   *)
(* add handler leaves static clusters alone follows from the registry       *)
(* holding them when it asked, so HandlersAvoidStatic is needed too, and    *)
(* the shape of the registry and the file to know what a change does.       *)

IInv ==
    /\ TypeOK
    /\ RegistryConsistent
    /\ StaticServed
    /\ FileDistinct
    /\ HandlersAvoidStatic

LEMMA IdleJob == Idle \in Job
<1>1. \E n \in Names : TRUE BY ConfigAssumption
<1>2. \E c \in Config : TRUE
  <2>1. PICK conn \in Conns : TRUE BY ConfigAssumption
  <2>2. [conn |-> conn, serde |-> NoRules] \in Config BY ConfigAssumption DEF Config
  <2>3. QED BY <2>2
<1>3. (CHOOSE n \in Names : TRUE) \in Names BY <1>1
<1>4. (CHOOSE c \in Config : TRUE) \in Config BY <1>2
<1>5. QED BY <1>3, <1>4 DEF Idle, Job, Stages, Ops, Replies

LEMMA EmptyMap == ASSUME NEW S, NEW T PROVE Empty \in Partial(S, T) /\ DOMAIN Empty = {}
<1>1. DOMAIN Empty = {} /\ Empty = [x \in DOMAIN Empty |-> Empty[x]] BY DEF Empty
<1> HIDE DEF Empty
<1>2. QED BY <1>1, PartialMap

LEMMA InitIInv == Init => IInv
<1> SUFFICES ASSUME Init PROVE IInv OBVIOUS
<1>1. /\ server = "down" /\ file \in InitialFiles /\ order = <<>>
      /\ clients = Empty /\ configs = Empty /\ chains = Empty
      /\ job = [p \in Admins |-> Idle]
  BY DEF Init
<1>2. file \in Seq(Entry) /\ DistinctNames(file) BY <1>1, FilesAssumption
<1>3. order \in Seq(Names) /\ DOMAIN order = {} BY <1>1
<1>4. job \in [Admins -> Job] BY <1>1, IdleJob
<1>5. TypeOK BY <1>1, <1>2, <1>3, <1>4, EmptyMap DEF TypeOK
<1>6. RegistryConsistent BY <1>1, <1>3, EmptyMap DEF RegistryConsistent, ToSet
<1>7. HandlersAvoidStatic BY <1>1 DEF HandlersAvoidStatic, Idle
<1>8. QED BY <1>1, <1>2, <1>5, <1>6, <1>7 DEF IInv, StaticServed, FileDistinct

\* A boot with a list without repeated names that has every static cluster.
LEMMA BootIInv ==
    ASSUME IInv, NEW entries \in Seq(Entry), DistinctNames(entries),
           \A i \in DOMAIN StaticClusters :
               i \in DOMAIN entries /\ entries[i] = StaticClusters[i],
           Boot(entries), server # "up", UNCHANGED <<file, job>>
    PROVE  IInv'
<1>1. FileDistinct' /\ HandlersAvoidStatic'
  BY DEF IInv, FileDistinct, HandlersAvoidStatic, DistinctNames
<1>2. CASE ~AllBuildable(entries)
  BY <1>1, <1>2 DEF Boot, IInv, TypeOK, RegistryConsistent, StaticServed
<1>3. CASE AllBuildable(entries)
  <2>1. /\ server' = "up"
        /\ order' = [i \in DOMAIN entries |-> entries[i].name]
        /\ configs' = [n \in NamesOf(entries) |-> ConfigIn(entries, n)]
        /\ chains' = configs'
        /\ clients' = [n \in NamesOf(entries) |->
                         [cfg |-> ConfigIn(entries, n), serde |-> ConfigIn(entries, n)]]
    BY <1>3 DEF Boot, ConfigMap
  <2>2. /\ DOMAIN entries = 1..Len(entries) /\ Len(entries) \in Nat
        /\ \A i \in DOMAIN entries : entries[i] \in Entry
    BY LenProperties, ElementOfSeq
  <2>3. \A i \in DOMAIN entries : ConfigIn(entries, entries[i].name) = entries[i].cfg
    BY ConfigOfEntry
  <2>4. NamesOf(entries) \subseteq Names /\ \A n \in NamesOf(entries) : ConfigIn(entries, n) \in Config
    BY <2>2, <2>3 DEF NamesOf, Entry
  <2>5. configs' \in Partial(Names, Config) BY <2>1, <2>4 DEF Partial
  <2>6. clients' \in Partial(Names, Client) BY <2>1, <2>4 DEF Partial, Client
  <2>7. order' \in Seq(Names) /\ DOMAIN order' = DOMAIN entries
    <3>1. \A i \in 1..Len(entries) : entries[i].name \in Names BY <2>2 DEF Entry
    <3>2. QED BY <2>1, <2>2, <3>1, IsASeq
  <2>8. TypeOK' BY <2>1, <2>5, <2>6, <2>7 DEF IInv, TypeOK
  <2>9. ToSet(order') = NamesOf(entries) BY <2>1, <2>7 DEF ToSet, NamesOf
  <2>10. \A i, j \in DOMAIN order' : order'[i] = order'[j] => i = j
    BY <2>1, <2>7 DEF DistinctNames
  <2>11. RegistryConsistent' BY <2>1, <2>9, <2>10 DEF RegistryConsistent, ToSet
  <2>12. StaticServed' BY <2>1, <2>3 DEF StaticServed, NamesOf
  <2>13. QED BY <1>1, <2>8, <2>11, <2>12 DEF IInv
<1>4. QED BY <1>2, <1>3

LEMMA StartIInv == IInv /\ Start => IInv'
<1> SUFFICES ASSUME IInv, Start PROVE IInv' OBVIOUS
<1>1. server # "up" /\ UNCHANGED <<file, job>> BY DEF Start
<1>2. CASE ReadFaults /\ Boot(StaticClusters)
  BY <1>1, <1>2, FilesAssumption, BootIInv
<1>3. ASSUME NEW len \in 0..Len(file), NEW ks \in [1..len -> DOMAIN file],
             KeptPositions(ks), Boot(Merged(ks))
      PROVE  IInv'
  <2>1. /\ Merged(ks) \in Seq(Entry) /\ DistinctNames(Merged(ks))
        /\ \A i \in DOMAIN StaticClusters :
             i \in DOMAIN Merged(ks) /\ Merged(ks)[i] = StaticClusters[i]
    BY <1>3, MergedList DEF IInv
  <2>2. QED BY <1>1, <1>3, <2>1, BootIInv
<1>4. QED BY <1>2, <1>3 DEF Start

LEMMA CrashIInv == IInv /\ Crash => IInv'
<1> SUFFICES ASSUME IInv, Crash PROVE IInv' OBVIOUS
<1>1. /\ server' = "down" /\ file' = file /\ order' = <<>>
      /\ clients' = Empty /\ configs' = Empty /\ chains' = Empty
      /\ job' = [p \in Admins |-> Idle]
  BY DEF Crash
<1>2. order' \in Seq(Names) /\ DOMAIN order' = {} BY <1>1
<1>3. job' \in [Admins -> Job] BY <1>1, IdleJob
<1>4. TypeOK' BY <1>1, <1>2, <1>3, EmptyMap DEF IInv, TypeOK
<1>5. RegistryConsistent' BY <1>1, <1>2, EmptyMap DEF RegistryConsistent, ToSet
<1>6. HandlersAvoidStatic' BY <1>1 DEF HandlersAvoidStatic, Idle
<1>7. QED BY <1>1, <1>4, <1>5, <1>6 DEF IInv, StaticServed, FileDistinct, DistinctNames

\* The first step of a handler only writes its own job, and lets a request
\* through only when its name is not static.
LEMMA BeginIInv ==
    ASSUME NEW p \in Admins, IInv, Begins(p)
    PROVE  IInv'
<1>1. Targets[p] \subseteq Names BY ConfigAssumption
<1>2. \A conn \in Conns : requestToClusterConfig(conn) \in Config
  BY ConfigAssumption DEF requestToClusterConfig, Config
<1>3. Idle.cfg \in Config BY IdleJob DEF Job
<1>4. server = "up" /\ UNCHANGED <<server, file, registry, chains>>
  BY DEF Begins, BeginAdd, BeginUpdate, BeginDelete, At
<1>5. \E op \in Ops, n \in Names, c \in Config, stage \in Stages, r \in Replies :
        Begin(p, op, n, c, stage, r) /\ (stage # "idle" => n \notin StaticNames)
  <2>1. CASE BeginAdd(p)
    <3>1. PICK n \in Targets[p], conn \in Conns, validate \in ValidateChoices[p] :
            LET cc == requestToClusterConfig(conn) IN
            \/ n \in DOMAIN clients    /\ Refuse(p, "add", n, cc)
            \/ n \notin DOMAIN clients /\ Proceed(p, "add", n, cc, FirstStage(validate))
      BY <2>1 DEF BeginAdd
    <3>2. CASE Refuse(p, "add", n, requestToClusterConfig(conn))
      BY <1>1, <1>2, <3>2 DEF Refuse, Ops, Stages, Replies
    <3>3. CASE /\ n \notin DOMAIN clients
               /\ Proceed(p, "add", n, requestToClusterConfig(conn), FirstStage(validate))
      <4>1. n \notin StaticNames
        BY <1>4, <3>3 DEF IInv, StaticServed, RegistryConsistent, StaticNames, NamesOf
      <4>2. FirstStage(validate) \in Stages BY DEF FirstStage, Stages
      <4>3. QED BY <1>1, <1>2, <3>3, <4>1, <4>2 DEF Proceed, Ops, Replies
    <3>4. QED BY <3>1, <3>2, <3>3
  <2>2. CASE BeginUpdate(p)
    <3>1. PICK n \in Targets[p], conn \in Conns, validate \in ValidateChoices[p] :
            LET cc == requestToClusterConfig(conn) IN
            \/ isStatic(n)  /\ Refuse(p, "update", n, cc)
            \/ ~isStatic(n) /\ Proceed(p, "update", n, cc, FirstStage(validate))
      BY <2>2 DEF BeginUpdate
    <3>2. FirstStage(validate) \in Stages BY DEF FirstStage, Stages
    <3>3. QED BY <1>1, <1>2, <3>1, <3>2 DEF Refuse, Proceed, Ops, Stages, Replies, isStatic
  <2>3. CASE BeginDelete(p)
    <3>1. PICK n \in Targets[p] :
            \/ Refuse(p, "delete", n, Idle.cfg)
            \/ n \notin StaticNames /\ Proceed(p, "delete", n, Idle.cfg, "save")
      BY <2>3 DEF BeginDelete, MayDelete, isStatic
    <3>2. QED BY <1>1, <1>3, <3>1 DEF Refuse, Proceed, Ops, Stages, Replies
  <2>4. QED BY <2>1, <2>2, <2>3 DEF Begins
<1>6. PICK op \in Ops, n \in Names, c \in Config, stage \in Stages, r \in Replies :
        Begin(p, op, n, c, stage, r) /\ (stage # "idle" => n \notin StaticNames)
  BY <1>5
<1>7. job' \in [Admins -> Job] /\ \A q \in Admins : 
        job'[q] = IF q = p
                  THEN [stage |-> stage, op |-> op, name |-> n, cfg |-> c, reply |-> r]
                  ELSE job[q]
  BY <1>6 DEF Begin, IInv, TypeOK, Job
<1>8. TypeOK' BY <1>4, <1>7 DEF IInv, TypeOK, registry
<1>9. HandlersAvoidStatic' BY <1>6, <1>7 DEF IInv, HandlersAvoidStatic
<1>10. QED
  BY <1>4, <1>8, <1>9
  DEF IInv, registry, RegistryConsistent, StaticServed, FileDistinct, DistinctNames, ToSet

\* What a later step writes into its job: another stage, perhaps a reply.
JobMoves(p) ==
    \E stage \in Stages, r \in Replies :
        job' = [job EXCEPT ![p].stage = stage, ![p].reply = r]

\* Such a step starts from a handler that is under way, so the name in the job
\* stays one that is not static.
LEMMA JobMovesIInv ==
    ASSUME NEW p \in Admins, IInv, job[p].stage # "idle", JobMoves(p)
    PROVE  job' \in [Admins -> Job] /\ HandlersAvoidStatic'
<1>1. job \in [Admins -> Job] BY DEF IInv, TypeOK
<1>2. PICK stage \in Stages, r \in Replies :
        job' = [job EXCEPT ![p].stage = stage, ![p].reply = r]
  BY DEF JobMoves
<1>3. \A q \in Admins : job'[q] \in Job /\ job'[q].name = job[q].name
                        /\ (q # p => job'[q] = job[q])
  BY <1>1, <1>2 DEF Job
<1>4. job' \in [Admins -> Job] BY <1>1, <1>2, <1>3
<1>5. HandlersAvoidStatic' BY <1>3 DEF IInv, HandlersAvoidStatic
<1>6. QED BY <1>4, <1>5

\* Goto and Answer are such moves.
LEMMA Moves ==
    ASSUME NEW p \in Admins, job \in [Admins -> Job]
    PROVE  /\ \A stage \in Stages : Goto(p, stage) => JobMoves(p)
           /\ \A r \in Replies : Answer(p, r) => JobMoves(p)
<1>1. ASSUME NEW stage \in Stages, Goto(p, stage) PROVE JobMoves(p)
  <2>1. job[p].reply \in Replies BY DEF Job
  <2>2. job' = [job EXCEPT ![p].stage = stage, ![p].reply = job[p].reply]
    BY <1>1 DEF Goto, Job
  <2>3. QED BY <2>1, <2>2 DEF JobMoves
<1>2. ASSUME NEW r \in Replies, Answer(p, r) PROVE JobMoves(p)
  <2>1. "idle" \in Stages BY DEF Stages
  <2>2. job' = [job EXCEPT ![p].stage = "idle", ![p].reply = r] BY <1>2 DEF Answer
  <2>3. QED BY <2>1, <2>2 DEF JobMoves
<1>3. QED BY <1>1, <1>2

LEMMA TestIInv ==
    ASSUME NEW p \in Admins, IInv, TestConnection(p)
    PROVE  IInv'
<1>1. job \in [Admins -> Job] /\ "save" \in Stages /\ "refused" \in Replies
  BY DEF IInv, TypeOK, Stages, Replies
<1>2. job[p].stage # "idle" /\ JobMoves(p) BY <1>1, Moves DEF TestConnection, At
<1>3. job' \in [Admins -> Job] /\ HandlersAvoidStatic' BY <1>2, JobMovesIInv
<1>4. UNCHANGED <<server, file, order, clients, configs, chains>>
  BY DEF TestConnection, registry
<1>5. QED
  BY <1>3, <1>4
  DEF IInv, TypeOK, RegistryConsistent, StaticServed, FileDistinct, DistinctNames, ToSet

\* Where a name of the file is found, when the file has each once.
LEMMA FirstWithFinds ==
    ASSUME TypeOK, FileDistinct, NEW n, n \in NamesOf(file)
    PROVE  FirstWith(file, n) \in DOMAIN file /\ file[FirstWith(file, n)].name = n
<1>1. PICK i \in DOMAIN file : file[i].name = n BY DEF NamesOf
<1>2. DOMAIN file = 1..Len(file) /\ Len(file) \in Nat BY LenProperties DEF TypeOK
<1>3. \A j \in DOMAIN file : j < i => file[j].name # n
  BY <1>1, <1>2 DEF FileDistinct, DistinctNames
<1>4. QED BY <1>1, <1>3 DEF FirstWith

\* A save keeps the file a list of entries with distinct names, because each of
\* the three looks the name up under the lock it writes under.
LEMMA SaveFile ==
    ASSUME NEW p \in Admins, TypeOK, FileDistinct,
           SaveAdd(p) \/ SaveUpdate(p) \/ SaveDelete(p)
    PROVE  file' \in Seq(Entry) /\ FileDistinct'
<1> DEFINE n == job[p].name
           e == NewEntry(p)
<1>1. job[p] \in Job BY DEF TypeOK
<1>2. e \in Entry /\ e.name = n BY <1>1 DEF NewEntry, Entry, Job
<1>3. file \in Seq(Entry) /\ DOMAIN file = 1..Len(file) /\ Len(file) \in Nat
  BY LenProperties DEF TypeOK
<1>4. n \in NamesOf(file) =>
        FirstWith(file, n) \in DOMAIN file /\ file[FirstWith(file, n)].name = n
  BY FirstWithFinds
<1>5. CASE SaveAdd(p)
  <2>1. n \notin NamesOf(file) /\ file' = Append(file, e) BY <1>5 DEF SaveAdd
  <2>2. /\ file' \in Seq(Entry)
        /\ DOMAIN file' = DOMAIN file \union {Len(file) + 1}
        /\ file'[Len(file) + 1] = e
        /\ \A j \in DOMAIN file : file'[j] = file[j]
    BY <1>2, <1>3, <2>1, AppendNew
  <2>3. FileDistinct'
    BY <1>2, <2>1, <2>2 DEF FileDistinct, DistinctNames, NamesOf
  <2>4. QED BY <2>2, <2>3
<1>6. CASE SaveUpdate(p)
  <2>1. PICK i \in DOMAIN file : file[i].name = n /\ file' = [file EXCEPT ![i] = e]
    BY <1>4, <1>6 DEF SaveUpdate
  <2>2. file' \in Seq(Entry) BY <1>2, <1>3, <2>1, ExceptSeq
  <2>3. DOMAIN file' = DOMAIN file /\ \A j \in DOMAIN file : file'[j].name = file[j].name
    BY <1>2, <1>3, <2>1
  <2>4. QED BY <2>2, <2>3 DEF FileDistinct, DistinctNames
<1>7. CASE SaveDelete(p)
  <2>1. PICK i \in DOMAIN file : file[i].name = n /\ file' = RemoveAt(file, i)
    BY <1>4, <1>7 DEF SaveDelete
  <2>2. /\ file' \in Seq(Entry) /\ DOMAIN file' = 1..(Len(file) - 1)
        /\ \A j \in 1..(Len(file) - 1) : file'[j] = IF j < i THEN file[j] ELSE file[j + 1]
    BY <1>3, <2>1, RemoveAtList
  <2>3. FileDistinct'
    <3> SUFFICES ASSUME NEW j \in DOMAIN file', NEW k \in DOMAIN file',
                        file'[j].name = file'[k].name
                 PROVE  j = k
      BY DEF FileDistinct, DistinctNames
    <3> DEFINE up(x) == IF x < i THEN x ELSE x + 1
    <3>1. up(j) \in DOMAIN file /\ up(k) \in DOMAIN file BY <1>3, <2>2
    <3>2. file[up(j)].name = file[up(k)].name BY <2>2
    <3>3. up(j) = up(k) BY <3>1, <3>2 DEF FileDistinct, DistinctNames
    <3>4. QED BY <1>3, <2>2, <3>3
  <2>4. QED BY <2>2, <2>3
<1>8. QED BY <1>5, <1>6, <1>7

LEMMA SaveIInv ==
    ASSUME NEW p \in Admins, IInv, Save(p)
    PROVE  IInv'
<1>1. job \in [Admins -> Job] /\ "apply" \in Stages /\ "error" \in Replies
  BY DEF IInv, TypeOK, Stages, Replies
<1>2. job[p].stage # "idle" /\ JobMoves(p) BY <1>1, Moves DEF Save, At
<1>3. job' \in [Admins -> Job] /\ HandlersAvoidStatic' BY <1>2, JobMovesIInv
<1>4. UNCHANGED <<server, order, clients, configs, chains>> BY DEF Save, registry
<1>5. file' \in Seq(Entry) /\ FileDistinct'
  <2>1. CASE SaveAdd(p) \/ SaveUpdate(p) \/ SaveDelete(p) BY <2>1, SaveFile DEF IInv
  <2>2. CASE UNCHANGED file BY <2>2 DEF IInv, TypeOK, FileDistinct, DistinctNames
  <2>3. QED BY <2>1, <2>2 DEF Save
<1>6. QED
  BY <1>3, <1>4, <1>5 DEF IInv, TypeOK, RegistryConsistent, StaticServed, ToSet

\* What a registry operation does about the name of its job, all three parts
\* together: the registry stays consistent and other names keep what they had.
LEMMA ApplyRegistry ==
    ASSUME NEW p \in Admins, TypeOK, RegistryConsistent,
           ApplyAdd(p) \/ ApplyUpdate(p) \/ ApplyDelete(p)
    PROVE  /\ order' \in Seq(Names)
           /\ clients' \in Partial(Names, Client)
           /\ configs' \in Partial(Names, Config)
           /\ RegistryConsistent'
           /\ DOMAIN configs' = IF job[p].op = "delete" THEN DOMAIN configs \ {job[p].name}
                                ELSE DOMAIN configs \union {job[p].name}
           /\ job[p].op # "delete" => configs'[job[p].name] = job[p].cfg
           /\ \A n \in DOMAIN configs \ {job[p].name} :
                n \in DOMAIN configs' /\ configs'[n] = configs[n]
           /\ JobMoves(p)
<1> DEFINE n == job[p].name
           c == job[p].cfg
<1>1. job[p] \in Job /\ n \in Names /\ c \in Config BY DEF TypeOK, Job
<1>2. NewClient(p) \in Client /\ NewClient(p).cfg = c BY <1>1 DEF NewClient, Client
<1>3. /\ order \in Seq(Names) /\ clients \in Partial(Names, Client)
      /\ configs \in Partial(Names, Config) /\ job \in [Admins -> Job]
  BY DEF TypeOK
<1>4. "chain" \in Stages /\ "ok" \in Replies BY DEF Stages, Replies
<1>5. CASE ApplyAdd(p)
  <2>1. /\ job[p].op = "add" /\ n \notin DOMAIN clients /\ Goto(p, "chain")
        /\ clients' = Bind(clients, n, NewClient(p))
        /\ configs' = Bind(configs, n, c)
        /\ order' = Append(order, n)
    BY <1>5 DEF ApplyAdd
  <2>2. /\ order' \in Seq(Names)
        /\ DOMAIN order' = DOMAIN order \union {Len(order) + 1}
        /\ order'[Len(order) + 1] = n
        /\ \A j \in DOMAIN order : order'[j] = order[j]
        /\ ToSet(order') = ToSet(order) \union {n}
    BY <1>1, <1>3, <2>1, AppendNew
  <2>3. n \notin ToSet(order) BY <2>1 DEF RegistryConsistent
  <2>4. /\ clients' \in Partial(Names, Client)
        /\ DOMAIN clients' = DOMAIN clients \union {n}
        /\ \A x \in DOMAIN clients \union {n} : clients'[x] = IF x = n THEN NewClient(p) ELSE clients[x]
    <3>1. Bind(clients, n, NewClient(p)) \in Partial(Names, Client) BY <1>1, <1>2, <1>3, BindMap
    <3>2. /\ DOMAIN Bind(clients, n, NewClient(p)) = DOMAIN clients \union {n}
          /\ \A x \in DOMAIN clients \union {n} : Bind(clients, n, NewClient(p))[x] = IF x = n THEN NewClient(p) ELSE clients[x]
      BY DEF Bind
    <3>3. QED BY <2>1, <3>1, <3>2
  <2>5. /\ configs' \in Partial(Names, Config)
        /\ DOMAIN configs' = DOMAIN configs \union {n}
        /\ \A x \in DOMAIN configs \union {n} : configs'[x] = IF x = n THEN c ELSE configs[x]
    <3>1. Bind(configs, n, c) \in Partial(Names, Config) BY <1>1, <1>2, <1>3, BindMap
    <3>2. /\ DOMAIN Bind(configs, n, c) = DOMAIN configs \union {n}
          /\ \A x \in DOMAIN configs \union {n} : Bind(configs, n, c)[x] = IF x = n THEN c ELSE configs[x]
      BY DEF Bind
    <3>3. QED BY <2>1, <3>1, <3>2
  <2>6. \A i, j \in DOMAIN order' : order'[i] = order'[j] => i = j
    BY <2>2, <2>3 DEF RegistryConsistent, ToSet
  <2>7. RegistryConsistent'
    BY <1>2, <2>2, <2>4, <2>5, <2>6 DEF RegistryConsistent
  <2>8. JobMoves(p) BY <1>3, <1>4, <2>1, Moves
  <2>9. QED BY <2>1, <2>2, <2>4, <2>5, <2>7, <2>8
<1>6. CASE ApplyUpdate(p)
  <2>1. /\ job[p].op = "update" /\ n \in DOMAIN clients /\ Goto(p, "chain")
        /\ clients' = [clients EXCEPT ![n] = NewClient(p)]
        /\ configs' = Bind(configs, n, c)
        /\ order' = order
    BY <1>6 DEF ApplyUpdate
  <2>2. clients' = Bind(clients, n, NewClient(p))
    <3>1. clients = [x \in DOMAIN clients |-> clients[x]] BY <1>3, PartialMap
    <3>2. DOMAIN clients \union {n} = DOMAIN clients BY <2>1
    <3>3. QED BY <2>1, <3>1, <3>2 DEF Bind
  <2>3. /\ clients' \in Partial(Names, Client)
        /\ DOMAIN clients' = DOMAIN clients \union {n}
        /\ \A x \in DOMAIN clients \union {n} : clients'[x] = IF x = n THEN NewClient(p) ELSE clients[x]
    <3>1. Bind(clients, n, NewClient(p)) \in Partial(Names, Client) BY <1>1, <1>2, <1>3, BindMap
    <3>2. /\ DOMAIN Bind(clients, n, NewClient(p)) = DOMAIN clients \union {n}
          /\ \A x \in DOMAIN clients \union {n} : Bind(clients, n, NewClient(p))[x] = IF x = n THEN NewClient(p) ELSE clients[x]
      BY DEF Bind
    <3>3. QED BY <2>2, <3>1, <3>2
  <2>4. /\ configs' \in Partial(Names, Config)
        /\ DOMAIN configs' = DOMAIN configs \union {n}
        /\ \A x \in DOMAIN configs \union {n} : configs'[x] = IF x = n THEN c ELSE configs[x]
    <3>1. Bind(configs, n, c) \in Partial(Names, Config) BY <1>1, <1>2, <1>3, BindMap
    <3>2. /\ DOMAIN Bind(configs, n, c) = DOMAIN configs \union {n}
          /\ \A x \in DOMAIN configs \union {n} : Bind(configs, n, c)[x] = IF x = n THEN c ELSE configs[x]
      BY DEF Bind
    <3>3. QED BY <2>1, <3>1, <3>2
  <2>5. n \in ToSet(order) BY <2>1 DEF RegistryConsistent
  <2>6. RegistryConsistent'
    BY <1>2, <2>1, <2>3, <2>4, <2>5 DEF RegistryConsistent
  <2>7. JobMoves(p) BY <1>3, <1>4, <2>1, Moves
  <2>8. QED BY <1>3, <2>1, <2>3, <2>4, <2>6, <2>7
<1>7. CASE ApplyDelete(p)
  <2>1. /\ job[p].op = "delete" /\ n \in DOMAIN clients /\ Answer(p, "ok")
        /\ clients' = Drop(clients, n) /\ configs' = Drop(configs, n)
        /\ order' = IF n \in ToSet(order) THEN RemoveAt(order, PositionOf(order, n)) ELSE order
    BY <1>7 DEF ApplyDelete
  <2>2. n \in ToSet(order) BY <2>1 DEF RegistryConsistent
  <2>3. PICK i \in DOMAIN order : order[i] = n BY <2>2 DEF ToSet
  <2>4. DOMAIN order \subseteq Nat BY <1>3, LenProperties
  <2>5. PositionOf(order, n) = i
    <3>1. \A j \in DOMAIN order : order[j] = n => j = i BY <2>3 DEF RegistryConsistent
    <3>2. \A j \in DOMAIN order : j < i => order[j] # n BY <2>4, <3>1
    <3>3. QED BY <2>3, <3>1, <3>2 DEF PositionOf
  <2>6. /\ order' \in Seq(Names)
        /\ ToSet(order') = ToSet(order) \ {n}
        /\ \A j, k \in DOMAIN order' : order'[j] = order'[k] => j = k
    <3>1. order' = RemoveAt(order, i) BY <2>1, <2>2, <2>5
    <3>2. \A j, k \in DOMAIN order : order[j] = order[k] => j = k BY DEF RegistryConsistent
    <3>3. RemoveAt(order, i) \in Seq(Names) BY <1>3, RemoveAtList
    <3>4. /\ ToSet(RemoveAt(order, i)) = ToSet(order) \ {order[i]}
          /\ \A j, k \in DOMAIN RemoveAt(order, i) :
               RemoveAt(order, i)[j] = RemoveAt(order, i)[k] => j = k
      BY <1>3, <3>2, RemoveOnly
    <3>5. QED BY <2>3, <3>1, <3>3, <3>4
  <2>7. /\ clients' \in Partial(Names, Client)
        /\ DOMAIN clients' = DOMAIN clients \ {n}
        /\ \A x \in DOMAIN clients \ {n} : clients'[x] = clients[x]
    <3>1. Drop(clients, n) \in Partial(Names, Client) BY <1>3, DropMap
    <3>2. /\ DOMAIN Drop(clients, n) = DOMAIN clients \ {n}
          /\ \A x \in DOMAIN clients \ {n} : Drop(clients, n)[x] = clients[x]
      BY DEF Drop
    <3>3. QED BY <2>1, <3>1, <3>2
  <2>8. /\ configs' \in Partial(Names, Config)
        /\ DOMAIN configs' = DOMAIN configs \ {n}
        /\ \A x \in DOMAIN configs \ {n} : configs'[x] = configs[x]
    <3>1. Drop(configs, n) \in Partial(Names, Config) BY <1>3, DropMap
    <3>2. /\ DOMAIN Drop(configs, n) = DOMAIN configs \ {n}
          /\ \A x \in DOMAIN configs \ {n} : Drop(configs, n)[x] = configs[x]
      BY DEF Drop
    <3>3. QED BY <2>1, <3>1, <3>2
  <2>9. RegistryConsistent' BY <2>6, <2>7, <2>8 DEF RegistryConsistent
  <2>10. JobMoves(p) BY <1>3, <1>4, <2>1, Moves
  <2>11. QED BY <2>1, <2>6, <2>7, <2>8, <2>9, <2>10
<1>8. QED BY <1>5, <1>6, <1>7

LEMMA ApplyIInv ==
    ASSUME NEW p \in Admins, IInv, Apply(p)
    PROVE  IInv'
<1>1. job \in [Admins -> Job] /\ "error" \in Replies BY DEF IInv, TypeOK, Replies
<1>2. job[p].stage = "apply" /\ UNCHANGED <<server, file, chains>> BY DEF Apply, At
<1>3. FileDistinct' BY <1>2 DEF IInv, FileDistinct, DistinctNames
<1>4. CASE Answer(p, "error") /\ UNCHANGED registry
  <2>1. job' \in [Admins -> Job] /\ HandlersAvoidStatic'
    BY <1>1, <1>2, <1>4, Moves, JobMovesIInv
  <2>2. QED
    BY <1>2, <1>3, <1>4, <2>1
    DEF IInv, TypeOK, registry, RegistryConsistent, StaticServed, ToSet
<1>5. CASE ApplyAdd(p) \/ ApplyUpdate(p) \/ ApplyDelete(p)
  <2>1. /\ order' \in Seq(Names)
        /\ clients' \in Partial(Names, Client)
        /\ configs' \in Partial(Names, Config)
        /\ RegistryConsistent'
        /\ \A n \in DOMAIN configs \ {job[p].name} :
             n \in DOMAIN configs' /\ configs'[n] = configs[n]
        /\ JobMoves(p)
    BY <1>5, ApplyRegistry DEF IInv
  <2>2. job' \in [Admins -> Job] /\ HandlersAvoidStatic' BY <1>2, <2>1, JobMovesIInv
  <2>3. job[p].name \notin StaticNames BY <1>2 DEF IInv, HandlersAvoidStatic
  <2>4. StaticServed'
    BY <1>2, <2>1, <2>3 DEF IInv, StaticServed, StaticNames, NamesOf
  <2>5. TypeOK' BY <1>2, <2>1, <2>2 DEF IInv, TypeOK
  <2>6. QED BY <1>3, <2>1, <2>2, <2>4, <2>5 DEF IInv
<1>6. QED BY <1>4, <1>5 DEF Apply

LEMMA StoreChainIInv ==
    ASSUME NEW p \in Admins, IInv, StoreChain(p)
    PROVE  IInv'
<1>1. job \in [Admins -> Job] /\ job[p] \in Job /\ "attach" \in Stages
  BY DEF IInv, TypeOK, Stages
<1>2. job[p].stage # "idle" /\ JobMoves(p) BY <1>1, Moves DEF StoreChain, At
<1>3. job' \in [Admins -> Job] /\ HandlersAvoidStatic' BY <1>2, JobMovesIInv
<1>4. UNCHANGED <<server, file, order, clients, configs>> BY DEF StoreChain, registry
<1>5. chains' \in Partial(Names, Config)
  BY <1>1, BindMap DEF StoreChain, IInv, TypeOK, Job
<1>6. QED
  BY <1>3, <1>4, <1>5
  DEF IInv, TypeOK, RegistryConsistent, StaticServed, FileDistinct, DistinctNames, ToSet

LEMMA AttachChainIInv ==
    ASSUME NEW p \in Admins, IInv, AttachChain(p)
    PROVE  IInv'
<1> DEFINE n == job[p].name
<1>1. job \in [Admins -> Job] /\ job[p] \in Job /\ "ok" \in Replies
  BY DEF IInv, TypeOK, Replies
<1>2. job[p].stage # "idle" /\ JobMoves(p) BY <1>1, Moves DEF AttachChain, At
<1>3. job' \in [Admins -> Job] /\ HandlersAvoidStatic' BY <1>2, JobMovesIInv
<1>4. UNCHANGED <<server, file, order, configs, chains>> BY DEF AttachChain
<1>5. /\ clients' \in Partial(Names, Client)
      /\ DOMAIN clients' = DOMAIN clients
      /\ \A x \in DOMAIN clients : clients'[x].cfg = clients[x].cfg
  <2>1. clients \in Partial(Names, Client) /\ job[p].cfg \in Config
    BY <1>1 DEF IInv, TypeOK, Job
  <2>2. CASE n \notin DOMAIN clients BY <2>1, <2>2 DEF AttachChain
  <2>3. CASE n \in DOMAIN clients
    <3>1. /\ DOMAIN clients \subseteq Names
          /\ clients = [x \in DOMAIN clients |-> clients[x]]
          /\ \A x \in DOMAIN clients : clients[x] \in Client
      BY <2>1, PartialMap
    <3>2. clients' = [clients EXCEPT ![n].serde = job[p].cfg] BY <2>3 DEF AttachChain
    <3>3. DOMAIN clients' = DOMAIN clients
          /\ \A x \in DOMAIN clients : /\ clients'[x] \in Client
                                       /\ clients'[x].cfg = clients[x].cfg
      BY <2>1, <3>1, <3>2 DEF Client
    <3>4. clients' = [x \in DOMAIN clients' |-> clients'[x]] BY <3>1, <3>2
    <3>5. QED BY <3>1, <3>3, <3>4, PartialMap
  <2>4. QED BY <2>2, <2>3
<1>6. QED
  BY <1>3, <1>4, <1>5
  DEF IInv, TypeOK, RegistryConsistent, StaticServed, FileDistinct, DistinctNames, ToSet

-----------------------------------------------------------------------------
(* The theorems. *)

LEMMA NextIInv == IInv /\ [Next]_vars => IInv'
<1> SUFFICES ASSUME IInv, [Next]_vars PROVE IInv' OBVIOUS
<1>1. CASE Start BY <1>1, StartIInv
<1>2. CASE Supervise
  BY <1>2
  DEF Supervise, IInv, TypeOK, RegistryConsistent, StaticServed, FileDistinct,
      DistinctNames, HandlersAvoidStatic, ToSet
<1>3. CASE Crash BY <1>3, CrashIInv
<1>4. ASSUME NEW p \in Admins, Begins(p) PROVE IInv' BY <1>4, BeginIInv
<1>5. ASSUME NEW p \in Admins, Work(p) PROVE IInv'
  BY <1>5, TestIInv, SaveIInv, ApplyIInv, StoreChainIInv, AttachChainIInv DEF Work
<1>6. CASE UNCHANGED vars
  BY <1>6
  DEF vars, IInv, TypeOK, RegistryConsistent, StaticServed, FileDistinct,
      DistinctNames, HandlersAvoidStatic, ToSet
<1>7. QED BY <1>1, <1>2, <1>3, <1>4, <1>5, <1>6 DEF Next

\* The inductive invariant holds in every reachable state.
THEOREM Inductive == Spec => []IInv
<1>1. QED BY InitIInv, NextIInv, PTL DEF Spec

\* Every variable keeps its type: the file and the registry stay well-formed
\* lists and maps of clusters through every handler, crash and start.
THEOREM TypeCorrect == Spec => []TypeOK
<1>1. IInv => TypeOK BY DEF IInv
<1>2. QED BY <1>1, Inductive, PTL

\* The three parts of the registry always agree (registry.go), however many
\* admin requests run at once.
THEOREM RegistryAgrees == Spec => []RegistryConsistent
<1>1. IInv => RegistryConsistent BY DEF IInv
<1>2. QED BY <1>1, Inductive, PTL

\* A running server always serves every cluster of config.yaml with the settings
\* given there (isStatic and the registry check of AddCluster).
THEOREM StaticClustersServed == Spec => []StaticServed
<1>1. IInv => StaticServed BY DEF IInv
<1>2. QED BY <1>1, Inductive, PTL

\* dynamic.yaml never gets a name twice (DynamicConfig.Add).
THEOREM FileNamesDistinct == Spec => []FileDistinct
<1>1. IInv => FileDistinct BY DEF IInv
<1>2. QED BY <1>1, Inductive, PTL

\* A handler under way is never about a static cluster, although the add handler
\* asks the registry and not staticNames.
THEOREM StaticNamesAvoided == Spec => []HandlersAvoidStatic
<1>1. IInv => HandlersAvoidStatic BY DEF IInv
<1>2. QED BY <1>1, Inductive, PTL

-----------------------------------------------------------------------------
(* What the file says about names a save is not about. *)

\* The settings saved for a name depend only on the entries with that name.
LEMMA SameEntries ==
    ASSUME NEW m,
           \A i \in DOMAIN file : file[i].name = m => \E j \in DOMAIN file' : file'[j] = file[i],
           \A j \in DOMAIN file' : file'[j].name = m => \E i \in DOMAIN file : file[i] = file'[j]
    PROVE  Saved(m)' = Saved(m)
<1>1. ASSUME NEW c \in Saved(m) PROVE c \in Saved(m)'
  <2>1. PICK i \in DOMAIN file : file[i].name = m /\ file[i].cfg = c BY DEF Saved
  <2>2. PICK j \in DOMAIN file' : file'[j] = file[i] BY <2>1
  <2>3. QED BY <2>1, <2>2 DEF Saved
<1>2. ASSUME NEW c \in Saved(m)' PROVE c \in Saved(m)
  <2>1. PICK j \in DOMAIN file' : file'[j].name = m /\ file'[j].cfg = c BY DEF Saved
  <2>2. PICK i \in DOMAIN file : file[i] = file'[j] BY <2>1
  <2>3. QED BY <2>1, <2>2 DEF Saved
<1>3. QED BY <1>1, <1>2

\* A save touches the entry of its own name only.
LEMMA SavedElsewhere ==
    ASSUME NEW p \in Admins, TypeOK, FileDistinct, NEW m, m # job[p].name,
           SaveAdd(p) \/ SaveUpdate(p) \/ SaveDelete(p)
    PROVE  Saved(m)' = Saved(m)
<1> DEFINE n == job[p].name
           e == NewEntry(p)
<1>1. job[p] \in Job BY DEF TypeOK
<1>2. e \in Entry /\ e.name = n BY <1>1 DEF NewEntry, Entry, Job
<1>3. file \in Seq(Entry) /\ DOMAIN file = 1..Len(file) /\ Len(file) \in Nat
  BY LenProperties DEF TypeOK
<1>4. CASE SaveAdd(p)
  <2>1. file' = Append(file, e) BY <1>4 DEF SaveAdd
  <2>2. /\ DOMAIN file' = DOMAIN file \union {Len(file) + 1}
        /\ file'[Len(file) + 1] = e
        /\ \A j \in DOMAIN file : file'[j] = file[j]
    BY <1>2, <1>3, <2>1, AppendNew
  <2>3. QED BY <1>2, <2>2, SameEntries
<1>5. CASE SaveUpdate(p)
  <2>1. PICK i \in DOMAIN file : file[i].name = n /\ file' = [file EXCEPT ![i] = e]
    BY <1>5, FirstWithFinds DEF SaveUpdate
  <2>2. DOMAIN file' = DOMAIN file /\ file'[i] = e /\ \A j \in DOMAIN file : j # i => file'[j] = file[j]
    BY <2>1
  <2>3. QED BY <1>2, <2>1, <2>2, SameEntries
<1>6. CASE SaveDelete(p)
  <2>1. PICK i \in DOMAIN file : file[i].name = n /\ file' = RemoveAt(file, i)
    BY <1>6, FirstWithFinds DEF SaveDelete
  <2>2. /\ DOMAIN file' = 1..(Len(file) - 1)
        /\ \A j \in 1..(Len(file) - 1) : file'[j] = IF j < i THEN file[j] ELSE file[j + 1]
    BY <1>3, <2>1, RemoveAtList
  <2>3. ASSUME NEW k \in DOMAIN file, file[k].name = m PROVE \E j \in DOMAIN file' : file'[j] = file[k]
    <3>1. CASE k < i
      <4>1. k \in 1..(Len(file) - 1) BY <1>3, <3>1
      <4>2. QED BY <2>2, <3>1, <4>1
    <3>2. CASE k > i
      <4>1. k - 1 \in 1..(Len(file) - 1) /\ ~(k - 1 < i) /\ (k - 1) + 1 = k BY <1>3, <3>2
      <4>2. file'[k - 1] = file[k] BY <2>2, <4>1
      <4>3. QED BY <2>2, <4>1, <4>2
    <3>3. k # i BY <2>1, <2>3
    <3>4. QED BY <1>3, <3>1, <3>2, <3>3
  <2>4. ASSUME NEW j \in DOMAIN file' PROVE \E k \in DOMAIN file : file[k] = file'[j]
    <3>1. j \in DOMAIN file /\ j + 1 \in DOMAIN file BY <1>3, <2>2
    <3>2. QED BY <2>2, <3>1
  <2>5. QED BY <2>3, <2>4, SameEntries
<1>7. QED BY <1>4, <1>5, <1>6

\* What a hand-written dynamic.yaml says about a static name is never touched.
THEOREM StaticEntriesKept == Spec => StaticEntriesUntouched
<1>1. ASSUME IInv, [Next]_vars, NEW n \in StaticNames PROVE Saved(n)' = Saved(n)
  <2>1. CASE UNCHANGED file BY <2>1 DEF Saved
  <2>2. ASSUME NEW p \in Admins, Save(p), SaveAdd(p) \/ SaveUpdate(p) \/ SaveDelete(p)
        PROVE  Saved(n)' = Saved(n)
    <3>1. n # job[p].name BY <1>1, <2>2 DEF IInv, HandlersAvoidStatic, Save, At
    <3>2. QED BY <1>1, <2>2, <3>1, SavedElsewhere DEF IInv
  <2>3. UNCHANGED file \/ \E p \in Admins : Save(p) /\ (SaveAdd(p) \/ SaveUpdate(p) \/ SaveDelete(p))
    BY <1>1
    DEF Next, vars, Start, Supervise, Crash, Begins, BeginAdd, BeginUpdate, BeginDelete,
        Work, TestConnection, Save, Apply, StoreChain, AttachChain
  <2>4. QED BY <2>1, <2>2, <2>3
<1>2. IInv /\ [Next]_vars => \A n \in StaticNames : Saved(n)' = Saved(n) BY <1>1
<1>3. QED BY <1>2, Inductive, PTL DEF Spec, StaticEntriesUntouched
-----------------------------------------------------------------------------
(* Clients without a serde chain. *)

Builds(q, n) == job[q].stage \in {"chain", "attach"} /\ job[q].name = n

\* A step of p that leaves the clients alone and does not end p's building.
LEMMA BuildersStay ==
    ASSUME NEW p \in Admins, NakedClientHasBuilder, UNCHANGED clients,
           \A q \in Admins \ {p} : job'[q] = job[q],
           \A n : Builds(p, n) => Builds(p, n)'
    PROVE  NakedClientHasBuilder'
BY DEF NakedClientHasBuilder, Builds

\* What a step that only moves p's job leaves of the jobs.
LEMMA OtherJobs ==
    ASSUME NEW p \in Admins, job \in [Admins -> Job], NEW stage, NEW r,
           Goto(p, stage) \/ Answer(p, r)
    PROVE  /\ \A q \in Admins \ {p} : job'[q] = job[q]
           /\ job'[p].name = job[p].name
           /\ Goto(p, stage) => job'[p].stage = stage
BY DEF Goto, Answer, Job

LEMMA NakedApply ==
    ASSUME NEW p \in Admins, IInv, NakedClientHasBuilder, Apply(p)
    PROVE  NakedClientHasBuilder'
<1>1. /\ job \in [Admins -> Job] /\ job[p] \in Job /\ job[p].stage = "apply"
      /\ clients \in Partial(Names, Client)
    BY DEF IInv, TypeOK, Apply, At
<1>2. CASE UNCHANGED registry /\ Answer(p, "error")
    BY <1>1, <1>2, OtherJobs, BuildersStay DEF registry, Builds
<1>3. CASE ApplyDelete(p)
    <2>1. \A n \in DOMAIN clients' : n \in DOMAIN clients /\ clients'[n] = clients[n]
        <3>1. clients' = Drop(clients, job[p].name) BY <1>3 DEF ApplyDelete
        <3> QED BY <3>1 DEF Drop
    <2>2. \A q \in Admins \ {p} : job'[q] = job[q]
        BY <1>1, <1>3, OtherJobs DEF ApplyDelete
    <2> QED BY <1>1, <2>1, <2>2 DEF NakedClientHasBuilder
<1>4. ASSUME ApplyAdd(p) \/ ApplyUpdate(p) PROVE NakedClientHasBuilder'
    <2>1. Goto(p, "chain") BY <1>4 DEF ApplyAdd, ApplyUpdate
    <2>2. /\ \A q \in Admins \ {p} : job'[q] = job[q]
          /\ job'[p].name = job[p].name /\ job'[p].stage = "chain"
        BY <1>1, <2>1, OtherJobs
    <2>3. \A n \in DOMAIN clients' : n # job[p].name => n \in DOMAIN clients /\ clients'[n] = clients[n]
        <3>1. CASE ApplyAdd(p) BY <3>1 DEF ApplyAdd, Bind
        <3>2. CASE ApplyUpdate(p) BY <1>1, <3>2, PartialMap DEF ApplyUpdate
        <3> QED BY <1>4, <3>1, <3>2
    <2> QED BY <1>1, <2>2, <2>3 DEF NakedClientHasBuilder
<1> QED BY <1>2, <1>3, <1>4 DEF Apply

LEMMA NakedAttach ==
    ASSUME NEW p \in Admins, IInv, NakedClientHasBuilder, AttachChain(p)
    PROVE  NakedClientHasBuilder'
<1> DEFINE m == job[p].name
<1>1. /\ job \in [Admins -> Job] /\ job[p] \in Job
      /\ clients \in Partial(Names, Client)
    BY DEF IInv, TypeOK
<1>2. Answer(p, "ok") BY DEF AttachChain
<1>3. \A q \in Admins \ {p} : job'[q] = job[q] BY <1>1, <1>2, OtherJobs
<1>4. \A n \in DOMAIN clients' : n # m => n \in DOMAIN clients /\ clients'[n] = clients[n]
    BY <1>1, PartialMap DEF AttachChain
<1>5. m \in DOMAIN clients' => clients'[m].serde # NoChain
    <2>1. job[p].cfg # NoChain BY <1>1, ConfigAssumption DEF Job
    <2>2. CASE m \notin DOMAIN clients BY <2>2 DEF AttachChain
    <2>3. CASE m \in DOMAIN clients
        <3>1. clients[m] \in Client BY <1>1, <2>3, PartialMap
        <3>2. clients' = [clients EXCEPT ![m].serde = job[p].cfg] BY <2>3 DEF AttachChain
        <3> QED BY <2>1, <2>3, <3>1, <3>2 DEF Client
    <2> QED BY <2>2, <2>3
<1> QED BY <1>1, <1>3, <1>4, <1>5 DEF NakedClientHasBuilder

\* A boot gives every client its chain.
LEMMA NakedStart == IInv /\ NakedClientHasBuilder /\ Start => NakedClientHasBuilder'
<1> SUFFICES ASSUME IInv, NakedClientHasBuilder, Start PROVE NakedClientHasBuilder' OBVIOUS
<1>1. IInv' /\ UNCHANGED job BY StartIInv DEF Start
<1>2. PICK entries : Boot(entries) BY DEF Start
<1>3. CASE AllBuildable(entries)
    <2>1. \A n \in DOMAIN clients' : clients'[n].serde = clients'[n].cfg
        BY <1>2, <1>3 DEF Boot
    <2>2. \A n \in DOMAIN clients' : clients'[n].cfg \in Config
        <3>1. clients' \in Partial(Names, Client) BY <1>1 DEF IInv, TypeOK
        <3>2. \A n \in DOMAIN clients' : clients'[n] \in Client BY <3>1, PartialMap
        <3> QED BY <3>2 DEF Client
    <2> QED BY <2>1, <2>2, ConfigAssumption DEF NakedClientHasBuilder
<1>4. CASE ~AllBuildable(entries)
    BY <1>1, <1>2, <1>4 DEF Boot, NakedClientHasBuilder
<1> QED BY <1>3, <1>4

LEMMA NakedStep == IInv /\ NakedClientHasBuilder /\ [Next]_vars => NakedClientHasBuilder'
<1> SUFFICES ASSUME IInv, NakedClientHasBuilder, [Next]_vars PROVE NakedClientHasBuilder' OBVIOUS
<1>0. job \in [Admins -> Job] BY DEF IInv, TypeOK
<1>1. CASE Start BY <1>1, NakedStart
<1>2. CASE Supervise BY <1>2 DEF Supervise, NakedClientHasBuilder
<1>3. CASE Crash
    <2>1. DOMAIN clients' = {} BY <1>3, EmptyMap DEF Crash
    <2> QED BY <2>1 DEF NakedClientHasBuilder
<1>4. ASSUME NEW p \in Admins, Begins(p) PROVE NakedClientHasBuilder'
    <2>1. job[p].stage = "idle" /\ UNCHANGED clients
        BY <1>4 DEF Begins, BeginAdd, BeginUpdate, BeginDelete, At, registry
    <2>2. \A q \in Admins \ {p} : job'[q] = job[q]
        BY <1>0, <1>4 DEF Begins, BeginAdd, BeginUpdate, BeginDelete, Refuse, Proceed, Begin
    <2> QED BY <2>1, <2>2, BuildersStay DEF Builds
<1>5. ASSUME NEW p \in Admins, TestConnection(p) \/ Save(p) PROVE NakedClientHasBuilder'
    <2>1. job[p].stage \in {"test", "save"} /\ UNCHANGED clients
        BY <1>5 DEF TestConnection, Save, At, registry
    <2>2. \A q \in Admins \ {p} : job'[q] = job[q]
        BY <1>0, <1>5, OtherJobs DEF TestConnection, Save
    <2> QED BY <2>1, <2>2, BuildersStay DEF Builds
<1>6. ASSUME NEW p \in Admins, StoreChain(p) PROVE NakedClientHasBuilder'
    <2>1. UNCHANGED clients /\ Goto(p, "attach") BY <1>6 DEF StoreChain, registry
    <2>2. /\ \A q \in Admins \ {p} : job'[q] = job[q]
          /\ job'[p].name = job[p].name /\ job'[p].stage = "attach"
        BY <1>0, <2>1, OtherJobs
    <2> QED BY <2>1, <2>2, BuildersStay DEF Builds
<1>7. CASE UNCHANGED vars BY <1>7 DEF vars, NakedClientHasBuilder
<1> QED BY <1>1, <1>2, <1>3, <1>4, <1>5, <1>6, <1>7, NakedApply, NakedAttach DEF Next, Work

\* However additions, updates and deletions of a cluster overtake each other, no
\* client stays without a chain: somebody is about to set it (buildSerDeChain).
THEOREM ClientsGetChains == Spec => []NakedClientHasBuilder
<1>1. Init => NakedClientHasBuilder
    <2>1. Init => DOMAIN clients = {} BY EmptyMap DEF Init
    <2> QED BY <2>1 DEF NakedClientHasBuilder
<1> QED BY <1>1, NakedStep, Inductive, PTL DEF Spec

\* What overlapping handlers leave agrees, whatever of their saves and registry
\* changes comes first.
THEOREM OverlapsAgreeAlways == Spec => []OverlapsAgree
<1>1. RegistryConsistent /\ FileDistinct /\ NakedClientHasBuilder => OverlapsAgree
    BY DEF OverlapsAgree
<1> QED BY <1>1, RegistryAgrees, FileNamesDistinct, ClientsGetChains, PTL
-----------------------------------------------------------------------------
(* Files that let the server start.                                        *)

\* The clusters of the first dynamic.yaml that are always tested can be built.
FilesWork ==
    \A f \in InitialFiles : \A i \in DOMAIN f : Tested(f[i].name) => f[i].cfg.conn \in BuildableConns

\* A handler past the connection test, for a cluster that is always tested, has
\* settings that work.
Proven(p) ==
    /\ job[p].stage \in {"test", "save"} => job[p].name \in Targets[p]
    /\ job[p].stage = "save" /\ job[p].op # "delete" /\ Tested(job[p].name) =>
          job[p].cfg.conn \in BuildableConns

ProvenInv == FileBuildable /\ \A p \in Admins : Proven(p)

\* Where a step leaves the job whose stage it moves.
LEMMA MovesTo ==
    ASSUME NEW p \in Admins, job \in [Admins -> Job]
    PROVE  /\ \A s : Goto(p, s) => job'[p].stage = s /\ job'[p].reply = job[p].reply
           /\ \A r : Answer(p, r) => job'[p].stage = "idle" /\ job'[p].reply = r
BY DEF Goto, Answer, Job

\* An addition or an update of a cluster that is always tested begins with a test.
LEMMA FirstIsTest ==
    ASSUME NEW p \in Admins, NEW n \in Targets[p], Tested(n), NEW validate \in ValidateChoices[p]
    PROVE  FirstStage(validate) = "test"
<1>1. validate \in BOOLEAN BY ConfigAssumption
<1>2. validate # FALSE BY DEF Tested
<1> QED BY <1>1, <1>2 DEF FirstStage

\* What a handler's first step makes of its job.
LEMMA BeginsJob ==
    ASSUME NEW p \in Admins, IInv, Begins(p)
    PROVE  /\ job' \in [Admins -> Job]
           /\ \A q \in Admins \ {p} : job'[q] = job[q]
           /\ job[p].stage = "idle" /\ job'[p].name \in Targets[p] /\ job'[p].reply # "ok"
           /\ job'[p].stage \in {"idle", "test", "save"}
           /\ job'[p].stage = "save" /\ job'[p].op # "delete" => ~Tested(job'[p].name)
           /\ UNCHANGED <<server, file, order, clients, configs, chains>>
<1>0. job' \in [Admins -> Job] /\ job \in [Admins -> Job]
    BY BeginIInv DEF IInv, TypeOK
<1>1. job[p].stage = "idle" /\ UNCHANGED <<server, file, order, clients, configs, chains>>
    BY DEF Begins, BeginAdd, BeginUpdate, BeginDelete, At, registry
<1>2. \A q \in Admins \ {p} : job'[q] = job[q]
    BY <1>0 DEF Begins, BeginAdd, BeginUpdate, BeginDelete, Refuse, Proceed, Begin
<1>3. \A op, n, c, stage, r : Begin(p, op, n, c, stage, r) =>
          /\ job'[p].op = op /\ job'[p].name = n /\ job'[p].stage = stage /\ job'[p].reply = r
    BY <1>0 DEF Begin
<1>4. \A n \in Targets[p], validate \in ValidateChoices[p] :
          /\ FirstStage(validate) \in {"test", "save"}
          /\ Tested(n) => FirstStage(validate) = "test"
    BY FirstIsTest DEF FirstStage
<1>5. CASE BeginAdd(p)
    BY <1>1, <1>2, <1>0, <1>3, <1>4, <1>5 DEF BeginAdd, Refuse, Proceed
<1>6. CASE BeginUpdate(p)
    BY <1>1, <1>2, <1>0, <1>3, <1>4, <1>6 DEF BeginUpdate, Refuse, Proceed
<1>7. CASE BeginDelete(p)
    BY <1>1, <1>2, <1>0, <1>3, <1>7 DEF BeginDelete, Refuse, Proceed
<1> QED BY <1>5, <1>6, <1>7 DEF Begins

\* What a later step makes of it.
LEMMA WorkJob ==
    ASSUME NEW p \in Admins, IInv, Work(p)
    PROVE  /\ job' \in [Admins -> Job]
           /\ \A q \in Admins \ {p} : job'[q] = job[q]
           /\ job'[p].name = job[p].name /\ job'[p].op = job[p].op /\ job'[p].cfg = job[p].cfg
           /\ job[p].stage # "idle"
<1>1. job \in [Admins -> Job] /\ job[p].stage # "idle"
    BY DEF IInv, TypeOK, Work, TestConnection, Save, Apply, StoreChain, AttachChain, At
<1>2. \E stage, r : Goto(p, stage) \/ Answer(p, r)
    BY DEF Work, TestConnection, Save, Apply, ApplyAdd, ApplyUpdate, ApplyDelete, StoreChain, AttachChain
<1>3. IInv'
    BY TestIInv, SaveIInv, ApplyIInv, StoreChainIInv, AttachChainIInv DEF Work
<1> QED BY <1>1, <1>2, <1>3 DEF Goto, Answer, Job, IInv, TypeOK

\* An entry of the saved file is an old one or the one that was asked for.
LEMMA SavedEntries ==
    ASSUME NEW p \in Admins, TypeOK, FileDistinct, SaveAdd(p) \/ SaveUpdate(p) \/ SaveDelete(p),
           NEW j \in DOMAIN file'
    PROVE  \/ \E i \in DOMAIN file : file'[j] = file[i]
           \/ file'[j] = NewEntry(p) /\ job[p].op # "delete"
<1>1. file \in Seq(Entry) /\ DOMAIN file = 1..Len(file) /\ Len(file) \in Nat /\ job[p] \in Job
  BY LenProperties DEF TypeOK
<1>2. CASE SaveAdd(p)
    <2>1. NewEntry(p) \in Entry BY <1>1 DEF NewEntry, Entry, Job
    <2>2. file' = Append(file, NewEntry(p)) BY <1>2 DEF SaveAdd
    <2> QED BY <1>1, <1>2, <2>1, <2>2, AppendNew DEF SaveAdd
<1>3. CASE SaveUpdate(p)
    BY <1>1, <1>3 DEF SaveUpdate
<1>4. CASE SaveDelete(p)
    <2>1. PICK i \in DOMAIN file : file' = RemoveAt(file, i)
        BY <1>4, FirstWithFinds DEF SaveDelete
    <2>2. /\ DOMAIN file' = 1..(Len(file) - 1)
          /\ file'[j] = IF j < i THEN file[j] ELSE file[j + 1]
        BY <1>1, <2>1, RemoveAtList
    <2>3. j \in DOMAIN file /\ j + 1 \in DOMAIN file BY <1>1, <2>2
    <2> QED BY <2>2, <2>3
<1> QED BY <1>2, <1>3, <1>4

\* A request that reaches the file was tested, since it goes there only by the test.
LEMMA RequestsProven ==
    ASSUME IInv, [Next]_vars, \A p \in Admins : Proven(p)
    PROVE  \A p \in Admins : Proven(p)'
<1>0. job \in [Admins -> Job]
    BY DEF IInv, TypeOK
<1>1. CASE Start \/ Supervise \/ UNCHANGED vars
    BY <1>1 DEF Start, Supervise, vars, Proven
<1>2. CASE Crash
    BY <1>2 DEF Crash, Proven, Idle
<1>3. ASSUME NEW p \in Admins, Begins(p) PROVE \A q \in Admins : Proven(q)'
    BY <1>3, BeginsJob DEF Proven
<1>4. ASSUME NEW p \in Admins, Work(p) PROVE \A q \in Admins : Proven(q)'
    <2>1. /\ \A q \in Admins \ {p} : job'[q] = job[q]
          /\ job'[p].name = job[p].name /\ job'[p].cfg = job[p].cfg /\ job'[p].op = job[p].op
        BY <1>4, WorkJob
    <2>2. CASE TestConnection(p)
        <3>1. /\ job[p].stage = "test"
              /\ \/ job'[p].stage = "idle"
                 \/ job'[p].stage = "save" /\ job[p].cfg.conn \in BuildableConns
            BY <1>0, <2>2, MovesTo DEF TestConnection, At
        <3> QED BY <2>1, <3>1 DEF Proven
    <2>3. CASE Save(p)
        <3>1. job[p].stage = "save" /\ job'[p].stage \in {"apply", "idle"}
            BY <1>0, <2>3, MovesTo DEF Save, At
        <3> QED BY <2>1, <3>1 DEF Proven
    <2>4. CASE Apply(p) \/ StoreChain(p) \/ AttachChain(p)
        <3>1. job'[p].stage \in {"idle", "chain", "attach"}
            BY <1>0, <2>4, MovesTo
            DEF Apply, ApplyAdd, ApplyUpdate, ApplyDelete, StoreChain, AttachChain
        <3> QED BY <2>1, <3>1 DEF Proven
    <2> QED BY <1>4, <2>2, <2>3, <2>4 DEF Work
<1> QED BY <1>1, <1>2, <1>3, <1>4 DEF Next

LEMMA ProvenStep == IInv /\ ProvenInv /\ [Next]_vars => ProvenInv'
<1> SUFFICES ASSUME IInv, ProvenInv, [Next]_vars PROVE FileBuildable'
    BY RequestsProven DEF ProvenInv
<1>1. ASSUME UNCHANGED file PROVE FileBuildable'
    BY <1>1 DEF ProvenInv, FileBuildable
<1>2. ASSUME NEW p \in Admins, Save(p), SaveAdd(p) \/ SaveUpdate(p) \/ SaveDelete(p)
      PROVE  FileBuildable'
    <2> SUFFICES ASSUME NEW j \in DOMAIN file', Tested(file'[j].name)
                 PROVE  file'[j].cfg.conn \in BuildableConns
        BY DEF FileBuildable
    <2>1. job[p].stage = "save"
        BY <1>2 DEF Save, At
    <2>2. CASE \E i \in DOMAIN file : file'[j] = file[i]
        BY <2>2 DEF ProvenInv, FileBuildable
    <2>3. CASE file'[j] = NewEntry(p) /\ job[p].op # "delete"
        BY <2>1, <2>3 DEF ProvenInv, Proven, NewEntry
    <2> QED BY <1>2, <2>2, <2>3, SavedEntries DEF IInv
<1>3. CASE \E p \in Admins : Save(p)
    BY <1>1, <1>2, <1>3 DEF Save
<1>4. CASE ~ \E p \in Admins : Save(p)
    <2>1. \A p \in Admins : Begins(p) => UNCHANGED file
        BY BeginsJob
    <2>2. UNCHANGED file
        BY <1>4, <2>1
        DEF Next, Work, Start, Supervise, Crash, TestConnection, Apply, StoreChain, AttachChain, vars
    <2> QED BY <1>1, <2>2
<1> QED BY <1>3, <1>4

\* Clusters whose every change is tested never keep the server from starting, if
\* they did not at first (testConnection before DynamicConfig.Add and Update).
THEOREM FileStaysBuildable == FilesWork => (Spec => []FileBuildable)
<1> SUFFICES ASSUME FilesWork PROVE Spec => []FileBuildable
    OBVIOUS
<1>1. Init => ProvenInv
    BY DEF Init, FilesWork, ProvenInv, Proven, FileBuildable, Idle
<1>2. ProvenInv => FileBuildable
    BY DEF ProvenInv
<1> QED BY <1>1, <1>2, ProvenStep, Inductive, PTL DEF Spec
-----------------------------------------------------------------------------
(* Admins who work on different clusters.  What a request has done so far  *)
(* is then to be seen where it did it, since nobody else touches it.       *)

Apart == \A p, q \in Admins : p # q => Targets[p] \intersect Targets[q] = {}

\* A request that is under way, or was answered with success and not followed by
\* another one since.
Answered(p) == job[p].stage = "idle" /\ job[p].reply = "ok"
Stands(p)   == job[p].stage # "idle" \/ Answered(p)

\* What a request is to leave of its cluster.
Meant(p) == IF job[p].op = "delete" THEN {} ELSE {job[p].cfg}

\* The file has it after Save, the registry after Apply, the chain map after
\* StoreChain and the client after AttachChain.
TracksName(p, n) ==
    /\ Stands(p) => n \in Targets[p] \ StaticNames
    /\ job[p].stage \in {"apply", "chain", "attach"} \/ Answered(p) => Saved(n) = Meant(p)
    /\ job[p].stage \in {"chain", "attach"} \/ Answered(p) => Served(n) = Meant(p)
    /\ job[p].stage \in {"chain", "attach"} => job[p].op # "delete"
    /\ job[p].op # "delete" /\ (job[p].stage = "attach" \/ Answered(p)) =>
          n \in DOMAIN chains /\ chains[n] = job[p].cfg
    /\ job[p].op # "delete" /\ Answered(p) => clients[n].serde = job[p].cfg

Tracks(p) == \A n \in Names : n = job[p].name => TracksName(p, n)

\* A server that is not up serves nothing and answers nobody.
Silent == server # "up" => DOMAIN configs = {} /\ \A p \in Admins : ~Stands(p)

TrackInv == Silent /\ \A p \in Admins : Tracks(p)

\* Nothing is claimed of a request that does not stand.
LEMMA TracksNothing == \A p \in Admins : ~Stands(p) => Tracks(p)
BY DEF Tracks, TracksName, Stands

\* A registry operation leaves the clients of other names alone.
LEMMA ClientsElsewhere ==
    ASSUME NEW p \in Admins, TypeOK, ApplyAdd(p) \/ ApplyUpdate(p) \/ ApplyDelete(p),
           NEW m \in DOMAIN clients, m # job[p].name
    PROVE  m \in DOMAIN clients' /\ clients'[m] = clients[m]
<1>1. CASE ApplyAdd(p)
    BY <1>1 DEF ApplyAdd, Bind
<1>2. CASE ApplyUpdate(p)
    <2>1. clients' = [clients EXCEPT ![job[p].name] = NewClient(p)]
        BY <1>2 DEF ApplyUpdate
    <2> QED BY <2>1
<1>3. CASE ApplyDelete(p)
    BY <1>3 DEF ApplyDelete, Drop
<1> QED BY <1>1, <1>2, <1>3

\* The settings served under a name depend only on what the registry has there.
LEMMA SameConfig ==
    ASSUME NEW m, m \in DOMAIN configs <=> m \in DOMAIN configs',
           m \in DOMAIN configs => configs'[m] = configs[m]
    PROVE  Served(m)' = Served(m)
BY DEF Served

\* A step of one handler changes nothing about another cluster than its own.
LEMMA WorkElsewhere ==
    ASSUME NEW p \in Admins, IInv, Work(p), NEW m, m # job[p].name
    PROVE  /\ Saved(m)' = Saved(m)
           /\ Served(m)' = Served(m)
           /\ m \in DOMAIN chains => m \in DOMAIN chains' /\ chains'[m] = chains[m]
           /\ m \in DOMAIN clients => m \in DOMAIN clients' /\ clients'[m] = clients[m]
<1>1. CASE TestConnection(p)
    BY <1>1 DEF TestConnection, registry, Saved, Served
<1>2. CASE Save(p)
    <2>1. UNCHANGED <<chains, clients, configs>> BY <1>2 DEF Save, registry
    <2>2. Saved(m)' = Saved(m)
        <3>1. CASE UNCHANGED file BY <3>1 DEF Saved
        <3>2. CASE SaveAdd(p) \/ SaveUpdate(p) \/ SaveDelete(p)
            BY <3>2, SavedElsewhere DEF IInv
        <3> QED BY <1>2, <3>1, <3>2 DEF Save
    <2> QED BY <2>1, <2>2, SameConfig
<1>3. CASE Apply(p)
    <2>1. UNCHANGED <<chains, file>> BY <1>3 DEF Apply
    <2>2. CASE UNCHANGED registry
        BY <2>1, <2>2 DEF registry, Saved, Served
    <2>3. CASE ApplyAdd(p) \/ ApplyUpdate(p) \/ ApplyDelete(p)
        <3>1. /\ m \in DOMAIN configs <=> m \in DOMAIN configs'
              /\ m \in DOMAIN configs => configs'[m] = configs[m]
            BY <2>3, ApplyRegistry DEF IInv
        <3>2. Saved(m)' = Saved(m) BY <2>1 DEF Saved
        <3>3. m \in DOMAIN clients => m \in DOMAIN clients' /\ clients'[m] = clients[m]
            BY <2>3, ClientsElsewhere DEF IInv
        <3> QED BY <2>1, <3>1, <3>2, <3>3, SameConfig
    <2> QED BY <1>3, <2>2, <2>3 DEF Apply
<1>4. CASE StoreChain(p)
    <2>1. chains' = Bind(chains, job[p].name, job[p].cfg) /\ UNCHANGED <<file, clients, configs>>
        BY <1>4 DEF StoreChain, registry
    <2>2. m \in DOMAIN chains => m \in DOMAIN chains' /\ chains'[m] = chains[m]
        BY <2>1 DEF Bind
    <2> QED BY <2>1, <2>2 DEF Saved, Served
<1>5. CASE AttachChain(p)
    <2>1. /\ UNCHANGED <<file, configs, chains>>
          /\ clients' = IF job[p].name \in DOMAIN clients
                        THEN [clients EXCEPT ![job[p].name].serde = job[p].cfg]
                        ELSE clients
        BY <1>5 DEF AttachChain
    <2>2. m \in DOMAIN clients => m \in DOMAIN clients' /\ clients'[m] = clients[m]
        BY <2>1
    <2> QED BY <2>1, <2>2 DEF Saved, Served
<1> QED BY <1>1, <1>2, <1>3, <1>4, <1>5 DEF Work

\* So what another admin's request has done stands.
LEMMA OthersTrack ==
    ASSUME Apart, NEW p \in Admins, NEW q \in Admins, q # p, IInv, TrackInv, Work(p)
    PROVE  Tracks(q)'
<1>1. job'[q] = job[q] /\ job[p].stage # "idle" BY WorkJob
<1>2. CASE ~Stands(q)
    <2>1. ~Stands(q)' BY <1>1, <1>2 DEF Stands, Answered
    <2> QED BY <2>1 DEF Tracks, TracksName, Stands
<1>3. CASE Stands(q)
    <2> SUFFICES ASSUME NEW n \in Names, n = job[q].name PROVE TracksName(q, n)'
        BY <1>1 DEF Tracks
    <2>1. TracksName(q, n) BY DEF TrackInv, Tracks
    <2>2. job[p].name \in Targets[p]
        <3>1. job[p].name \in Names BY DEF IInv, TypeOK, Job
        <3> QED BY <1>1, <3>1 DEF TrackInv, Tracks, TracksName, Stands
    <2>3. n # job[p].name BY <1>3, <2>1, <2>2 DEF Apart, TracksName
    <2>4. /\ Saved(n)' = Saved(n)
          /\ Served(n)' = Served(n)
          /\ n \in DOMAIN chains => n \in DOMAIN chains' /\ chains'[n] = chains[n]
          /\ n \in DOMAIN clients => n \in DOMAIN clients' /\ clients'[n] = clients[n]
        BY <2>3, WorkElsewhere
    <2>5. Served(n) # {} => n \in DOMAIN clients
        BY DEF Served, IInv, RegistryConsistent
    <2>6. job[q].op # "delete" /\ Answered(q) => n \in DOMAIN clients
        BY <2>1, <2>5 DEF TracksName, Meant
    <2>7. (Stands(q)' = Stands(q)) /\ (Answered(q)' = Answered(q)) /\ Meant(q)' = Meant(q)
        BY <1>1 DEF Stands, Answered, Meant
    <2> QED BY <1>1, <2>1, <2>4, <2>6, <2>7 DEF TracksName
<1> QED BY <1>2, <1>3

\* After Save the file says of the cluster what was asked for, since it names the
\* cluster once.
LEMMA SaveMeans ==
    ASSUME NEW p \in Admins, TypeOK, FileDistinct, NEW n, n = job[p].name,
           SaveAdd(p) \/ SaveUpdate(p) \/ SaveDelete(p)
    PROVE  Saved(n)' = Meant(p)
<1>1. file \in Seq(Entry) /\ DOMAIN file = 1..Len(file) /\ Len(file) \in Nat /\ job[p] \in Job
    BY LenProperties DEF TypeOK
<1>2. NewEntry(p) \in Entry /\ NewEntry(p).name = n /\ NewEntry(p).cfg = job[p].cfg
    BY <1>1 DEF NewEntry, Entry, Job
<1>3. CASE SaveAdd(p)
    <2>1. n \notin NamesOf(file) /\ file' = Append(file, NewEntry(p)) /\ job[p].op = "add"
        BY <1>3 DEF SaveAdd
    <2>2. /\ DOMAIN file' = DOMAIN file \union {Len(file) + 1}
          /\ file'[Len(file) + 1] = NewEntry(p)
          /\ \A j \in DOMAIN file : file'[j] = file[j]
        BY <1>1, <1>2, <2>1, AppendNew
    <2>3. \A j \in DOMAIN file' : file'[j].name = n <=> j = Len(file) + 1
        BY <1>1, <1>2, <2>1, <2>2 DEF NamesOf
    <2> QED BY <1>2, <2>1, <2>2, <2>3 DEF Saved, Meant
<1>4. CASE SaveUpdate(p)
    <2>1. PICK i \in DOMAIN file : file[i].name = n /\ file' = [file EXCEPT ![i] = NewEntry(p)]
        BY <1>4, FirstWithFinds DEF SaveUpdate
    <2>2. DOMAIN file' = DOMAIN file /\ \A j \in DOMAIN file : file'[j] = IF j = i THEN NewEntry(p) ELSE file[j]
        BY <2>1
    <2>3. \A j \in DOMAIN file' : file'[j].name = n <=> j = i
        BY <1>2, <2>1, <2>2 DEF FileDistinct, DistinctNames
    <2> QED BY <1>2, <1>4, <2>2, <2>3 DEF Saved, Meant, SaveUpdate
<1>5. CASE SaveDelete(p)
    <2>1. PICK i \in DOMAIN file : file[i].name = n /\ file' = RemoveAt(file, i)
        BY <1>5, FirstWithFinds DEF SaveDelete
    <2>2. /\ DOMAIN file' = 1..(Len(file) - 1)
          /\ \A j \in 1..(Len(file) - 1) : file'[j] = IF j < i THEN file[j] ELSE file[j + 1]
        BY <1>1, <2>1, RemoveAtList
    <2>3. ASSUME NEW j \in DOMAIN file', file'[j].name = n PROVE FALSE
        <3>1. j \in DOMAIN file /\ j + 1 \in DOMAIN file BY <1>1, <2>2
        <3>2. CASE j < i BY <1>1, <2>1, <2>2, <2>3, <3>1, <3>2 DEF FileDistinct, DistinctNames
        <3>3. CASE ~(j < i)
            <4>1. j + 1 = i BY <2>1, <2>2, <2>3, <3>1, <3>3 DEF FileDistinct, DistinctNames
            <4> QED BY <1>1, <3>1, <3>3, <4>1
        <3> QED BY <3>2, <3>3
    <2> QED BY <1>5, <2>3 DEF Saved, Meant, SaveDelete
<1> QED BY <1>3, <1>4, <1>5

\* After Apply so does the registry.
LEMMA ApplyMeans ==
    ASSUME NEW p \in Admins, TypeOK, RegistryConsistent, NEW n, n = job[p].name,
           ApplyAdd(p) \/ ApplyUpdate(p) \/ ApplyDelete(p)
    PROVE  Served(n)' = Meant(p)
<1>1. /\ n \in DOMAIN configs' <=> job[p].op # "delete"
      /\ job[p].op # "delete" => configs'[n] = job[p].cfg
    BY ApplyRegistry
<1> QED BY <1>1 DEF Served, Meant

\* And each step of a request adds what it did.
LEMMA OwnTracks ==
    ASSUME NEW p \in Admins, IInv, Tracks(p), Work(p)
    PROVE  Tracks(p)'
<1>1. job \in [Admins -> Job] /\ job[p] \in Job BY DEF IInv, TypeOK
<1>2. /\ job'[p].name = job[p].name /\ job'[p].op = job[p].op /\ job'[p].cfg = job[p].cfg
      /\ job[p].stage # "idle"
    BY WorkJob
<1> SUFFICES ASSUME NEW n \in Names, n = job[p].name PROVE TracksName(p, n)'
    BY <1>2 DEF Tracks
<1>3. TracksName(p, n) /\ n \in Targets[p] \ StaticNames
    BY <1>2 DEF Tracks, TracksName, Stands
<1>4. Meant(p)' = Meant(p) BY <1>2 DEF Meant
<1>5. CASE TestConnection(p)
    <2>1. job'[p].stage = "save" \/ (job'[p].stage = "idle" /\ job'[p].reply = "refused")
        BY <1>1, <1>5, MovesTo DEF TestConnection
    <2> QED BY <1>3, <2>1 DEF TracksName, Stands, Answered
<1>6. CASE Save(p)
    <2>1. CASE Answer(p, "error")
        <3>1. job'[p].stage = "idle" /\ job'[p].reply = "error" BY <1>1, <2>1, MovesTo
        <3> QED BY <3>1 DEF TracksName, Stands, Answered
    <2>2. CASE (SaveAdd(p) \/ SaveUpdate(p) \/ SaveDelete(p)) /\ Goto(p, "apply")
        <3>1. job'[p].stage = "apply" BY <1>1, <2>2, MovesTo
        <3>2. Saved(n)' = Meant(p) BY <2>2, SaveMeans DEF IInv
        <3> QED BY <1>3, <1>4, <3>1, <3>2 DEF TracksName, Answered
    <2> QED BY <1>6, <2>1, <2>2 DEF Save
<1>7. CASE Apply(p)
    <2>1. job[p].stage = "apply" /\ UNCHANGED file BY <1>7 DEF Apply, At
    <2>2. Saved(n)' = Meant(p)
        <3>1. Saved(n)' = Saved(n) BY <2>1 DEF Saved
        <3> QED BY <1>3, <2>1, <3>1 DEF TracksName
    <2>3. CASE Answer(p, "error")
        <3>1. job'[p].stage = "idle" /\ job'[p].reply = "error" BY <1>1, <2>3, MovesTo
        <3> QED BY <3>1 DEF TracksName, Stands, Answered
    <2>4. CASE ApplyAdd(p) \/ ApplyUpdate(p) \/ ApplyDelete(p)
        <3>1. Served(n)' = Meant(p) BY <2>4, ApplyMeans DEF IInv
        <3>2. \/ job[p].op # "delete" /\ job'[p].stage = "chain"
              \/ job[p].op = "delete" /\ job'[p].stage = "idle"
            BY <1>1, <2>4, MovesTo DEF ApplyAdd, ApplyUpdate, ApplyDelete
        <3> QED BY <1>2, <1>3, <1>4, <2>2, <3>1, <3>2 DEF TracksName, Answered
    <2> QED BY <1>7, <2>3, <2>4 DEF Apply
<1>8. CASE StoreChain(p) \/ AttachChain(p)
    <2>1. UNCHANGED <<file, configs>> /\ job[p].stage \in {"chain", "attach"}
        BY <1>8 DEF StoreChain, AttachChain, At, registry
    <2>2. Saved(n)' = Meant(p) /\ Served(n)' = Meant(p) /\ job[p].op # "delete"
        <3>1. Saved(n)' = Saved(n) /\ Served(n)' = Served(n) BY <2>1 DEF Saved, Served
        <3> QED BY <1>3, <2>1, <3>1 DEF TracksName
    <2>3. CASE StoreChain(p)
        <3>1. n \in DOMAIN chains' /\ chains'[n] = job[p].cfg BY <2>3 DEF StoreChain, Bind
        <3>2. job'[p].stage = "attach" BY <1>1, <2>3, MovesTo DEF StoreChain
        <3> QED BY <1>2, <1>3, <1>4, <2>2, <3>1, <3>2 DEF TracksName, Answered
    <2>4. CASE AttachChain(p)
        <3>1. n \in DOMAIN chains' /\ chains'[n] = job[p].cfg
            BY <1>3, <2>2, <2>4 DEF TracksName, AttachChain, At
        <3>2. job'[p].stage = "idle" BY <1>1, <2>4, MovesTo DEF AttachChain
        <3>3. n \in DOMAIN clients
            BY <1>3, <2>1, <2>2 DEF TracksName, Meant, Served, IInv, RegistryConsistent
        <3>4. clients[n] \in Client BY <3>3, PartialMap DEF IInv, TypeOK
        <3>5. clients' = [clients EXCEPT ![n].serde = job[p].cfg] BY <2>4, <3>3 DEF AttachChain
        <3>6. clients'[n].serde = job[p].cfg BY <3>3, <3>4, <3>5 DEF Client
        <3> QED BY <1>2, <1>3, <1>4, <2>2, <3>1, <3>2, <3>6 DEF TracksName, Answered
    <2> QED BY <1>8, <2>3, <2>4
<1> QED BY <1>5, <1>6, <1>7, <1>8 DEF Work

LEMMA TrackStep == Apart /\ IInv /\ TrackInv /\ [Next]_vars => TrackInv'
<1> SUFFICES ASSUME Apart, IInv, TrackInv, [Next]_vars PROVE TrackInv'
    OBVIOUS
<1>1. CASE Start
    <2>1. server # "up" /\ UNCHANGED job /\ (server' = "up" \/ UNCHANGED configs)
        BY <1>1 DEF Start, Boot
    <2>2. \A q \in Admins : ~Stands(q)' /\ ~Stands(q)
        BY <2>1 DEF TrackInv, Silent, Stands, Answered
    <2>3. \A q \in Admins : Tracks(q)' BY <2>2 DEF Tracks, TracksName, Stands
    <2> QED BY <2>1, <2>2, <2>3 DEF TrackInv, Silent
<1>2. CASE Supervise
    <2>1. server # "up" /\ UNCHANGED <<file, configs, clients, chains, job>>
        BY <1>2 DEF Supervise
    <2>2. \A q \in Admins : ~Stands(q)' /\ ~Stands(q)
        BY <2>1 DEF TrackInv, Silent, Stands, Answered
    <2>3. \A q \in Admins : Tracks(q)' BY <2>2 DEF Tracks, TracksName, Stands
    <2> QED BY <2>1, <2>2, <2>3 DEF TrackInv, Silent
<1>3. CASE Crash
    <2>1. DOMAIN configs' = {} /\ job' = [q \in Admins |-> Idle] BY <1>3, EmptyMap DEF Crash
    <2>2. \A q \in Admins : ~Stands(q)' BY <2>1 DEF Stands, Answered, Idle
    <2>3. \A q \in Admins : Tracks(q)' BY <2>2 DEF Tracks, TracksName, Stands
    <2> QED BY <2>1, <2>2, <2>3 DEF TrackInv, Silent
<1>4. ASSUME NEW p \in Admins, Begins(p) PROVE TrackInv'
    <2>1. /\ \A q \in Admins \ {p} : job'[q] = job[q]
          /\ job'[p].name \in Targets[p] /\ job'[p].reply # "ok"
          /\ job'[p].stage \in {"idle", "test", "save"}
          /\ UNCHANGED <<server, file, order, clients, configs, chains>>
        BY <1>4, BeginsJob
    <2>2. server = "up"
        BY <1>4 DEF Begins, BeginAdd, BeginUpdate, BeginDelete, At
    <2>3. job'[p].stage # "idle" => job'[p].name \notin StaticNames
        BY <1>4, BeginIInv DEF IInv, HandlersAvoidStatic
    <2>4. Tracks(p)' BY <2>1, <2>3 DEF Tracks, TracksName, Stands, Answered
    <2>5. \A q \in Admins \ {p} : Tracks(q)'
        BY <2>1 DEF TrackInv, Tracks, TracksName, Stands, Answered, Meant, Saved, Served
    <2> QED BY <2>1, <2>2, <2>4, <2>5 DEF TrackInv, Silent
<1>5. ASSUME NEW p \in Admins, Work(p) PROVE TrackInv'
    <2>1. server' = "up"
        BY <1>5 DEF Work, TestConnection, Save, Apply, StoreChain, AttachChain, At
    <2>2. Tracks(p)' BY <1>5, OwnTracks DEF TrackInv
    <2>3. \A q \in Admins \ {p} : Tracks(q)' BY <1>5, OthersTrack
    <2> QED BY <2>1, <2>2, <2>3 DEF TrackInv, Silent
<1>6. CASE UNCHANGED vars
    <2>1. UNCHANGED <<server, file, configs, clients, chains, job>> BY <1>6 DEF vars
    <2>2. \A q \in Admins : Tracks(q)'
        BY <2>1 DEF TrackInv, Tracks, TracksName, Stands, Answered, Meant, Saved, Served
    <2>3. Silent'
        BY <2>1 DEF TrackInv, Silent, Stands, Answered
    <2> QED BY <2>2, <2>3 DEF TrackInv
<1> QED BY <1>1, <1>2, <1>3, <1>4, <1>5, <1>6 DEF Next

LEMMA TrackInit == Init => TrackInv
<1> SUFFICES ASSUME Init PROVE TrackInv
    OBVIOUS
<1>1. \A p \in Admins : ~Stands(p) BY DEF Init, Stands, Answered, Idle
<1>2. DOMAIN configs = {} BY EmptyMap DEF Init
<1> QED BY <1>1, <1>2, TracksNothing DEF TrackInv, Silent

\* An admin who works on clusters of her own and was answered with success finds
\* served what will survive a restart, with its chain (AddCluster, UpdateCluster,
\* DeleteCluster, buildSerDeChain).
THEOREM OkMeansDoneAlways == Apart => (Spec => []OkMeansDone)
<1> SUFFICES ASSUME Apart PROVE Spec => []OkMeansDone
    OBVIOUS
<1>1. IInv /\ TrackInv => OkMeansDone
    <2> SUFFICES ASSUME IInv, TrackInv, NEW p \in Admins, Answered(p), NEW n, n = job[p].name
                 PROVE  /\ Saved(n) = Served(n)
                        /\ (job[p].op = "delete") = (Saved(n) = {})
                        /\ n \in DOMAIN clients =>
                             clients[n].serde = configs[n] /\ chains[n] = configs[n]
        BY DEF OkMeansDone, Answered
    <2>1. n \in Names BY DEF IInv, TypeOK, Job
    <2>2. TracksName(p, n) BY <2>1 DEF TrackInv, Tracks
    <2>3. Saved(n) = Meant(p) /\ Served(n) = Meant(p) BY <2>2 DEF TracksName
    <2>4. n \in DOMAIN clients => configs[n] \in Served(n)
        BY DEF Served, IInv, RegistryConsistent
    <2>5. n \in DOMAIN clients => job[p].op # "delete" /\ configs[n] = job[p].cfg
        BY <2>3, <2>4 DEF Meant
    <2> QED BY <2>2, <2>3, <2>5 DEF TracksName, Meant
<1>2. Spec => []TrackInv
    BY TrackInit, TrackStep, Inductive, PTL DEF Spec
<1> QED BY <1>1, <1>2, Inductive, PTL
-----------------------------------------------------------------------------
(* The handlers implement ClusterCatalog.                                   *)

\* What a list without repeated names says of a name is one configuration or none.
LEMMA OneSaved ==
    ASSUME NEW f \in Seq(Entry), DistinctNames(f), NEW n
    PROVE  {f[i].cfg : i \in {k \in DOMAIN f : f[k].name = n}} \in Catalog!Contents
<1> DEFINE S == {f[i].cfg : i \in {k \in DOMAIN f : f[k].name = n}}
<1>1. \A i \in DOMAIN f : f[i] \in Entry BY ElementOfSeq, LenProperties
<1>2. S \in SUBSET Config BY <1>1 DEF Entry
<1>3. \A c, d \in S : c = d BY DEF DistinctNames
<1> QED BY <1>2, <1>3 DEF Catalog!Contents

LEMMA CatalogInit == Init => Catalog!Init
<1> SUFFICES ASSUME Init PROVE Catalog!Init
    OBVIOUS
<1>1. IInv /\ server = "down" /\ DOMAIN configs = {} BY InitIInv, EmptyMap DEF Init
<1>2. \A n \in DynamicNames : Served(n) = {} BY <1>1 DEF Served
<1>3. \A n \in DynamicNames : Saved(n) \in Catalog!Contents BY <1>1, OneSaved DEF IInv, TypeOK, FileDistinct, Saved
<1> QED BY <1>1, <1>2, <1>3 DEF Catalog!Init, Catalog!Nothing

\* A start that could read the file serves what the file has.
LEMMA BootServes ==
    ASSUME IInv, NEW len \in 0..Len(file), NEW ks \in [1..len -> DOMAIN file],
           KeptPositions(ks), Boot(Merged(ks)), server' = "up", NEW n \in DynamicNames
    PROVE  Served(n)' = Saved(n)
<1> DEFINE m == Merged(ks)
<1>1. /\ m \in Seq(Entry) /\ DistinctNames(m)
      /\ \A i \in DOMAIN StaticClusters : i \in DOMAIN m /\ m[i] = StaticClusters[i]
      /\ \A i \in DOMAIN m :
            \/ i \in DOMAIN StaticClusters
            \/ \E k \in DOMAIN file : m[i] = file[k] /\ file[k].name \notin StaticNames
      /\ \A k \in DOMAIN file : file[k].name \notin StaticNames =>
            \E i \in DOMAIN m : m[i] = file[k]
    BY MergedList DEF IInv
<1>2. configs' = ConfigMap(m) BY DEF Boot
<1> HIDE DEF m
<1>3. DOMAIN configs' = NamesOf(m) /\ \A i \in DOMAIN m : configs'[m[i].name] = m[i].cfg
    BY <1>1, <1>2, ConfigOfEntry DEF ConfigMap, NamesOf
<1>4. ASSUME NEW c \in Served(n)' PROVE c \in Saved(n)
    <2>1. n \in DOMAIN configs' /\ c = configs'[n] BY <1>4 DEF Served
    <2>2. PICK i \in DOMAIN m : m[i].name = n BY <1>3, <2>1 DEF NamesOf
    <2>3. i \notin DOMAIN StaticClusters BY <1>1, <2>2 DEF DynamicNames, StaticNames, NamesOf
    <2>4. PICK k \in DOMAIN file : m[i] = file[k] BY <1>1, <2>3
    <2> QED BY <1>3, <2>1, <2>2, <2>4 DEF Saved
<1>5. ASSUME NEW c \in Saved(n) PROVE c \in Served(n)'
    <2>1. PICK k \in DOMAIN file : file[k].name = n /\ file[k].cfg = c BY <1>5 DEF Saved
    <2>2. PICK i \in DOMAIN m : m[i] = file[k] BY <1>1, <2>1 DEF DynamicNames
    <2>3. n \in DOMAIN configs' /\ configs'[n] = c BY <1>3, <2>1, <2>2 DEF NamesOf
    <2> QED BY <2>3 DEF Served
<1> QED BY <1>4, <1>5

\* A start that succeeds serves what the file has, or nothing of it when it could
\* not read the file.
LEMMA StartServes ==
    ASSUME IInv, Start, server' = "up"
    PROVE  \/ \A n \in DynamicNames : Served(n)' = Saved(n)
           \/ ReadFaults /\ \A n \in DynamicNames : Served(n)' = {}
<1>1. CASE ReadFaults /\ Boot(StaticClusters)
    <2>1. configs' = ConfigMap(StaticClusters) BY <1>1 DEF Boot
    <2>2. DOMAIN configs' = StaticNames BY <2>1 DEF ConfigMap, StaticNames
    <2> QED BY <1>1, <2>2 DEF Served, DynamicNames
<1>2. CASE \E len \in 0..Len(file) : \E ks \in [1..len -> DOMAIN file] :
              KeptPositions(ks) /\ Boot(Merged(ks))
    BY <1>2, BootServes
<1> QED BY <1>1, <1>2 DEF Start

\* Each step of the handlers is one of the catalogue, or none.
LEMMA CatalogStep ==
    ASSUME Apart, IInv, TrackInv, [Next]_vars
    PROVE  [Catalog!Next]_(Catalog!vars)
<1>1. ASSUME (server' = "up") = (server = "up"), UNCHANGED <<file, configs>>
      PROVE  UNCHANGED Catalog!vars
    <2>1. \A n : Saved(n)' = Saved(n) /\ Served(n)' = Served(n) BY <1>1 DEF Saved, Served
    <2> QED BY <1>1, <2>1 DEF Catalog!vars
<1>2. CASE Start
    <2>1. server # "up" /\ UNCHANGED file BY <1>2 DEF Start
    <2>2. CASE server' # "up"
        <3>1. UNCHANGED configs BY <1>2, <2>2 DEF Start, Boot
        <3> QED BY <1>1, <2>1, <2>2, <3>1
    <2>3. CASE server' = "up"
        <3>1. \A n : Saved(n)' = Saved(n) BY <2>1 DEF Saved
        <3>2. \/ \A n \in DynamicNames : Served(n)' = Saved(n)
              \/ \A n \in DynamicNames : Served(n)' = {}
            BY <1>2, <2>3, StartServes
        <3>3. Catalog!Boot BY <2>1, <2>3, <3>1, <3>2 DEF Catalog!Boot, Catalog!Nothing
        <3> QED BY <3>3 DEF Catalog!Next
    <2> QED BY <2>2, <2>3
<1>3. CASE Crash
    <2>1. server = "up" /\ server' = "down" /\ UNCHANGED file /\ DOMAIN configs' = {}
        BY <1>3, EmptyMap DEF Crash
    <2>2. \A n : Saved(n)' = Saved(n) /\ Served(n)' = {} BY <2>1 DEF Saved, Served
    <2>3. Catalog!Stop BY <2>1, <2>2 DEF Catalog!Stop, Catalog!Nothing
    <2> QED BY <2>3 DEF Catalog!Next
<1>4. ASSUME NEW p \in Admins, Save(p) PROVE [Catalog!Next]_(Catalog!vars)
    <2>1. server = "up" /\ server' = "up" /\ UNCHANGED configs /\ job[p].stage = "save"
        BY <1>4 DEF Save, At, registry
    <2>2. CASE UNCHANGED file BY <1>1, <2>1, <2>2
    <2>3. CASE SaveAdd(p) \/ SaveUpdate(p) \/ SaveDelete(p)
        <3>1. PICK n : n = job[p].name OBVIOUS
        <3>2. n \in DynamicNames
            BY <2>1, <3>1 DEF DynamicNames, IInv, HandlersAvoidStatic, TypeOK, Job
        <3>3. \A m : m # n => Saved(m)' = Saved(m) BY <2>3, <3>1, SavedElsewhere DEF IInv
        <3>4. Saved(n)' \in Catalog!Contents
            <4>1. file' \in Seq(Entry) /\ DistinctNames(file')
                BY <2>3, SaveFile DEF IInv, FileDistinct
            <4> QED BY <4>1, OneSaved DEF Saved
        <3>5. \A m : Served(m)' = Served(m) BY <2>1 DEF Served
        <3>6. Catalog!Save(n) BY <2>1, <3>2, <3>3, <3>4, <3>5 DEF Catalog!Save
        <3> QED BY <3>2, <3>6 DEF Catalog!Next
    <2> QED BY <1>4, <2>2, <2>3 DEF Save
<1>5. ASSUME NEW p \in Admins, Apply(p) PROVE [Catalog!Next]_(Catalog!vars)
    <2>1. server = "up" /\ server' = "up" /\ UNCHANGED file /\ job[p].stage = "apply"
        BY <1>5 DEF Apply, At
    <2>2. CASE UNCHANGED registry BY <1>1, <2>1, <2>2 DEF registry
    <2>3. CASE ApplyAdd(p) \/ ApplyUpdate(p) \/ ApplyDelete(p)
        <3>1. PICK n : n = job[p].name OBVIOUS
        <3>2. n \in Names /\ n \in DynamicNames
            BY <2>1, <3>1 DEF DynamicNames, IInv, HandlersAvoidStatic, TypeOK, Job
        <3>3. \A m : m # n => Served(m)' = Served(m)
            BY <1>5, <3>1, WorkElsewhere DEF Work
        <3>4. Served(n)' = Meant(p) BY <2>3, <3>1, ApplyMeans DEF IInv
        <3>5. Saved(n) = Meant(p) BY <2>1, <3>1, <3>2 DEF TrackInv, Tracks, TracksName
        <3>6. \A m : Saved(m)' = Saved(m) BY <2>1 DEF Saved
        <3>7. Catalog!Publish(n)
            BY <2>1, <3>2, <3>3, <3>4, <3>5, <3>6 DEF Catalog!Publish
        <3> QED BY <3>2, <3>7 DEF Catalog!Next
    <2> QED BY <1>5, <2>2, <2>3 DEF Apply
<1>6. CASE Supervise
    BY <1>1, <1>6 DEF Supervise
<1>7. ASSUME NEW p \in Admins, Begins(p) \/ TestConnection(p) \/ StoreChain(p) \/ AttachChain(p)
      PROVE  [Catalog!Next]_(Catalog!vars)
    <2>1. UNCHANGED <<server, file, configs>>
        BY <1>7
        DEF Begins, BeginAdd, BeginUpdate, BeginDelete, TestConnection, StoreChain, AttachChain, registry
    <2> QED BY <1>1, <2>1
<1>8. CASE UNCHANGED vars
    BY <1>1, <1>8 DEF vars
<1> QED BY <1>2, <1>3, <1>4, <1>5, <1>6, <1>7, <1>8 DEF Next, Work

\* The file is the catalogue and the registry follows it, through every failure,
\* crash and start, for admins who work on different clusters.
THEOREM HandlersImplementCatalog == Apart => (Spec => ImplementsCatalog)
<1> SUFFICES ASSUME Apart PROVE Spec => ImplementsCatalog
    OBVIOUS
<1>1. Spec => []TrackInv
    BY TrackInit, TrackStep, Inductive, PTL DEF Spec
<1>2. IInv /\ TrackInv /\ [Next]_vars => [Catalog!Next]_(Catalog!vars)
    BY CatalogStep
<1> QED BY <1>1, <1>2, CatalogInit, Inductive, PTL DEF Spec, ImplementsCatalog, Catalog!Spec

-----------------------------------------------------------------------------
(* Where file and registry differ, and for how long.                        *)

\* Changes of such a cluster that are saved can be applied: they were tested, or
\* there are no settings that fail.
Works(n) == Tested(n) \/ Conns \subseteq BuildableConns

\* Some handler is about to apply what the file says.
Pending(n) ==
    \E p \in Admins : /\ job[p].stage = "apply" /\ job[p].name = n
                      /\ Applicable(p) /\ Saved(n) = Meant(p)

ChangesAreComing ==
    server = "up" => \A n \in DynamicNames : Works(n) /\ Saved(n) # Served(n) => Pending(n)

\* The registry has a client for what it serves.
LEMMA ServedHasClient ==
    ASSUME RegistryConsistent, NEW n
    PROVE  n \in DOMAIN clients <=> Served(n) # {}
BY DEF RegistryConsistent, Served

LEMMA SavedIsInFile == ASSUME NEW n PROVE n \in NamesOf(file) <=> Saved(n) # {}
BY DEF NamesOf, Saved

\* A handler that waits for the registry still can go on after a step of another one.
LEMMA PendingStays ==
    ASSUME Apart, IInv, IInv', TrackInv, NEW p \in Admins, Work(p),
           NEW m \in DynamicNames, m # job[p].name, Pending(m)
    PROVE  Pending(m)'
<1>1. PICK q \in Admins : /\ job[q].stage = "apply" /\ job[q].name = m
                          /\ Applicable(q) /\ Saved(m) = Meant(q)
    BY DEF Pending
<1>2. q # p /\ job'[q] = job[q]
    BY <1>1, WorkJob
<1>3. Saved(m)' = Saved(m) /\ Served(m)' = Served(m)
    BY WorkElsewhere
<1>4. m \in DOMAIN clients' <=> m \in DOMAIN clients
    <2>1. m \in DOMAIN clients <=> Served(m) # {}
        BY ServedHasClient DEF IInv
    <2>2. m \in DOMAIN clients' <=> Served(m)' # {}
        BY DEF IInv, RegistryConsistent, Served
    <2> QED BY <1>3, <2>1, <2>2
<1>5. Applicable(q)' /\ Meant(q)' = Meant(q)
    BY <1>1, <1>2, <1>4 DEF Applicable, Buildable, Meant
<1> QED BY <1>1, <1>2, <1>3, <1>5 DEF Pending

\* Only the handler itself has changed its cluster.
LEMMA OwnChange ==
    ASSUME Apart, IInv, TrackInv, ChangesAreComing, NEW p \in Admins, Work(p),
           Works(job[p].name), Saved(job[p].name) # Served(job[p].name)
    PROVE  job[p].stage = "apply" /\ Applicable(p)
<1>1. server = "up" /\ job[p].stage # "idle"
    BY WorkJob DEF Work, TestConnection, Save, Apply, StoreChain, AttachChain, At
<1>2. job[p].name \in Names /\ \A q \in Admins : job[q].name \in Names
    BY DEF IInv, TypeOK, Job
<1>3. job[p].name \in Targets[p] /\ job[p].name \in DynamicNames
    BY <1>1, <1>2 DEF TrackInv, Tracks, TracksName, Stands, DynamicNames
<1>4. Pending(job[p].name)
    BY <1>1, <1>3 DEF ChangesAreComing
<1>5. PICK q \in Admins : job[q].stage = "apply" /\ job[q].name = job[p].name /\ Applicable(q)
    BY <1>4 DEF Pending
<1>6. job[q].name \in Targets[q]
    BY <1>2, <1>5 DEF TrackInv, Tracks, TracksName, Stands
<1>7. q = p
    BY <1>3, <1>5, <1>6 DEF Apart
<1> QED BY <1>5, <1>7

\* What was saved can be applied: the file knew the name as the registry does.
LEMMA SavedIsApplicable ==
    ASSUME Apart, IInv, IInv', TrackInv, ChangesAreComing, NEW p \in Admins, Proven(p), Save(p),
           SaveAdd(p) \/ SaveUpdate(p) \/ SaveDelete(p), Goto(p, "apply"),
           NEW n \in DynamicNames, n = job[p].name, Works(n)
    PROVE  Pending(n)'
<1>1. Work(p) /\ job[p].stage = "save" /\ UNCHANGED clients
    BY DEF Work, Save, At, registry
<1>2. Saved(n) = Served(n)
    BY <1>1, OwnChange
<1>3. n \in DOMAIN clients <=> n \in NamesOf(file)
    BY <1>2, ServedHasClient, SavedIsInFile DEF IInv
<1>4. /\ job'[p].name = n /\ job'[p].op = job[p].op /\ job'[p].cfg = job[p].cfg
      /\ job'[p].stage = "apply"
    BY <1>1, WorkJob, MovesTo DEF IInv, TypeOK
<1>5. job[p].op # "delete" => job[p].cfg.conn \in BuildableConns
    <2>1. job[p] \in Job
        BY DEF IInv, TypeOK
    <2>2. job[p].cfg.conn \in Conns
        BY <2>1 DEF Job, Config
    <2> QED BY <1>1, <2>2 DEF Works, Proven
<1>6. \/ job[p].op = "add" /\ n \notin NamesOf(file)
      \/ job[p].op = "update" /\ n \in NamesOf(file)
      \/ job[p].op = "delete" /\ n \in NamesOf(file)
    BY DEF SaveAdd, SaveUpdate, SaveDelete
<1>7. Applicable(p)'
    BY <1>1, <1>3, <1>4, <1>5, <1>6 DEF Applicable, Buildable
<1>8. Saved(n)' = Meant(p)'
    <2>1. Saved(n)' = Meant(p)
        BY SaveMeans DEF IInv
    <2> QED BY <1>4, <2>1 DEF Meant
<1> QED BY <1>4, <1>7, <1>8 DEF Pending

LEMMA ComingStep ==
    ASSUME Apart, ~ReadFaults, IInv, TrackInv, ChangesAreComing, \A p \in Admins : Proven(p),
           [Next]_vars
    PROVE  ChangesAreComing'
<1>0. IInv' /\ TrackInv'
    BY NextIInv, TrackStep
<1>1. CASE Start
    <2> SUFFICES ASSUME server' = "up", NEW n \in DynamicNames, Saved(n)' # Served(n)'
                 PROVE  FALSE
        BY DEF ChangesAreComing
    <2>1. Served(n)' = Saved(n)
        BY <1>1, StartServes
    <2>2. Saved(n)' = Saved(n)
        BY <1>1 DEF Start, Saved
    <2> QED BY <2>1, <2>2
<1>2. CASE Supervise \/ Crash
    BY <1>2 DEF Supervise, Crash, ChangesAreComing
<1>3. ASSUME NEW p \in Admins, Begins(p) PROVE ChangesAreComing'
    <2>1. /\ \A q \in Admins \ {p} : job'[q] = job[q]
          /\ job[p].stage = "idle" /\ UNCHANGED <<server, file, order, clients, configs, chains>>
        BY <1>3, BeginsJob
    <2>2. \A n : Saved(n)' = Saved(n) /\ Served(n)' = Served(n)
        BY <2>1 DEF Saved, Served
    <2>3. ASSUME NEW n, Pending(n) PROVE Pending(n)'
        <3>1. PICK q \in Admins : /\ job[q].stage = "apply" /\ job[q].name = n
                                  /\ Applicable(q) /\ Saved(n) = Meant(q)
            BY <2>3 DEF Pending
        <3>2. job'[q] = job[q]
            BY <2>1, <3>1
        <3>3. Applicable(q)' /\ Meant(q)' = Meant(q)
            BY <2>1, <3>1, <3>2 DEF Applicable, Buildable, Meant
        <3> QED BY <2>2, <3>1, <3>2, <3>3 DEF Pending
    <2> QED BY <2>1, <2>2, <2>3 DEF ChangesAreComing
<1>4. ASSUME NEW p \in Admins, Work(p) PROVE ChangesAreComing'
    <2> SUFFICES ASSUME NEW n \in DynamicNames, Works(n), Saved(n)' # Served(n)'
                 PROVE  Pending(n)'
        BY DEF ChangesAreComing
    <2>0. server = "up"
        BY <1>4 DEF Work, TestConnection, Save, Apply, StoreChain, AttachChain, At
    <2>1. CASE n # job[p].name
        <3>1. Saved(n) # Served(n)
            BY <1>4, <2>1, WorkElsewhere
        <3>2. Pending(n)
            BY <2>0, <3>1 DEF ChangesAreComing
        <3> QED BY <1>0, <1>4, <2>1, <3>2, PendingStays
    <2>2. CASE n = job[p].name
        <3>1. CASE UNCHANGED <<file, configs>>
            <4>1. Saved(n) # Served(n)
                BY <3>1 DEF Saved, Served
            <4>2. job[p].stage = "apply" /\ Applicable(p)
                BY <1>4, <2>2, <4>1, OwnChange
            <4>3. Apply(p)
                BY <1>4, <4>2 DEF Work, TestConnection, Save, StoreChain, AttachChain, At
            <4>4. ApplyAdd(p) \/ ApplyUpdate(p) \/ ApplyDelete(p)
                BY <4>2, <4>3 DEF Apply
            <4>5. Served(n)' = Meant(p)
                BY <2>2, <4>4, ApplyMeans DEF IInv
            <4>6. Served(n)' = Served(n)
                BY <3>1 DEF Served
            <4>7. Saved(n) = Meant(p)
                BY <2>2, <4>2 DEF TrackInv, Tracks, TracksName, DynamicNames
            <4> QED BY <4>1, <4>5, <4>6, <4>7
        <3>2. CASE Save(p) /\ ~UNCHANGED <<file, configs>>
            <4>1. (SaveAdd(p) \/ SaveUpdate(p) \/ SaveDelete(p)) /\ Goto(p, "apply")
                BY <3>2 DEF Save, registry
            <4> QED BY <1>0, <2>2, <3>2, <4>1, SavedIsApplicable
        <3>3. CASE Apply(p) /\ ~UNCHANGED <<file, configs>>
            <4>1. ApplyAdd(p) \/ ApplyUpdate(p) \/ ApplyDelete(p)
                BY <3>3 DEF Apply, registry
            <4>2. Served(n)' = Meant(p)
                BY <2>2, <4>1, ApplyMeans DEF IInv
            <4>3. Saved(n)' = Saved(n) /\ job[p].stage = "apply"
                BY <3>3 DEF Saved, Apply, At
            <4>4. Saved(n) = Meant(p)
                BY <2>2, <4>3 DEF TrackInv, Tracks, TracksName, DynamicNames
            <4> QED BY <4>2, <4>3, <4>4
        <3>4. UNCHANGED <<file, configs>> \/ Save(p) \/ Apply(p)
            BY <1>4 DEF Work, TestConnection, StoreChain, AttachChain, registry
        <3> QED BY <3>1, <3>2, <3>3, <3>4
    <2> QED BY <2>1, <2>2
<1>5. CASE UNCHANGED vars
    <2>1. UNCHANGED <<server, file, clients, configs, job>>
        BY <1>5 DEF vars, registry
    <2>2. \A n : Saved(n)' = Saved(n) /\ Served(n)' = Served(n)
        BY <2>1 DEF Saved, Served
    <2>3. \A n : Pending(n) => Pending(n)'
        BY <2>1, <2>2 DEF Pending, Applicable, Buildable, Meant
    <2> QED BY <2>1, <2>2, <2>3 DEF ChangesAreComing
<1> QED BY <1>1, <1>2, <1>3, <1>4, <1>5 DEF Next

\* The safety half of SavedIsServed.  For admins who work on different clusters:
\* wherever a running server does not serve what the file says of a cluster whose
\* changes work, some handler is about to apply just that and cannot be refused, so
\* the difference lasts for one more step of that handler (admin.go:150-208,
\* dynamic.go:71-123, registry.go:64-128); after a failed save, a crash or a start
\* there is none.
THEOREM ChangesAlwaysCome == Apart /\ ~ReadFaults => (Spec => []ChangesAreComing)
<1> SUFFICES ASSUME Apart, ~ReadFaults PROVE Spec => []ChangesAreComing
    OBVIOUS
<1> DEFINE Good == TrackInv /\ ChangesAreComing /\ \A p \in Admins : Proven(p)
<1>1. Init => Good
    <2>1. Init => ChangesAreComing
        BY DEF Init, ChangesAreComing
    <2>2. Init => \A p \in Admins : Proven(p)
        BY DEF Init, Proven, Idle
    <2> QED BY <2>1, <2>2, TrackInit
<1>2. IInv /\ Good /\ [Next]_vars => Good'
    BY TrackStep, ComingStep, RequestsProven
<1>3. Good => ChangesAreComing
    OBVIOUS
<1> HIDE DEF Good
<1> QED BY <1>1, <1>2, <1>3, Inductive, PTL DEF Spec

\* README.md:28 holds of such admins: once nothing is in flight, the file has what
\* is served, whatever failed or crashed on the way.
THEOREM PersistedWhenApart ==
    Apart /\ ~ReadFaults /\ (\A n \in DynamicNames : Works(n)) => (Spec => []PersistedAtRest)
<1> SUFFICES ASSUME Apart, ~ReadFaults, \A n \in DynamicNames : Works(n)
             PROVE  Spec => []PersistedAtRest
    OBVIOUS
<1>1. ChangesAreComing => PersistedAtRest
    BY DEF ChangesAreComing, Pending, PersistedAtRest
<1> QED BY <1>1, ChangesAlwaysCome, PTL
-----------------------------------------------------------------------------
(* The last cluster. *)

Deleting(p) == job[p].op = "delete" /\ job[p].stage # "idle"

\* No two deletions are under way at one time.
OneDeletion == \A p, q \in Admins : Deleting(p) /\ Deleting(q) => p = q

\* No request takes the last cluster from a running server, which is what
\* admin.go:211-214 refuses.
LastClusterStays ==
    [][server = "up" /\ server' = "up" /\ order # <<>> => order' # <<>>]_vars

\* A deletion under way still finds what its count was for.
SparesOne == \A p \in Admins : Deleting(p) => server = "up" /\ Len(order) > 1

\* What a step of a handler does to the list of clusters.
LEMMA OrderMoves ==
    ASSUME IInv, NEW p \in Admins, Work(p)
    PROVE  \/ UNCHANGED order
           \/ Len(order') = Len(order) + 1
           \/ Len(order') = Len(order) - 1 /\ Deleting(p) /\ ~Deleting(p)'
<1>1. order \in Seq(Names) /\ job \in [Admins -> Job] /\ Len(order) \in Nat
    BY LenProperties DEF IInv, TypeOK
<1>2. CASE Apply(p) /\ ApplyAdd(p)
    <2>1. job[p].name \in Names
        BY <1>1 DEF Job
    <2> QED BY <1>1, <1>2, <2>1, AppendProperties DEF ApplyAdd
<1>3. CASE Apply(p) /\ ApplyDelete(p) /\ job[p].name \in ToSet(order)
    <2>1. PICK i \in DOMAIN order : order' = RemoveAt(order, i)
        <3>1. PICK i \in DOMAIN order : order[i] = job[p].name
            BY <1>3 DEF ToSet
        <3>2. \A j \in DOMAIN order : order[j] = job[p].name => j = i
            BY <3>1 DEF IInv, RegistryConsistent
        <3>3. i \in Nat
            BY <1>1, <3>1, LenProperties
        <3>4. order[i] = job[p].name /\ \A j \in DOMAIN order : j < i => order[j] # job[p].name
            BY <3>1, <3>2, <3>3
        <3>5. PositionOf(order, job[p].name) \in DOMAIN order
            BY <3>1, <3>4 DEF PositionOf
        <3> QED BY <1>3, <3>5 DEF ApplyDelete
    <2>2. order' \in Seq(Names) /\ DOMAIN order' = 1..(Len(order) - 1)
        BY <1>1, <2>1, RemoveAtList
    <2>3. Len(order) # 0
        BY <1>1, <2>1, LenProperties
    <2>4. Len(order') = Len(order) - 1
        <3>1. Len(order') \in Nat /\ DOMAIN order' = 1..Len(order')
            BY <2>2, LenProperties
        <3> QED BY <1>1, <2>2, <2>3, <3>1
    <2>5. Deleting(p) /\ ~Deleting(p)'
        BY <1>1, <1>3, MovesTo DEF Apply, At, ApplyDelete, Deleting
    <2> QED BY <2>4, <2>5
<1>4. CASE UNCHANGED order
    BY <1>4
<1>5. \/ UNCHANGED order
      \/ Apply(p) /\ ApplyAdd(p)
      \/ Apply(p) /\ ApplyDelete(p) /\ job[p].name \in ToSet(order)
    BY DEF Work, TestConnection, Save, Apply, ApplyUpdate, ApplyDelete, StoreChain, AttachChain, registry
<1> QED BY <1>2, <1>3, <1>4, <1>5

LEMMA SparesStep ==
    ASSUME IInv, SparesOne, OneDeletion, OneDeletion', [Next]_vars
    PROVE  /\ SparesOne'
           /\ server = "up" /\ server' = "up" /\ order # <<>> => order' # <<>>
<1>1. order \in Seq(Names) /\ job \in [Admins -> Job] /\ Len(order) \in Nat
    BY LenProperties DEF IInv, TypeOK
<1>2. order = <<>> <=> Len(order) = 0
    BY <1>1, EmptySeq
<1>3. order' = <<>> <=> Len(order') = 0
    <2>1. order' \in Seq(Names)
        BY NextIInv DEF IInv, TypeOK
    <2> QED BY <2>1, EmptySeq
<1>4. CASE Start \/ Supervise
    <2>1. server # "up" /\ UNCHANGED job
        BY <1>4 DEF Start, Supervise
    <2>2. \A p \in Admins : ~Deleting(p)'
        BY <2>1 DEF SparesOne, Deleting
    <2> QED BY <2>1, <2>2 DEF SparesOne
<1>5. CASE Crash
    <2>1. server' = "down" /\ \A p \in Admins : job'[p].stage = "idle"
        BY <1>5 DEF Crash, Idle
    <2> QED BY <2>1 DEF SparesOne, Deleting
<1>6. ASSUME NEW p \in Admins, Begins(p)
      PROVE  SparesOne' /\ UNCHANGED order
    <2>1. /\ \A q \in Admins \ {p} : job'[q] = job[q]
          /\ UNCHANGED <<server, order>>
        BY <1>6, BeginsJob
    <2>2. Deleting(p)' => Len(order) > 1
        <3>1. \A op, n, c, stage, r : Begin(p, op, n, c, stage, r) =>
                  job'[p].op = op /\ job'[p].stage = stage
            BY <1>1 DEF Begin
        <3>2. CASE BeginDelete(p)
            <4>1. Len(order) > 1 \/ \E n : Refuse(p, "delete", n, Idle.cfg)
                BY <3>2 DEF BeginDelete, MayDelete, ClusterCount
            <4> QED BY <3>1, <4>1 DEF Refuse, Deleting
        <3>3. CASE BeginAdd(p) \/ BeginUpdate(p)
            BY <3>1, <3>3 DEF BeginAdd, BeginUpdate, Refuse, Proceed, Deleting
        <3> QED BY <1>6, <3>2, <3>3 DEF Begins
    <2>3. server = "up"
        BY <1>6 DEF Begins, BeginAdd, BeginUpdate, BeginDelete, At
    <2> QED BY <2>1, <2>2, <2>3 DEF SparesOne, Deleting
<1>7. ASSUME NEW p \in Admins, Work(p)
      PROVE  SparesOne' /\ (Len(order) > 0 => Len(order') > 0)
    <2>1. /\ \A q \in Admins \ {p} : job'[q] = job[q]
          /\ job'[p].op = job[p].op /\ job[p].stage # "idle"
        BY <1>7, WorkJob
    <2>2. UNCHANGED server
        BY <1>7 DEF Work, TestConnection, Save, Apply, StoreChain, AttachChain
    <2>3. \A q \in Admins : Deleting(q)' => Deleting(q)
        BY <2>1 DEF Deleting
    <2>4. CASE UNCHANGED order \/ Len(order') = Len(order) + 1
        <3>1. Len(order') >= Len(order) /\ Len(order') \in Nat
            BY <1>1, <2>4
        <3> QED BY <1>1, <2>2, <2>3, <3>1 DEF SparesOne
    <2>5. CASE Len(order') = Len(order) - 1 /\ Deleting(p) /\ ~Deleting(p)'
        <3>1. \A q \in Admins : ~Deleting(q)'
            BY <2>3, <2>5 DEF OneDeletion
        <3>2. Len(order) > 1
            BY <2>5 DEF SparesOne
        <3> QED BY <1>1, <2>5, <3>1, <3>2 DEF SparesOne
    <2> QED BY <1>7, <2>4, <2>5, OrderMoves
<1>8. CASE UNCHANGED vars
    BY <1>8 DEF vars, SparesOne, Deleting
<1> QED BY <1>1, <1>2, <1>3, <1>4, <1>5, <1>6, <1>7, <1>8 DEF Next

\* Counting the clusters before the deletion is enough as long as deletions do not
\* overlap (admin.go:211 and :221 are two critical sections): through any number of
\* additions, updates and crashes between the count and the removal, the last
\* cluster of a running server stays.
THEOREM LastClusterAlwaysStays == Spec /\ []OneDeletion => LastClusterStays
<1>1. Init => SparesOne
    BY DEF Init, SparesOne, Deleting, Idle
<1>2. IInv /\ SparesOne /\ OneDeletion /\ OneDeletion' /\ [Next]_vars => SparesOne'
    BY SparesStep
<1>3. IInv /\ SparesOne /\ OneDeletion /\ OneDeletion' /\ [Next]_vars =>
          [server = "up" /\ server' = "up" /\ order # <<>> => order' # <<>>]_vars
    BY SparesStep
<1> QED BY <1>1, <1>2, <1>3, Inductive, PTL DEF Spec, LastClusterStays
=============================================================================
