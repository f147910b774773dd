--------------------------- MODULE MCClusterAdmin ---------------------------
(* Small instances of ClusterAdmin for TLC. *)
EXTENDS ClusterAdmin, TLC

CONSTANTS p1, p2, core, blue, green, near, far, broken, plain, avro, noChain

MCPlain(conn) == [conn |-> conn, serde |-> plain]
MCEntry(n, cfg) == [name |-> n, cfg |-> cfg]

\* config.yaml: one cluster with a serde section; or none at all.
MCStatic   == <<MCEntry(core, [conn |-> near, serde |-> avro])>>
MCNoStatic == <<>>

\* dynamic.yaml before the first start: absent; or with a hand-written serde
\* section, and an entry for a name that config.yaml has too.
MCFiles == {<<>>, <<MCEntry(core, MCPlain(near)), MCEntry(blue, [conn |-> near, serde |-> avro])>>}
MCTwoClusters == {<<MCEntry(blue, MCPlain(near)), MCEntry(green, MCPlain(near))>>}

MCTogether == [p \in {p1, p2} |-> {core, blue}]
MCApart    == (p1 :> {core, blue}) @@ (p2 :> {green})
MCTogetherDynamic == [p \in {p1, p2} |-> {blue, green}]

\* Requests with or without the connection test; p1 always with it; never with it.
MCEither   == [p \in {p1, p2} |-> BOOLEAN]
MCCareful  == (p1 :> {TRUE}) @@ (p2 :> BOOLEAN)
MCUntested == [p \in {p1, p2} |-> {FALSE}]

MCSymmetry == Permutations({p1, p2})
=============================================================================
