---------------------------- MODULE MCUserAccess ----------------------------
(* Small instances of UserAccess for TLC. *)
EXTENDS UserAccess, TLC

CONSTANTS b1, b2, b3, ann, bob, admin, viewer, blank

\* Two people.
MCTwo == (b1 :> ann) @@ (b2 :> bob)

\* One of them with two browsers, which nothing else tells apart.
MCShared   == (b1 :> ann) @@ (b2 :> bob) @@ (b3 :> bob)
MCSymmetry == Permutations({b2, b3})

MCNoAuto    == [a \in {ann, bob} |-> {}]
MCAdminRule == (ann :> {}) @@ (bob :> {admin})
MCNoSeeds   == [a \in {ann, bob} |-> <<>>]
MCSeeds     == (ann :> <<>>) @@ (bob :> <<viewer, admin>>)

MCSets        == {{}, {viewer}, {admin, blank}}
MCViewerSets  == {{}, {viewer}}
=============================================================================
