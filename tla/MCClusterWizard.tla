--------------------------- MODULE MCClusterWizard ---------------------------
(* Small instances of ClusterWizard for TLC. *)
EXTENDS ClusterWizard

CONSTANTS prod, test, host, tuned

Plain(n)  == [boot |-> host, sec |-> NoSections]
Full      == [boot |-> host, sec |-> [s \in Sections |-> tuned]]

\* One cluster with every section, or one without any beside one with login only.
MCStored == {[n \in Names |-> IF n = prod THEN Full ELSE None],
             [n \in Names |-> IF n = prod THEN [Full EXCEPT !.sec = [NoSections EXCEPT !["sasl"] = tuned]]
                              ELSE Plain(n)]}
=============================================================================
