--------------------------- MODULE ClusterCatalog ---------------------------
(***************************************************************************)
(* What dynamic cluster management promises, without handlers, locks and   *)
(* files: a catalogue that survives restarts, and a running server that    *)
(* serves of each name nothing but what the catalogue has.  ClusterAdmin   *)
(* implements it as long as no two requests are about the same cluster.    *)
(***************************************************************************)
CONSTANTS Names, Config

VARIABLES
    running,  \* is there a server?
    saved,    \* name -> the settings that survive a restart: one, or none
    served    \* name -> the settings in use: one, or none

vars == <<running, saved, served>>

Contents == {S \in SUBSET Config : \A c, d \in S : c = d}
Nothing  == [n \in Names |-> {}]

Init == running = FALSE /\ saved \in [Names -> Contents] /\ served = Nothing

\* An administrator's change becomes durable ...
Save(n) ==
    /\ running
    /\ \E c \in Contents : saved' = [saved EXCEPT ![n] = c]
    /\ UNCHANGED <<running, served>>

\* ... and takes effect, if not superseded by then.
Publish(n) ==
    /\ running
    /\ served' = [served EXCEPT ![n] = saved[n]]
    /\ UNCHANGED <<running, saved>>

Stop == running /\ running' = FALSE /\ served' = Nothing /\ UNCHANGED saved

\* A start serves the whole catalogue, or nothing of it if it cannot be read.
Boot ==
    /\ ~running /\ running' = TRUE
    /\ served' \in {saved, Nothing}
    /\ UNCHANGED saved

Next == Stop \/ Boot \/ \E n \in Names : Save(n) \/ Publish(n)
Spec == Init /\ [][Next]_vars
=============================================================================
