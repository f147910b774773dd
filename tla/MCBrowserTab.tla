---------------------------- MODULE MCBrowserTab ----------------------------
(***************************************************************************)
(* The session and the metrics page, for model checking in one run: a      *)
(* behaviour is about one of the two, which `metricsOnly` tells, and the   *)
(* other stays as it begins. (They share nothing but the browser.)         *)
(***************************************************************************)
EXTENDS Session, MetricsPage, TLC

CONSTANTS hour, day

Lengths    == (hour :> 2) @@ (day :> 3)
SomeRanges == {<<0, 1>>, <<1, 0>>}

VARIABLE metricsOnly

tabVars == <<metricsOnly, sessionVars, metricsVars>>

TabInit ==
    /\ metricsOnly \in BOOLEAN
    /\ SessionInit /\ MetricsInit
    /\ metricsOnly => ~enabled

TabNext ==
    \/ ~metricsOnly /\ SessionNext /\ UNCHANGED <<metricsOnly, metricsVars>>
    \/ metricsOnly  /\ MetricsNext /\ UNCHANGED <<metricsOnly, sessionVars>>

\* SessionFairness, for the behaviours that are about the session.
TabFairness ==
    /\ SF_sessionVars(~metricsOnly /\ StartArrives)
    /\ WF_sessionVars(~metricsOnly /\ PageRequests)

TabSpec == TabInit /\ [][TabNext]_tabVars /\ TabFairness

\* Type correctness of both (Session, MetricsPage).
TypeOK == SessionTypeOK /\ MetricsPageTypeOK
=============================================================================
