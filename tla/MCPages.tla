------------------------------- MODULE MCPages -------------------------------
(***************************************************************************)
(* The pages that show and change what the server has, the page of a       *)
(* topic's messages, and its CEL filter, for model checking in one run: a  *)
(* behaviour is about one of them, which `about` tells, and the others     *)
(* stay as they begin.                                                     *)
(***************************************************************************)
EXTENDS ResourcePages, TopicMessages, CelValidation

CONSTANT a

\* A thing is there at first, or it is not.
Servers == [Things -> {a, Absent}]

VARIABLE about

browserVars == <<about, pageVars, messageVars, celVars>>

BrowserInit ==
    /\ about \in {"resources", "messages", "filter"}
    /\ PagesInit /\ MessagesInit /\ CelInit
    /\ about # "resources" => page = KsqlPage /\ server = Nothing

BrowserNext ==
    \/ about = "resources" /\ PagesNext    /\ UNCHANGED <<about, messageVars, celVars>>
    \/ about = "messages"  /\ MessagesNext /\ UNCHANGED <<about, pageVars, celVars>>
    \/ about = "filter"    /\ CelNext      /\ UNCHANGED <<about, pageVars, messageVars>>

BrowserSpec == BrowserInit /\ [][BrowserNext]_browserVars

\* Type correctness of the three.
TypeOK == PagesTypeOK /\ MessagesTypeOK /\ CelTypeOK
=============================================================================
