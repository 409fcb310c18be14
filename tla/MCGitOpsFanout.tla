--------------------------- MODULE MCGitOpsFanout ---------------------------
(* Small hubs for TLC.  All GitOpsClusters live in the one namespace the    *)
(* controller watches, as the chart deploys it.                             *)
EXTENDS GitOpsFanout

MCNamespaceOf == [g \in GitOpsClusters |-> CHOOSE n \in Namespaces : TRUE]
=============================================================================
