--------------------------- MODULE MCAgentSettings ---------------------------
(* Two GitOpsClusters for TLC; nothing of them is symmetric in temporal       *)
(* properties.                                                                *)
EXTENDS AgentSettings
=============================================================================
