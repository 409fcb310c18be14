----------------------------- MODULE MCAgentCert -----------------------------
(* The agent's rollout for TLC: every constant comes from the configuration. *)
EXTENDS AgentCert
=============================================================================
