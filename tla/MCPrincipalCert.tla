---------------------------- MODULE MCPrincipalCert ----------------------------
(* The principal's rollout for TLC: every constant comes from the             *)
(* configuration.                                                             *)
EXTENDS PrincipalCert
=============================================================================
