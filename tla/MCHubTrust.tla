------------------------------ MODULE MCHubTrust ------------------------------
(* The hub's certificates for TLC: every constant comes from the              *)
(* configuration.                                                             *)
EXTENDS HubTrust
=============================================================================
