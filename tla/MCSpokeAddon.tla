---------------------------- MODULE MCSpokeAddon ----------------------------
(* A chart of two objects for TLC: the RBAC of the operator comes before its *)
(* Deployment, and is deleted after it.                                      *)
EXTENDS SpokeAddon

CONSTANTS rbac, deployment

MCManifests == {rbac, deployment}
MCChart == <<rbac, deployment>>
MCDeletion == <<deployment, rbac>>
=============================================================================
