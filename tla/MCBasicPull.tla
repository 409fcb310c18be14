------------------------------ MODULE MCBasicPull ------------------------------
(* One Application, two managed clusters.                                    *)
EXTENDS BasicPull
=============================================================================
