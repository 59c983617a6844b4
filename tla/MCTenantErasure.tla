--------------------------- MODULE MCTenantErasure ---------------------------
(* Instances of TenantErasure for TLC: the replicas of the workers and an  *)
(* upload that may come at any time, as model values.                      *)
EXTENDS TenantErasure

CONSTANTS east, west, north, south, late
=============================================================================
