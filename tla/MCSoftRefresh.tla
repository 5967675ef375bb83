--------------------------- MODULE MCSoftRefresh ----------------------------
(* A small instance of SoftRefresh: the limits keep their order, fail-safe  *)
(* and cooldown shorter than the stale limit, the gate longest.            *)
EXTENDS SoftRefresh
=============================================================================
