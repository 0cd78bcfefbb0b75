--------------------------- MODULE MCEngineService ---------------------------
(* Three engine processes on one volume, as when a rollout or a rescheduled pod *)
(* overlaps the old one.  Liveness is checked, so there is no symmetry.       *)
EXTENDS EngineService
=============================================================================
