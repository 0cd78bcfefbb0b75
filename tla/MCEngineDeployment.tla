--------------------------- MODULE MCEngineDeployment ---------------------------
(* Two nodes and up to two replicas: the second engine of                     *)
(* check-single-engine.sh, on the node of the first or on another.            *)
EXTENDS EngineDeployment
=============================================================================
