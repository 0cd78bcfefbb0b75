--------------------------- MODULE MCSingleEngineCheck ---------------------------
(* The script's two replicas.  Two nodes, so that the second pod may also be  *)
(* kept out by the volume.                                                    *)
EXTENDS SingleEngineCheck
=============================================================================
