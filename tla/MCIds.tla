--------------------------------- MODULE MCIds ---------------------------------
(* Two characters of base three for nine milliseconds of two ticks each, so    *)
(* that the time carries over into the first character, and two characters of  *)
(* base three of entropy.  Properties relate two ids, so two are minted.       *)
EXTENDS Ids
=============================================================================
