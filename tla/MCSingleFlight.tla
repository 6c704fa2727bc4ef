--------------------------- MODULE MCSingleFlight ---------------------------
(* Instances of SingleFlight for TLC.  Both runs check liveness, for which   *)
(* symmetry reduction is not sound, so none is defined.                      *)
EXTENDS SingleFlight
=============================================================================
