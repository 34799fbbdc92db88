------------------------------- MODULE MCGait -------------------------------
(* A reach of two ticks; the bound on queued ticks is above the one there   *)
(* should be. One leg's swings are followed to their end.                  *)
EXTENDS Gait
=============================================================================
