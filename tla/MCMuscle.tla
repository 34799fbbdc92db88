------------------------------ MODULE MCMuscle ------------------------------
(* Muscle with the activation arguments the runs pass: off, a share that   *)
(* does not divide the slot evenly, and one that is clamped.               *)
EXTENDS Muscle

PctsOnOff == {0, 250}
PctsAll   == {0, 30, 250}
=============================================================================
