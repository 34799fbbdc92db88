------------------------------ MODULE Posture -------------------------------
(***************************************************************************)
(* src/Robot/limbs/posture/posture.c: the tilt of the body from the IMU,   *)
(* and the tip-over its observers are told of. The filter's angles are     *)
(* reduced to the bands the code compares with; any band can follow any.   *)
(***************************************************************************)
EXTENDS Integers

VARIABLES
  leaning,   \* roll or pitch is at GAIT_STEADY_DEG or more
  valid,     \* there was a sample
  tipped

attitude == <<leaning, valid, tipped>>

\* Bands of the larger angle: under GAIT_STEADY_DEG, under TIP_CLEAR of the
\* tip angle, under the tip angle, over it.
Bands == {"steady", "leaning", "steep", "over"}

PostureInit == leaning = FALSE /\ valid = FALSE /\ tipped = FALSE

\* A sample of the given band, the body upright or not, is a new tip-over.
Tips(band, up) == ~tipped /\ (band = "over" \/ ~up)

Clears(band, up) == tipped /\ band \in {"steady", "leaning"} /\ up

\* A read that fails leaves everything as it is.
posture_sample(band, up) ==
  /\ leaning' = (band # "steady")
  /\ valid' = TRUE
  /\ tipped' = ((tipped \/ Tips(band, up)) /\ ~Clears(band, up))
=============================================================================
