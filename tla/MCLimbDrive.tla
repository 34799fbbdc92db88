---------------------------- MODULE MCLimbDrive -----------------------------
(* Two limbs, each with any of six ways to answer to the sweep.            *)
EXTENDS LimbDrive

\* On from code a, saturated from code b.
Rising(a, b) == [c \in 0 .. DAC_MAX_CODE |->
                   IF c < a THEN "dead" ELSE IF c < b THEN "linear" ELSE "saturated"]

Never == DAC_MAX_CODE + 1

\* A reading that falls back, while the wire warms up.
Uneven == [Rising(1, 4) EXCEPT ![2] = "dead", ![5] = "linear"]

SixCurves ==
  {Rising(Never, Never), Rising(1, Never), Rising(3, 3), Rising(1, 2), Rising(2, 4), Uneven}
=============================================================================
