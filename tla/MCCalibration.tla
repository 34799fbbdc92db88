--------------------------- MODULE MCCalibration ----------------------------
(* Two limbs: muscles 1 and 3 of one limb and 5 of another; one registered *)
(* item and one calibrated wire.                                           *)
EXTENDS Calibration

CONSTANTS vint

Analysis == INSTANCE WireAnalyze

TwoLimbs  == {0, 1}
TwoKeys   == <<vint, 1>>
OneItem   == {vint}

\* Curves of resistances that are flat, rise, fall, peak or step, by less and
\* by more than 0.6 %, some still changing at their last point.
Readings == {500, 503, 512}

\* wirecal_analyze() finds each curve's transition (wirecal_analyze.h:6-9,
\* 33-36), or says rightly that there is none or are too few points.
AnalysisFindsTransition ==
  \A n \in 7 .. 9 : \A r \in [0 .. n - 1 -> Readings] : Analysis!FindsTransition(r, n)

ASSUME AnalysisFindsTransition
=============================================================================
