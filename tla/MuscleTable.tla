---------------------------- MODULE MuscleTable -----------------------------
(***************************************************************************)
(* What src/Robot/limbs/muscle promises the layers above it (muscle.h):    *)
(* an activation per muscle, kept only on fitted limbs and on one side of  *)
(* an antagonist pair. Calibration and gait are written on this table;     *)
(* Muscle implements it.                                                   *)
(***************************************************************************)
EXTENDS Integers

CONSTANTS
  MUSCLE_LIMBS,    \* limbs the build can have
  Levels           \* the activations callers set

MUSCLE_PER_LIMB == 4
Limbs           == 0 .. MUSCLE_LIMBS - 1
Channels        == 0 .. MUSCLE_LIMBS * MUSCLE_PER_LIMB - 1
LimbOf(ch)      == ch \div MUSCLE_PER_LIMB
Antagonist(ch)  == IF ch % 2 = 0 THEN ch + 1 ELSE ch - 1

Relaxed == [ch \in Channels |-> 0]

\* The activations after one on channel ch, whose antagonist it releases,
\* and after the limbs in mask were made the fitted ones.
Activate(a, ch, pct) ==
  [c \in Channels |-> IF c = ch THEN pct
                      ELSE IF c = Antagonist(ch) /\ pct > 0 THEN 0 ELSE a[c]]
Refit(a, mask) == [c \in Channels |-> IF LimbOf(c) \in mask THEN a[c] ELSE 0]

VARIABLES fitted, act

Init == fitted = {} /\ act = Relaxed

muscle_init(mask) == fitted' = mask /\ act' = Relaxed

muscle_set_fitted(mask) == fitted' = mask /\ act' = Refit(act, mask)

muscle_set(ch, pct) ==
  /\ LimbOf(ch) \in fitted
  /\ act' = Activate(act, ch, pct)
  /\ UNCHANGED fitted

muscle_relax == act' = Relaxed /\ UNCHANGED fitted

Next ==
  \/ \E mask \in SUBSET Limbs : muscle_init(mask) \/ muscle_set_fitted(mask)
  \/ \E ch \in Channels, pct \in Levels : muscle_set(ch, pct)
  \/ muscle_relax

Spec == Init /\ [][Next]_<<fitted, act>>
=============================================================================
