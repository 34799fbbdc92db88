----------------------------- MODULE GaitProofs -----------------------------
(***************************************************************************)
(* The safety of the gait generator, for any reach time: one chain of      *)
(* ticks, and two feet on the ground whatever gaits are switched between.  *)
(*                                                                         *)
(* TwoLegsSupport is kept by every leg's turn within a tick, because each  *)
(* leg counts the feet down as the legs before it have left them: it is an *)
(* invariant of step_leg, and so of the four in a row.                     *)
(***************************************************************************)
EXTENDS Gait, FiniteSetTheorems, TLAPS

Modes == {"stance", "wait", "swing", "reach"}
Leg   == [mode : Modes, phase : 0 .. CYCLE, reach : Nat, lifted : BOOLEAN]

\* The legs in the states s stand on two feet, and none swings beyond the cycle.
Sound(s) ==
  /\ s \in [Legs -> Leg]
  /\ \A i \in Legs : s[i].mode = "swing" => s[i].phase < CYCLE
  /\ legs_down(s) >= 2

GInv ==
  /\ gait \in Gaits \cup {"halted"}
  /\ Walking => Sound(st)
  /\ OneTickChain

-----------------------------------------------------------------------------
Down(s) == {i \in Legs : s[i].mode \in {"stance", "wait"}}

LEMMA DownFacts ==
  ASSUME NEW s
  PROVE  IsFiniteSet(Down(s)) /\ legs_down(s) = Cardinality(Down(s)) /\ legs_down(s) \in Nat
<1>1. IsFiniteSet(1 .. 4)
  <2>1. 1 \in Int /\ 4 \in Int
    OBVIOUS
  <2> QED
    BY ONLY <2>1, FS_Interval, Zenon
<1>2. Down(s) \in SUBSET (1 .. 4)
  BY DEF Down, Legs
<1> QED
  BY <1>1, <1>2, FS_Subset, FS_CardinalityType DEF legs_down, Down

\* A leg whose turn leaves it on the ground, or that was not down before, takes
\* no support away; one that lifts takes itself.
LEMMA OneLegMoves ==
  ASSUME NEW s \in [Legs -> Leg], NEW i \in Legs, NEW leg \in Leg
  PROVE  /\ legs_down([s EXCEPT ![i] = leg]) >= legs_down(s) - 1
         /\ (leg.mode \in {"stance", "wait"} \/ s[i].mode \notin {"stance", "wait"})
              => legs_down([s EXCEPT ![i] = leg]) >= legs_down(s)
<1> DEFINE r == [s EXCEPT ![i] = leg]
<1>1. Down(s) \ {i} \in SUBSET Down(r)
  BY DEF Down
<1>2. /\ IsFiniteSet(Down(s) \ {i})
      /\ Cardinality(Down(s) \ {i}) =
           IF i \in Down(s) THEN Cardinality(Down(s)) - 1 ELSE Cardinality(Down(s))
  BY DownFacts, FS_RemoveElement
<1>3. Cardinality(Down(s) \ {i}) <= Cardinality(Down(r))
  BY <1>1, DownFacts, FS_Subset
<1>4. ASSUME leg.mode \in {"stance", "wait"} \/ s[i].mode \notin {"stance", "wait"}
      PROVE  Cardinality(Down(s)) <= Cardinality(Down(r))
  <2>1. Down(s) \in SUBSET Down(r)
    BY <1>4 DEF Down
  <2> QED
    BY <2>1, DownFacts, FS_Subset
<1> HIDE DEF r
<1>5. /\ legs_down(r) >= legs_down(s) - 1
      /\ (leg.mode \in {"stance", "wait"} \/ s[i].mode \notin {"stance", "wait"})
           => legs_down(r) >= legs_down(s)
  BY <1>2, <1>3, <1>4, DownFacts
<1> QED
  BY <1>5 DEF r

LEMMA SupportFacts ==
  ASSUME Walking, gait \in Gaits \cup {"halted"}
  PROVE  gait \in Gaits /\ support[gait] \in 2 .. 3 /\ duty[gait] \in {4, 6}
  BY DEF Walking, Gaits, support, duty

\* A leg's turn keeps two feet down (gait.c:130-190).
LEMMA StepLeg ==
  ASSUME Walking, gait \in Gaits \cup {"halted"}, NEW s, Sound(s), NEW i \in Legs,
         NEW ends, NEW feet
  PROVE  Sound(step_leg(s, i, ends, feet))
<1>1. s \in [Legs -> Leg] /\ s[i] \in Leg /\ legs_down(s) \in Nat /\ legs_down(s) >= 2
  BY DownFacts DEF Sound
<1>2. support[gait] \in 2 .. 3 /\ duty[gait] \in {4, 6}
  BY SupportFacts
<1>3. ASSUME NEW leg \in Leg, leg.mode = "swing" => leg.phase < CYCLE,
             \/ leg.mode \in {"stance", "wait"}
             \/ s[i].mode \notin {"stance", "wait"}
             \/ legs_down(s) >= 3
      PROVE  Sound([s EXCEPT ![i] = leg])
  <2>1. [s EXCEPT ![i] = leg] \in [Legs -> Leg]
    BY <1>1
  <2>2. legs_down([s EXCEPT ![i] = leg]) >= 2
    <3> DEFINE n == legs_down([s EXCEPT ![i] = leg])
    <3>1. n \in Nat
      BY DownFacts
    <3>2. /\ n >= legs_down(s) - 1
          /\ (leg.mode \in {"stance", "wait"} \/ s[i].mode \notin {"stance", "wait"})
               => n >= legs_down(s)
      BY <1>1, OneLegMoves
    <3> HIDE DEF n
    <3>3. n >= 2
      BY <1>1, <1>3, <3>1, <3>2
    <3> QED
      BY <3>3 DEF n
  <2>3. \A j \in Legs : [s EXCEPT ![i] = leg][j] = IF j = i THEN leg ELSE s[j]
    BY <1>1
  <2> QED
    BY <1>3, <2>1, <2>2, <2>3 DEF Sound
<1>4. CASE i \in ends /\ s[i].mode \in {"stance", "wait"}
  <2>1. StanceEnds(s) \in Leg /\ (StanceEnds(s).mode = "swing" => StanceEnds(s).phase < CYCLE)
    <3>1. duty[gait] \in 0 .. CYCLE - 1
      BY <1>2 DEF CYCLE
    <3>2. LiftOff \in Leg /\ LiftOff.mode = "swing" /\ LiftOff.phase < CYCLE
      BY <3>1 DEF LiftOff, Leg, Modes, CYCLE
    <3>3. Standing \in Leg
      BY DEF Standing, Leg, Modes, CYCLE
    <3>4. Wait \in Leg /\ Wait.mode = "wait"
      <4> DEFINE waiting == [Standing EXCEPT !.mode = "wait"]
      <4>1. waiting \in Leg /\ waiting.mode = "wait"
        BY <3>3 DEF Leg, Modes
      <4>2. Wait = [waiting EXCEPT !.phase = duty[gait]]
        BY DEF Wait
      <4> HIDE DEF waiting
      <4> QED
        <5>1. \A d \in 0 .. CYCLE : [waiting EXCEPT !.phase = d] \in Leg
          BY <4>1 DEF Leg
        <5>2. duty[gait] \in 0 .. CYCLE
          BY <3>1 DEF CYCLE
        <5>3. [waiting EXCEPT !.phase = duty[gait]].mode = "wait"
          BY <4>1 DEF Leg
        <5> QED
          BY <4>2, <5>1, <5>2, <5>3
    <3> QED
      BY <3>2, <3>4 DEF StanceEnds
  <2>2. StanceEnds(s).mode \in {"stance", "wait"} \/ legs_down(s) >= 3
    BY <1>1, <1>2 DEF StanceEnds, can_lift, Enough, Wait, Standing
  <2>3. step_leg(s, i, ends, feet) = [s EXCEPT ![i] = StanceEnds(s)]
    BY <1>4 DEF step_leg
  <2> QED
    BY <1>3, <2>1, <2>2, <2>3
<1>5. CASE s[i].mode = "swing"
  <2> DEFINE leg == Swing(s[i], i \in feet)
  <2>1. s[i].phase \in 0 .. CYCLE - 1
    BY <1>1, <1>5 DEF Sound, Leg, CYCLE
  <2>2. leg \in Leg /\ (leg.mode = "swing" => leg.phase < CYCLE)
    <3> DEFINE l == s[i]
               lifted == l.lifted \/ ~(i \in feet)
               phase == l.phase + 1
    <3>1. l = [mode |-> l.mode, phase |-> l.phase, reach |-> l.reach, lifted |-> l.lifted]
          /\ l.reach \in Nat /\ lifted \in BOOLEAN /\ phase \in 0 .. CYCLE
      BY <1>1, <2>1 DEF Leg, CYCLE
    <3>2. touchdown \in Leg /\ touchdown.mode = "stance"
      BY DEF touchdown, Standing, Leg, Modes, CYCLE
    <3>3. \/ leg = touchdown
          \/ leg = [mode |-> "reach", phase |-> CYCLE, reach |-> l.reach, lifted |-> lifted]
          \/ /\ leg = [mode |-> "swing", phase |-> phase, reach |-> l.reach, lifted |-> lifted]
             /\ phase # CYCLE
      BY <1>5, <3>1 DEF Swing, SwingRate
    <3> HIDE DEF leg, l, lifted, phase
    <3> QED
      BY <3>1, <3>2, <3>3 DEF Leg, Modes, CYCLE
  <2>3. step_leg(s, i, ends, feet) = [s EXCEPT ![i] = leg]
    BY <1>5 DEF step_leg
  <2> HIDE DEF leg
  <2> QED
    BY <1>3, <1>5, <2>2, <2>3
<1>6. CASE s[i].mode = "reach"
  <2> DEFINE leg == Reach(s[i], i \in feet)
  <2>1. leg \in Leg /\ leg.mode # "swing"
    BY <1>1, <1>6 DEF Reach, touchdown, Standing, Leg, Modes, CYCLE
  <2>2. step_leg(s, i, ends, feet) = [s EXCEPT ![i] = leg]
    BY <1>6 DEF step_leg
  <2> HIDE DEF leg
  <2> QED
    BY <1>3, <1>6, <2>1, <2>2
<1>7. CASE /\ ~(i \in ends /\ s[i].mode \in {"stance", "wait"})
           /\ s[i].mode \notin {"swing", "reach"}
  BY <1>7 DEF step_leg
<1> QED
  BY <1>4, <1>5, <1>6, <1>7

LEMMA TickSound ==
  ASSUME Walking, gait \in Gaits \cup {"halted"}, Sound(st), NEW ends, NEW feet
  PROVE  Sound(Stepped(ends, feet))
<1> DEFINE s1 == step_leg(st, 1, ends, feet)
           s2 == step_leg(s1, 2, ends, feet)
           s3 == step_leg(s2, 3, ends, feet)
<1>1. 1 \in Legs /\ 2 \in Legs /\ 3 \in Legs /\ 4 \in Legs
  BY DEF Legs
<1>2. Sound(s1)
  BY <1>1, StepLeg
<1> HIDE DEF s1
<1>3. Sound(s2)
  BY <1>1, <1>2, StepLeg
<1> HIDE DEF s2
<1>4. Sound(s3)
  BY <1>1, <1>3, StepLeg
<1> HIDE DEF s3
<1>5. Sound(step_leg(s3, 4, ends, feet))
  BY <1>1, <1>4, StepLeg
<1> QED
  BY <1>5 DEF Stepped, s1, s2, s3

\* Four feet are down when the gait starts from rest.
LEMMA StandingSound == Sound([i \in Legs |-> Standing])
<1> DEFINE s == [i \in Legs |-> Standing]
<1>1. s \in [Legs -> Leg] /\ \A i \in Legs : s[i].mode = "stance"
  BY DEF Standing, Leg, Modes, CYCLE
<1>2. Down(s) = 1 .. 4
  BY <1>1 DEF Down, Legs
<1>3. Cardinality(1 .. 4) = 4
  <2>1. 1 \in Int /\ 4 \in Int
    OBVIOUS
  <2>2. Cardinality(1 .. 4) = IF 1 > 4 THEN 0 ELSE 4 - 1 + 1
    BY ONLY <2>1, FS_Interval, Zenon
  <2> QED
    BY <2>2
<1> QED
  BY <1>1, <1>2, <1>3, DownFacts DEF Sound

-----------------------------------------------------------------------------
LEMMA InitInv == Init => GInv
  BY DEF Init, GInv, Walking, OneTickChain

LEMMA StepInv == GInv /\ [Next]_vars => GInv'
<1> SUFFICES ASSUME GInv, [Next]_vars PROVE GInv'
  OBVIOUS
<1> USE DEF GInv, Walking, OneTickChain
<1>1. CASE gait_tick
  <2>1. gait' = gait /\ Walking
    BY <1>1 DEF gait_tick
  <2>2. ticks' = ticks
    BY <1>1, <2>1 DEF gait_tick
  <2>3. PICK ends, feet : st' = Stepped(ends, feet)
    BY <1>1, <2>1 DEF gait_tick
  <2>4. Sound(st)'
    <3>1. Sound(Stepped(ends, feet))
      BY <2>1, TickSound
    <3> HIDE DEF Stepped
    <3> QED
      BY <2>3, <3>1 DEF Sound, legs_down
  <2> QED
    BY <2>1, <2>2, <2>4
<1>2. ASSUME NEW name \in Gaits, gait_start(name)
      PROVE  GInv'
  <2>1. gait' = name /\ gait' # "halted" /\ ticks' = 1
    BY <1>2 DEF gait_start, Restarted, Gaits
  <2>2. Sound(st)'
    BY <1>2, StandingSound DEF gait_start, Sound, legs_down
  <2> QED
    BY <2>1, <2>2
<1>3. CASE gait_stop
  BY <1>3 DEF gait_stop, Stops
<1>4. ASSUME NEW band \in Bands, NEW up \in BOOLEAN, Sample(band, up)
      PROVE  GInv'
  <2>1. CASE Stops
    BY <2>1 DEF Stops
  <2>2. CASE UNCHANGED <<contact, gait, st, ticks, driving>>
    BY <2>2 DEF Sound, legs_down
  <2> QED
    BY <1>4, <2>1, <2>2 DEF Sample, gait_tipped
<1>5. CASE UNCHANGED vars
  BY <1>5 DEF vars, Sound, legs_down
<1> QED
  BY <1>1, <1>2, <1>3, <1>4, <1>5 DEF Next

LEMMA Invariance == Spec => []GInv
  BY InitInv, StepInv, PTL DEF Spec

\* Two legs are on the ground whenever the robot walks, for any reach time and
\* any history of switches, samples and landings (gait.c:135-137).
THEOREM SupportKept == Spec => []TwoLegsSupport
<1>1. GInv => TwoLegsSupport
  BY DEF GInv, Sound, TwoLegsSupport
<1> QED
  BY <1>1, Invariance, PTL

\* However starts, switches, stops and tip-overs follow each other, one chain of
\* ticks drives the legs while a gait is on, and none when none is (gait.c:261-284).
THEOREM NoSecondChain == Spec => []OneTickChain
<1>1. GInv => OneTickChain
  BY DEF GInv
<1> QED
  BY <1>1, Invariance, PTL
=============================================================================
