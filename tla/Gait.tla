-------------------------------- MODULE Gait --------------------------------
(***************************************************************************)
(* src/Robot/limbs/gait/gait.c: four legs stepping on a shared rhythm,     *)
(* with the tip-over that posture.c reports.                               *)
(*                                                                         *)
(* Phases are in eighths of the cycle. When a leg in stance comes to the   *)
(* end of it (speed, coupling, offsets) is left open. A leg in the air     *)
(* moves on at every tick, by at least the floor under its rate: an eighth *)
(* in the model. Commands are reduced to whether the gait drives muscles   *)
(* at all.                                                                 *)
(***************************************************************************)
EXTENDS Posture, FiniteSets

CONSTANTS
  REACH_TICKS,     \* ticks in GAIT_REACH_MS
  MaxTicks,        \* bound on queued gait_tick actions
  Followed         \* the leg whose swings a run follows

Legs  == 1 .. 4
CYCLE == 8

\* pace and bound have the duty and the support of trot.
Gaits   == {"crawl", "trot"}
duty    == [crawl |-> 6, trot |-> 4]
support == [crawl |-> 3, trot |-> 2]

VARIABLES
  contact,         \* a foot sensor is bound
  gait,            \* "halted" for NULL
  st,              \* per leg: mode, phase in the air, ticks of reach_ms, lifted
  ticks,           \* gait_tick actions queued
  driving          \* some muscle may hold an activation from the gait

vars == <<attitude, contact, gait, st, ticks, driving>>

Standing == [mode |-> "stance", phase |-> 0, reach |-> 0, lifted |-> FALSE]
Walking  == gait # "halted"

Init ==
  /\ PostureInit
  /\ contact \in BOOLEAN
  /\ gait = "halted" /\ st = [i \in Legs |-> Standing] /\ ticks = 0 /\ driving = FALSE

(***************************************************************************)
(* One leg's step: s is the state of the legs so far in this tick.         *)
(***************************************************************************)
steady == valid => ~leaning

legs_down(s) == Cardinality({i \in Legs : s[i].mode \in {"stance", "wait"}})

\* Mutant of Enough: the leg that lifts counts as support.
EnoughWithItself(down) == down >= support[gait]

Enough(down) == down - 1 >= support[gait]

can_lift(s) == Enough(legs_down(s)) /\ steady

touchdown == Standing

LiftOff == [mode |-> "swing", phase |-> duty[gait], reach |-> 0, lifted |-> FALSE]

Wait == [Standing EXCEPT !.mode = "wait", !.phase = duty[gait]]

StanceEnds(s) == IF can_lift(s) THEN LiftOff ELSE Wait

\* Mutant of SwingRate: at speed 0 a swing stands still.
SwingRateAtRest == 0

SwingRate == 1

\* Contact in the first half of a swing is not a landing: the foot may drag.
Swing(leg, foot) ==
  LET phase  == leg.phase + SwingRate
      lifted == leg.lifted \/ ~foot
      early  == foot /\ lifted /\ 2 * phase > duty[gait] + CYCLE
  IN  IF early \/ (phase = CYCLE /\ (foot \/ ~contact)) THEN touchdown
      ELSE IF phase = CYCLE
      THEN [leg EXCEPT !.mode = "reach", !.phase = CYCLE, !.lifted = lifted]
      ELSE [leg EXCEPT !.phase = phase, !.lifted = lifted]

ReachOver(reach) == reach >= REACH_TICKS

Reach(leg, foot) ==
  IF foot \/ ReachOver(leg.reach + 1) THEN touchdown
  ELSE [leg EXCEPT !.reach = @ + 1]

\* A waiting leg is at the end of its stance, except after a switch to a gait
\* with a longer one.
AtEnd  == {i \in Legs : st[i].mode = "wait" /\ st[i].phase >= duty[gait]}
OnFoot == {i \in Legs : st[i].mode \in {"stance", "wait"}} \ AtEnd
Off    == {i \in Legs : st[i].mode \in {"swing", "reach"}}

\* The legs in ends come to the end of their stance, those in feet feel ground.
step_leg(s, i, ends, feet) ==
  CASE i \in ends /\ s[i].mode \in {"stance", "wait"} -> [s EXCEPT ![i] = StanceEnds(s)]
    [] s[i].mode = "swing" -> [s EXCEPT ![i] = Swing(@, i \in feet)]
    [] s[i].mode = "reach" -> [s EXCEPT ![i] = Reach(@, i \in feet)]
    [] OTHER -> s

\* Each leg sees what the legs before it did in the same tick.
Stepped(ends, feet) ==
  LET s1 == step_leg(st, 1, ends, feet)
      s2 == step_leg(s1, 2, ends, feet)
      s3 == step_leg(s2, 3, ends, feet)
  IN  step_leg(s3, 4, ends, feet)

gait_tick ==
  /\ ticks > 0
  /\ UNCHANGED <<attitude, contact, gait>>
  /\ \/ /\ ~Walking
        /\ ticks' = ticks - 1
        /\ UNCHANGED <<st, driving>>
     \/ /\ Walking
        /\ UNCHANGED ticks
        /\ driving' = TRUE
        /\ \E ends \in SUBSET OnFoot, feet \in SUBSET (IF contact THEN Off ELSE {}) :
             st' = Stepped(ends \cup AtEnd, feet)

(***************************************************************************)
(* Starting, stopping and tipping over.                                    *)
(***************************************************************************)
\* Mutant of Restarted: gait_tick is queued beside the one that is waiting.
RestartedBeside == ticks + 1

Restarted == 1

gait_start(name) ==
  /\ ticks < MaxTicks
  /\ gait' = name
  /\ st' = IF Walking THEN st ELSE [i \in Legs |-> Standing]
  /\ ticks' = Restarted
  /\ UNCHANGED <<attitude, contact, driving>>

Stops ==
  /\ gait' = "halted"
  /\ ticks' = 0
  /\ driving' = FALSE
  /\ UNCHANGED <<contact, st>>

gait_stop == Stops /\ UNCHANGED attitude

gait_tipped == IF Walking THEN Stops ELSE UNCHANGED <<contact, gait, st, ticks, driving>>

Sample(band, up) ==
  /\ posture_sample(band, up)
  /\ IF Tips(band, up) THEN gait_tipped ELSE UNCHANGED <<contact, gait, st, ticks, driving>>

Next ==
  \/ gait_tick
  \/ \E name \in Gaits : gait_start(name)
  \/ gait_stop
  \/ \E band \in Bands, up \in BOOLEAN : Sample(band, up)

Spec == Init /\ [][Next]_vars

\* The scheduler runs the queued action.
FairSpec == Spec /\ WF_vars(gait_tick)

-----------------------------------------------------------------------------
\* A leg's foot is on the ground or commanded there.
Supports(leg, g) ==
  leg.mode \in {"stance", "wait"} \/ (leg.mode = "swing" /\ leg.phase < duty[g])

\* Two legs are on the ground whenever the robot walks, whatever gaits were
\* switched between and whichever feet come down early, late or never
\* (gait.c:135-137, gait.h:16-18).
TwoLegsSupport == Walking => legs_down(st) >= 2

\* One chain of gait_tick actions drives the legs while a gait is on, and when
\* none is, nothing is queued that could and every muscle is relaxed, however
\* starts, switches, stops and tip-overs follow each other (gait.c:261-284).
OneTickChain ==
  /\ Walking => ticks = 1
  /\ ~Walking => ticks = 0 /\ ~driving

\* "a foot that is in the air always finishes its swing" (gait.h:21-22), and one
\* that finds no ground gives up reaching.
SwingEnds == (Followed \in Off) ~> (Followed \notin Off \/ ~Walking)

\* "a foot leaves the ground only if enough other legs are in stance (3 for
\* crawl, 2 for the others) and the body is steady" (gait.h:16-17).
LiftOffsAreChecked ==
  [][Walking /\ gait' = gait =>
       \A i \in Legs :
         Supports(st[i], gait) /\ ~Supports(st'[i], gait) =>
           /\ steady
           /\ Cardinality({j \in Legs \ {i} : Supports(st'[j], gait)}) >= support[gait]]_vars
=============================================================================
