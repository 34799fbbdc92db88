------------------------------ MODULE WireCal -------------------------------
(***************************************************************************)
(* src/Robot/limbs/wirecal/wirecal.c: the ramp that measures one wire      *)
(* (REST, then SETTLE and MEASURE per step), its sample interrupt and the  *)
(* ring between them, and the isns monitor that shares the ring.           *)
(*                                                                         *)
(* `ready` is the scheduler's queue of actions, `timed` those waiting in   *)
(* in(); stop() takes an action out of both (external). drain() handles    *)
(* one reading per step, so that the interrupt can come between two. The   *)
(* wires run what the board adopted at a frame start (`driven`), which is  *)
(* the table of muscle.c some frames late.                                 *)
(*                                                                         *)
(* A reading is tagged with what was driven when the ADC took it. Whether  *)
(* its values are in range, and what wirecal_analyze() makes of the        *)
(* points, is left open.                                                   *)
(***************************************************************************)
EXTENDS Integers, Sequences, FiniteSets, SequencesExt

CONSTANTS
  MUSCLE_LIMBS,
  Muscles, Others, \* muscles that are calibrated, and that other words drive
  FITTED,          \* the limbs of this build, as given to muscle_init()
  WC_START_PCT, WC_STEP_PCT, WC_MAX_PCT, WC_SAMPLES, WC_MIN_POINTS, WC_MAX_POINTS,
  RING,            \* slots of the ring; one stays empty
  Results,         \* the calibrations a run can find
  Uncalibrated

VARIABLES
  fitted, act,     \* muscle.c's table
  driven,          \* fitted and act as the board runs them
  state, ch, saved_fitted, cur_pct, npts, samples,
  ring, monitoring,
  draining,        \* drain() is running
  timed, ready,
  values,          \* the calibration values, those of the wires by muscle
  saving           \* calib_save(): "no", "begin", or "lines" while it runs

Table == INSTANCE MuscleTable WITH Levels <- 0 .. WC_MAX_PCT

ASSUME WireAssumption ==
  /\ MUSCLE_LIMBS \in Nat \ {0} /\ FITTED \subseteq Table!Limbs
  /\ \A muscle \in Muscles \cup Others : muscle \in Nat /\ muscle - 1 \in Table!Channels
  /\ WC_MAX_PCT \in Nat /\ WC_START_PCT \in 0 .. WC_MAX_PCT /\ WC_STEP_PCT \in Nat \ {0}
  /\ WC_SAMPLES \in Nat \ {0} /\ WC_MIN_POINTS \in Nat /\ WC_MAX_POINTS \in Nat \ {0}
  /\ RING \in Nat \ {0}

table    == <<fitted, act>>
run      == <<state, ch, saved_fitted, cur_pct, npts, samples>>
capture  == <<ring, monitoring, draining>>
queues   == <<timed, ready>>
wirevars == <<table, driven, run, capture, queues>>

WireInit ==
  /\ fitted = FITTED /\ act = Table!Relaxed /\ driven = [fitted |-> fitted, act |-> act]
  /\ state = "IDLE" /\ ch = 0 /\ saved_fitted = {} /\ cur_pct = 0 /\ npts = 0
  /\ samples = <<>>
  /\ ring = <<>> /\ monitoring = FALSE /\ draining = FALSE
  /\ timed = {} /\ ready = <<>>

\* Task context is free: no action is running.
Idle == ~draining /\ saving = "no"

(***************************************************************************)
(* The scheduler and the board (external).                                 *)
(***************************************************************************)
\* A time-out comes up, long after the frame that took over the last call.
TimerFires(a) ==
  /\ a \in timed
  /\ driven = [fitted |-> fitted, act |-> act]
  /\ timed' = timed \ {a}
  /\ ready' = Append(ready, a)
  /\ UNCHANGED <<table, driven, run, capture, values, saving>>

\* A frame start: the board runs the table as it is now.
FrameAdopts ==
  /\ driven' = [fitted |-> fitted, act |-> act]
  /\ driven' # driven
  /\ UNCHANGED <<table, run, capture, queues, values, saving>>

(***************************************************************************)
(* The sample interrupt, while the window of wire c is on. Edges are far   *)
(* enough apart that at most one reading comes while a drain() runs.       *)
(***************************************************************************)
Wanted(c) == monitoring \/ (state = "MEASURE" /\ c = ch)

Reading(c) ==
  [ch |-> c, pct |-> driven.act[c], alone |-> driven.fitted = {Table!LimbOf(c)}]

\* Mutant of RingOpen: the slot that stays empty is filled.
RingOpenFull == Len(ring) < RING

RingOpen == Len(ring) < RING - 1

on_sample(c) ==
  /\ driven.act[c] > 0
  /\ Wanted(c)
  /\ draining => ~Contains(ready, "drain")
  /\ RingOpen                                   \* a full ring drops the reading
  /\ ring' = Append(ring, Reading(c))
  /\ ready' = IF Contains(ready, "drain") THEN ready ELSE Append(ready, "drain")
  /\ UNCHANGED <<table, driven, run, monitoring, draining, timed, values, saving>>

(***************************************************************************)
(* The end of a run.                                                       *)
(***************************************************************************)
\* Mutant of Stopped: the time-out of a measurement stays armed.
StoppedBegin == {"begin"}

\* The actions of a run, which its end takes out of the queues.
Stopped == {"begin", "timeout"}

\* What a run leaves in its variables is never read again.
NothingLeft ==
  ch' = 0 /\ saved_fitted' = {} /\ cur_pct' = 0 /\ npts' = 0 /\ samples' = <<>>

finish ==
  /\ timed' = timed \ Stopped
  /\ ready' = RemoveFirst(RemoveFirst(ready, "begin"), "timeout")
  /\ act' = Table!Relaxed
  /\ fitted' = saved_fitted
  /\ state' = "IDLE"
  /\ NothingLeft

abort_with == finish /\ UNCHANGED <<values, saving>>

\* n points: the analysis finds result r, or none.
complete(n) ==
  /\ finish
  /\ \/ UNCHANGED <<values, saving>>
     \/ /\ n >= WC_MIN_POINTS
        /\ \E r \in Results : values' = [values EXCEPT ![ch + 1] = r]
        /\ saving' = "begin"

(***************************************************************************)
(* One step of the ramp.                                                   *)
(***************************************************************************)
\* The table after muscle_set(ch + 1, pct), which refuses an unfitted limb.
Driving(pct) ==
  IF Table!LimbOf(ch) \in fitted THEN Table!Activate(act, ch, pct) ELSE act

Settle(pct) ==
  /\ cur_pct' = pct
  /\ act' = Driving(pct)
  /\ state' = "SETTLE"
  /\ samples' = <<>>                           \* not read until MEASURE clears them
  /\ timed' = (timed \ {"timeout"}) \cup {"begin"}
  /\ UNCHANGED <<fitted, ch, saved_fitted>>

LastStep(n) == cur_pct + WC_STEP_PCT > WC_MAX_PCT \/ n >= WC_MAX_POINTS

\* The step ends with a point. It is the last one at the end of the ramp, when
\* the curve is complete, or when the current reaches its limit.
step_done ==
  \/ complete(npts + 1)
  \/ /\ ~LastStep(npts + 1)
     /\ Settle(cur_pct + WC_STEP_PCT)
     /\ npts' = npts + 1
     /\ ready' = RemoveFirst(ready, "timeout")
     /\ UNCHANGED <<values, saving>>

\* A reading out of range, of the current or of the supply, ends the run.
take_sample(r) ==
  LET taken == Append(samples, r) IN
  \/ abort_with
  \/ Len(taken) >= WC_SAMPLES /\ step_done
  \/ /\ Len(taken) < WC_SAMPLES
     /\ samples' = taken
     /\ UNCHANGED <<table, state, ch, saved_fitted, cur_pct, npts, queues, values, saving>>

\* Mutant of Due: a reading of any wire is taken for the one under test.
DueAny(r) == state = "MEASURE"

Due(r) == state = "MEASURE" /\ r.ch = ch

Popped == ready' = Tail(ready)

DrainBegin ==
  /\ draining' = TRUE
  /\ Popped
  /\ UNCHANGED <<table, run, ring, monitoring, timed, values, saving>>

drain ==
  /\ draining /\ saving = "no"
  /\ IF ring = <<>>
     THEN draining' = FALSE /\ UNCHANGED <<table, run, ring, queues, values, saving>>
     ELSE /\ ring' = Tail(ring)
          /\ draining' = TRUE
          /\ \/ Due(Head(ring)) /\ take_sample(Head(ring))
             \/ ~Due(Head(ring)) /\ UNCHANGED <<table, run, queues, values, saving>>
  /\ UNCHANGED <<driven, monitoring>>

\* Mutant of MeasureLimit: a measurement without readings has no time-out.
NoLimit == {}

MeasureLimit == {"timeout"}

step_begin_measure ==
  \/ /\ state = "REST"
     /\ Settle(WC_START_PCT)
     /\ Popped
     /\ UNCHANGED <<npts, capture, values, saving>>
  \/ /\ state # "REST"
     /\ samples' = <<>>
     /\ state' = "MEASURE"
     /\ timed' = timed \cup MeasureLimit
     /\ Popped
     /\ UNCHANGED <<table, ch, saved_fitted, cur_pct, npts, capture, values, saving>>

measure_timeout ==
  \/ state = "MEASURE" /\ abort_with /\ UNCHANGED capture
  \/ state # "MEASURE" /\ Popped /\ UNCHANGED <<table, run, capture, timed, values, saving>>

mon_report ==
  /\ monitoring' = FALSE
  /\ Popped
  /\ UNCHANGED <<table, run, ring, draining, timed, values, saving>>

\* The next action of the queue is called.
RunAction(a, body) ==
  /\ Idle
  /\ ready # <<>> /\ Head(ready) = a
  /\ body
  /\ UNCHANGED <<driven>>

Actions ==
  \/ RunAction("drain", DrainBegin)
  \/ RunAction("begin", step_begin_measure)
  \/ RunAction("timeout", measure_timeout)
  \/ RunAction("report", mon_report)

(***************************************************************************)
(* CLI words, from the same task context.                                  *)
(***************************************************************************)
wirecal_start(muscle) ==
  /\ state = "IDLE"
  /\ Table!LimbOf(muscle - 1) \in fitted
  /\ ch' = muscle - 1
  /\ saved_fitted' = fitted
  /\ fitted' = {Table!LimbOf(ch')}
  /\ act' = Table!Refit(Table!Activate(act, ch', 0), fitted')
  /\ npts' = 0
  /\ state' = "REST"
  /\ timed' = timed \cup {"begin"}
  /\ UNCHANGED <<cur_pct, samples, capture, ready, values>>

wirecal_stop ==
  /\ state # "IDLE"
  /\ abort_with
  /\ UNCHANGED <<capture>>

wirecal_cli_isns ==
  /\ ~monitoring /\ state = "IDLE"
  /\ monitoring' = TRUE
  /\ timed' = timed \cup {"report"}
  /\ UNCHANGED <<table, run, ring, draining, ready, values>>

\* halt, at any time; other muscle calls while no run is using the table.
\* Only a run refits the limbs.
UserRelaxes == Table!muscle_relax /\ UNCHANGED <<run, capture, queues, values>>

UserDrives(muscle, pct) ==
  /\ state = "IDLE"
  /\ Table!muscle_set(muscle - 1, pct)
  /\ UNCHANGED <<run, capture, queues, values>>

Words ==
  /\ Idle
  /\ \/ \E muscle \in Muscles : wirecal_start(muscle)
     \/ \E muscle \in Others : UserDrives(muscle, WC_MAX_PCT)
     \/ UserRelaxes \/ wirecal_stop \/ wirecal_cli_isns
  /\ saving' = saving
  /\ UNCHANGED driven

Samples == \E c \in Table!Channels : on_sample(c)

WireNext ==
  \/ Samples
  \/ FrameAdopts
  \/ \E a \in timed : TimerFires(a)
  \/ Actions
  \/ drain
  \/ Words

\* The queue is served and time passes.
WireFairness ==
  /\ WF_wirevars(Actions) /\ WF_wirevars(drain) /\ WF_wirevars(FrameAdopts)
  /\ WF_wirevars(\E a \in timed : TimerFires(a))
=============================================================================
