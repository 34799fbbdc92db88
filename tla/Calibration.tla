---------------------------- MODULE Calibration -----------------------------
(***************************************************************************)
(* Wire calibration (WireCal) on the muscle table and the calibration file *)
(* (Calib) on the file store, in one task context: a run that finds a      *)
(* wire's transition calls calib_save(), and a boot loads what was saved.  *)
(* CLI words are typed once the boot's load is over. The power fails at    *)
(* any time, in the middle of a save too.                                  *)
(***************************************************************************)
EXTENDS WireCal

CONSTANTS
  KeyOrder, Items, Values, Default, CALIB_FILE, CALIB_TMP, EOL, KEYQ, MaxLoads

VARIABLES
  files, todo, startups, steps, loading, load_off, saved_echo, echo, keyq, line,
  kept, changed

Store == INSTANCE Calib

\* The key queue holds a line of a setter word. A muscle that is calibrated has
\* a line in the file.
ASSUME CalibrationAssumption ==
  /\ KeyOrder \in Seq(Store!Keys) /\ Items \subseteq Store!Keys /\ Muscles \subseteq Store!Keys
  /\ Results \subseteq Values /\ Uncalibrated \notin Values \cup {Default}
  /\ CALIB_FILE # CALIB_TMP
  /\ KEYQ \in Nat /\ KEYQ >= 2
  /\ EOL \notin [word : Store!Keys, value : Values \cup {Default}]

loader == <<startups, steps, loading, load_off, saved_echo, echo>>
vars   == <<wirevars, values, files, saving, todo, loader, keyq, line, kept, changed>>

Init == WireInit /\ Store!CalibInit

\* Runs start while nothing is loaded and (a bound) with nothing unsaved.
WireTurn == Store!Quiet \/ saving # "no"

WireFrame ==
  /\ state = "IDLE" /\ state' # "IDLE" => ~changed
  /\ changed' = (changed \/ values' # values)
  /\ UNCHANGED <<files, todo, loader, keyq, line, kept>>

WireStep == WireTurn /\ WireNext /\ WireFrame

AtRest == Idle /\ state = "IDLE" /\ ready = <<>>

StoreTurn == saving = "no" => AtRest

StoreStep == StoreTurn /\ Store!CalibNext /\ UNCHANGED wirevars

PowerLoss ==
  /\ Store!Boots
  /\ fitted' = FITTED /\ act' = Table!Relaxed
  /\ driven' = [fitted |-> fitted', act |-> act']
  /\ state' = "IDLE" /\ ch' = 0 /\ saved_fitted' = {} /\ cur_pct' = 0 /\ npts' = 0
  /\ samples' = <<>>
  /\ ring' = <<>> /\ monitoring' = FALSE /\ draining' = FALSE
  /\ timed' = {} /\ ready' = <<>>
  /\ UNCHANGED <<files, kept>>

Next == WireStep \/ StoreStep \/ PowerLoss

Spec == Init /\ [][Next]_vars

\* The queues of the scheduler are served, time passes, and a save ends.
FairSpec ==
  /\ Spec
  /\ WF_vars(WireTurn /\ Actions /\ WireFrame)
  /\ WF_vars(WireTurn /\ drain /\ WireFrame)
  /\ WF_vars(WireTurn /\ FrameAdopts /\ WireFrame)
  /\ WF_vars(WireTurn /\ (\E a \in timed : TimerFires(a)) /\ WireFrame)
  /\ WF_vars(StoreTurn /\ Store!Saving /\ UNCHANGED wirevars)

-----------------------------------------------------------------------------
Queued(a) == a \in timed \/ Contains(ready, a)

\* The state has the types of its declarations; the ring keeps a slot empty.
TypeOK ==
  /\ fitted \in SUBSET Table!Limbs
  /\ act \in [Table!Channels -> 0 .. WC_MAX_PCT]
  /\ state \in {"IDLE", "REST", "SETTLE", "MEASURE"}
  /\ npts \in 0 .. WC_MAX_POINTS
  /\ Len(samples) <= WC_SAMPLES
  /\ Len(ring) < RING
  /\ Len(keyq) <= KEYQ
  /\ values \in [Store!Keys -> Values \cup {Default, Uncalibrated}]
  /\ saving \in {"no", "begin", "lines"}
  /\ DOMAIN files \subseteq {CALIB_FILE, CALIB_TMP}

\* A run holds exactly the time-out its state waits for, so a stop, an abort
\* or an end in any state leaves none that would revive it; and when no run
\* is on, the fitted limbs are those of the build (wirecal.c:51-56, 366).
RunHoldsItsTimer ==
  /\ Queued("begin") <=> state \in {"REST", "SETTLE"}
  /\ Queued("timeout") <=> state = "MEASURE"
  /\ state = "IDLE" => fitted = FITTED
  /\ state # "IDLE" => saved_fitted = FITTED

\* Every reading that counts for a step was taken from the wire under test,
\* driven at the step's activation with its limb alone: none is left over from
\* another wire, an earlier step or an earlier run, whatever isns queued
\* besides (wirecal.c:150-191).
SamplesAreOfThisStep ==
  state = "MEASURE" =>
    \A i \in DOMAIN samples :
      samples[i].ch = ch /\ samples[i].pct = cur_pct /\ samples[i].alone

\* Every run ends: a wire without readings, a halt or a stop in the middle
\* cannot leave the wire driven or the limbs unfitted (wirecal.c:10-11).
RunEnds == state # "IDLE" ~> state = "IDLE"

\* "a power loss leaves either the old or the new file, never a half-written
\* one" (calib.h:15-16), also after a save that failed or was cut off.
FileIsOldOrNew ==
  IF CALIB_FILE \in DOMAIN files
  THEN Store!Fs!Contents(CALIB_FILE) = Store!Whole(kept)
  ELSE kept = Store!Defaults

\* Whatever was saved is back once a boot's load is over, and stays until a
\* value is changed: no line is lost, cut or run twice on the way through the
\* key queue (calib.h:46-51).
SavedIsRestored == Store!Quiet /\ ~changed => values = kept

\* The echo the loader turns off is on again once no load runs, also if
\* calib_load() was called again meanwhile (calib.c:101-130).
EchoComesBack == ~loading => echo
=============================================================================
