------------------------------ MODULE LimbDrive ------------------------------
(***************************************************************************)
(* src/Robot/io/ad5593r/ad5593r_limb.c: a limb's DAC is swept until its    *)
(* ADC saturates, the codes between which it answers are kept in           *)
(* millivolts, and the limb is driven in percent of that window.           *)
(***************************************************************************)
EXTENDS Ad5593r, FiniteSetsExt

CONSTANTS
  MAX_MV,          \* AD5593R_LIMB_MAX_MV
  CODES,           \* values of the sweep's counter, a uint16_t
  Pcts             \* percentages callers ask for

ASSUME LimbAssumption ==
  MAX_MV \in Nat \ {0} /\ CODES \in Nat /\ CODES > DAC_MAX_CODE /\ Pcts \subseteq 0 .. 255

VARIABLES
  g_cal,           \* per limb: calibrated, dac_lo_mv, dac_hi_mv
  todo,            \* limbs a calibration has yet to do, the one under way first
  dac_code, lo_code, hi_code, \* the sweep; -1 is none
  ok,              \* no limb has failed so far
  answer           \* history: the last call, the limbs it was about, its result

sweep == <<todo, dac_code, lo_code, hi_code, ok>>
vars  == <<io, g_cal, sweep, answer>>

Uncalibrated == [calibrated |-> FALSE, dac_lo_mv |-> 0, dac_hi_mv |-> 0]
Answer(call, limbs, result) == [call |-> call, limbs |-> limbs, result |-> result]

NoSweep == todo' = <<>> /\ dac_code' = 0 /\ lo_code' = -1 /\ hi_code' = -1 /\ ok' = TRUE

Init ==
  /\ IoInit
  /\ g_cal = [l \in Limbs |-> Uncalibrated]
  /\ todo = <<>> /\ dac_code = 0 /\ lo_code = -1 /\ hi_code = -1 /\ ok = TRUE
  /\ answer = Answer("none", {}, FALSE)

\* The driver is free. It does not ask how its last reset went.
Ready == ~InReset /\ todo = <<>>

(***************************************************************************)
(* Codes and millivolts.                                                   *)
(***************************************************************************)
mv_to_code(mv) == (Min({mv, MAX_MV}) * DAC_MAX_CODE) \div MAX_MV

\* Mutant of code_to_mv: rounds up.
code_to_mv_up(code) == (code * MAX_MV + DAC_MAX_CODE - 1) \div DAC_MAX_CODE

code_to_mv(code) == (code * MAX_MV) \div DAC_MAX_CODE

(***************************************************************************)
(* ad5593r_limb_calibrate(), and ad5593r_limb_calibrate_all(), which does  *)
(* every limb whatever became of those before it.                          *)
(***************************************************************************)
limb == Head(todo)

ad5593r_limb_calibrate(limbs) ==
  /\ Ready
  /\ todo' = limbs
  /\ answer' = Answer("none", {}, FALSE)
  /\ UNCHANGED <<io, g_cal, dac_code, lo_code, hi_code, ok>>

Calibrations == {<<l>> : l \in Limbs} \cup {[i \in 1 .. LIMB_COUNT |-> i - 1]}

Sweeping == todo # <<>> /\ hi_code # dac_code

\* The end of one limb's calibration: on to the next, or back to the caller.
LimbDone(success) ==
  /\ todo' = Tail(todo)
  /\ dac_code' = 0 /\ lo_code' = -1 /\ hi_code' = -1
  /\ ok' = IF todo' = <<>> THEN TRUE ELSE ok /\ success
  /\ answer' = IF todo' = <<>>
               THEN Answer("calibrate", answer.limbs \cup {limb}, ok /\ success)
               ELSE Answer("none", answer.limbs \cup {limb}, FALSE)

\* A transfer fails: the DAC is written, or was before, and then set to 0, which
\* may fail too.
SweepFails ==
  /\ Sweeping
  /\ \E written, zeroed \in BOOLEAN :
       /\ dac' = IF zeroed THEN ad5593r_set_dac(limb, 0)
                 ELSE IF written THEN ad5593r_set_dac(limb, dac_code) ELSE dac
       /\ Lost(IF zeroed THEN 1 ELSE 2)
       /\ sequence' \in {sequence} \cup IF written THEN {limb} ELSE {}
  /\ LimbDone(FALSE)
  /\ UNCHANGED <<regs, settling, curve, resetting, g_cal>>

\* Mutant of LastCode: the sweep ends where the ADC saturates, only there.
LastCodeSaturated(adc) == adc = "saturated"

LastCode(adc) == adc = "saturated" \/ dac_code >= DAC_MAX_CODE

\* The code is set, left to settle and read in one step: the wait between
\* (timeoutWait() is TimbreOS's) is taken to run nothing else, as the comment at
\* its length says. The turn that ends the sweep leaves hi_code at dac_code.
SweepTurn ==
  /\ Sweeping
  /\ dac' = ad5593r_set_dac(limb, dac_code)
  /\ sequence' = limb
  /\ LET adc == Converted(sequence', dac') IN
     /\ lo_code' = IF lo_code = -1 /\ adc # "dead" THEN dac_code ELSE lo_code
     /\ hi_code' = dac_code
     /\ dac_code' = IF LastCode(adc) THEN dac_code ELSE (dac_code + 1) % CODES
  /\ UNCHANGED <<regs, settling, curve, resetting, faults, g_cal, todo, ok, answer>>

\* Mutant of Usable: the result of setting the DAC back to 0 is not looked at.
UsableUnlessFlat(reset_ok) == lo_code >= 0 /\ hi_code > lo_code

Usable(reset_ok) == reset_ok /\ lo_code >= 0 /\ hi_code > lo_code

SweepEnd ==
  /\ todo # <<>> /\ hi_code = dac_code
  /\ \E reset_ok \in BOOLEAN :
       /\ DacWrite(limb, 0, reset_ok)
       /\ g_cal' = IF Usable(reset_ok)
                   THEN [g_cal EXCEPT ![limb] =
                           [calibrated |-> TRUE, dac_lo_mv |-> code_to_mv(lo_code),
                            dac_hi_mv |-> code_to_mv(hi_code)]]
                   ELSE g_cal
       /\ LimbDone(Usable(reset_ok))
  /\ UNCHANGED <<regs, settling, sequence, curve, resetting>>

(***************************************************************************)
(* ad5593r_limb_set(): pct of the window.                                  *)
(***************************************************************************)
Percent(pct) == Min({pct, 100})

Level(l, pct) ==
  LET span == g_cal[l].dac_hi_mv - g_cal[l].dac_lo_mv
  IN  g_cal[l].dac_lo_mv + (span * Percent(pct)) \div 100

ad5593r_limb_set(l, pct) ==
  /\ Ready /\ g_cal[l].calibrated
  /\ \E result \in BOOLEAN :
       /\ DacWrite(l, mv_to_code(Level(l, pct)), result)
       /\ answer' = Answer("set", {l}, result)
  /\ UNCHANGED <<regs, settling, sequence, curve, resetting, g_cal, sweep>>

(***************************************************************************)
(* The other calls, and a restart at any point.                            *)
(***************************************************************************)
UserResets ==
  /\ ~InReset /\ todo = <<>>
  /\ ad5593r_reset
  /\ answer' = Answer("none", {}, FALSE)
  /\ UNCHANGED <<g_cal, sweep>>

Resetting == ad5593r_write_reg_verified /\ UNCHANGED <<g_cal, sweep, answer>>

UserReads == Ready /\ (ad5593r_read_temp \/ ad5593r_read_registers) /\ UNCHANGED <<g_cal, sweep, answer>>

\* The processor restarts, the chip does not; bring-up resets it.
Restart ==
  /\ ad5593r_reset
  /\ g_cal' = [l \in Limbs |-> Uncalibrated]
  /\ answer' = Answer("none", {}, FALSE)
  /\ NoSweep

Calibrating == SweepTurn \/ SweepFails \/ SweepEnd

Next ==
  \/ UserResets \/ Resetting \/ UserReads \/ Restart
  \/ \E limbs \in Calibrations : ad5593r_limb_calibrate(limbs)
  \/ Calibrating
  \/ \E l \in Limbs, pct \in Pcts : ad5593r_limb_set(l, pct)

\* A call that has begun goes on.
Spec == Init /\ [][Next]_vars /\ WF_vars(Calibrating) /\ WF_vars(Resetting)

-----------------------------------------------------------------------------
\* "software-reset the chip, wait for reset to complete, then configure"
\* (ad5593r.h:34-37): a reset that returns true has all six registers in place,
\* whichever transfers failed and though the chip may drop the first write after
\* its reset without a sign (ad5593r.c:79-85).
ResetConfigures == known => SetUp

\* What a limb's curve says its window is: where the ADC leaves its dead zone,
\* and where it first saturates, or the top.
Ends(c)    == {code \in 0 .. DAC_MAX_CODE : c[code] = "saturated"} \cup {DAC_MAX_CODE}
Onsets(c)  == {code \in 0 .. DAC_MAX_CODE : c[code] # "dead"} \cup {DAC_MAX_CODE + 1}

\* "find the linear region of that response, and store the result", the state
\* "left unchanged" when there is none or a transfer failed
\* (ad5593r_limb.h:29-37). The region is the one the code's thresholds draw
\* (ad5593r_limb.c:79-84), from the first reading over LOW_ADC to the first at
\* HIGH_ADC or the top, one reading being enough for each: what is stored is
\* the limb's own, never part of a sweep cut short nor anything seen through a
\* chip that is not set up. A calibration that returns true leaves every limb
\* it was about calibrated and off; one that returns false may leave a limb
\* driven, when the write that was to end it is the one that failed.
CalibrationIsWhole ==
  /\ \A l \in Limbs : g_cal[l].calibrated =>
       /\ Min(Onsets(curve[l])) < Min(Ends(curve[l]))
       /\ g_cal[l].dac_lo_mv = code_to_mv(Min(Onsets(curve[l])))
       /\ g_cal[l].dac_hi_mv = code_to_mv(Min(Ends(curve[l])))
  /\ answer.call = "calibrate" /\ answer.result =>
       \A l \in answer.limbs : g_cal[l].calibrated /\ dac[l] = 0

\* "ramps a limb's DAC up one code at a time from 0 until the ADC saturates",
\* "drives a limb by percentage (0-100) within its calibrated window"
\* (ad5593r_limb.h:8-11): neither a sweep nor a percentage drives a limb beyond
\* the code its ADC first saturates at, in spite of the roundings from codes to
\* millivolts and back, of percentages over 100, of sweeps cut off and of
\* windows kept across resets that fail. The one step that does is a sweep of a
\* chip that is not set up: nothing in ad5593r_limb_calibrate() asks, the ADC
\* never answers and the DAC goes to its last code.
Overdrives(l) == dac'[l] > dac[l] /\ dac'[l] > Min(Ends(curve[l]))

NeverBeyondSaturation == [][\A l \in Limbs : Overdrives(l) => todo # <<>> /\ ~SetUp]_vars

\* "worst case ~41s if the limb never saturates" (ad5593r_limb.h:33): a
\* calibration comes to its end.
CalibrationEnds == (todo # <<>>) ~> (todo = <<>>)
=============================================================================
