-------------------------- MODULE LimbDriveProofs --------------------------
(***************************************************************************)
(* The safety of the wire drivers, for any number of limbs, any code and   *)
(* millivolt range, any curves and any number of transfers lost: a reset   *)
(* that returns true has configured the chip, a calibration stores the     *)
(* limb's own window, and no step drives a limb beyond its saturation but  *)
(* one of a sweep through a chip that is not set up.                       *)
(*                                                                         *)
(* What makes these inductive is the progress of a call: the registers     *)
(* confirmed so far (Configuring), the codes a sweep has tried and what it *)
(* saw at them (Swept), the limbs a calibration has done (Turns, Done).    *)
(***************************************************************************)
EXTENDS LimbDrive, Arithmetic, SequenceTheorems, TLAPS

Names  == {Registers[i] : i \in DOMAIN Registers}
Window == [calibrated : BOOLEAN, dac_lo_mv : Nat, dac_hi_mv : Nat]

LTypes ==
  /\ regs \in [Names -> BOOLEAN] /\ dac \in [Limbs -> Nat] /\ curve \in [Limbs -> Curves]
  /\ reg \in 0 .. Len(Registers) /\ all_ok \in BOOLEAN /\ known \in BOOLEAN
  /\ g_cal \in [Limbs -> Window]
  /\ todo \in Seq(Limbs) /\ answer.limbs \subseteq Limbs

\* The registers written so far have been confirmed, as long as none has failed.
Configuring ==
  /\ known => reg = 0 /\ \A r \in Names : regs[r]
  /\ InReset /\ all_ok => \A i \in 1 .. reg - 1 : regs[Registers[i]]

\* The codes below Tried have been tried: none of the earlier ones saturated, and
\* lo_code is the first that was not dead.
Tried == IF hi_code = dac_code THEN dac_code + 1 ELSE dac_code

Swept(c) ==
  /\ dac_code \in 0 .. DAC_MAX_CODE
  /\ \A code \in 0 .. dac_code - 1 : c[code] # "saturated"
  /\ hi_code = dac_code => c[dac_code] = "saturated" \/ dac_code = DAC_MAX_CODE
  /\ \/ lo_code = -1 /\ \A code \in 0 .. Tried - 1 : c[code] = "dead"
     \/ /\ lo_code \in 0 .. Tried - 1 /\ c[lo_code] # "dead"
        /\ \A code \in 0 .. lo_code - 1 : c[code] = "dead"

\* What a sweep of a limb sees: its curve, or nothing at any code when the chip is
\* not set up. No register changes while one lasts.
Shown(l) == IF SetUp THEN curve[l] ELSE [code \in 0 .. DAC_MAX_CODE |-> "dead"]

Sweep ==
  /\ todo # <<>> => ~InReset /\ Swept(Shown(limb))
  /\ todo = <<>> => dac_code = 0 /\ lo_code = -1 /\ hi_code = -1 /\ ok

\* Each limb has one turn in a calibration, which answers after the last.
Turns ==
  /\ todo # <<>> => answer.call = "none"
  /\ \A i, j \in 1 .. Len(todo) : todo[i] = todo[j] => i = j
  /\ \A i \in 1 .. Len(todo) : todo[i] \notin answer.limbs

Finished(l) == g_cal[l].calibrated /\ dac[l] = 0

Done ==
  (IF todo = <<>> THEN answer.call = "calibrate" /\ answer.result ELSE ok) =>
    \A l \in answer.limbs : Finished(l)

Windows == \A l \in Limbs : g_cal[l].calibrated =>
  /\ Min(Onsets(curve[l])) < Min(Ends(curve[l]))
  /\ g_cal[l].dac_lo_mv = code_to_mv(Min(Onsets(curve[l])))
  /\ g_cal[l].dac_hi_mv = code_to_mv(Min(Ends(curve[l])))

LInv == LTypes /\ Configuring /\ Sweep /\ Turns /\ Done /\ Windows

-----------------------------------------------------------------------------
USE ChipAssumption, LimbAssumption

\* Where a limb saturates is a code.
LEMMA EndsFacts ==
  ASSUME NEW c
  PROVE  /\ Ends(c) \in SUBSET (0 .. DAC_MAX_CODE) /\ Ends(c) \in SUBSET Nat
         /\ Min(Ends(c)) \in Ends(c) /\ \A e \in Ends(c) : Min(Ends(c)) <= e
<1>1. Ends(c) \in SUBSET (0 .. DAC_MAX_CODE) /\ DAC_MAX_CODE \in Ends(c)
  BY DEF Ends
<1>2. Ends(c) \in SUBSET Nat
  BY <1>1
<1> QED
  BY <1>1, <1>2, MinFacts

\* Codes to millivolts and back: the way back never ends above the start
\* (ad5593r_limb.c).
LEMMA CodeToMv ==
  ASSUME NEW code \in 0 .. DAC_MAX_CODE
  PROVE  code_to_mv(code) \in Nat
<1>1. code * MAX_MV \in Nat
  OBVIOUS
<1> QED
  BY <1>1, DivBounds DEF code_to_mv

LEMMA CodeToMvMonotone ==
  ASSUME NEW a \in 0 .. DAC_MAX_CODE, NEW b \in 0 .. DAC_MAX_CODE, a <= b
  PROVE  code_to_mv(a) <= code_to_mv(b)
<1>1. MAX_MV * a \in Nat /\ MAX_MV * a <= MAX_MV * b
  BY TimesMonotone
<1>2. MAX_MV * a = a * MAX_MV /\ MAX_MV * b = b * MAX_MV /\ MAX_MV * b \in Nat
  OBVIOUS
<1> QED
  BY <1>1, <1>2, DivMonotone DEF code_to_mv

LEMMA RoundTrip ==
  ASSUME NEW code \in 0 .. DAC_MAX_CODE, NEW mv \in Nat, mv <= code_to_mv(code)
  PROVE  mv_to_code(mv) \in 0 .. code
<1> DEFINE q == code_to_mv(code)
           m == Min({mv, MAX_MV})
<1>1. q \in Nat /\ DAC_MAX_CODE * q <= code * MAX_MV
  <2>1. code * MAX_MV \in Nat
    OBVIOUS
  <2> QED
    BY <2>1, DivBounds DEF code_to_mv
<1>2. m \in Nat /\ m <= q
  <2>1. {mv, MAX_MV} \in SUBSET Nat
    OBVIOUS
  <2>2. m \in {mv, MAX_MV} /\ \A y \in {mv, MAX_MV} : m <= y
    BY <2>1, MinFacts
  <2> HIDE DEF m
  <2> QED
    BY <1>1, <2>2
<1> HIDE DEF q, m
<1>3. DAC_MAX_CODE * m \in Nat /\ DAC_MAX_CODE * m <= DAC_MAX_CODE * q
  BY <1>1, <1>2, TimesMonotone
<1>4. m * DAC_MAX_CODE = DAC_MAX_CODE * m /\ DAC_MAX_CODE * q \in Nat
      /\ code * MAX_MV = MAX_MV * code /\ MAX_MV * code \in Nat
  BY <1>1, <1>2
<1>5. m * DAC_MAX_CODE \in Nat /\ m * DAC_MAX_CODE < MAX_MV * code + MAX_MV
  BY <1>1, <1>3, <1>4
<1>6. (m * DAC_MAX_CODE) \div MAX_MV <= code /\ (m * DAC_MAX_CODE) \div MAX_MV \in Nat
  BY <1>5, DivLeast, DivBounds
<1> QED
  BY <1>6 DEF mv_to_code, m

\* A DAC takes a code in range as it is.
LEMMA SetDac ==
  ASSUME LTypes, NEW l \in Limbs, NEW code \in 0 .. DAC_MAX_CODE
  PROVE  ad5593r_set_dac(l, code) = [dac EXCEPT ![l] = code]
<1>1. code % (DAC_MAX_CODE + 1) = code
  BY SmallMod
<1> QED
  BY <1>1 DEF ad5593r_set_dac, Wrapped

-----------------------------------------------------------------------------
LEMMA InitInv == Init => LInv
<1> SUFFICES ASSUME Init PROVE LInv
  OBVIOUS
<1> USE DEF Init, IoInit
<1>1. LTypes
  <2>1. regs \in [Names -> BOOLEAN]
    BY DEF Nothing, Names
  <2>2. dac \in [Limbs -> Nat]
    BY DEF AllOff
  <2>3. reg \in 0 .. Len(Registers)
    BY DEF Registers
  <2>4. g_cal \in [Limbs -> Window] /\ todo \in Seq(Limbs) /\ answer.limbs \subseteq Limbs
    BY DEF Uncalibrated, Window, Answer
  <2> QED
    BY <2>1, <2>2, <2>3, <2>4 DEF LTypes
<1>2. Done
  BY DEF Done, Answer
<1> QED
  BY <1>1, <1>2 DEF LInv, Configuring, Sweep, Turns, Windows, Uncalibrated

\* A reset command starts over.
LEMMA ResetStep ==
  ASSUME LInv, UserResets \/ Restart
  PROVE  LInv'
<1>1. /\ reg' = 1 /\ all_ok' = TRUE /\ known' = FALSE /\ UNCHANGED curve
      /\ regs' \in {regs, Nothing} /\ dac' \in {dac, AllOff}
      /\ answer' = Answer("none", {}, FALSE)
      /\ todo' = <<>> /\ dac_code' = 0 /\ lo_code' = -1 /\ hi_code' = -1 /\ ok' = TRUE
      /\ g_cal' \in {g_cal, [l \in Limbs |-> Uncalibrated]}
  BY DEF UserResets, Restart, ad5593r_reset, NoSweep, chip, sweep, LInv, Sweep
<1>2. LTypes'
  <2>1. Nothing \in [Names -> BOOLEAN] /\ AllOff \in [Limbs -> Nat]
        /\ [l \in Limbs |-> Uncalibrated] \in [Limbs -> Window]
    BY DEF Nothing, Names, AllOff, Uncalibrated, Window
  <2>2. reg' \in 0 .. Len(Registers)
    BY <1>1 DEF Registers
  <2>3. answer'.limbs = {}
    BY <1>1 DEF Answer
  <2>4. regs' \in [Names -> BOOLEAN] /\ dac' \in [Limbs -> Nat] /\ curve' \in [Limbs -> Curves]
        /\ g_cal' \in [Limbs -> Window]
    BY <1>1, <2>1 DEF LInv, LTypes
  <2>5. todo' \in Seq(Limbs)
    BY <1>1
  <2> QED
    BY <1>1, <2>2, <2>3, <2>4, <2>5 DEF LTypes
<1>3. Configuring' /\ Sweep' /\ Turns'
  BY <1>1 DEF Configuring, Sweep, Turns
<1>4. Done'
  BY <1>1 DEF Done, Answer
<1>5. Windows'
  BY <1>1 DEF LInv, Windows, Uncalibrated
<1> QED
  BY <1>2, <1>3, <1>4, <1>5 DEF LInv

\* A register is confirmed before the next is written.
LEMMA ResettingStep ==
  ASSUME LInv, Resetting
  PROVE  LInv'
<1>1. /\ reg \in 1 .. 6 /\ Len(Registers) = 6 /\ ~known
      /\ UNCHANGED <<dac, sequence, curve, g_cal, sweep, answer>>
  BY DEF Resetting, ad5593r_write_reg_verified, InReset, Registers, LInv, LTypes, Configuring
<1>2. PICK okay \in BOOLEAN :
        /\ Attempt(Registers[reg], okay)
        /\ IF okay \/ attempt = 2
           THEN /\ all_ok' = (all_ok /\ okay)
                /\ reg' = IF reg = 6 THEN 0 ELSE reg + 1
                /\ known' = (reg = 6 /\ all_ok')
           ELSE UNCHANGED <<reg, all_ok, known>>
  BY <1>1 DEF Resetting, ad5593r_write_reg_verified
<1>3. /\ regs' = regs \/ regs' = [regs EXCEPT ![Registers[reg]] = TRUE]
      /\ okay => regs'[Registers[reg]]
  BY <1>2 DEF Attempt, Landed, Dropped, Confirmed
<1>4. regs' \in [Names -> BOOLEAN] /\ \A r \in Names : regs[r] => regs'[r]
  BY <1>3 DEF LInv, LTypes
<1>5. reg' \in 0 .. Len(Registers) /\ all_ok' \in BOOLEAN /\ known' \in BOOLEAN
  BY <1>1, <1>2 DEF LInv, LTypes
<1>6. LTypes'
  BY <1>1, <1>4, <1>5 DEF LInv, LTypes, sweep
<1>7. \A i \in 1 .. 6 : Registers[i] \in Names
  BY <1>1 DEF Names, Registers
<1>8. all_ok => \A i \in 1 .. reg - 1 : regs'[Registers[i]]
  BY <1>1, <1>4, <1>7 DEF LInv, Configuring, InReset
<1>9. Configuring'
  <2>1. CASE okay \/ attempt = 2
    <3>1. /\ all_ok' => all_ok /\ okay
          /\ reg' = IF reg = 6 THEN 0 ELSE reg + 1
          /\ known' = (reg = 6 /\ all_ok')
      BY <1>2, <2>1
    <3>2. ASSUME all_ok', NEW i \in 1 .. reg
          PROVE  regs'[Registers[i]]
      <4>1. CASE i = reg
        BY <1>3, <3>1, <3>2, <4>1
      <4>2. CASE i # reg
        <5>1. i \in 1 .. reg - 1
          BY <1>1, <4>2
        <5> QED
          BY <1>8, <3>1, <3>2, <5>1
      <4> QED
        BY <4>1, <4>2
    <3>3. known' => reg' = 0 /\ \A r \in Names : regs'[r]
      <4>1. DOMAIN Registers = 1 .. 6
        BY DEF Registers
      <4> QED
        BY <3>1, <3>2, <4>1 DEF Names
    <3>4. ASSUME reg' # 0, all_ok'
          PROVE  \A i \in 1 .. reg' - 1 : regs'[Registers[i]]
      <4>1. reg' - 1 = reg
        BY <1>1, <3>1, <3>4
      <4> QED
        BY <3>2, <3>4, <4>1
    <3> QED
      BY <3>3, <3>4 DEF Configuring, InReset
  <2>2. CASE ~(okay \/ attempt = 2)
    BY <1>1, <1>2, <1>8, <2>2 DEF Configuring, InReset
  <2> QED
    BY <2>1, <2>2
<1>10. Sweep' /\ Turns' /\ Done' /\ Windows'
  <2>1. todo = <<>>
    BY <1>1 DEF LInv, Sweep, InReset
  <2> QED
    BY <1>1, <2>1 DEF LInv, Sweep, Turns, Done, Finished, Windows, sweep
<1> QED
  BY <1>6, <1>9, <1>10 DEF LInv

\* Reading changes nothing that matters here, and so does a step that changes
\* nothing at all.
LEMMA ReadsStep ==
  ASSUME LInv, UserReads \/ UNCHANGED vars
  PROVE  LInv'
<1>1. /\ regs' = regs /\ dac' = dac /\ curve' = curve
      /\ reg' = reg /\ all_ok' = all_ok /\ known' = known
      /\ g_cal' = g_cal /\ todo' = todo /\ dac_code' = dac_code
      /\ lo_code' = lo_code /\ hi_code' = hi_code /\ ok' = ok /\ answer' = answer
  BY DEF UserReads, ad5593r_read_temp, ad5593r_read_registers, chip, resetting, sweep, vars, io
<1>2. LTypes' /\ Configuring'
  BY <1>1 DEF LInv, LTypes, Configuring, InReset
<1>3. Sweep'
  BY <1>1 DEF LInv, Sweep, Swept, Tried, limb, InReset, Shown, SetUp
<1>4. Turns' /\ Done' /\ Windows'
  BY <1>1 DEF LInv, Turns, Done, Finished, Windows
<1> QED
  BY <1>2, <1>3, <1>4 DEF LInv

\* A calibration begins with no limb done and each of its limbs once.
LEMMA CalibrateStep ==
  ASSUME LInv, NEW limbs \in Calibrations, ad5593r_limb_calibrate(limbs)
  PROVE  LInv'
<1>1. /\ regs' = regs /\ dac' = dac /\ curve' = curve
      /\ reg' = reg /\ all_ok' = all_ok /\ known' = known
      /\ g_cal' = g_cal /\ todo' = limbs /\ dac_code' = dac_code
      /\ lo_code' = lo_code /\ hi_code' = hi_code /\ ok' = ok
      /\ answer' = Answer("none", {}, FALSE)
      /\ ~InReset /\ todo = <<>>
  BY DEF ad5593r_limb_calibrate, Ready, io, chip, resetting
<1>2. limbs \in Seq(Limbs) /\ limbs # <<>>
  <2>1. ASSUME NEW l \in Limbs, limbs = <<l>>
        PROVE  limbs \in Seq(Limbs) /\ limbs # <<>>
    <3>1. <<l>> \in Seq(Limbs) /\ Len(<<l>>) = 1
      OBVIOUS
    <3> QED
      BY <2>1, <3>1
  <2>2. CASE limbs = [i \in 1 .. LIMB_COUNT |-> i - 1]
    <3>1. limbs \in [1 .. LIMB_COUNT -> Limbs]
      BY <2>2 DEF Limbs
    <3>2. limbs \in Seq(Limbs) /\ Len(limbs) = LIMB_COUNT
      BY <3>1, LenProperties, IsASeq
    <3> QED
      BY <3>2
  <2> QED
    BY <2>1, <2>2 DEF Calibrations
<1>3. \A i, j \in 1 .. Len(limbs) : limbs[i] = limbs[j] => i = j
  <2>1. CASE limbs \in {<<l>> : l \in Limbs}
    BY <2>1
  <2>2. CASE limbs = [i \in 1 .. LIMB_COUNT |-> i - 1]
    <3>1. Len(limbs) = LIMB_COUNT
      BY <1>2, <2>2, LenProperties
    <3> QED
      BY <2>2, <3>1
  <2> QED
    BY <2>1, <2>2 DEF Calibrations
<1>4. LTypes' /\ Configuring'
  BY <1>1, <1>2 DEF LInv, LTypes, Configuring, InReset, Answer
<1>5. Turns'
  BY <1>1, <1>3 DEF Turns, Answer
<1>6. Done'
  BY <1>1 DEF Done, Answer
<1>7. Windows'
  BY <1>1 DEF LInv, Windows
<1>8. Sweep'
  <2>1. dac_code = 0 /\ lo_code = -1 /\ hi_code = -1
    BY <1>1 DEF LInv, Sweep
  <2> QED
    BY <1>1, <1>2, <2>1 DEF Sweep, Swept, Tried, InReset
<1> QED
  BY <1>4, <1>5, <1>6, <1>7, <1>8 DEF LInv

-----------------------------------------------------------------------------
\* A write of one DAC changes it, to the code, or nothing.
LEMMA DriveOne ==
  ASSUME LTypes, NEW l \in Limbs, NEW code \in 0 .. DAC_MAX_CODE, NEW acknowledged \in BOOLEAN,
         DacWrite(l, code, acknowledged)
  PROVE  /\ dac' \in {dac, [dac EXCEPT ![l] = code]} /\ dac' \in [Limbs -> Nat]
         /\ acknowledged => dac' = [dac EXCEPT ![l] = code]
<1>1. dac \in [Limbs -> Nat] /\ ad5593r_set_dac(l, code) = [dac EXCEPT ![l] = code]
  BY SetDac DEF LTypes
<1> QED
  BY <1>1 DEF DacWrite

\* Where a sweep stands is a code, and no further than where the limb saturates
\* if the chip is set up.
LEMMA SweepBelow ==
  ASSUME LInv, todo # <<>>
  PROVE  /\ limb \in Limbs /\ Swept(Shown(limb)) /\ ~InReset
         /\ dac_code \in 0 .. DAC_MAX_CODE
         /\ SetUp => dac_code <= Min(Ends(curve[limb]))
<1>1. limb \in Limbs
  BY HeadTailProperties DEF LInv, LTypes, limb
<1>2. Swept(Shown(limb)) /\ ~InReset
  BY <1>1 DEF LInv, LTypes, Sweep
<1>3. dac_code \in 0 .. DAC_MAX_CODE
  BY <1>2 DEF Swept
<1>4. ASSUME SetUp
      PROVE  dac_code <= Min(Ends(curve[limb]))
  <2> DEFINE m == Min(Ends(curve[limb]))
  <2>1. m \in Ends(curve[limb]) /\ m \in 0 .. DAC_MAX_CODE
    BY EndsFacts
  <2>2. m = DAC_MAX_CODE \/ curve[limb][m] = "saturated"
    BY <2>1 DEF Ends
  <2> HIDE DEF m
  <2>3. \A code \in 0 .. dac_code - 1 : curve[limb][code] # "saturated"
    BY <1>2, <1>4 DEF Swept, Shown
  <2>4. dac_code <= m
    BY <1>3, <2>1, <2>2, <2>3
  <2> QED
    BY <2>4 DEF m
<1> QED
  BY <1>1, <1>2, <1>3, <1>4

\* A limb's turn is over: it is the only one added to those done, and the next
\* sweep starts afresh.
LEMMA LimbDoneStep ==
  ASSUME LInv, todo # <<>>, NEW success \in BOOLEAN, LimbDone(success), reg' = reg
  PROVE  /\ todo' \in Seq(Limbs) /\ answer'.limbs = answer.limbs \cup {limb}
         /\ answer'.limbs \subseteq Limbs /\ limb \notin answer.limbs
         /\ Sweep' /\ Turns'
         /\ (IF todo' = <<>> THEN answer'.call = "calibrate" /\ answer'.result ELSE ok')
              => ok /\ success
<1>1. /\ limb \in Limbs /\ limb = todo[1] /\ Tail(todo) \in Seq(Limbs) /\ todo' = Tail(todo)
      /\ Len(todo') = Len(todo) - 1 /\ Len(todo) \in Nat /\ Len(todo) >= 1
      /\ \A i \in 1 .. Len(todo') : todo'[i] = todo[i + 1]
  BY HeadTailProperties, EmptySeq DEF LInv, LTypes, LimbDone, limb
<1>2. answer'.limbs = answer.limbs \cup {limb}
  BY DEF LimbDone, Answer
<1>3. limb \notin answer.limbs
  BY <1>1 DEF LInv, Turns
<1>4. answer'.limbs \subseteq Limbs
  BY <1>1, <1>2 DEF LInv, LTypes
<1>5. Turns'
  <2>1. ASSUME NEW i \in 1 .. Len(todo'), NEW j \in 1 .. Len(todo'), todo'[i] = todo'[j]
        PROVE  i = j
    <3>1. i + 1 \in 1 .. Len(todo) /\ j + 1 \in 1 .. Len(todo) /\ todo[i + 1] = todo[j + 1]
      BY <1>1, <2>1
    <3>2. i + 1 = j + 1
      BY <3>1 DEF LInv, Turns
    <3> QED
      BY <3>2
  <2>2. ASSUME NEW i \in 1 .. Len(todo')
        PROVE  todo'[i] \notin answer'.limbs
    <3>1. i + 1 \in 1 .. Len(todo) /\ 1 \in 1 .. Len(todo) /\ i + 1 # 1 /\ todo'[i] = todo[i + 1]
      BY <1>1
    <3>2. todo[i + 1] \notin answer.limbs /\ todo[i + 1] # todo[1]
      BY <3>1 DEF LInv, Turns
    <3> QED
      BY <1>1, <1>2, <3>1, <3>2
  <2>3. todo' # <<>> => answer'.call = "none"
    BY DEF LimbDone, Answer
  <2> QED
    BY <2>1, <2>2, <2>3 DEF Turns
<1>6. Sweep'
  <2>1. dac_code' = 0 /\ lo_code' = -1 /\ hi_code' = -1 /\ (todo' = <<>> => ok') /\ ~InReset'
    BY SweepBelow DEF LimbDone, InReset
  <2> QED
    BY <2>1 DEF Sweep, Swept, Tried
<1>7. (IF todo' = <<>> THEN answer'.call = "calibrate" /\ answer'.result ELSE ok') => ok /\ success
  BY DEF LimbDone, Answer
<1> QED
  BY <1>1, <1>2, <1>3, <1>4, <1>5, <1>6, <1>7

\* A transfer fails: the limb's DAC is left at 0, at the code it had, or at the
\* sweep's.
LEMMA SweepFailsStep ==
  ASSUME LInv, SweepFails
  PROVE  LInv'
<1>1. /\ todo # <<>> /\ LimbDone(FALSE) /\ known' = known /\ curve' = curve
      /\ regs' = regs /\ reg' = reg /\ all_ok' = all_ok /\ g_cal' = g_cal
      /\ dac' \in {dac, ad5593r_set_dac(limb, 0), ad5593r_set_dac(limb, dac_code)}
  BY DEF SweepFails, Sweeping, resetting
<1>2. limb \in Limbs /\ dac_code \in 0 .. DAC_MAX_CODE /\ 0 \in 0 .. DAC_MAX_CODE /\ LTypes
  BY <1>1, SweepBelow DEF LInv
<1>3. dac' \in [Limbs -> Nat]
  <2>1. dac' \in {dac, [dac EXCEPT ![limb] = 0], [dac EXCEPT ![limb] = dac_code]}
    BY <1>1, <1>2, SetDac
  <2>2. dac \in [Limbs -> Nat] /\ dac_code \in Nat
    BY <1>2 DEF LTypes
  <2> QED
    BY ONLY <1>2, <2>1, <2>2
<1>4. /\ todo' \in Seq(Limbs) /\ answer'.limbs \subseteq Limbs /\ Sweep' /\ Turns'
      /\ ~ (IF todo' = <<>> THEN answer'.call = "calibrate" /\ answer'.result ELSE ok')
  BY <1>1, LimbDoneStep
<1>5. LTypes'
  BY <1>1, <1>3, <1>4 DEF LInv, LTypes
<1>6. Configuring' /\ Windows'
  BY <1>1 DEF LInv, Configuring, Windows, InReset
<1>7. Done'
  BY <1>4 DEF Done
<1> QED
  BY <1>4, <1>5, <1>6, <1>7 DEF LInv

\* A turn of the sweep tries one more code.
LEMMA SweepTurnStep ==
  ASSUME LInv, SweepTurn
  PROVE  LInv'
<1> DEFINE adc == Converted(sequence', dac')
           c   == Shown(limb)
<1>1. /\ todo # <<>> /\ hi_code # dac_code /\ dac' = ad5593r_set_dac(limb, dac_code)
      /\ lo_code' = IF lo_code = -1 /\ adc # "dead" THEN dac_code ELSE lo_code
      /\ hi_code' = dac_code /\ sequence' = limb
      /\ dac_code' = IF adc = "saturated" \/ dac_code >= DAC_MAX_CODE THEN dac_code
                     ELSE (dac_code + 1) % CODES
      /\ known' = known /\ curve' = curve /\ regs' = regs /\ reg' = reg /\ all_ok' = all_ok
      /\ g_cal' = g_cal /\ todo' = todo /\ ok' = ok /\ answer' = answer
  BY DEF SweepTurn, Sweeping, resetting, LastCode
<1>2. limb \in Limbs /\ dac_code \in 0 .. DAC_MAX_CODE /\ Swept(c) /\ ~InReset /\ LTypes
  BY <1>1, SweepBelow DEF LInv
<1>3. dac' \in [Limbs -> Nat] /\ dac' = [dac EXCEPT ![limb] = dac_code]
  BY <1>1, <1>2, SetDac DEF LInv, LTypes
<1>4. adc = c[dac_code] /\ c = Shown(limb)'
  <2>1. dac'[limb] = dac_code
    BY <1>2, <1>3 DEF LInv, LTypes
  <2>2. SetUp' = SetUp /\ curve' = curve /\ limb' = limb
    BY <1>1 DEF SetUp, limb
  <2>3. CASE SetUp
    BY <1>1, <2>1, <2>2, <2>3 DEF Converted, Shown
  <2>4. CASE ~SetUp
    BY <1>1, <1>2, <2>1, <2>2, <2>4 DEF Converted, Shown
  <2> QED
    BY <2>3, <2>4
<1>5. LTypes'
  BY <1>1, <1>3 DEF LInv, LTypes
<1>6. Configuring' /\ Windows' /\ Turns'
  BY <1>1 DEF LInv, Configuring, Windows, Turns, InReset
<1>7. Done'
  <2>1. limb \notin answer.limbs
    <3>1. limb = todo[1] /\ 1 \in 1 .. Len(todo)
      BY <1>1, HeadTailProperties, EmptySeq DEF LInv, LTypes, limb
    <3> QED
      BY <3>1 DEF LInv, Turns
  <2>2. \A l \in answer.limbs : Finished(l) => Finished(l)'
    BY <1>1, <1>3, <2>1 DEF LInv, LTypes, Finished
  <2> QED
    BY <1>1, <2>2 DEF LInv, Done
<1>8. Sweep'
  <2> HIDE DEF c
  <2> DEFINE n == dac_code
  <2>1. (lo_code = -1 \/ lo_code \in 0 .. n - 1)
        /\ (lo_code = -1 => \A code \in 0 .. n - 1 : c[code] = "dead")
        /\ (lo_code # -1 => c[lo_code] # "dead" /\ \A code \in 0 .. lo_code - 1 : c[code] = "dead")
        /\ n \in 0 .. DAC_MAX_CODE /\ \A code \in 0 .. n - 1 : c[code] # "saturated"
    BY <1>1, <1>2 DEF Swept, Tried
  <2>2. /\ lo_code' = IF lo_code = -1 /\ c[n] # "dead" THEN n ELSE lo_code
        /\ hi_code' = n /\ ~InReset' /\ Shown(limb)' = c
    BY <1>1, <1>2, <1>4 DEF InReset
  <2>3. CASE c[n] = "saturated" \/ n = DAC_MAX_CODE
    <3>1. dac_code' = n
      BY <1>1, <1>2, <1>4, <2>3
    <3>2. Tried' = n + 1
      BY <2>2, <3>1 DEF Tried
    <3>3. Swept(Shown(limb))'
      BY <2>1, <2>2, <2>3, <3>1, <3>2, <1>1 DEF Swept
    <3> QED
      BY <1>1, <1>2, <3>3 DEF Sweep, InReset
  <2>4. CASE c[n] # "saturated" /\ n # DAC_MAX_CODE
    <3>1. dac_code' = n + 1
      <4>1. n + 1 \in Nat /\ n + 1 < CODES
        BY <1>2, <2>4
      <4>2. (n + 1) % CODES = n + 1
        BY <4>1, SmallMod
      <4>3. adc # "saturated" /\ ~(n >= DAC_MAX_CODE)
        BY <1>2, <1>4, <2>4
      <4>4. dac_code' = (n + 1) % CODES
        BY ONLY <1>1, <4>3
      <4> QED
        BY <4>2, <4>4
    <3>2. Tried' = n + 1
      BY <2>1, <2>2, <3>1 DEF Tried
    <3>3. Swept(Shown(limb))'
      BY <2>1, <2>2, <2>4, <3>1, <3>2, <1>1 DEF Swept
    <3> QED
      BY <1>1, <1>2, <3>3 DEF Sweep, InReset
  <2> QED
    BY <2>3, <2>4
<1> QED
  BY <1>5, <1>6, <1>7, <1>8 DEF LInv

\* The end of a sweep: what it saw is the limb's window.
LEMMA WindowFound ==
  ASSUME LInv, todo # <<>>, hi_code = dac_code, lo_code >= 0, hi_code > lo_code
  PROVE  /\ Min(Onsets(curve[limb])) = lo_code /\ Min(Ends(curve[limb])) = hi_code
         /\ lo_code \in 0 .. DAC_MAX_CODE /\ hi_code \in 0 .. DAC_MAX_CODE
<1> DEFINE c == Shown(limb)
<1>1. Swept(c) /\ dac_code \in 0 .. DAC_MAX_CODE
  BY SweepBelow
<1>2. /\ lo_code \in 0 .. dac_code /\ c[lo_code] # "dead"
      /\ \A code \in 0 .. lo_code - 1 : c[code] = "dead"
      /\ c[dac_code] = "saturated" \/ dac_code = DAC_MAX_CODE
      /\ \A code \in 0 .. dac_code - 1 : c[code] # "saturated"
  BY <1>1 DEF Swept, Tried
<1>0. c = curve[limb]
  BY <1>1, <1>2 DEF Shown
<1> HIDE DEF c
<1>3. Min(Onsets(c)) = lo_code
  <2>1. lo_code \in Onsets(c) /\ Onsets(c) \in SUBSET Nat
    BY <1>1, <1>2 DEF Onsets
  <2>2. \A y \in Onsets(c) : lo_code <= y
    BY <1>1, <1>2 DEF Onsets
  <2> QED
    BY <2>1, <2>2, MinIs
<1>4. Min(Ends(c)) = dac_code
  <2>1. dac_code \in Ends(c) /\ Ends(c) \in SUBSET Nat
    BY <1>1, <1>2 DEF Ends
  <2>2. \A y \in Ends(c) : dac_code <= y
    BY <1>1, <1>2 DEF Ends
  <2> QED
    BY <2>1, <2>2, MinIs
<1> QED
  BY <1>0, <1>1, <1>2, <1>3, <1>4

\* A limb is calibrated when its DAC is back at 0 and its sweep found a window,
\* and keeps what it had otherwise.
LEMMA SweepEndStep ==
  ASSUME LInv, SweepEnd
  PROVE  LInv'
<1> DEFINE window == [calibrated |-> TRUE, dac_lo_mv |-> code_to_mv(lo_code),
                      dac_hi_mv |-> code_to_mv(hi_code)]
<1>1. PICK reset_ok \in BOOLEAN :
        /\ DacWrite(limb, 0, reset_ok)
        /\ g_cal' = IF Usable(reset_ok) THEN [g_cal EXCEPT ![limb] = window] ELSE g_cal
        /\ LimbDone(Usable(reset_ok))
  BY DEF SweepEnd
<1>2. /\ todo # <<>> /\ hi_code = dac_code
      /\ known' = known /\ curve' = curve /\ regs' = regs /\ reg' = reg /\ all_ok' = all_ok
  BY DEF SweepEnd, resetting
<1>3. limb \in Limbs /\ 0 \in 0 .. DAC_MAX_CODE
  BY <1>2, SweepBelow
<1> DEFINE success == Usable(reset_ok)
<1>4. success \in BOOLEAN /\ (success => reset_ok /\ lo_code >= 0 /\ hi_code > lo_code)
  BY DEF Usable
<1>5. g_cal' = IF success THEN [g_cal EXCEPT ![limb] = window] ELSE g_cal
  BY <1>1
<1>6. LimbDone(success)
  BY <1>1
<1> HIDE DEF success
<1>7. /\ dac' \in [Limbs -> Nat] /\ dac' \in {dac, [dac EXCEPT ![limb] = 0]}
      /\ reset_ok => dac' = [dac EXCEPT ![limb] = 0]
  BY <1>1, <1>3, DriveOne DEF LInv
<1>8. /\ todo' \in Seq(Limbs) /\ answer'.limbs = answer.limbs \cup {limb}
      /\ answer'.limbs \subseteq Limbs /\ limb \notin answer.limbs /\ Sweep' /\ Turns'
      /\ (IF todo' = <<>> THEN answer'.call = "calibrate" /\ answer'.result ELSE ok')
           => ok /\ success
  BY <1>2, <1>4, <1>6, LimbDoneStep
<1>9. success => /\ window \in Window
                 /\ Min(Onsets(curve[limb])) = lo_code /\ Min(Ends(curve[limb])) = hi_code
                 /\ lo_code < hi_code
  <2>1. CASE success
    <3>1. /\ Min(Onsets(curve[limb])) = lo_code /\ Min(Ends(curve[limb])) = hi_code
          /\ lo_code \in 0 .. DAC_MAX_CODE /\ hi_code \in 0 .. DAC_MAX_CODE /\ lo_code < hi_code
      BY <1>2, <1>4, <2>1, WindowFound
    <3>2. code_to_mv(lo_code) \in Nat /\ code_to_mv(hi_code) \in Nat
      BY <3>1, CodeToMv
    <3> QED
      BY <3>1, <3>2 DEF Window
  <2> QED
    BY <2>1
<1>10. LTypes'
  <2>1. g_cal' \in [Limbs -> Window]
    <3> HIDE DEF window
    <3> QED
      BY <1>3, <1>5, <1>9 DEF LInv, LTypes
  <2> QED
    BY <1>2, <1>7, <1>8, <2>1 DEF LInv, LTypes
<1>11. Configuring'
  BY <1>2 DEF LInv, Configuring, InReset
<1>12. Windows'
  <2>1. CASE ~success
    BY <1>2, <1>5, <2>1 DEF LInv, Windows
  <2>2. CASE success
    <3>1. \A l \in Limbs \ {limb} : g_cal'[l] = g_cal[l]
      BY <1>5, <2>2 DEF LInv, LTypes
    <3>2. g_cal'[limb] = window
      BY <1>3, <1>5, <2>2 DEF LInv, LTypes
    <3>3. ASSUME NEW l \in Limbs, g_cal'[l].calibrated
          PROVE  /\ Min(Onsets(curve[l])) < Min(Ends(curve[l]))
                 /\ g_cal'[l].dac_lo_mv = code_to_mv(Min(Onsets(curve[l])))
                 /\ g_cal'[l].dac_hi_mv = code_to_mv(Min(Ends(curve[l])))
      <4>1. CASE l = limb
        BY <1>9, <2>2, <3>2, <4>1
      <4>2. CASE l # limb
        BY <3>1, <3>3, <4>2 DEF LInv, Windows
      <4> QED
        BY <4>1, <4>2
    <3> QED
      BY <1>2, <3>3 DEF Windows
  <2> QED
    BY <2>1, <2>2
<1>13. Done'
  <2>1. ASSUME ok, success, NEW l \in answer'.limbs
        PROVE  Finished(l)'
    <3>1. CASE l = limb
      <4>1. g_cal'[limb] = window /\ dac'[limb] = 0
        BY <1>3, <1>4, <1>5, <1>7, <2>1 DEF LInv, LTypes
      <4> QED
        BY <3>1, <4>1 DEF Finished
    <3>2. CASE l # limb
      <4>1. l \in answer.limbs /\ l \in Limbs
        BY <1>8, <3>2
      <4>2. Finished(l)
        BY <1>2, <2>1, <4>1 DEF LInv, Done
      <4>3. g_cal'[l] = g_cal[l] /\ dac'[l] = dac[l]
        BY <1>4, <1>5, <1>7, <2>1, <3>2, <4>1 DEF LInv, LTypes
      <4> QED
        BY <4>2, <4>3 DEF Finished
    <3> QED
      BY <3>1, <3>2
  <2> QED
    BY <1>8, <2>1 DEF Done
<1> QED
  BY <1>8, <1>10, <1>11, <1>12, <1>13 DEF LInv

\* A percentage of the window is at or below its upper end, and the code for it
\* at or below the code that end was measured at.
LEMMA LevelBelow ==
  ASSUME LInv, NEW l \in Limbs, NEW pct \in Pcts, g_cal[l].calibrated
  PROVE  /\ mv_to_code(Level(l, pct)) \in 0 .. DAC_MAX_CODE
         /\ mv_to_code(Level(l, pct)) <= Min(Ends(curve[l]))
<1> DEFINE lo   == Min(Onsets(curve[l]))
           hi   == Min(Ends(curve[l]))
           low  == code_to_mv(lo)
           high == code_to_mv(hi)
<1>2. lo < hi /\ g_cal[l].dac_lo_mv = low /\ g_cal[l].dac_hi_mv = high
  BY DEF LInv, Windows
<1>3. hi \in 0 .. DAC_MAX_CODE /\ lo \in Nat
  <2>1. hi \in 0 .. DAC_MAX_CODE
    BY EndsFacts
  <2>2. Onsets(curve[l]) \in SUBSET Nat /\ DAC_MAX_CODE + 1 \in Onsets(curve[l])
    BY DEF Onsets
  <2> QED
    BY <2>1, <2>2, MinFacts
<1> HIDE DEF lo, hi
<1>4. low \in Nat /\ high \in Nat /\ low <= high
  BY <1>2, <1>3, CodeToMv, CodeToMvMonotone
<1> HIDE DEF low, high
<1>5. Level(l, pct) \in Nat /\ Level(l, pct) <= high
  <2> DEFINE span == high - low
             p    == Percent(pct)
  <2>1. span \in Nat
    BY <1>4
  <2>2. p \in 0 .. 100
    <3> DEFINE m == Min({pct, 100})
    <3>1. pct \in Nat /\ {pct, 100} \in SUBSET Nat /\ {pct, 100} # {}
      OBVIOUS
    <3>2. m \in {pct, 100} /\ \A y \in {pct, 100} : m <= y
      BY <3>1, MinFacts
    <3>3. p = m
      BY DEF Percent
    <3> HIDE DEF p, m
    <3>4. m \in 0 .. 100
      BY <3>1, <3>2
    <3> QED
      BY <3>3, <3>4
  <2> HIDE DEF span, p
  <2>3. (p * span) \div 100 \in 0 .. span /\ p * span = span * p
    BY <2>1, <2>2, PercentFits
  <2>4. Level(l, pct) = low + (span * p) \div 100
    BY <1>2 DEF Level, span, p
  <2>5. (span * p) \div 100 \in 0 .. span
    BY <2>3
  <2>6. ASSUME NEW x \in 0 .. span
        PROVE  low + x \in Nat /\ low + x <= high
    BY <1>4, <2>1, <2>6 DEF span
  <2> QED
    BY <2>4, <2>5, <2>6
<1>6. mv_to_code(Level(l, pct)) \in 0 .. hi
  BY <1>3, <1>5, RoundTrip DEF high
<1> QED
  BY <1>3, <1>6 DEF hi

LEMMA SetStep ==
  ASSUME LInv, NEW l \in Limbs, NEW pct \in Pcts, ad5593r_limb_set(l, pct)
  PROVE  LInv'
<1>1. PICK result \in BOOLEAN : DacWrite(l, mv_to_code(Level(l, pct)), result)
  BY DEF ad5593r_limb_set
<1>2. /\ g_cal[l].calibrated /\ todo = <<>>
      /\ answer'.call = "set" /\ answer'.limbs = {l}
      /\ known' = known /\ curve' = curve /\ regs' = regs /\ reg' = reg /\ all_ok' = all_ok
      /\ g_cal' = g_cal /\ todo' = todo /\ ok' = ok /\ dac_code' = dac_code
      /\ lo_code' = lo_code /\ hi_code' = hi_code
  BY DEF ad5593r_limb_set, Ready, resetting, sweep, Answer
<1>3. dac' \in [Limbs -> Nat]
  <2> DEFINE code == mv_to_code(Level(l, pct))
  <2>1. code \in 0 .. DAC_MAX_CODE
    BY <1>2, LevelBelow
  <2>2. DacWrite(l, code, result)
    BY <1>1
  <2> HIDE DEF code
  <2> QED
    BY <2>1, <2>2, DriveOne DEF LInv
<1>4. LTypes' /\ Configuring' /\ Windows'
  BY <1>2, <1>3 DEF LInv, LTypes, Configuring, Windows, InReset
<1>5. Sweep' /\ Turns' /\ Done'
  BY <1>2 DEF LInv, Sweep, Turns, Done
<1> QED
  BY <1>4, <1>5 DEF LInv

-----------------------------------------------------------------------------
LEMMA StepInv == LInv /\ [Next]_vars => LInv'
<1> SUFFICES ASSUME LInv, [Next]_vars PROVE LInv'
  OBVIOUS
<1>1. CASE UserResets \/ Restart
  BY <1>1, ResetStep
<1>2. CASE Resetting
  BY <1>2, ResettingStep
<1>3. CASE UserReads \/ UNCHANGED vars
  BY <1>3, ReadsStep
<1>4. ASSUME NEW limbs \in Calibrations, ad5593r_limb_calibrate(limbs) PROVE LInv'
  BY <1>4, CalibrateStep
<1>5. CASE Calibrating
  BY <1>5, SweepTurnStep, SweepFailsStep, SweepEndStep DEF Calibrating
<1>6. ASSUME NEW l \in Limbs, NEW pct \in Pcts, ad5593r_limb_set(l, pct) PROVE LInv'
  BY <1>6, SetStep
<1> QED
  BY <1>1, <1>2, <1>3, <1>4, <1>5, <1>6 DEF Next

LEMMA Invariance == Spec => []LInv
<1> QED
  BY InitInv, StepInv, PTL DEF Spec

\* A reset that returns true has all six registers in place, whichever transfers
\* failed on the way (ad5593r.c, ad5593r_reset).
THEOREM ResetIsWhole == Spec => []ResetConfigures
<1>1. LInv => ResetConfigures
  BY DEF LInv, LTypes, Configuring, ResetConfigures, SetUp
<1> QED
  BY <1>1, Invariance, PTL

\* What a calibration stores is the limb's own window, and one that returns true
\* leaves each of its limbs calibrated and off (ad5593r_limb.c,
\* ad5593r_limb_calibrate, ad5593r_limb_calibrate_all).
THEOREM CalibratedByItsCurve == Spec => []CalibrationIsWhole
<1>1. LInv => CalibrationIsWhole
  <2> SUFFICES ASSUME LInv PROVE CalibrationIsWhole
    OBVIOUS
  <2>1. answer.call = "calibrate" /\ answer.result => \A l \in answer.limbs : Finished(l)
    BY DEF LInv, Done, Turns
  <2> QED
    BY <2>1 DEF LInv, Windows, Finished, CalibrationIsWhole
<1> QED
  BY <1>1, Invariance, PTL

-----------------------------------------------------------------------------
\* A write of one DAC overdrives no limb when its code is within bounds.
LEMMA WithinBounds ==
  ASSUME LTypes, NEW d \in Limbs, NEW code \in 0 .. DAC_MAX_CODE,
         code <= Min(Ends(curve[d])), dac' \in {dac, [dac EXCEPT ![d] = code]},
         NEW l \in Limbs
  PROVE  ~Overdrives(l)
<1>1. dac \in [Limbs -> Nat]
  BY DEF LTypes
<1>2. CASE l = d /\ dac' = [dac EXCEPT ![d] = code]
  <2>1. dac'[l] = code
    BY <1>1, <1>2
  <2>2. Min(Ends(curve[l])) \in Nat
    BY EndsFacts
  <2> QED
    BY <1>2, <2>1, <2>2 DEF Overdrives
<1>3. CASE dac'[l] = dac[l]
  BY <1>1, <1>3 DEF Overdrives
<1> QED
  BY <1>1, <1>2, <1>3

\* The one code a sweep writes past a limb's saturation, it writes through a chip
\* that is not set up.
LEMMA SweepDrives ==
  ASSUME LInv, Calibrating, NEW l \in Limbs, Overdrives(l)
  PROVE  todo # <<>> /\ ~SetUp
<1>1. todo # <<>>
  BY DEF Calibrating, SweepTurn, SweepFails, SweepEnd, Sweeping
<1>2. /\ limb \in Limbs /\ dac_code \in 0 .. DAC_MAX_CODE /\ 0 \in 0 .. DAC_MAX_CODE
      /\ SetUp => dac_code <= Min(Ends(curve[limb]))
  BY <1>1, SweepBelow
<1>3. Min(Ends(curve[limb])) \in Nat /\ 0 <= Min(Ends(curve[limb]))
  BY EndsFacts
<1>4. LTypes
  BY DEF LInv
<1>5. dac' \in {dac, [dac EXCEPT ![limb] = 0], [dac EXCEPT ![limb] = dac_code]}
  <2>1. dac' \in {dac, ad5593r_set_dac(limb, 0), ad5593r_set_dac(limb, dac_code)}
    BY DEF Calibrating, SweepTurn, SweepFails, SweepEnd, DacWrite
  <2> QED
    BY <1>2, <1>4, <2>1, SetDac
<1>6. dac' \notin {dac, [dac EXCEPT ![limb] = 0]}
  BY <1>2, <1>3, <1>4, WithinBounds
<1>7. ~SetUp
  BY <1>2, <1>4, <1>5, <1>6, WithinBounds
<1> QED
  BY <1>1, <1>7

LEMMA StepDrives ==
  ASSUME LInv, Next, NEW l \in Limbs, Overdrives(l)
  PROVE  todo # <<>> /\ ~SetUp
<1>1. dac \in [Limbs -> Nat] /\ LTypes
  BY DEF LInv, LTypes
<1>2. dac'[l] > dac[l]
  BY DEF Overdrives
<1>3. CASE Calibrating
  BY <1>3, SweepDrives
<1>4. CASE UserResets \/ Restart
  <2>1. dac' \in {dac, AllOff}
    BY <1>4 DEF UserResets, Restart, ad5593r_reset, chip
  <2> QED
    BY <1>1, <1>2, <2>1 DEF AllOff
<1>5. CASE Resetting \/ UserReads \/ \E limbs \in Calibrations : ad5593r_limb_calibrate(limbs)
  <2>1. dac' = dac
    BY <1>5 DEF Resetting, ad5593r_write_reg_verified, UserReads, ad5593r_read_temp,
                ad5593r_read_registers, chip, ad5593r_limb_calibrate, io
  <2> QED
    BY <1>1, <1>2, <2>1
<1>6. ASSUME NEW d \in Limbs, NEW pct \in Pcts, ad5593r_limb_set(d, pct)
      PROVE  FALSE
  <2> DEFINE code == mv_to_code(Level(d, pct))
  <2>1. PICK result \in BOOLEAN : DacWrite(d, code, result)
    BY <1>6 DEF ad5593r_limb_set
  <2>2. code \in 0 .. DAC_MAX_CODE /\ code <= Min(Ends(curve[d]))
    BY <1>6, LevelBelow DEF ad5593r_limb_set
  <2> HIDE DEF code
  <2>3. dac' \in {dac, [dac EXCEPT ![d] = code]}
    BY <1>1, <2>1, <2>2, DriveOne
  <2> QED
    BY <1>1, <2>2, <2>3, WithinBounds
<1> QED
  BY <1>3, <1>4, <1>5, <1>6 DEF Next

\* No step drives a limb beyond the code its ADC first saturates at but one of a
\* sweep of a chip that is not set up (ad5593r_limb.c, ad5593r_limb_calibrate and
\* ad5593r_limb_set).
THEOREM NeverOverdriven == Spec => NeverBeyondSaturation
<1>1. LInv /\ [Next]_vars =>
        [\A l \in Limbs : Overdrives(l) => todo # <<>> /\ ~SetUp]_vars
  BY StepDrives
<1> QED
  BY <1>1, Invariance, PTL DEF Spec, NeverBeyondSaturation
=============================================================================
