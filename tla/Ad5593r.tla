------------------------------- MODULE Ad5593r -------------------------------
(***************************************************************************)
(* src/Robot/io/ad5593r/ad5593r.c: the driver of the chip that holds four  *)
(* DAC outputs and four ADC inputs, over I2C transfers that can go wrong.  *)
(*                                                                         *)
(* A call blocks until it returns, so a step is an attempt at one register *)
(* or one turn of a caller's loop: between two steps only the processor's  *)
(* own restart can come, which the chip does not notice.                   *)
(***************************************************************************)
EXTENDS Integers, Sequences

CONSTANTS
  LIMB_COUNT,      \* channels: DAC and ADC n belong to limb n
  DAC_MAX_CODE,
  Curves,          \* how a limb's ADC can answer to its DAC: "dead", "linear"
                   \*   or "saturated" by code
  MaxFaults        \* bound on the transfers that go wrong in a behaviour

ASSUME ChipAssumption ==
  /\ LIMB_COUNT \in Nat \ {0} /\ DAC_MAX_CODE \in Nat \ {0}
  /\ Curves \subseteq [0 .. DAC_MAX_CODE -> {"dead", "linear", "saturated"}]
  /\ MaxFaults \in Nat

Limbs == 0 .. LIMB_COUNT - 1

VARIABLES
  regs,       \* which registers hold what the driver wants in them
  settling,   \* no write yet since the chip was reset: it may drop the first
  dac,        \* the code each DAC holds
  sequence,   \* the channel selected for conversion
  curve,      \* the wires
  reg, attempt, all_ok, \* ad5593r_reset() under way: 0 when it is not
  known,      \* the last reset returned true
  faults

chip   == <<regs, settling, dac, sequence>>
resetting == <<reg, attempt, all_ok, known>>
io     == <<chip, curve, resetting, faults>>

\* The order in which ad5593r_reset() writes them.
Registers == <<"DAC_CONFIG", "ADC_CONFIG", "PULLDOWN", "GEN_CTRL", "LDAC_MODE", "PD_REF_CTRL">>

\* No channel selected, or the temperature.
NoChannel == -1

Nothing == [r \in {Registers[i] : i \in DOMAIN Registers} |-> FALSE]

AllOff == [l \in Limbs |-> 0]

SetUp == \A r \in DOMAIN regs : regs[r]

\* Power-on; bring-up calls ad5593r_init() first.
IoInit ==
  /\ regs = Nothing /\ settling = TRUE /\ dac = AllOff /\ sequence = NoChannel
  /\ curve \in [Limbs -> Curves]
  /\ reg = 1 /\ attempt = 1 /\ all_ok = TRUE /\ known = FALSE
  /\ faults = 0

\* n transfers that are not acknowledged, or do not arrive.
Lost(n) == faults + n <= MaxFaults /\ faults' = faults + n

(***************************************************************************)
(* ad5593r_reset(): the reset command, whose result nobody can use because *)
(* the chip never acknowledges its last byte, then six registers, each     *)
(* written until it reads back right, twice at most.                       *)
(***************************************************************************)
InReset == reg # 0

ad5593r_reset ==
  /\ reg' = 1 /\ attempt' = 1 /\ all_ok' = TRUE /\ known' = FALSE
  /\ \/ regs' = Nothing /\ dac' = AllOff /\ sequence' = NoChannel /\ settling' = TRUE /\ Lost(0)
     \/ Lost(1) /\ UNCHANGED chip
  /\ UNCHANGED curve

Landed(r) == regs' = [regs EXCEPT ![r] = TRUE] /\ settling' = FALSE
Dropped   == settling /\ settling' = FALSE /\ UNCHANGED regs

\* Mutant of Confirmed: an answer of any value will do.
ConfirmedAny(readback) == TRUE

Confirmed(readback) == readback

\* The write gets through or not, and so does reading it back.
Attempt(r, ok) ==
  \/ (Landed(r) \/ Dropped) /\ Lost(0) /\ ok = Confirmed(regs'[r])
  \/ (Landed(r) \/ Dropped) /\ Lost(1) /\ ok = FALSE
  \/ Lost(1) /\ ok = FALSE /\ settling' = FALSE /\ UNCHANGED regs

ad5593r_write_reg_verified ==
  /\ InReset
  /\ \E ok \in BOOLEAN :
       /\ Attempt(Registers[reg], ok)
       /\ IF ok \/ attempt = 2
          THEN LET over == reg = Len(Registers) IN
               /\ attempt' = 1
               /\ all_ok' = (all_ok /\ ok)
               /\ reg' = IF over THEN 0 ELSE reg + 1
               /\ known' = (over /\ all_ok')
          ELSE attempt' = 2 /\ UNCHANGED <<reg, all_ok, known>>
  /\ UNCHANGED <<dac, sequence, curve>>

(***************************************************************************)
(* Transfers of the other calls. A DAC write keeps the code's low bits.    *)
(***************************************************************************)
Wrapped(code) == code % (DAC_MAX_CODE + 1)

\* The DACs after a write to one of them.
ad5593r_set_dac(channel, code) == [dac EXCEPT ![channel] = Wrapped(code)]

\* A write that is acknowledged has landed; one that is not may have, too.
DacWrite(channel, code, acknowledged) ==
  /\ Lost(IF acknowledged THEN 0 ELSE 1)
  /\ \/ dac' = ad5593r_set_dac(channel, code)
     \/ ~acknowledged /\ UNCHANGED dac

\* What the ADC makes of the selected channel with the DACs at d. A chip that is
\* not set up, after a reset that failed, is taken to sense nothing.
Converted(channel, d) == IF SetUp THEN curve[channel][d[channel]] ELSE "dead"

\* Reading the temperature selects no channel.
ad5593r_read_temp ==
  /\ \/ sequence' = NoChannel /\ \E n \in 0 .. 1 : Lost(n)
     \/ UNCHANGED sequence /\ Lost(1)
  /\ UNCHANGED <<regs, settling, dac, curve, resetting>>

\* The status registers, or what a DAC holds.
ad5593r_read_registers == \E n \in 0 .. 1 : Lost(n) /\ UNCHANGED <<chip, curve, resetting>>
=============================================================================
