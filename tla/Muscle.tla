------------------------------- MODULE Muscle -------------------------------
(***************************************************************************)
(* src/Robot/limbs/muscle/muscle.c: the activation table and the scheduler *)
(* that packs one on-window per active muscle into the PWM frame.          *)
(*                                                                         *)
(* Everything runs in task context, one action to completion, except that  *)
(* the loop of schedule() is taken one channel at a time: each turn calls  *)
(* the board's set_window(), and the board's interrupts run in between.    *)
(* later(schedule) is the scheduler's queue; `pending` is the flag that    *)
(* keeps at most one schedule() queued.                                    *)
(***************************************************************************)
EXTENDS Integers, FiniteSets

CONSTANTS
  MUSCLE_LIMBS,    \* limbs the build can have (6)
  MUSCLE_FRAME,    \* counts per PWM frame (4096)
  Pcts             \* the activation arguments callers pass; may exceed 100

ASSUME LimbsAssumption == MUSCLE_LIMBS \in Nat \ {0}
ASSUME FrameAssumption == MUSCLE_FRAME \in Nat
ASSUME PctsAssumption  == Pcts \subseteq Nat

MUSCLE_PER_LIMB == 4                       \* W1/W2 and W3/W4 are antagonists
MUSCLE_COUNT    == MUSCLE_LIMBS * MUSCLE_PER_LIMB
Limbs           == 0 .. MUSCLE_LIMBS - 1
Channels        == 0 .. MUSCLE_COUNT - 1
LimbOf(ch)      == ch \div MUSCLE_PER_LIMB
Antagonist(ch)  == IF ch % 2 = 0 THEN ch + 1 ELSE ch - 1       \* ch ^ 1

VARIABLES
  fitted,      \* the set of fitted limbs (a bit mask in the code)
  act,         \* activation per channel, percent
  win_start,   \* last scheduled windows
  win_len,
  hw,          \* whether a board shim is bound
  pending,     \* schedule() is queued with later()
  loop,        \* channel schedule() is at; MUSCLE_COUNT when it is not running
  slot,        \* schedule()'s locals: the share of one muscle at 100 %,
  at,          \*   and where the next window starts
  stage,       \* windows handed to the board by set_window()
  board        \* windows the board latched at its last commit()

table == <<fitted, act>>
wins  == <<win_start, win_len>>
sched == <<loop, slot, at>>
shim  == <<stage, board>>
vars  == <<fitted, act, win_start, win_len, hw, pending, loop, slot, at, stage, board>>

AllOff     == [ch \in Channels |-> 0]
NoWindows  == [start |-> AllOff, len |-> AllOff]
Scheduling == loop < MUSCLE_COUNT

Init ==
  /\ fitted = {}
  /\ act = AllOff
  /\ win_start = AllOff /\ win_len = AllOff
  /\ hw = FALSE
  /\ pending = FALSE
  /\ loop = MUSCLE_COUNT /\ slot = 0 /\ at = 0
  /\ stage = NoWindows /\ board = NoWindows

limb_fitted(limb) == limb \in fitted
\* Mutant of Clamp: the limit is forgotten.
ClampNot(pct) == pct

Clamp(pct)        == IF pct > 100 THEN 100 ELSE pct

\* Every caller runs in task context, so never inside schedule()'s loop.
reschedule ==
  /\ ~Scheduling
  /\ pending' = TRUE
  /\ UNCHANGED <<win_start, win_len, loop, slot, at, stage, board>>

\* Mutant of muscle_relax: the table is cleared, schedule() is not queued.
RelaxUnscheduled ==
  /\ ~Scheduling
  /\ act' = AllOff
  /\ UNCHANGED <<fitted, win_start, win_len, hw, pending, loop, slot, at, stage, board>>

muscle_relax ==
  /\ act' = AllOff
  /\ reschedule
  /\ UNCHANGED <<fitted, hw>>

muscle_init(mask) ==
  /\ fitted' = mask
  /\ act' = AllOff
  /\ reschedule
  /\ UNCHANGED hw

\* Mutant of muscle_set_fitted: limbs taken away keep their activation.
RefitKeepsAct(mask) ==
  /\ fitted' = mask
  /\ reschedule
  /\ UNCHANGED <<act, hw>>

muscle_set_fitted(mask) ==
  /\ fitted' = mask
  /\ act' = [ch \in Channels |-> IF LimbOf(ch) \in mask THEN act[ch] ELSE 0]
  /\ reschedule
  /\ UNCHANGED hw

muscle_bind_hw ==
  /\ hw' = TRUE
  /\ reschedule
  /\ UNCHANGED table

\* Mutant of SetAct: the antagonist is not released.
SetActAlone(ch, pct) == [act EXCEPT ![ch] = pct]

\* The table after muscle_set: the channel set, its antagonist released.
SetAct(ch, pct) ==
  [c \in Channels |-> CASE c = ch -> pct
                        [] c = Antagonist(ch) /\ pct > 0 -> 0
                        [] OTHER -> act[c]]

\* muscle_set with an address it accepts. The other calls return false and
\* change nothing.
muscle_set(muscle, pct) ==
  LET ch == muscle - 1 IN
  /\ ch \in Channels
  /\ limb_fitted(LimbOf(ch))
  /\ act' = SetAct(ch, Clamp(pct))
  /\ reschedule
  /\ UNCHANGED <<fitted, hw>>

limb_set(limb, muscle, pct) ==
  /\ limb \in 1 .. MUSCLE_LIMBS
  /\ muscle \in 1 .. MUSCLE_PER_LIMB
  /\ muscle_set((limb - 1) * MUSCLE_PER_LIMB + muscle, pct)

(***************************************************************************)
(* schedule(): start, one turn of the loop per channel, and the commit     *)
(* that follows the last one.                                              *)
(***************************************************************************)
\* Mutant of Slot: one share for each limb, not for each of its pairs.
SlotPerLimb(n) == IF n = 0 THEN 0 ELSE MUSCLE_FRAME \div n

Slot(n) == IF n = 0 THEN 0 ELSE MUSCLE_FRAME \div (2 * n)

ScheduleBegin ==
  /\ pending /\ ~Scheduling
  /\ pending' = FALSE
  /\ loop' = 0
  /\ slot' = Slot(Cardinality(fitted))
  /\ at' = 0
  /\ UNCHANGED <<fitted, act, win_start, win_len, hw, stage, board>>

WindowLen(ch) == (act[ch] * slot) \div 100

\* Mutant of set_window: an empty window is not handed over.
SetWindowIfOn(ch, start, len) ==
  IF len = 0 THEN stage
  ELSE [start |-> [stage.start EXCEPT ![ch] = start], len |-> [stage.len EXCEPT ![ch] = len]]

\* The stage after the board's set_window(ch, start, len).
set_window(ch, start, len) ==
  [start |-> [stage.start EXCEPT ![ch] = start], len |-> [stage.len EXCEPT ![ch] = len]]

ScheduleChannel ==
  LET len   == WindowLen(loop)
      start == IF len > 0 THEN at ELSE 0
  IN
  /\ Scheduling
  /\ win_start' = [win_start EXCEPT ![loop] = start]
  /\ win_len' = [win_len EXCEPT ![loop] = len]
  /\ at' = at + len
  /\ loop' = loop + 1
  /\ stage' = IF hw THEN set_window(loop, start, len) ELSE stage
  /\ board' = IF hw /\ loop' = MUSCLE_COUNT THEN stage' ELSE board
  /\ UNCHANGED <<fitted, act, hw, pending, slot>>

Next ==
  \/ muscle_relax
  \/ muscle_bind_hw
  \/ \E mask \in SUBSET Limbs : muscle_init(mask) \/ muscle_set_fitted(mask)
  \/ \E pct \in Pcts :
       \/ \E muscle \in 0 .. MUSCLE_COUNT + 1 : muscle_set(muscle, pct)
       \/ \E limb \in 0 .. MUSCLE_LIMBS + 1, muscle \in 0 .. MUSCLE_PER_LIMB + 1 :
            limb_set(limb, muscle, pct)
  \/ ScheduleBegin
  \/ ScheduleChannel

Spec == Init /\ [][Next]_vars

\* The scheduler runs a queued action in the end, and its loop terminates.
FairSpec == Spec /\ WF_vars(ScheduleBegin) /\ WF_vars(ScheduleChannel)

-----------------------------------------------------------------------------
Windows == [start : [Channels -> Nat], len : [Channels -> Nat]]

\* The state of muscle.c has the types its declarations give it.
TypeOK ==
  /\ fitted \in SUBSET Limbs
  /\ act \in [Channels -> 0 .. 100]
  /\ win_start \in [Channels -> Nat]
  /\ win_len \in [Channels -> Nat]
  /\ hw \in BOOLEAN
  /\ pending \in BOOLEAN
  /\ loop \in 0 .. MUSCLE_COUNT
  /\ slot \in Nat
  /\ at \in Nat
  /\ stage \in Windows
  /\ board \in Windows

\* Activating one side of an antagonist pair releases the other, through any
\* history of set, refit and relax calls (muscle.c:79, muscle.h:20-22).
AntagonistsExclusive ==
  \A ch \in Channels : act[ch] > 0 => act[Antagonist(ch)] = 0

\* A limb that is not fitted, or no longer fitted, has no activation left
\* behind (muscle.c:62-63, 76).
UnfittedRelaxed ==
  \A ch \in Channels : act[ch] > 0 => LimbOf(ch) \in fitted

\* Windows w of the frame: inside it, and no two muscles on at one time.
Inside(w)   == \A ch \in Channels : w.start[ch] + w.len[ch] <= MUSCLE_FRAME
Disjoint(w) == \A c, d \in Channels :
                 (c < d /\ w.len[c] > 0 /\ w.len[d] > 0)
                   => w.start[c] + w.len[c] <= w.start[d]

\* "the windows are packed back to back, so their sum never exceeds the frame
\* and no two wires conduct at the same time" (muscle.h:23-26), of what the
\* board is running, whatever was set or refitted since.
BoardNeverOverlaps == Inside(board) /\ Disjoint(board)

\* What muscle_show prints and the board was given cannot be out of date once
\* nothing is queued: a muscle has a window only if it is active, one at 100 %
\* has its full share of the frame (muscle.h:23-24), and a bound board runs
\* these very windows.
ScheduleCurrent ==
  ~pending /\ ~Scheduling =>
    /\ \A ch \in Channels :
         /\ win_len[ch] > 0 => act[ch] > 0
         /\ act[ch] = 100 => win_len[ch] = Slot(Cardinality(fitted))
    /\ hw => board = [start |-> win_start, len |-> win_len]

\* A muscle at rest that stays at rest loses its window: a release is never
\* lost between the table, the queued schedule() and the board.
ReleaseReachesBoard ==
  \A ch \in Channels :
    (hw /\ act[ch] = 0) ~> (board.len[ch] = 0 \/ act[ch] > 0)

\* The table the layers above see (MuscleTable): whatever the scheduler does
\* with the windows, each call changes activations and fitted limbs as
\* muscle.h promises, and nothing else does.
Contract == INSTANCE MuscleTable WITH Levels <- {Clamp(pct) : pct \in Pcts}

ImplementsTable == Contract!Spec
=============================================================================
