---------------------------- MODULE MuscleProofs ----------------------------
(***************************************************************************)
(* The safety of the scheduler, for any number of limbs, any frame length  *)
(* and any arguments: the windows a board latches always fit the frame and *)
(* never overlap, whatever is set, refitted or relaxed while they run.     *)
(*                                                                         *)
(* BoardNeverOverlaps is not inductive: it says nothing of a half-built    *)
(* stage. The invariant Packed describes the loop's progress: the windows  *)
(* staged so far are packed below `at`, and `at` is at most one slot for   *)
(* each active muscle passed. At most one of each antagonist pair of each  *)
(* fitted limb is active, and one slot is a 2*fitted-th of the frame.      *)
(***************************************************************************)
EXTENDS Muscle, Arithmetic, FiniteSetTheorems, TLAPS

\* The active channels schedule()'s loop has passed when it is at n.
ActiveBelow(n) == {ch \in Channels : ch < n /\ act[ch] > 0}

\* The windows w of the channels below n: packed in order, the last ending at `at`.
PackedBelow(w, n) ==
  /\ \A c \in Channels : c < n =>
       /\ w.len[c] > 0 => w.start[c] + w.len[c] <= at
       /\ w.len[c] = 0 => w.start[c] = 0
  /\ \A c, d \in Channels :
       (c < d /\ d < n /\ w.len[c] > 0 /\ w.len[d] > 0)
         => w.start[c] + w.len[c] <= w.start[d]

Packed ==
  Scheduling =>
    /\ slot = Slot(Cardinality(fitted))
    /\ at <= slot * Cardinality(ActiveBelow(loop))
    /\ hw => PackedBelow(stage, loop)

Table == AntagonistsExclusive /\ UnfittedRelaxed
MInv  == TypeOK /\ Table /\ Packed /\ BoardNeverOverlaps

-----------------------------------------------------------------------------
USE LimbsAssumption, FrameAssumption, PctsAssumption DEF MUSCLE_PER_LIMB, MUSCLE_COUNT

\* Two slots for every fitted limb fit the frame (muscle.c:33).
LEMMA SlotsFitFrame ==
  ASSUME NEW n \in Nat
  PROVE  Slot(n) \in Nat /\ Slot(n) * (2 * n) <= MUSCLE_FRAME
<1>1. CASE n = 0
  BY <1>1 DEF Slot
<1>2. CASE n > 0
  <2>1. ASSUME NEW d \in Nat, d > 0
        PROVE  /\ MUSCLE_FRAME \div d \in Nat
               /\ (MUSCLE_FRAME \div d) * d <= MUSCLE_FRAME
    BY <2>1
  <2> QED
    BY <1>2, <2>1 DEF Slot
<1> QED
  BY <1>1, <1>2

\* The other side of a pair is a channel of the same limb.
LEMMA AntagonistFacts ==
  ASSUME NEW ch \in Channels
  PROVE  /\ Antagonist(ch) \in Channels
         /\ Antagonist(ch) # ch
         /\ Antagonist(Antagonist(ch)) = ch
         /\ LimbOf(Antagonist(ch)) = LimbOf(ch)
         /\ LimbOf(ch) \in Limbs
  BY DEF Antagonist, Channels, LimbOf, Limbs

\* Two channels of one limb and one pair are the same or antagonists.
LEMMA SamePair ==
  ASSUME NEW c \in Channels, NEW d \in Channels,
         LimbOf(c) = LimbOf(d), (c \div 2) % 2 = (d \div 2) % 2
  PROVE  c = d \/ d = Antagonist(c)
  BY DEF Antagonist, Channels, LimbOf

\* The set the loop counts is finite, and gains at most the channel passed.
LEMMA ActiveBelowFinite ==
  ASSUME NEW n \in Nat
  PROVE  IsFiniteSet(ActiveBelow(n)) /\ Cardinality(ActiveBelow(n)) \in Nat
<1>1. IsFiniteSet(0 .. MUSCLE_COUNT - 1)
  BY FS_Interval
<1>2. ActiveBelow(n) \in SUBSET (0 .. MUSCLE_COUNT - 1)
  BY DEF ActiveBelow, Channels
<1>3. IsFiniteSet(ActiveBelow(n))
  BY <1>1, <1>2, FS_Subset
<1> QED
  BY <1>3, FS_CardinalityType

\* Active muscles are at most two for each fitted limb: map each to its limb
\* and its pair. AntagonistsExclusive makes the map injective.
LEMMA TwoPerLimb ==
  ASSUME TypeOK, Table, NEW n \in Nat
  PROVE  /\ Cardinality(fitted) \in Nat
         /\ Cardinality(ActiveBelow(n)) <= 2 * Cardinality(fitted)
<1> DEFINE A    == ActiveBelow(n)
           Pairs == fitted \X (0 .. 1)
           f    == [ch \in A |-> <<LimbOf(ch), (ch \div 2) % 2>>]
<1>1. IsFiniteSet(fitted)
  <2>1. IsFiniteSet(0 .. MUSCLE_LIMBS - 1)
    BY FS_Interval
  <2>2. fitted \in SUBSET (0 .. MUSCLE_LIMBS - 1)
    BY DEF TypeOK, Limbs
  <2> QED
    BY <2>1, <2>2, FS_Subset
<1>2. IsFiniteSet(0 .. 1) /\ Cardinality(0 .. 1) = 2
  <2>1. /\ IsFiniteSet(0 .. 1)
        /\ Cardinality(0 .. 1) = IF 0 > 1 THEN 0 ELSE 1 - 0 + 1
    <3>1. 0 \in Int /\ 1 \in Int
      OBVIOUS
    <3> QED
      BY ONLY <3>1, FS_Interval, Zenon
  <2> QED
    BY <2>1
<1>3. Cardinality(fitted) \in Nat
  BY <1>1, FS_CardinalityType
<1>4. IsFiniteSet(Pairs) /\ Cardinality(Pairs) = Cardinality(fitted) * 2
  BY <1>1, <1>2, FS_Product
<1>5. f \in [A -> Pairs]
  <2> SUFFICES ASSUME NEW ch \in A
               PROVE  LimbOf(ch) \in fitted /\ (ch \div 2) % 2 \in 0 .. 1
    OBVIOUS
  <2>1. ch \in Channels /\ act[ch] > 0
    BY DEF ActiveBelow
  <2>2. LimbOf(ch) \in fitted
    BY <2>1 DEF Table, UnfittedRelaxed
  <2>3. (ch \div 2) % 2 \in 0 .. 1
    BY <2>1 DEF Channels
  <2> QED
    BY <2>2, <2>3
<1>6. ASSUME NEW c \in A, NEW d \in A, f[c] = f[d]
      PROVE  c = d
  <2>1. c \in Channels /\ d \in Channels /\ act[c] > 0 /\ act[d] > 0
    BY DEF ActiveBelow
  <2>2. LimbOf(c) = LimbOf(d) /\ (c \div 2) % 2 = (d \div 2) % 2
    BY <1>6
  <2>3. c = d \/ d = Antagonist(c)
    BY <2>1, <2>2, SamePair
  <2>4. act[Antagonist(c)] = 0
    BY <2>1 DEF Table, AntagonistsExclusive
  <2> QED
    BY <2>1, <2>3, <2>4
<1>7. f \in Injection(A, Pairs)
  BY <1>5, <1>6 DEF Injection, IsInjective
<1> HIDE DEF A, Pairs, f
<1>8. Cardinality(A) <= Cardinality(Pairs)
  BY <1>4, <1>7, FS_Injection
<1> QED
  BY <1>3, <1>4, <1>8 DEF A

-----------------------------------------------------------------------------
LEMMA InitInv == Init => MInv
<1> SUFFICES ASSUME Init PROVE MInv
  OBVIOUS
<1>1. TypeOK
  <2>1. AllOff \in [Channels -> 0 .. 100] /\ AllOff \in [Channels -> Nat]
    BY DEF AllOff
  <2>2. NoWindows \in Windows
    BY <2>1 DEF NoWindows, Windows
  <2>3. MUSCLE_COUNT \in 0 .. MUSCLE_COUNT
    OBVIOUS
  <2> QED
    BY <2>1, <2>2, <2>3 DEF Init, TypeOK
<1>2. Table
  BY DEF Init, Table, AntagonistsExclusive, UnfittedRelaxed, AllOff
<1>3. Packed
  BY DEF Init, Packed, Scheduling
<1>4. BoardNeverOverlaps
  BY DEF Init, BoardNeverOverlaps, Inside, Disjoint, AllOff, NoWindows
<1> QED
  BY <1>1, <1>2, <1>3, <1>4 DEF MInv

\* A caller's step runs outside the loop and leaves the board alone: it keeps
\* MInv if it keeps the table well formed.
LEMMA CallerStep ==
  ASSUME MInv, reschedule, Table',
         fitted' \in SUBSET Limbs, act' \in [Channels -> 0 .. 100], hw' \in BOOLEAN
  PROVE  MInv'
<1>1. TypeOK'
  BY DEF MInv, TypeOK, reschedule
<1>2. Packed'
  BY DEF reschedule, Packed, Scheduling
<1>3. BoardNeverOverlaps'
  BY DEF MInv, reschedule, BoardNeverOverlaps, Inside, Disjoint
<1> QED
  BY <1>1, <1>2, <1>3 DEF MInv

LEMMA RelaxStep ==
  ASSUME MInv, muscle_relax
  PROVE  MInv'
<1>1. act' = AllOff /\ fitted' = fitted /\ hw' = hw /\ reschedule
  BY DEF muscle_relax
<1>2. Table'
  BY <1>1 DEF Table, AntagonistsExclusive, UnfittedRelaxed, AllOff
<1>3. act' \in [Channels -> 0 .. 100]
  BY <1>1 DEF AllOff
<1> QED
  BY <1>1, <1>2, <1>3, CallerStep DEF MInv, TypeOK

LEMMA InitStep ==
  ASSUME MInv, NEW mask \in SUBSET Limbs, muscle_init(mask)
  PROVE  MInv'
<1>1. act' = AllOff /\ fitted' = mask /\ hw' = hw /\ reschedule
  BY DEF muscle_init
<1>2. Table'
  BY <1>1 DEF Table, AntagonistsExclusive, UnfittedRelaxed, AllOff
<1>3. act' \in [Channels -> 0 .. 100]
  BY <1>1 DEF AllOff
<1> QED
  BY <1>1, <1>2, <1>3, CallerStep DEF MInv, TypeOK

LEMMA SetFittedStep ==
  ASSUME MInv, NEW mask \in SUBSET Limbs, muscle_set_fitted(mask)
  PROVE  MInv'
<1>1. /\ act' = [ch \in Channels |-> IF LimbOf(ch) \in mask THEN act[ch] ELSE 0]
      /\ fitted' = mask /\ hw' = hw /\ reschedule
  BY DEF muscle_set_fitted
<1>2. act' \in [Channels -> 0 .. 100]
  BY <1>1 DEF MInv, TypeOK
<1>3. AntagonistsExclusive'
  <2> SUFFICES ASSUME NEW ch \in Channels, act'[ch] > 0
               PROVE  act'[Antagonist(ch)] = 0
    BY DEF AntagonistsExclusive
  <2>1. act[ch] > 0
    BY <1>1
  <2>2. act[Antagonist(ch)] = 0
    BY <2>1 DEF MInv, Table, AntagonistsExclusive
  <2> QED
    BY <1>1, <2>2, AntagonistFacts
<1>4. UnfittedRelaxed'
  BY <1>1 DEF UnfittedRelaxed
<1> QED
  BY <1>1, <1>2, <1>3, <1>4, CallerStep DEF MInv, TypeOK, Table

LEMMA BindStep ==
  ASSUME MInv, muscle_bind_hw
  PROVE  MInv'
<1>1. act' = act /\ fitted' = fitted /\ hw' = TRUE /\ reschedule
  BY DEF muscle_bind_hw, table
<1>2. Table'
  BY <1>1 DEF MInv, Table, AntagonistsExclusive, UnfittedRelaxed
<1> QED
  BY <1>1, <1>2, CallerStep DEF MInv, TypeOK

\* Setting a muscle releases its antagonist in the same step.
LEMMA SetStep ==
  ASSUME MInv, NEW muscle \in Int, NEW pct \in Pcts, muscle_set(muscle, pct)
  PROVE  MInv'
<1> DEFINE on == muscle - 1
           p  == Clamp(pct)
<1>1. /\ on \in Channels
      /\ LimbOf(on) \in fitted
      /\ act' = SetAct(on, p)
      /\ fitted' = fitted /\ hw' = hw /\ reschedule
  BY DEF muscle_set, limb_fitted
<1>2. p \in 0 .. 100
  BY DEF Clamp
<1> HIDE DEF on, p
<1>3. act' \in [Channels -> 0 .. 100]
  BY <1>1, <1>2 DEF MInv, TypeOK, SetAct
<1>4. ASSUME NEW ch \in Channels
      PROVE  act'[ch] = IF ch = on THEN p
                        ELSE IF ch = Antagonist(on) /\ p > 0 THEN 0 ELSE act[ch]
  BY <1>1, AntagonistFacts DEF SetAct
<1>5. AntagonistsExclusive'
  <2> SUFFICES ASSUME NEW ch \in Channels, act'[ch] > 0
               PROVE  act'[Antagonist(ch)] = 0
    BY DEF AntagonistsExclusive
  <2>1. CASE ch = on
    BY <2>1, <1>1, <1>2, <1>4, AntagonistFacts
  <2>2. CASE ch = Antagonist(on) /\ ch # on
    <3>1. p = 0 /\ act[ch] > 0
      BY <2>2, <1>2, <1>4
    <3>2. Antagonist(ch) = on
      BY <2>2, <1>1, AntagonistFacts
    <3> QED
      BY <3>1, <3>2, <1>1, <1>4
  <2>3. CASE ch # Antagonist(on) /\ ch # on
    <3>1. act[Antagonist(ch)] = 0
      BY <2>3, <1>4 DEF MInv, Table, AntagonistsExclusive
    <3>2. Antagonist(ch) # on
      BY <2>3, AntagonistFacts
    <3> QED
      BY <3>1, <3>2, <1>4, AntagonistFacts
  <2> QED
    BY <2>1, <2>2, <2>3
<1>6. UnfittedRelaxed'
  <2> SUFFICES ASSUME NEW ch \in Channels, act'[ch] > 0
               PROVE  LimbOf(ch) \in fitted
    BY <1>1 DEF UnfittedRelaxed
  <2>1. ch = on \/ act[ch] > 0
    BY <1>4
  <2> QED
    BY <1>1, <2>1 DEF MInv, Table, UnfittedRelaxed
<1> QED
  BY <1>1, <1>3, <1>5, <1>6, CallerStep DEF MInv, TypeOK, Table

LEMMA LimbSetStep ==
  ASSUME MInv, NEW limb \in Int, NEW muscle \in Int, NEW pct \in Pcts,
         limb_set(limb, muscle, pct)
  PROVE  MInv'
  BY SetStep DEF limb_set

-----------------------------------------------------------------------------
LEMMA BeginStep ==
  ASSUME MInv, ScheduleBegin
  PROVE  MInv'
<1> USE DEF MInv
<1>1. /\ loop' = 0 /\ at' = 0 /\ slot' = Slot(Cardinality(fitted)) /\ pending' = FALSE
      /\ UNCHANGED <<fitted, act, win_start, win_len, hw, stage, board>>
  BY DEF ScheduleBegin
<1>2. Slot(Cardinality(fitted)) \in Nat
  BY TwoPerLimb, SlotsFitFrame
<1>3. TypeOK'
  <2>1. loop' \in 0 .. MUSCLE_COUNT /\ at' \in Nat
    BY <1>1
  <2> QED
    BY <1>1, <1>2, <2>1 DEF TypeOK
<1>4. Table' /\ BoardNeverOverlaps'
  BY <1>1 DEF Table, AntagonistsExclusive, UnfittedRelaxed,
              BoardNeverOverlaps, Inside, Disjoint
<1>5. ActiveBelow(loop)' = ActiveBelow(0)
  BY <1>1 DEF ActiveBelow
<1>6. at' <= slot' * Cardinality(ActiveBelow(loop)')
  <2>1. Cardinality(ActiveBelow(0)) \in Nat
    BY ActiveBelowFinite
  <2> QED
    BY <1>1, <1>2, <1>5, <2>1
<1>7. PackedBelow(stage, loop)'
  BY <1>1 DEF PackedBelow, Channels
<1>8. Packed'
  BY <1>1, <1>6, <1>7 DEF Packed
<1> QED
  BY <1>3, <1>4, <1>8

\* The turn of an active channel adds one to the channels counted.
LEMMA CountTurn ==
  ASSUME NEW n \in Channels
  PROVE  Cardinality(ActiveBelow(n + 1)) =
           IF act[n] > 0 THEN Cardinality(ActiveBelow(n)) + 1
                         ELSE Cardinality(ActiveBelow(n))
<1>1. n \in Nat /\ IsFiniteSet(ActiveBelow(n))
  BY ActiveBelowFinite DEF Channels
<1>2. CASE act[n] > 0
  <2>1. ActiveBelow(n + 1) = ActiveBelow(n) \cup {n}
    BY <1>2 DEF ActiveBelow, Channels
  <2>2. n \notin ActiveBelow(n)
    BY <1>1 DEF ActiveBelow
  <2> QED
    BY <1>1, <1>2, <2>1, <2>2, FS_AddElement
<1>3. CASE ~(act[n] > 0)
  <2>1. ActiveBelow(n + 1) = ActiveBelow(n)
    BY <1>3 DEF ActiveBelow, Channels
  <2> QED
    BY <1>3, <2>1
<1> QED
  BY <1>2, <1>3

\* Full slots for the channels passed fit the frame.
LEMMA CountedFitFrame ==
  ASSUME TypeOK, Table, NEW n \in Nat
  PROVE  Slot(Cardinality(fitted)) * Cardinality(ActiveBelow(n)) <= MUSCLE_FRAME
<1> DEFINE k == Cardinality(fitted)
           a == Cardinality(ActiveBelow(n))
<1>1. k \in Nat /\ a \in Nat /\ a <= 2 * k
  BY TwoPerLimb, ActiveBelowFinite
<1>2. Slot(k) \in Nat /\ Slot(k) * (2 * k) <= MUSCLE_FRAME
  BY <1>1, SlotsFitFrame
<1> HIDE DEF k, a
<1>3. Slot(k) * a \in Nat /\ Slot(k) * a <= Slot(k) * (2 * k)
  BY <1>1, <1>2, TimesMonotone
<1>4. Slot(k) * (2 * k) \in Nat
  BY <1>1, <1>2
<1>5. Slot(k) * a <= MUSCLE_FRAME
  BY <1>2, <1>3, <1>4
<1> QED
  BY <1>5 DEF k, a

LEMMA ChannelStep ==
  ASSUME MInv, ScheduleChannel
  PROVE  MInv'
<1> DEFINE len   == WindowLen(loop)
           start == IF len > 0 THEN at ELSE 0
<1>1. /\ loop \in Channels /\ loop' = loop + 1 /\ at' = at + len
      /\ win_start' = [win_start EXCEPT ![loop] = start]
      /\ win_len' = [win_len EXCEPT ![loop] = len]
      /\ UNCHANGED <<fitted, act, hw, pending, slot>>
  BY DEF ScheduleChannel, Scheduling, Channels, MInv, TypeOK
<1>2. /\ hw  => /\ stage'.start = [stage.start EXCEPT ![loop] = start]
                /\ stage'.len = [stage.len EXCEPT ![loop] = len]
                /\ stage' = [start |-> stage'.start, len |-> stage'.len]
      /\ ~hw => stage' = stage
      /\ board' = IF hw /\ loop' = MUSCLE_COUNT THEN stage' ELSE board
  BY DEF ScheduleChannel, set_window
<1>3. slot \in Nat /\ at \in Nat /\ act[loop] \in 0 .. 100
  BY <1>1 DEF MInv, TypeOK
<1>4. len \in 0 .. slot /\ (act[loop] = 0 => len = 0)
  <2>1. len \in 0 .. slot
    BY <1>3, PercentFits DEF WindowLen
  <2>2. (0 * slot) \div 100 = 0
    BY <1>3
  <2> QED
    BY <2>1, <2>2 DEF WindowLen
<1> HIDE DEF len
<1>5. start \in Nat
  BY <1>3
<1>6. stage' \in Windows
  <2>1. CASE hw
    BY <2>1, <1>1, <1>2, <1>4, <1>5 DEF MInv, TypeOK, Windows
  <2> QED
    BY <2>1, <1>2 DEF MInv, TypeOK
<1>7. TypeOK'
  <2>1. win_start' \in [Channels -> Nat] /\ win_len' \in [Channels -> Nat]
    BY <1>1, <1>4, <1>5 DEF MInv, TypeOK
  <2>2. loop' \in 0 .. MUSCLE_COUNT /\ at' \in Nat
    BY <1>1, <1>3, <1>4 DEF Channels
  <2>3. board' \in Windows
    BY <1>2, <1>6 DEF MInv, TypeOK
  <2> QED
    BY <1>1, <1>6, <2>1, <2>2, <2>3 DEF MInv, TypeOK
<1>8. Table'
  BY <1>1 DEF MInv, Table, AntagonistsExclusive, UnfittedRelaxed
<1>9. /\ slot = Slot(Cardinality(fitted))
      /\ at <= slot * Cardinality(ActiveBelow(loop))
      /\ hw => PackedBelow(stage, loop)
  BY <1>1 DEF MInv, Packed, Scheduling, Channels
<1>10. at' <= slot * Cardinality(ActiveBelow(loop + 1))
  <2> DEFINE a == Cardinality(ActiveBelow(loop))
  <2>1. a \in Nat
    BY <1>1, ActiveBelowFinite DEF Channels
  <2>2. slot * (a + 1) = slot * a + slot /\ slot * a \in Nat
    BY <1>3, <2>1
  <2>3. CASE act[loop] > 0
    <3>1. Cardinality(ActiveBelow(loop + 1)) = a + 1
      BY <1>1, <2>3, CountTurn
    <3>2. at <= slot * a
      BY <1>9
    <3> HIDE DEF a
    <3>3. at + len <= slot * (a + 1)
      BY <1>3, <1>4, <2>2, <3>2
    <3> QED
      BY <1>1, <3>1, <3>3
  <2>4. CASE act[loop] = 0
    <3>1. Cardinality(ActiveBelow(loop + 1)) = a
      BY <1>1, <2>4, CountTurn
    <3> QED
      BY <1>1, <1>3, <1>4, <1>9, <2>4, <3>1
  <2> QED
    BY <1>3, <2>3, <2>4
<1>11. at' <= MUSCLE_FRAME
  <2>1. slot * Cardinality(ActiveBelow(loop + 1)) <= MUSCLE_FRAME
    BY <1>1, <1>9, CountedFitFrame DEF MInv, Channels
  <2>2. Cardinality(ActiveBelow(loop + 1)) \in Nat
    BY <1>1, ActiveBelowFinite DEF Channels
  <2> DEFINE a == Cardinality(ActiveBelow(loop + 1))
  <2>3. slot * a \in Nat
    BY <1>3, <2>2
  <2>4. slot * a <= MUSCLE_FRAME /\ at' <= slot * a
    BY <1>10, <2>1
  <2> HIDE DEF a
  <2> QED
    BY <1>1, <1>3, <1>4, <2>3, <2>4
<1>12. ASSUME hw
       PROVE  PackedBelow(stage, loop)'
  <2>1. ASSUME NEW c \in Channels
        PROVE  /\ stage'.start[c] = IF c = loop THEN start ELSE stage.start[c]
               /\ stage'.len[c] = IF c = loop THEN len ELSE stage.len[c]
               /\ stage.start[c] \in Nat /\ stage.len[c] \in Nat
    <3>1. stage \in Windows
      BY DEF MInv, TypeOK
    <3> HIDE DEF start
    <3> QED
      BY <1>1, <1>2, <1>12, <3>1 DEF Windows
  <2>2. PackedBelow(stage, loop)
    BY <1>9, <1>12
  <2>3. ASSUME NEW c \in Channels, c < loop'
        PROVE  /\ stage'.len[c] > 0 => stage'.start[c] + stage'.len[c] <= at'
               /\ stage'.len[c] = 0 => stage'.start[c] = 0
    <3>1. CASE c = loop
      BY <3>1, <1>1, <1>3, <1>4, <2>1
    <3>2. CASE c < loop
      BY <3>2, <1>1, <1>3, <1>4, <2>1, <2>2 DEF PackedBelow
    <3> QED
      BY <1>1, <2>3, <3>1, <3>2 DEF Channels
  <2>4. ASSUME NEW c \in Channels, NEW d \in Channels,
               c < d, d < loop', stage'.len[c] > 0, stage'.len[d] > 0
        PROVE  stage'.start[c] + stage'.len[c] <= stage'.start[d]
    <3>1. c < loop /\ c # loop
      BY <1>1, <2>4 DEF Channels
    <3>2. CASE d = loop
      BY <3>1, <3>2, <1>3, <1>4, <2>1, <2>2, <2>4 DEF PackedBelow
    <3>3. CASE d < loop
      BY <3>1, <3>3, <2>1, <2>2, <2>4 DEF PackedBelow, Channels
    <3> QED
      BY <1>1, <2>4, <3>2, <3>3 DEF Channels
  <2> QED
    BY <2>3, <2>4 DEF PackedBelow
<1>13. Packed'
  <2>1. ActiveBelow(loop)' = ActiveBelow(loop + 1)
    BY <1>1 DEF ActiveBelow
  <2> QED
    BY <1>1, <1>9, <1>10, <1>12, <2>1 DEF Packed
<1>14. BoardNeverOverlaps'
  <2>1. CASE hw /\ loop' = MUSCLE_COUNT
    <3>1. board' = stage' /\ PackedBelow(stage, loop)'
      BY <2>1, <1>2, <1>12
    <3>2. \A c \in Channels : c < loop'
      BY <2>1 DEF Channels
    <3>3. at' \in Nat
      BY <1>1, <1>3, <1>4
    <3>4. \A c \in Channels : stage'.start[c] \in Nat /\ stage'.len[c] \in Nat
      BY <1>6 DEF Windows
    <3>5. Inside(board)'
      <4> SUFFICES ASSUME NEW c \in Channels
                   PROVE  stage'.start[c] + stage'.len[c] <= MUSCLE_FRAME
        BY <3>1 DEF Inside
      <4> QED
        BY <1>11, <3>1, <3>2, <3>3, <3>4 DEF PackedBelow
    <3>6. Disjoint(board)'
      BY <3>1, <3>2 DEF PackedBelow, Disjoint
    <3> QED
      BY <3>5, <3>6 DEF BoardNeverOverlaps
  <2>2. CASE ~(hw /\ loop' = MUSCLE_COUNT)
    BY <2>2, <1>2 DEF MInv, BoardNeverOverlaps, Inside, Disjoint
  <2> QED
    BY <2>1, <2>2
<1> QED
  BY <1>7, <1>8, <1>13, <1>14 DEF MInv

-----------------------------------------------------------------------------
\* MInv is inductive.
LEMMA StepInv == MInv /\ [Next]_vars => MInv'
<1> SUFFICES ASSUME MInv, [Next]_vars PROVE MInv'
  OBVIOUS
<1>1. CASE muscle_relax
  BY <1>1, RelaxStep
<1>2. CASE muscle_bind_hw
  BY <1>2, BindStep
<1>3. ASSUME NEW mask \in SUBSET Limbs, muscle_init(mask) \/ muscle_set_fitted(mask)
      PROVE  MInv'
  BY <1>3, InitStep, SetFittedStep
<1>4. ASSUME NEW pct \in Pcts, NEW muscle \in 0 .. MUSCLE_COUNT + 1,
             muscle_set(muscle, pct)
      PROVE  MInv'
  BY <1>4, SetStep
<1>5. ASSUME NEW pct \in Pcts, NEW limb \in 0 .. MUSCLE_LIMBS + 1,
             NEW muscle \in 0 .. MUSCLE_PER_LIMB + 1, limb_set(limb, muscle, pct)
      PROVE  MInv'
  BY <1>5, LimbSetStep
<1>6. CASE ScheduleBegin
  BY <1>6, BeginStep
<1>7. CASE ScheduleChannel
  BY <1>7, ChannelStep
<1>8. CASE UNCHANGED vars
  BY <1>8 DEF vars, MInv, TypeOK, Table, AntagonistsExclusive, UnfittedRelaxed,
              Packed, Scheduling, PackedBelow, ActiveBelow,
              BoardNeverOverlaps, Inside, Disjoint
<1> QED
  BY <1>1, <1>2, <1>3, <1>4, <1>5, <1>6, <1>7, <1>8 DEF Next

LEMMA Invariance == Spec => []MInv
  BY InitInv, StepInv, PTL DEF Spec

\* Every variable keeps its declared type, for any number of limbs.
THEOREM TypeCorrect == Spec => []TypeOK
<1>1. MInv => TypeOK
  BY DEF MInv
<1> QED
  BY <1>1, Invariance, PTL

\* No history of calls leaves both sides of an antagonist pair active
\* (muscle.c:79).
THEOREM PairsExclusive == Spec => []AntagonistsExclusive
<1>1. MInv => AntagonistsExclusive
  BY DEF MInv, Table
<1> QED
  BY <1>1, Invariance, PTL

\* No history of calls leaves a muscle of an unfitted limb active
\* (muscle.c:62-63).
THEOREM NoUnfittedActive == Spec => []UnfittedRelaxed
<1>1. MInv => UnfittedRelaxed
  BY DEF MInv, Table
<1> QED
  BY <1>1, Invariance, PTL

\* The windows the board runs always fit the frame and never overlap, for any
\* number of limbs, any frame length and any activation (muscle.c:29-43).
THEOREM NeverOverlaps == Spec => []BoardNeverOverlaps
<1>1. MInv => BoardNeverOverlaps
  BY DEF MInv
<1> QED
  BY <1>1, Invariance, PTL

(***************************************************************************)
(* The scheduled windows are current. While nothing is queued, the loop of *)
(* schedule() has recomputed the windows of the channels it has passed     *)
(* from the table as it is, and handed them over.                          *)
(***************************************************************************)
Made(n) ==
  \A ch \in Channels : ch < n =>
    /\ win_len[ch] = WindowLen(ch)
    /\ hw => stage.start[ch] = win_start[ch] /\ stage.len[ch] = win_len[ch]

CurrentInv ==
  ~pending =>
    /\ slot = Slot(Cardinality(fitted))
    /\ Made(loop)
    /\ hw /\ ~Scheduling => board = stage

LEMMA CurrentInit == Init => CurrentInv
<1> SUFFICES ASSUME Init PROVE CurrentInv
  OBVIOUS
<1>1. slot = Slot(Cardinality(fitted))
  BY FS_EmptySet DEF Init, Slot
<1>2. Made(loop)
  <2> SUFFICES ASSUME NEW ch \in Channels PROVE win_len[ch] = WindowLen(ch) /\ ~hw
    BY DEF Made
  <2> QED
    BY DEF Init, AllOff, WindowLen
<1> QED
  BY <1>1, <1>2 DEF CurrentInv, Init

LEMMA CurrentTurn ==
  ASSUME TypeOK, CurrentInv, ScheduleChannel
  PROVE  CurrentInv'
<1> SUFFICES ASSUME ~pending PROVE CurrentInv'
  BY DEF CurrentInv, ScheduleChannel
<1> DEFINE len   == WindowLen(loop)
           start == IF len > 0 THEN at ELSE 0
<1>1. /\ loop < MUSCLE_COUNT /\ loop' = loop + 1
      /\ win_start' = [win_start EXCEPT ![loop] = start] /\ win_len' = [win_len EXCEPT ![loop] = len]
      /\ stage' = IF hw THEN set_window(loop, start, len) ELSE stage
      /\ board' = IF hw /\ loop' = MUSCLE_COUNT THEN stage' ELSE board
      /\ UNCHANGED <<fitted, act, hw, pending, slot>>
  BY DEF ScheduleChannel, Scheduling
<1>2. \A ch \in Channels : WindowLen(ch)' = WindowLen(ch)
  BY <1>1 DEF WindowLen
<1>3. loop \in Nat /\ loop \in Channels /\ MUSCLE_COUNT \in Nat /\ \A ch \in Channels : ch \in Nat
  BY <1>1, LimbsAssumption DEF TypeOK, Channels, MUSCLE_COUNT, MUSCLE_PER_LIMB
<1> HIDE DEF len, start
<1>4. /\ win_len'[loop] = len /\ win_start'[loop] = start
      /\ \A ch \in Channels : ch # loop => win_len'[ch] = win_len[ch] /\ win_start'[ch] = win_start[ch]
  BY <1>1, <1>3 DEF TypeOK
<1>5. ASSUME hw
      PROVE  /\ stage'.len[loop] = len /\ stage'.start[loop] = start
             /\ \A ch \in Channels : ch # loop =>
                  stage'.len[ch] = stage.len[ch] /\ stage'.start[ch] = stage.start[ch]
  BY <1>1, <1>3, <1>5 DEF TypeOK, Windows, set_window
<1>6. Made(loop)'
  <2> SUFFICES ASSUME NEW ch \in Channels, ch < loop'
               PROVE  /\ win_len'[ch] = WindowLen(ch)
                      /\ hw => stage'.start[ch] = win_start'[ch] /\ stage'.len[ch] = win_len'[ch]
    BY <1>1, <1>2 DEF Made
  <2>1. CASE ch = loop
    BY <1>4, <1>5, <2>1 DEF len
  <2>2. CASE ch # loop
    <3>1. ch < loop
      BY <1>1, <1>3, <2>2
    <3> QED
      BY <1>4, <1>5, <2>2, <3>1 DEF CurrentInv, Made
  <2> QED
    BY <2>1, <2>2
<1>7. (hw /\ ~Scheduling)' => board' = stage'
  BY <1>1, <1>3 DEF Scheduling
<1>8. (slot = Slot(Cardinality(fitted)))'
  BY <1>1 DEF CurrentInv
<1> QED
  BY <1>6, <1>7, <1>8 DEF CurrentInv

LEMMA CurrentStep == TypeOK /\ CurrentInv /\ [Next]_vars => CurrentInv'
<1> SUFFICES ASSUME TypeOK, CurrentInv, [Next]_vars PROVE CurrentInv'
  OBVIOUS
<1>1. CASE pending'
  BY <1>1 DEF CurrentInv
<1>2. CASE ScheduleBegin
  <2>1. /\ loop' = 0 /\ slot' = Slot(Cardinality(fitted)) /\ fitted' = fitted
        /\ \A ch \in Channels : ~(ch < 0)
    BY <1>2, LimbsAssumption DEF ScheduleBegin, Channels, MUSCLE_COUNT, MUSCLE_PER_LIMB
  <2>2. Made(loop)' /\ Scheduling'
    BY <2>1, LimbsAssumption DEF Made, Scheduling, MUSCLE_COUNT, MUSCLE_PER_LIMB
  <2> QED
    BY <2>1, <2>2 DEF CurrentInv
<1>3. CASE ScheduleChannel
  BY <1>3, CurrentTurn
<1>4. CASE UNCHANGED vars
  BY <1>4 DEF vars, CurrentInv, Made, WindowLen, Scheduling
<1> QED
  BY <1>1, <1>2, <1>3, <1>4
     DEF Next, reschedule, muscle_relax, muscle_bind_hw, muscle_init, muscle_set_fitted,
         muscle_set, limb_set

\* Once nothing is queued the windows are those of the table, and the board has
\* them: no call is lost between two runs of schedule() (muscle.c:29-49).
THEOREM WindowsCurrent == Spec => []ScheduleCurrent
<1>1. TypeOK /\ CurrentInv => ScheduleCurrent
  <2> SUFFICES ASSUME TypeOK, CurrentInv, ~pending, ~Scheduling
               PROVE  /\ \A ch \in Channels :
                           /\ win_len[ch] > 0 => act[ch] > 0
                           /\ act[ch] = 100 => win_len[ch] = Slot(Cardinality(fitted))
                      /\ hw => board = [start |-> win_start, len |-> win_len]
    BY DEF ScheduleCurrent
  <2>1. /\ slot = Slot(Cardinality(fitted)) /\ slot \in Nat
        /\ \A ch \in Channels :
             /\ win_len[ch] = (act[ch] * slot) \div 100
             /\ hw => stage.start[ch] = win_start[ch] /\ stage.len[ch] = win_len[ch]
    <3>1. \A ch \in Channels : ch < loop
      BY LimbsAssumption DEF TypeOK, Scheduling, Channels, MUSCLE_COUNT, MUSCLE_PER_LIMB
    <3> QED
      BY <3>1 DEF TypeOK, CurrentInv, Made, WindowLen
  <2>2. ASSUME NEW ch \in Channels
        PROVE  /\ win_len[ch] > 0 => act[ch] > 0
               /\ act[ch] = 100 => win_len[ch] = Slot(Cardinality(fitted))
    <3>1. act[ch] \in Nat
      BY DEF TypeOK
    <3>2. (0 * slot) \div 100 = 0 /\ (100 * slot) \div 100 = slot
      BY <2>1
    <3>3. act[ch] = 0 => win_len[ch] = 0
      BY <2>1, <3>2
    <3>4. act[ch] = 100 => win_len[ch] = slot
      BY <2>1, <3>2
    <3>5. win_len[ch] > 0 => act[ch] > 0
      BY <3>1, <3>3
    <3>6. act[ch] = 100 => win_len[ch] = Slot(Cardinality(fitted))
      BY <2>1, <3>4
    <3> QED
      BY <3>5, <3>6
  <2>3. ASSUME hw PROVE board = [start |-> win_start, len |-> win_len]
    <3>1. board = stage /\ stage \in Windows
      BY <2>3 DEF TypeOK, CurrentInv
    <3>2. stage.start = win_start /\ stage.len = win_len
      BY <2>1, <2>3 DEF TypeOK, Windows
    <3> QED
      BY <3>1, <3>2 DEF Windows
  <2> QED
    BY <2>2, <2>3
<1>2. MInv => TypeOK
  BY DEF MInv
<1>3. Spec => []CurrentInv
  BY <1>2, CurrentInit, CurrentStep, Invariance, PTL DEF Spec
<1> QED
  BY <1>1, <1>2, <1>3, Invariance, PTL


(***************************************************************************)
(* Muscle implements the table the layers above it are written on.         *)
(***************************************************************************)
LEMMA ContractAct ==
  ASSUME NEW ch \in Channels, NEW pct \in Pcts
  PROVE  SetAct(ch, Clamp(pct)) = Contract!Activate(act, ch, Clamp(pct))
  BY DEF SetAct, Contract!Activate, Antagonist, Contract!Antagonist, Channels,
         Contract!Channels, MUSCLE_COUNT, MUSCLE_PER_LIMB, Contract!MUSCLE_PER_LIMB

\* One call, as the table sees it.
LEMMA ContractSet ==
  ASSUME NEW pct \in Pcts, NEW muscle \in Int, muscle_set(muscle, pct)
  PROVE  Contract!Next
<1> DEFINE ch == muscle - 1
<1>1. ch \in Channels /\ ch \in Contract!Channels
  BY DEF muscle_set, Channels, Contract!Channels, MUSCLE_COUNT, MUSCLE_PER_LIMB,
         Contract!MUSCLE_PER_LIMB
<1>2. Contract!LimbOf(ch) \in fitted
  BY DEF muscle_set, limb_fitted, LimbOf, Contract!LimbOf, MUSCLE_PER_LIMB,
         Contract!MUSCLE_PER_LIMB
<1>3. act' = Contract!Activate(act, ch, Clamp(pct)) /\ fitted' = fitted
  BY <1>1, ContractAct DEF muscle_set
<1>4. Contract!muscle_set(ch, Clamp(pct))
  BY <1>2, <1>3 DEF Contract!muscle_set
<1> QED
  BY <1>1, <1>4 DEF Contract!Next

\* For any number of limbs and any activations, every history of calls on the
\* muscle scheduler is one of the activation table muscle.h describes: the
\* scheduling steps do not touch it (muscle.c:53-97).
THEOREM Implements == Spec => ImplementsTable
<1>1. Init => Contract!Init
  BY DEF Init, Contract!Init, AllOff, Contract!Relaxed, Channels, Contract!Channels,
         MUSCLE_COUNT, MUSCLE_PER_LIMB, Contract!MUSCLE_PER_LIMB
<1>2. ASSUME [Next]_vars
      PROVE  [Contract!Next]_<<fitted, act>>
  <2>1. CASE muscle_relax
    BY <2>1 DEF muscle_relax, Contract!Next, Contract!muscle_relax, AllOff, Contract!Relaxed,
           Channels, Contract!Channels, MUSCLE_COUNT, MUSCLE_PER_LIMB, Contract!MUSCLE_PER_LIMB
  <2>2. CASE muscle_bind_hw
    BY <2>2 DEF muscle_bind_hw, table
  <2>3. ASSUME NEW mask \in SUBSET Limbs, muscle_init(mask)
        PROVE  Contract!muscle_init(mask)
    BY <2>3 DEF muscle_init, Contract!muscle_init, AllOff, Contract!Relaxed, Channels,
           Contract!Channels, MUSCLE_COUNT, MUSCLE_PER_LIMB, Contract!MUSCLE_PER_LIMB
  <2>4. ASSUME NEW mask \in SUBSET Limbs, muscle_set_fitted(mask)
        PROVE  Contract!muscle_set_fitted(mask)
    BY <2>4 DEF muscle_set_fitted, Contract!muscle_set_fitted, Contract!Refit, Channels,
           Contract!Channels, LimbOf, Contract!LimbOf, MUSCLE_COUNT, MUSCLE_PER_LIMB,
           Contract!MUSCLE_PER_LIMB
  <2>5. ASSUME NEW pct \in Pcts, NEW muscle \in 0 .. MUSCLE_COUNT + 1, muscle_set(muscle, pct)
        PROVE  Contract!Next
    BY <2>5, ContractSet
  <2>6. ASSUME NEW pct \in Pcts, NEW limb \in 0 .. MUSCLE_LIMBS + 1,
               NEW muscle \in 0 .. MUSCLE_PER_LIMB + 1, limb_set(limb, muscle, pct)
        PROVE  Contract!Next
    <3>1. (limb - 1) * MUSCLE_PER_LIMB + muscle \in Int
      BY DEF MUSCLE_PER_LIMB
    <3> QED
      BY <2>6, <3>1, ContractSet DEF limb_set
  <2>7. CASE ScheduleBegin
    BY <2>7 DEF ScheduleBegin
  <2>8. CASE ScheduleChannel
    BY <2>8 DEF ScheduleChannel
  <2>9. CASE UNCHANGED vars
    BY <2>9 DEF vars
  <2>10. Limbs = Contract!Limbs
    BY DEF Limbs, Contract!Limbs
  <2>11. ASSUME NEW mask \in SUBSET Limbs, muscle_init(mask) \/ muscle_set_fitted(mask)
         PROVE  Contract!Next
    BY <2>3, <2>4, <2>10, <2>11 DEF Contract!Next
  <2> QED
    BY <1>2, <2>1, <2>2, <2>5, <2>6, <2>7, <2>8, <2>9, <2>11 DEF Next
<1> QED
  BY <1>1, <1>2, PTL DEF Spec, ImplementsTable, Contract!Spec
=============================================================================
