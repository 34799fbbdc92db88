--------------------------- MODULE MuscleSrProofs ---------------------------
(***************************************************************************)
(* The safety of the shift-register shim, for any chain, any window tables *)
(* and, but for the last two parts, any timing of the interrupts: nothing  *)
(* is shown half-built, no commit is lost, an edge puts out its own        *)
(* pattern, nothing is on before the self-test or after a halt, packed     *)
(* tables keep to one wire, the outputs follow the windows, and no sample  *)
(* comes before its delay.                                                 *)
(*                                                                         *)
(* None of these is inductive. The task and the interrupts meet in the     *)
(* schedule buffers (Committing, Whole), the edge interrupt's place must   *)
(* stay inside the running schedule (InPlace), the shift register holds    *)
(* what the code believes unless it is dirty (Clean), a halted timer       *)
(* raises nothing more (Quiet), and before the shim is bound every         *)
(* schedule is the empty one (Unbound). For the outputs and the samples    *)
(* the next edge is also always ahead of the counter and armed, or its     *)
(* interrupt waiting or at work (Timing), the chain shows the last edge's  *)
(* pattern (Shown), and a sample that waits was raised at the delay of an  *)
(* edge of a table, and is not early for the edge it will be taken for     *)
(* (Sampled).                                                              *)
(***************************************************************************)
EXTENDS MuscleSr, Arithmetic, FiniteSetTheorems, TLAPS

Whole(s) == \E w \in Tables : s = build[w]

\* commit() writes only the buffer it took, and the frame interrupt runs only
\* schedules that are whole.
Committing ==
  /\ task \in {"build", "publish"} => buf \in Buffers
  /\ task = "publish" => sch[buf] = build[stage]
  /\ \A b \in Buffers : halted \/ (task = "build" /\ b = buf) \/ Whole(sch[b])

\* The next edge is one of the running schedule's.
InPlace ==
  /\ next_edge >= 1
  /\ isr = "frame_arm" => next_edge = 2 /\ 2 <= Len(sch[cur].t)
  /\ isr \in {"edge", "edge_arm", "edge_check"} => next_edge <= Len(sch[cur].t)

\* The register holds the last pattern shifted in, or is known not to.
Clean == halted \/ dirty \/ sreg = shifted

\* A halted timer stands still and has raised nothing.
Quiet ==
  /\ halted => ~running /\ ~pendF /\ ~pendA /\ ~pendB /\ isr = "none" /\ phase # "boot"
  /\ ~halted => missed <= 1
  /\ phase = "boot" => ~running /\ ~pendF /\ ~pendA /\ ~pendB

\* Nothing but the empty schedule runs before the self-test has passed.
Unbound ==
  /\ phase # "bound" =>
       /\ task = "idle" /\ pending = NONE
       /\ \A b \in Buffers : sch[b] = build[Off]
       /\ chain = {} /\ sreg = {}
  /\ phase \in {"frametest", "bound"} => selftest_hit
  /\ phase = "bound" => frame_seen

SInv ==
  /\ TypeOK /\ Committing /\ InPlace /\ Clean /\ Quiet /\ Unbound
  /\ BuildIsPrivate /\ LatestCommitWins

-----------------------------------------------------------------------------
USE TimingAssumption, LayoutsAssumption, SwitchesAssumption

\* The more of a set of times is below, the later.
LEMMA RankStrict ==
  ASSUME NEW T \in SUBSET Nat, IsFiniteSet(T), NEW x \in T, NEW y \in T, x < y
  PROVE  /\ Cardinality({z \in T : z < x}) \in Nat
         /\ Cardinality({z \in T : z < y}) \in 0 .. Cardinality(T) - 1
         /\ Cardinality({z \in T : z < x}) < Cardinality({z \in T : z < y})
<1> DEFINE Below(u) == {z \in T : z < u}
<1>1. Cardinality(T) \in Nat
  BY FS_CardinalityType
<1>2. /\ \A z \in T : z < x => z < y
      /\ ~(x < x) /\ ~(y < y)
  OBVIOUS
<1>3. /\ Below(y) \in SUBSET T /\ y \in T \ Below(y)
      /\ Below(x) \in SUBSET Below(y) /\ x \in Below(y) \ Below(x)
  BY <1>2
<1> HIDE DEF Below
<1>4. /\ IsFiniteSet(Below(y)) /\ Cardinality(Below(y)) <= Cardinality(T)
      /\ Cardinality(T) = Cardinality(Below(y)) => T = Below(y)
  BY <1>3, FS_Subset
<1>5. /\ IsFiniteSet(Below(x)) /\ Cardinality(Below(x)) <= Cardinality(Below(y))
      /\ Cardinality(Below(y)) = Cardinality(Below(x)) => Below(y) = Below(x)
  BY <1>3, <1>4, FS_Subset
<1>6. Cardinality(Below(x)) \in Nat /\ Cardinality(Below(y)) \in Nat
  BY <1>4, <1>5, FS_CardinalityType
<1>7. /\ Cardinality(Below(x)) < Cardinality(Below(y))
      /\ Cardinality(Below(y)) \in 0 .. Cardinality(T) - 1
  BY <1>1, <1>3, <1>4, <1>5, <1>6
<1> QED
  BY <1>6, <1>7 DEF Below

\* Times are distinct ranks below the set's size, so every rank is taken: Nth is
\* defined for every place.
LEMMA NthFacts ==
  ASSUME NEW T \in SUBSET Nat, IsFiniteSet(T), NEW i \in 1 .. Cardinality(T)
  PROVE  Nth(T, i) \in T /\ Cardinality({y \in T : y < Nth(T, i)}) = i - 1
<1> DEFINE n == Cardinality(T)
           Below(x) == {y \in T : y < x}
           rank == [x \in T |-> Cardinality(Below(x))]
<1>1. n \in Nat
  BY FS_CardinalityType
<1>2. ASSUME NEW x \in T
      PROVE  IsFiniteSet(Below(x)) /\ Cardinality(Below(x)) \in 0 .. n - 1
  <2>1. Below(x) \in SUBSET T /\ x \in T \ Below(x)
    OBVIOUS
  <2>2. /\ IsFiniteSet(Below(x)) /\ Cardinality(Below(x)) <= n
        /\ n = Cardinality(Below(x)) => T = Below(x)
    BY <2>1, FS_Subset
  <2>3. Cardinality(Below(x)) \in Nat
    BY <2>2, FS_CardinalityType
  <2> QED
    BY <1>1, <2>1, <2>2, <2>3
<1>3. ASSUME NEW x \in T, NEW y \in T, x < y
      PROVE  Cardinality(Below(x)) # Cardinality(Below(y))
  <2>1. Cardinality(Below(x)) < Cardinality(Below(y))
    BY <1>3, RankStrict
  <2>2. Cardinality(Below(x)) \in 0 .. n - 1 /\ Cardinality(Below(y)) \in 0 .. n - 1
    BY <1>2
  <2> QED
    BY <1>1, <2>1, <2>2
<1>4. rank \in [T -> 0 .. n - 1]
  BY <1>2
<1>5. \A x, y \in T : rank[x] = rank[y] => x = y
  <2> SUFFICES ASSUME NEW x \in T, NEW y \in T, x < y
               PROVE  rank[x] # rank[y]
    OBVIOUS
  <2> QED
    BY <1>3
<1>6. rank \in Injection(T, 0 .. n - 1)
  BY <1>4, <1>5 DEF Injection, IsInjective
<1>7. IsFiniteSet(0 .. n - 1) /\ Cardinality(0 .. n - 1) = n
  <2>1. 0 \in Int /\ n - 1 \in Int
    BY <1>1
  <2>2. /\ IsFiniteSet(0 .. n - 1)
        /\ Cardinality(0 .. n - 1) = IF 0 > n - 1 THEN 0 ELSE (n - 1) - 0 + 1
    BY ONLY <2>1, FS_Interval, Zenon
  <2> HIDE DEF n
  <2> QED
    BY <1>1, <2>2
<1>8. rank \in Surjection(T, 0 .. n - 1)
  BY <1>6, <1>7, FS_Injection
<1>9. PICK x \in T : Cardinality(Below(x)) = i - 1
  <2>1. i - 1 \in 0 .. n - 1
    BY <1>1
  <2>2. PICK x \in T : rank[x] = i - 1
    BY <1>8, <2>1 DEF Surjection
  <2> QED
    BY <2>2
<1> QED
  BY <1>9 DEF Nth

\* Rounding to the gap gives a count (muscle_sr.c:63-68).
LEMMA CountsType ==
  ASSUME NEW m \in Nat
  PROVE  to_counts(m) \in Nat
<1>1. m * FRAME \in Nat
  OBVIOUS
<1>2. (m * FRAME) \div MUSCLE_FRAME \in Nat
  BY <1>1
<1>3. GAP \in Nat /\ GAP > 0 /\ GAP \div 2 \in Nat
  OBVIOUS
<1>4. ((m * FRAME) \div MUSCLE_FRAME + GAP \div 2) \div GAP \in Nat
  BY <1>2, <1>3
<1> QED
  BY <1>3, <1>4 DEF to_counts

LEMMA EdgeTimesFacts ==
  ASSUME NEW w \in Tables
  PROVE  /\ EdgeTimes(w) \in SUBSET (0 .. FRAME - 1)
         /\ IsFiniteSet(EdgeTimes(w))
         /\ Cardinality(EdgeTimes(w)) \in Nat \ {0}
<1>1. w \in [start : [Channels -> Nat], len : [Channels -> Nat]]
  BY DEF Tables, Off
<1>2. ASSUME NEW ch \in Channels
      PROVE  WinStart(w, ch) \in Nat /\ WinEnd(w, ch) \in Nat
  <2>1. w.start[ch] \in Nat /\ w.start[ch] + w.len[ch] \in Nat
    BY <1>1
  <2> QED
    BY <2>1, CountsType DEF WinStart, WinEnd
<1>3. EdgeTimes(w) \in SUBSET (0 .. FRAME - 1)
  BY <1>2 DEF EdgeTimes
<1>4. 0 \in EdgeTimes(w)
  BY DEF EdgeTimes
<1>5. IsFiniteSet(0 .. FRAME - 1)
  BY FS_Interval
<1>6. IsFiniteSet(EdgeTimes(w))
  BY <1>3, <1>5, FS_Subset
<1>7. Cardinality(EdgeTimes(w)) \in Nat /\ Cardinality(EdgeTimes(w)) # 0
  BY <1>4, <1>6, FS_CardinalityType, FS_EmptySet
<1> QED
  BY <1>3, <1>6, <1>7

\* A schedule starts at a count of the frame, each edge's pattern is the one the
\* table asks for at its time (muscle_sr.c:70-108).
LEMMA BuildFacts ==
  ASSUME NEW w \in Tables
  PROVE  /\ build[w].win = w
         /\ Len(build[w].t) \in Nat \ {0}
         /\ \A i \in 1 .. Len(build[w].t) :
              /\ build[w].t[i] \in 0 .. FRAME - 1
              /\ build[w].mask[i] = PatternAt(w, build[w].t[i])
<1> DEFINE T == EdgeTimes(w)
           n == Cardinality(T)
           t == [i \in 1 .. n |-> Nth(T, i)]
           mask == [i \in 1 .. n |-> PatternAt(w, t[i])]
<1>1. build[w] = [t |-> t, mask |-> mask, win |-> w]
  BY DEF build
<1>2. T \in SUBSET (0 .. FRAME - 1) /\ IsFiniteSet(T) /\ n \in Nat \ {0}
  BY EdgeTimesFacts
<1> HIDE DEF T
<1>3. ASSUME NEW i \in 1 .. n
      PROVE  t[i] \in 0 .. FRAME - 1
  <2>1. T \in SUBSET Nat
    BY <1>2
  <2>2. Nth(T, i) \in T
    BY <1>2, <2>1, NthFacts
  <2> QED
    BY <1>2, <2>2
<1> HIDE DEF n
<1>4. Len(t) = n
  BY <1>2
<1> HIDE DEF t
<1> QED
  BY <1>1, <1>2, <1>3, <1>4

\* Every schedule a buffer can hold, half-built or whole.
LEMMA ScheduleFacts ==
  ASSUME NEW s \in Schedules
  PROVE  /\ Len(s.t) \in Nat \ {0}
         /\ \A i \in 1 .. Len(s.t) : s.t[i] \in 0 .. FRAME - 1 /\ s.mask[i] \subseteq Channels
<1>1. CASE s = Torn
  BY <1>1 DEF Torn
<1>2. ASSUME NEW w \in Tables, s = build[w]
      PROVE  /\ Len(s.t) \in Nat \ {0}
             /\ \A i \in 1 .. Len(s.t) : s.t[i] \in 0 .. FRAME - 1 /\ s.mask[i] \subseteq Channels
  BY <1>2, BuildFacts DEF PatternAt
<1> QED
  BY <1>1, <1>2 DEF Schedules

\* The empty schedule turns nothing on.
LEMMA OffFacts ==
  /\ Off \in Tables
  /\ \A i \in 1 .. Len(build[Off].t) : build[Off].mask[i] = {}
<1>1. Off \in Tables
  BY DEF Tables
<1>2. \A c : PatternAt(Off, c) = {}
  BY DEF PatternAt, Off
<1> QED
  BY <1>1, <1>2, BuildFacts

-----------------------------------------------------------------------------
\* What an interrupt can read of the running schedule.
LEMMA RunningFacts ==
  ASSUME SInv
  PROVE  /\ Len(sch[cur].t) \in Nat \ {0}
         /\ \A i \in 1 .. Len(sch[cur].t) :
              /\ sch[cur].t[i] \in 0 .. FRAME - 1 /\ sch[cur].mask[i] \subseteq Channels
              /\ phase # "bound" => sch[cur].mask[i] = {}
<1>1. cur \in Buffers /\ sch[cur] \in Schedules
  BY DEF SInv, TypeOK, TaskType
<1>2. phase # "bound" => sch[cur] = build[Off]
  BY <1>1 DEF SInv, Unbound
<1>3. /\ Len(sch[cur].t) \in Nat \ {0}
      /\ \A i \in 1 .. Len(sch[cur].t) :
           sch[cur].t[i] \in 0 .. FRAME - 1 /\ sch[cur].mask[i] \subseteq Channels
  BY <1>1, ScheduleFacts
<1> QED
  BY <1>2, <1>3, OffFacts

LEMMA HaltedTimer ==
  ASSUME TimerType, NEW why, halt_with(why), UNCHANGED irqs
  PROVE  TimerType'
<1>1. late' \in 0 .. Latency /\ slate' \in 0 .. SampleLatency
  BY DEF halt_with
<1>2. /\ running' \in BOOLEAN /\ pendF' \in BOOLEAN /\ pendA' \in BOOLEAN /\ pendB' \in BOOLEAN
  BY DEF halt_with
<1>3. UNCHANGED <<count, cmpA, cmpB, edge_irq, frame_irq>>
  BY DEF halt_with, irqs
<1> QED
  BY <1>1, <1>2, <1>3 DEF TimerType

LEMMA InitInv == Init => SInv
<1> SUFFICES ASSUME Init PROVE SInv
  OBVIOUS
<1>1. build[Off] \in Schedules /\ Off \in Tables /\ build[Off].win = Off
  BY OffFacts, BuildFacts DEF Schedules
<1>2. TimerType /\ SampleType
  <2>1. edge_irq \in BOOLEAN /\ frame_irq \in BOOLEAN
    BY DEF Init
  <2>2. /\ count \in 0 .. FRAME - 1 /\ cmpA \in 0 .. FRAME /\ cmpB \in 0 .. FRAME
        /\ late \in 0 .. Latency /\ slate \in 0 .. SampleLatency /\ last_edge \in 0 .. FRAME - 1
    BY DEF Init, NEVER
  <2> QED
    BY <2>1, <2>2 DEF Init, TimerType, SampleType
<1>3. TaskType
  BY <1>1 DEF Init, TaskType, Buffers
<1>4. TestType
  <2>1. wraps \in 0 .. 4 /\ missed \in 0 .. 2
    BY DEF Init
  <2>2. selftest \in BOOLEAN /\ selftest_hit \in BOOLEAN /\ frame_seen \in BOOLEAN
    BY DEF Init
  <2> QED
    BY <2>1, <2>2 DEF Init, TestType
<1>5. OutputType
  BY DEF Init, OutputType
<1>6. Committing
  BY <1>1 DEF Init, Committing, Whole, Buffers
<1> QED
  BY <1>1, <1>2, <1>3, <1>4, <1>5, <1>6 DEF Init, SInv, TypeOK, InPlace, Clean, Quiet,
     Unbound, BuildIsPrivate, LatestCommitWins, halted, Buffers

LEMMA TickStep ==
  ASSUME SInv, Tick
  PROVE  SInv'
<1>1. TimerType'
  BY DEF SInv, Tick, Urgent, Sampling, TypeOK, TimerType, irqs
<1>2. TaskType'
  BY DEF SInv, Tick, Urgent, Sampling, TypeOK, TaskType, buffers, tasks
<1>3. TestType'
  BY DEF SInv, Tick, Urgent, Sampling, TypeOK, TestType
<1>4. OutputType' /\ SampleType'
  BY DEF SInv, Tick, Urgent, Sampling, TypeOK, OutputType, SampleType, edges, outputs,
     samples
<1>5. Committing' /\ BuildIsPrivate' /\ LatestCommitWins'
  BY DEF SInv, Tick, Urgent, Sampling, Committing, Whole, BuildIsPrivate,
     LatestCommitWins, halted, buffers, tasks
<1>6. InPlace' /\ Clean' /\ Quiet'
  BY DEF SInv, Tick, Urgent, Sampling, InPlace, Clean, Quiet, halted, buffers, edges,
     outputs
<1>7. Unbound'
  BY DEF SInv, Tick, Urgent, Sampling, Unbound, buffers, tasks, outputs
<1> QED
  BY <1>1, <1>2, <1>3, <1>4, <1>5, <1>6, <1>7 DEF SInv, TypeOK

LEMMA EdgeIrqDiesStep ==
  ASSUME SInv, EdgeIrqDies
  PROVE  SInv'
<1>1. TimerType'
  BY DEF SInv, EdgeIrqDies, TypeOK, TimerType, timer
<1>2. TaskType'
  BY DEF SInv, EdgeIrqDies, TypeOK, TaskType, buffers, tasks
<1>3. TestType'
  BY DEF SInv, EdgeIrqDies, TypeOK, TestType, tests
<1>4. OutputType' /\ SampleType'
  BY DEF SInv, EdgeIrqDies, TypeOK, OutputType, SampleType, edges, outputs, samples
<1>5. Committing' /\ BuildIsPrivate' /\ LatestCommitWins'
  BY DEF SInv, EdgeIrqDies, Committing, Whole, BuildIsPrivate, LatestCommitWins, halted,
     buffers, tasks
<1>6. InPlace' /\ Clean' /\ Quiet'
  BY DEF SInv, EdgeIrqDies, InPlace, Clean, Quiet, halted, timer, buffers, tests, edges,
     outputs
<1>7. Unbound'
  BY DEF SInv, EdgeIrqDies, Unbound, buffers, tasks, tests, outputs
<1> QED
  BY <1>1, <1>2, <1>3, <1>4, <1>5, <1>6, <1>7 DEF SInv, TypeOK

LEMMA muscle_sr_emergency_stopStep ==
  ASSUME SInv, muscle_sr_emergency_stop
  PROVE  SInv'
<1>1. TimerType'
  BY HaltedTimer DEF SInv, TypeOK, muscle_sr_emergency_stop
<1>2. TaskType'
  BY DEF SInv, muscle_sr_emergency_stop, TypeOK, TaskType, buffers, tasks
<1>3. TestType'
  BY DEF SInv, muscle_sr_emergency_stop, halt_with, TypeOK, TestType, tests
<1>4. OutputType' /\ SampleType'
  BY DEF SInv, muscle_sr_emergency_stop, halt_with, all_off, TypeOK, OutputType,
     SampleType, edges, samples
<1>5. Committing' /\ BuildIsPrivate' /\ LatestCommitWins'
  BY DEF SInv, muscle_sr_emergency_stop, halt_with, Committing, Whole, BuildIsPrivate,
     LatestCommitWins, halted, buffers, tasks
<1>6. InPlace' /\ Clean' /\ Quiet'
  BY DEF SInv, muscle_sr_emergency_stop, halt_with, all_off, InPlace, Clean, Quiet,
     halted, buffers, tests, edges
<1>7. Unbound'
  BY DEF SInv, muscle_sr_emergency_stop, halt_with, all_off, Unbound, buffers, tasks,
     tests
<1> QED
  BY <1>1, <1>2, <1>3, <1>4, <1>5, <1>6, <1>7 DEF SInv, TypeOK

LEMMA FaultHandlerStopStep ==
  ASSUME SInv, FaultHandlerStop
  PROVE  SInv'
<1>1. TimerType'
  BY HaltedTimer DEF SInv, TypeOK, FaultHandlerStop
<1>2. TaskType'
  BY DEF SInv, FaultHandlerStop, TypeOK, TaskType, buffers
<1>3. TestType'
  BY DEF SInv, FaultHandlerStop, halt_with, TypeOK, TestType, tests
<1>4. OutputType' /\ SampleType'
  BY DEF SInv, FaultHandlerStop, halt_with, all_off, TypeOK, OutputType, SampleType
<1>5. Committing' /\ BuildIsPrivate' /\ LatestCommitWins'
  BY DEF SInv, FaultHandlerStop, halt_with, Committing, Whole, BuildIsPrivate,
     LatestCommitWins, halted, buffers
<1>6. InPlace' /\ Clean' /\ Quiet'
  BY DEF SInv, FaultHandlerStop, halt_with, all_off, InPlace, Clean, Quiet, halted,
     buffers, tests
<1>7. Unbound'
  BY DEF SInv, FaultHandlerStop, halt_with, all_off, Unbound, buffers, tests
<1> QED
  BY <1>1, <1>2, <1>3, <1>4, <1>5, <1>6, <1>7 DEF SInv, TypeOK

LEMMA muscle_sr_initStep ==
  ASSUME SInv, muscle_sr_init
  PROVE  SInv'
<1>1. TimerType'
  BY DEF SInv, muscle_sr_init, TypeOK, TimerType, irqs
<1>2. TaskType'
  BY DEF SInv, muscle_sr_init, TypeOK, TaskType, buffers, tasks
<1>3. TestType'
  BY DEF SInv, muscle_sr_init, TypeOK, TestType
<1>4. OutputType' /\ SampleType'
  BY DEF SInv, muscle_sr_init, TypeOK, OutputType, SampleType, edges, outputs, samples
<1>5. Committing' /\ BuildIsPrivate' /\ LatestCommitWins'
  BY DEF SInv, muscle_sr_init, Committing, Whole, BuildIsPrivate, LatestCommitWins,
     halted, buffers, tasks
<1>6. InPlace' /\ Clean' /\ Quiet'
  BY DEF SInv, muscle_sr_init, InPlace, Clean, Quiet, halted, buffers, edges, outputs
<1>7. Unbound'
  BY DEF SInv, muscle_sr_init, Unbound, buffers, tasks, outputs
<1> QED
  BY <1>1, <1>2, <1>3, <1>4, <1>5, <1>6, <1>7 DEF SInv, TypeOK

LEMMA EdgeTestPassesStep ==
  ASSUME SInv, EdgeTestPasses
  PROVE  SInv'
<1>1. TimerType'
  BY DEF SInv, EdgeTestPasses, EdgeTestOk, TypeOK, TimerType, irqs, timer
<1>2. TaskType'
  BY DEF SInv, EdgeTestPasses, EdgeTestOk, TypeOK, TaskType, buffers, tasks
<1>3. TestType'
  <2>1. wraps' \in 0 .. 4 /\ missed' = missed
    BY DEF EdgeTestPasses
  <2>2. selftest' \in BOOLEAN /\ UNCHANGED <<selftest_hit, frame_seen, fault>>
    BY DEF EdgeTestPasses
  <2> QED
    BY <2>1, <2>2 DEF SInv, EdgeTestPasses, TypeOK, TestType
<1>4. OutputType' /\ SampleType'
  BY DEF SInv, EdgeTestPasses, EdgeTestOk, TypeOK, OutputType, SampleType, edges,
     outputs, samples
<1>5. Committing' /\ BuildIsPrivate' /\ LatestCommitWins'
  BY DEF SInv, EdgeTestPasses, EdgeTestOk, Committing, Whole, BuildIsPrivate,
     LatestCommitWins, halted, buffers, tasks
<1>6. InPlace' /\ Clean' /\ Quiet'
  BY DEF SInv, EdgeTestPasses, EdgeTestOk, InPlace, Clean, Quiet, halted, timer,
     buffers, edges, outputs
<1>7. Unbound'
  BY DEF SInv, EdgeTestPasses, EdgeTestOk, Unbound, buffers, tasks, outputs
<1> QED
  BY <1>1, <1>2, <1>3, <1>4, <1>5, <1>6, <1>7 DEF SInv, TypeOK

LEMMA EdgeTestFailsStep ==
  ASSUME SInv, EdgeTestFails
  PROVE  SInv'
<1>1. TimerType'
  BY HaltedTimer DEF SInv, TypeOK, EdgeTestFails
<1>2. TaskType'
  BY DEF SInv, EdgeTestFails, TypeOK, TaskType, buffers, tasks
<1>3. TestType'
  BY DEF SInv, EdgeTestFails, halt_with, TypeOK, TestType
<1>4. OutputType' /\ SampleType'
  BY DEF SInv, EdgeTestFails, halt_with, all_off, TypeOK, OutputType, SampleType, edges,
     samples
<1>5. Committing' /\ BuildIsPrivate' /\ LatestCommitWins'
  BY DEF SInv, EdgeTestFails, halt_with, Committing, Whole, BuildIsPrivate,
     LatestCommitWins, halted, buffers, tasks
<1>6. InPlace' /\ Clean' /\ Quiet'
  BY DEF SInv, EdgeTestFails, halt_with, all_off, InPlace, Clean, Quiet, halted,
     buffers, edges
<1>7. Unbound'
  BY DEF SInv, EdgeTestFails, halt_with, all_off, Unbound, buffers, tasks
<1> QED
  BY <1>1, <1>2, <1>3, <1>4, <1>5, <1>6, <1>7 DEF SInv, TypeOK

LEMMA FrameTestPassesStep ==
  ASSUME SInv, FrameTestPasses
  PROVE  SInv'
<1>1. TimerType'
  BY DEF SInv, FrameTestPasses, TypeOK, TimerType, irqs, timer
<1>2. TaskType'
  BY DEF SInv, FrameTestPasses, TypeOK, TaskType, buffers, tasks
<1>3. TestType'
  BY DEF SInv, FrameTestPasses, TypeOK, TestType
<1>4. OutputType' /\ SampleType'
  BY DEF SInv, FrameTestPasses, TypeOK, OutputType, SampleType, edges, outputs, samples
<1>5. Committing' /\ BuildIsPrivate' /\ LatestCommitWins'
  BY DEF SInv, FrameTestPasses, Committing, Whole, BuildIsPrivate, LatestCommitWins,
     halted, buffers, tasks
<1>6. InPlace' /\ Clean' /\ Quiet'
  BY DEF SInv, FrameTestPasses, InPlace, Clean, Quiet, halted, timer, buffers, edges,
     outputs
<1>7. Unbound'
  BY DEF SInv, FrameTestPasses, Unbound, buffers, tasks, outputs
<1> QED
  BY <1>1, <1>2, <1>3, <1>4, <1>5, <1>6, <1>7 DEF SInv, TypeOK

LEMMA FrameTestFailsStep ==
  ASSUME SInv, FrameTestFails
  PROVE  SInv'
<1>1. TimerType'
  BY HaltedTimer DEF SInv, TypeOK, FrameTestFails
<1>2. TaskType'
  BY DEF SInv, FrameTestFails, TypeOK, TaskType, buffers, tasks
<1>3. TestType'
  BY DEF SInv, FrameTestFails, halt_with, TypeOK, TestType
<1>4. OutputType' /\ SampleType'
  BY DEF SInv, FrameTestFails, halt_with, all_off, TypeOK, OutputType, SampleType,
     edges, samples
<1>5. Committing' /\ BuildIsPrivate' /\ LatestCommitWins'
  BY DEF SInv, FrameTestFails, halt_with, Committing, Whole, BuildIsPrivate,
     LatestCommitWins, halted, buffers, tasks
<1>6. InPlace' /\ Clean' /\ Quiet'
  BY DEF SInv, FrameTestFails, halt_with, all_off, InPlace, Clean, Quiet, halted,
     buffers, edges
<1>7. Unbound'
  BY DEF SInv, FrameTestFails, halt_with, all_off, Unbound, buffers, tasks
<1> QED
  BY <1>1, <1>2, <1>3, <1>4, <1>5, <1>6, <1>7 DEF SInv, TypeOK

LEMMA CommitBuildStep ==
  ASSUME SInv, CommitBuild
  PROVE  SInv'
<1>1. TimerType'
  BY DEF SInv, CommitBuild, Staged, TypeOK, TimerType, irqs, timer
<1>2. TaskType'
  <2>1. build[stage] \in Schedules
    BY DEF SInv, TypeOK, TaskType, Schedules
  <2> QED
    BY <2>1 DEF SInv, CommitBuild, Staged, TypeOK, TaskType, tests, edges, outputs,
       timer
<1>3. TestType'
  BY DEF SInv, CommitBuild, Staged, TypeOK, TestType, tests
<1>4. OutputType' /\ SampleType'
  BY DEF SInv, CommitBuild, Staged, TypeOK, OutputType, SampleType, edges, outputs,
     samples
<1>5. Committing' /\ BuildIsPrivate' /\ LatestCommitWins'
  BY DEF SInv, CommitBuild, Staged, Committing, Whole, BuildIsPrivate, LatestCommitWins,
     halted, TypeOK, TaskType
<1>6. InPlace' /\ Clean' /\ Quiet'
  <2>1. sch'[cur] = sch[cur] /\ cur' = cur
    BY DEF SInv, CommitBuild, BuildIsPrivate, TypeOK, TaskType
  <2> QED
    BY <2>1 DEF SInv, CommitBuild, InPlace, Clean, Quiet, halted, timer, tests, edges,
       outputs
<1>7. Unbound'
  BY DEF SInv, CommitBuild, Staged, Unbound, tests, outputs
<1> QED
  BY <1>1, <1>2, <1>3, <1>4, <1>5, <1>6, <1>7 DEF SInv, TypeOK

LEMMA CommitPublishStep ==
  ASSUME SInv, CommitPublish
  PROVE  SInv'
<1>1. TimerType'
  BY DEF SInv, CommitPublish, Published, TypeOK, TimerType, irqs, timer
<1>2. TaskType'
  BY DEF SInv, CommitPublish, Published, TypeOK, TaskType
<1>3. TestType'
  BY DEF SInv, CommitPublish, Published, TypeOK, TestType, tests
<1>4. OutputType' /\ SampleType'
  BY DEF SInv, CommitPublish, Published, TypeOK, OutputType, SampleType, edges, outputs,
     samples
<1>5. Committing' /\ BuildIsPrivate' /\ LatestCommitWins'
  <2>1. /\ buf \in Buffers /\ sch[buf] = build[stage] /\ stage \in Tables
        /\ task' = "idle" /\ pending' = buf /\ built' = stage /\ UNCHANGED <<sch, cur, fault, stage>>
        /\ task # "build"
    BY DEF SInv, CommitPublish, Published, Committing, TypeOK, TaskType
  <2>2. build[stage].win = stage /\ buf # NONE
    BY <2>1, BuildFacts DEF Buffers, NONE
  <2> QED
    BY <2>1, <2>2 DEF SInv, Committing, Whole, BuildIsPrivate, LatestCommitWins, halted
<1>6. InPlace' /\ Clean' /\ Quiet'
  BY DEF SInv, CommitPublish, Published, InPlace, Clean, Quiet, halted, timer, tests,
     edges, outputs
<1>7. Unbound'
  BY DEF SInv, CommitPublish, Published, Unbound, tests, outputs
<1> QED
  BY <1>1, <1>2, <1>3, <1>4, <1>5, <1>6, <1>7 DEF SInv, TypeOK

LEMMA SrLatchStep ==
  ASSUME SInv, SrLatch
  PROVE  SInv'
<1>1. TimerType'
  BY DEF SInv, SrLatch, TaskRuns, TypeOK, TimerType, irqs, timer
<1>2. TaskType'
  BY DEF SInv, SrLatch, TaskRuns, TypeOK, TaskType, buffers
<1>3. TestType'
  BY DEF SInv, SrLatch, TaskRuns, TypeOK, TestType, tests
<1>4. OutputType' /\ SampleType'
  BY DEF SInv, SrLatch, TaskRuns, TypeOK, OutputType, SampleType, edges, samples
<1>5. Committing' /\ BuildIsPrivate' /\ LatestCommitWins'
  BY DEF SInv, SrLatch, TaskRuns, Committing, Whole, BuildIsPrivate, LatestCommitWins,
     halted, buffers
<1>6. InPlace' /\ Clean' /\ Quiet'
  BY DEF SInv, SrLatch, TaskRuns, InPlace, Clean, Quiet, halted, timer, buffers, tests,
     edges
<1>7. Unbound'
  BY DEF SInv, SrLatch, TaskRuns, Unbound, buffers, tests
<1> QED
  BY <1>1, <1>2, <1>3, <1>4, <1>5, <1>6, <1>7 DEF SInv, TypeOK

LEMMA FrameHaltsStep ==
  ASSUME SInv, FrameHalts
  PROVE  SInv'
<1>1. TimerType'
  BY HaltedTimer DEF SInv, TypeOK, FrameHalts
<1>2. TaskType'
  BY DEF SInv, FrameHalts, Missed, Overrun, TypeOK, TaskType, buffers, tasks
<1>3. TestType'
  <2>1. missed' \in 0 .. 2
    BY DEF SInv, FrameHalts, Missed, Quiet, TypeOK, TestType
  <2> QED
    BY <2>1 DEF SInv, FrameHalts, halt_with, TypeOK, TestType
<1>4. OutputType' /\ SampleType'
  BY DEF SInv, FrameHalts, halt_with, all_off, Missed, Overrun, TypeOK, OutputType,
     SampleType, edges, samples
<1>5. Committing' /\ BuildIsPrivate' /\ LatestCommitWins'
  BY DEF SInv, FrameHalts, halt_with, Missed, Overrun, Committing, Whole,
     BuildIsPrivate, LatestCommitWins, halted, buffers, tasks
<1>6. InPlace' /\ Clean' /\ Quiet'
  BY DEF SInv, FrameHalts, halt_with, all_off, Missed, Overrun, InPlace, Clean, Quiet,
     halted, buffers, edges
<1>7. Unbound'
  BY DEF SInv, FrameHalts, halt_with, all_off, Missed, Overrun, Unbound, buffers, tasks
<1> QED
  BY <1>1, <1>2, <1>3, <1>4, <1>5, <1>6, <1>7 DEF SInv, TypeOK

LEMMA FrameArmStep ==
  ASSUME SInv, FrameArm
  PROVE  SInv'
<1>1. TimerType'
  <2>1. 2 \in 1 .. Len(sch[cur].t)
    BY RunningFacts DEF SInv, InPlace, FrameArm, TypeOK, OutputType
  <2>2. sch[cur].t[2] \in 0 .. FRAME - 1 /\ sch[cur].t[2] \in 0 .. FRAME
    BY <2>1, RunningFacts
  <2> QED
    BY <2>2 DEF SInv, FrameArm, preshift, Served, TypeOK, TimerType, irqs
<1>2. TaskType'
  BY DEF SInv, FrameArm, TypeOK, TaskType, buffers, tasks
<1>3. TestType'
  BY DEF SInv, FrameArm, TypeOK, TestType, tests
<1>4. OutputType' /\ SampleType'
  <2>1. 2 \in 1 .. Len(sch[cur].t)
    BY RunningFacts DEF SInv, InPlace, FrameArm, TypeOK, OutputType
  <2>2. sch[cur].mask[2] \subseteq Channels
    BY <2>1, RunningFacts
  <2> QED
    BY <2>2 DEF SInv, FrameArm, preshift, Served, TypeOK, OutputType, SampleType,
       samples
<1>5. Committing' /\ BuildIsPrivate' /\ LatestCommitWins'
  BY DEF SInv, FrameArm, Committing, Whole, BuildIsPrivate, LatestCommitWins, halted,
     buffers, tasks
<1>6. InPlace' /\ Clean' /\ Quiet'
  BY DEF SInv, FrameArm, preshift, Served, InPlace, Clean, Quiet, halted, buffers, tests
<1>7. Unbound'
  <2>1. 2 \in 1 .. Len(sch[cur].t)
    BY RunningFacts DEF SInv, InPlace, FrameArm, TypeOK, OutputType
  <2>2. phase # "bound" => sch[cur].mask[2] = {}
    BY <2>1, RunningFacts
  <2> QED
    BY <2>2 DEF SInv, FrameArm, preshift, Served, Unbound, buffers, tasks, tests
<1> QED
  BY <1>1, <1>2, <1>3, <1>4, <1>5, <1>6, <1>7 DEF SInv, TypeOK

LEMMA EdgeIgnoredStep ==
  ASSUME SInv, EdgeIgnored
  PROVE  SInv'
<1>1. TimerType'
  BY DEF SInv, EdgeIgnored, EdgeEnters, EdgeReturns, Served, TypeOK, TimerType, irqs
<1>2. TaskType'
  BY DEF SInv, EdgeIgnored, EdgeEnters, TypeOK, TaskType, buffers, tasks
<1>3. TestType'
  BY DEF SInv, EdgeIgnored, EdgeEnters, TypeOK, TestType
<1>4. OutputType' /\ SampleType'
  BY DEF SInv, EdgeIgnored, EdgeEnters, EdgeReturns, Served, TypeOK, OutputType,
     SampleType, outputs, samples
<1>5. Committing' /\ BuildIsPrivate' /\ LatestCommitWins'
  BY DEF SInv, EdgeIgnored, EdgeEnters, Committing, Whole, BuildIsPrivate,
     LatestCommitWins, halted, buffers, tasks
<1>6. InPlace' /\ Clean' /\ Quiet'
  BY DEF SInv, EdgeIgnored, EdgeEnters, EdgeReturns, Served, InPlace, Clean, Quiet,
     halted, buffers, outputs
<1>7. Unbound'
  BY DEF SInv, EdgeIgnored, EdgeEnters, Unbound, buffers, tasks, outputs
<1> QED
  BY <1>1, <1>2, <1>3, <1>4, <1>5, <1>6, <1>7 DEF SInv, TypeOK

LEMMA EdgeNotYetStep ==
  ASSUME SInv, EdgeNotYet
  PROVE  SInv'
<1>1. TimerType'
  <2>1. next_edge \in 1 .. Len(sch[cur].t)
    BY RunningFacts DEF SInv, InPlace, EdgeNotYet, TypeOK, OutputType
  <2>2. cmpA' \in 0 .. FRAME
    BY <2>1, RunningFacts DEF EdgeNotYet
  <2>3. late' \in 0 .. Latency
    BY DEF SInv, EdgeNotYet, EdgeReturns, Served, TypeOK, TimerType
  <2>4. pendA' \in BOOLEAN
    BY DEF SInv, EdgeNotYet, EdgeReturns, TypeOK, TimerType
  <2> QED
    BY <2>2, <2>3, <2>4 DEF SInv, EdgeNotYet, TypeOK, TimerType, irqs
<1>2. TaskType'
  BY DEF SInv, EdgeNotYet, EdgeRuns, EdgeEnters, TypeOK, TaskType, buffers, tasks
<1>3. TestType'
  BY DEF SInv, EdgeNotYet, EdgeRuns, EdgeEnters, TypeOK, TestType, tests
<1>4. OutputType' /\ SampleType'
  BY DEF SInv, EdgeNotYet, EdgeRuns, EdgeEnters, EdgeReturns, Served, TypeOK,
     OutputType, SampleType, outputs, samples
<1>5. Committing' /\ BuildIsPrivate' /\ LatestCommitWins'
  BY DEF SInv, EdgeNotYet, EdgeRuns, EdgeEnters, Committing, Whole, BuildIsPrivate,
     LatestCommitWins, halted, buffers, tasks
<1>6. InPlace' /\ Clean' /\ Quiet'
  BY DEF SInv, EdgeNotYet, EdgeRuns, EdgeEnters, EdgeReturns, Served, InPlace, Clean,
     Quiet, halted, buffers, tests, outputs
<1>7. Unbound'
  BY DEF SInv, EdgeNotYet, EdgeRuns, EdgeEnters, Unbound, buffers, tasks, tests, outputs
<1> QED
  BY <1>1, <1>2, <1>3, <1>4, <1>5, <1>6, <1>7 DEF SInv, TypeOK

LEMMA EdgeArmStep ==
  ASSUME SInv, EdgeArm
  PROVE  SInv'
<1>1. TimerType'
  <2>1. next_edge \in 1 .. Len(sch[cur].t)
    BY RunningFacts DEF SInv, InPlace, EdgeArm, TypeOK, OutputType
  <2>2. sch[cur].t[next_edge] \in 0 .. FRAME - 1 /\ sch[cur].t[next_edge] \in 0 .. FRAME
    BY <2>1, RunningFacts
  <2> QED
    BY <2>2 DEF SInv, EdgeArm, preshift, TypeOK, TimerType, irqs
<1>2. TaskType'
  BY DEF SInv, EdgeArm, TypeOK, TaskType, buffers, tasks
<1>3. TestType'
  BY DEF SInv, EdgeArm, TypeOK, TestType, tests
<1>4. OutputType' /\ SampleType'
  <2>1. next_edge \in 1 .. Len(sch[cur].t)
    BY RunningFacts DEF SInv, InPlace, EdgeArm, TypeOK, OutputType
  <2>2. sch[cur].mask[next_edge] \subseteq Channels
    BY <2>1, RunningFacts
  <2> QED
    BY <2>2 DEF SInv, EdgeArm, preshift, TypeOK, OutputType, SampleType, samples
<1>5. Committing' /\ BuildIsPrivate' /\ LatestCommitWins'
  BY DEF SInv, EdgeArm, Committing, Whole, BuildIsPrivate, LatestCommitWins, halted,
     buffers, tasks
<1>6. InPlace' /\ Clean' /\ Quiet'
  BY DEF SInv, EdgeArm, preshift, InPlace, Clean, Quiet, halted, buffers, tests
<1>7. Unbound'
  <2>1. next_edge \in 1 .. Len(sch[cur].t)
    BY RunningFacts DEF SInv, InPlace, EdgeArm, TypeOK, OutputType
  <2>2. phase # "bound" => sch[cur].mask[next_edge] = {}
    BY <2>1, RunningFacts
  <2> QED
    BY <2>2 DEF SInv, EdgeArm, preshift, Unbound, buffers, tasks, tests
<1> QED
  BY <1>1, <1>2, <1>3, <1>4, <1>5, <1>6, <1>7 DEF SInv, TypeOK

LEMMA EdgeCheckStep ==
  ASSUME SInv, EdgeCheck
  PROVE  SInv'
<1>1. TimerType'
  BY DEF SInv, EdgeCheck, Served, TypeOK, TimerType, irqs
<1>2. TaskType'
  BY DEF SInv, EdgeCheck, TypeOK, TaskType, buffers, tasks
<1>3. TestType'
  BY DEF SInv, EdgeCheck, TypeOK, TestType, tests
<1>4. OutputType' /\ SampleType'
  BY DEF SInv, EdgeCheck, Served, TypeOK, OutputType, SampleType, outputs, samples
<1>5. Committing' /\ BuildIsPrivate' /\ LatestCommitWins'
  BY DEF SInv, EdgeCheck, Committing, Whole, BuildIsPrivate, LatestCommitWins, halted,
     buffers, tasks
<1>6. InPlace' /\ Clean' /\ Quiet'
  BY DEF SInv, EdgeCheck, Served, InPlace, Clean, Quiet, halted, buffers, tests, outputs
<1>7. Unbound'
  BY DEF SInv, EdgeCheck, Unbound, buffers, tasks, tests, outputs
<1> QED
  BY <1>1, <1>2, <1>3, <1>4, <1>5, <1>6, <1>7 DEF SInv, TypeOK

LEMMA SampleEnterStep ==
  ASSUME SInv, SampleEnter
  PROVE  SInv'
<1>1. TimerType'
  <2>1. slate' \in 0 .. SampleLatency /\ late' = late
    BY DEF SInv, SampleEnter, SampleRest, TypeOK, TimerType
  <2>2. pendB' \in BOOLEAN /\ UNCHANGED <<edge_irq, frame_irq, running, count, cmpA, cmpB, pendF, pendA>>
    BY DEF SampleEnter, SampleRest, irqs
  <2> QED
    BY <2>1, <2>2 DEF SInv, TypeOK, TimerType
<1>2. TaskType'
  BY DEF SInv, SampleEnter, SampleStep, SampleRest, Urgent, TypeOK, TaskType, buffers,
     tasks
<1>3. TestType'
  BY DEF SInv, SampleEnter, SampleStep, SampleRest, Urgent, TypeOK, TestType, tests
<1>4. OutputType' /\ SampleType'
  BY DEF SInv, SampleEnter, SampleStep, SampleRest, Urgent, TypeOK, OutputType,
     SampleType, edges, outputs
<1>5. Committing' /\ BuildIsPrivate' /\ LatestCommitWins'
  BY DEF SInv, SampleEnter, SampleStep, SampleRest, Urgent, Committing, Whole,
     BuildIsPrivate, LatestCommitWins, halted, buffers, tasks
<1>6. InPlace' /\ Clean' /\ Quiet'
  BY DEF SInv, SampleEnter, SampleStep, SampleRest, Urgent, InPlace, Clean, Quiet,
     halted, buffers, tests, edges, outputs
<1>7. Unbound'
  BY DEF SInv, SampleEnter, SampleStep, SampleRest, Urgent, Unbound, buffers, tasks,
     tests, outputs
<1> QED
  BY <1>1, <1>2, <1>3, <1>4, <1>5, <1>6, <1>7 DEF SInv, TypeOK

LEMMA SampleClearStep ==
  ASSUME SInv, SampleClear
  PROVE  SInv'
<1>1. TimerType'
  BY DEF SInv, SampleClear, SampleStep, SampleRest, Urgent, TypeOK, TimerType, irqs
<1>2. TaskType'
  BY DEF SInv, SampleClear, SampleStep, SampleRest, Urgent, TypeOK, TaskType, buffers,
     tasks
<1>3. TestType'
  BY DEF SInv, SampleClear, SampleStep, SampleRest, Urgent, TypeOK, TestType, tests
<1>4. OutputType' /\ SampleType'
  BY DEF SInv, SampleClear, SampleStep, SampleRest, Urgent, TypeOK, OutputType,
     SampleType, edges, outputs
<1>5. Committing' /\ BuildIsPrivate' /\ LatestCommitWins'
  BY DEF SInv, SampleClear, SampleStep, SampleRest, Urgent, Committing, Whole,
     BuildIsPrivate, LatestCommitWins, halted, buffers, tasks
<1>6. InPlace' /\ Clean' /\ Quiet'
  BY DEF SInv, SampleClear, SampleStep, SampleRest, Urgent, InPlace, Clean, Quiet,
     halted, buffers, tests, edges, outputs
<1>7. Unbound'
  BY DEF SInv, SampleClear, SampleStep, SampleRest, Urgent, Unbound, buffers, tasks,
     tests, outputs
<1> QED
  BY <1>1, <1>2, <1>3, <1>4, <1>5, <1>6, <1>7 DEF SInv, TypeOK

LEMMA SampleCallStep ==
  ASSUME SInv, SampleCall
  PROVE  SInv'
<1>1. TimerType'
  BY DEF SInv, SampleCall, SampleStep, SampleRest, Urgent, TypeOK, TimerType, irqs
<1>2. TaskType'
  BY DEF SInv, SampleCall, SampleStep, SampleRest, Urgent, TypeOK, TaskType, buffers,
     tasks
<1>3. TestType'
  BY DEF SInv, SampleCall, SampleStep, SampleRest, Urgent, TypeOK, TestType, tests
<1>4. OutputType' /\ SampleType'
  BY DEF SInv, SampleCall, SampleStep, SampleRest, Urgent, TypeOK, OutputType,
     SampleType, edges, outputs
<1>5. Committing' /\ BuildIsPrivate' /\ LatestCommitWins'
  BY DEF SInv, SampleCall, SampleStep, SampleRest, Urgent, Committing, Whole,
     BuildIsPrivate, LatestCommitWins, halted, buffers, tasks
<1>6. InPlace' /\ Clean' /\ Quiet'
  BY DEF SInv, SampleCall, SampleStep, SampleRest, Urgent, InPlace, Clean, Quiet,
     halted, buffers, tests, edges, outputs
<1>7. Unbound'
  BY DEF SInv, SampleCall, SampleStep, SampleRest, Urgent, Unbound, buffers, tasks,
     tests, outputs
<1> QED
  BY <1>1, <1>2, <1>3, <1>4, <1>5, <1>6, <1>7 DEF SInv, TypeOK

LEMMA FreeBufferFacts ==
  ASSUME NEW c \in Buffers, NEW p \in Buffers \cup {NONE}
  PROVE  FreeBuffer(c, p) \in Buffers \ {c, p}
<1>1. \E b \in Buffers : b \notin {c, p} /\ \A a \in Buffers : a < b => a \in {c, p}
  BY DEF Buffers, NONE
<1> QED
  BY <1>1 DEF FreeBuffer

LEMMA CommitSnapshotStep ==
  ASSUME SInv, NEW w \in Layouts, CommitSnapshot(w)
  PROVE  SInv'
<1> DEFINE b == FreeBuffer(cur, pending)
<1>1. b \in Buffers \ {cur, pending}
  BY FreeBufferFacts DEF SInv, TypeOK, TaskType
<1> HIDE DEF b
<1>2. /\ phase = "bound" /\ task = "idle" /\ task' = "build" /\ buf' = b /\ stage' = w
      /\ sch' = [sch EXCEPT ![b] = Torn] /\ requests' = requests + 1 /\ requests < MaxRequests
      /\ UNCHANGED <<irqs, timer, cur, pending, built, tests, fault, missed, edges, outputs, samples>>
  BY DEF CommitSnapshot, Request, b
<1>3. sch \in [Buffers -> Schedules] /\ Torn \in Schedules
  BY DEF SInv, TypeOK, TaskType, Schedules
<1>4. \A a \in Buffers : a # b => sch'[a] = sch[a]
  BY <1>2, <1>3
<1>5. TaskType'
  BY <1>1, <1>2, <1>3 DEF SInv, TypeOK, TaskType, Tables
<1>6. Committing' /\ BuildIsPrivate' /\ LatestCommitWins'
  BY <1>1, <1>2, <1>4 DEF SInv, TypeOK, TaskType, Committing, Whole, BuildIsPrivate,
     LatestCommitWins, halted
<1>7. sch'[cur] = sch[cur] /\ cur' = cur
  BY <1>1, <1>2, <1>4 DEF SInv, TypeOK, TaskType
<1>8. InPlace' /\ Clean' /\ Quiet' /\ Unbound'
  BY <1>2, <1>7 DEF SInv, InPlace, Clean, Quiet, Unbound, halted, timer, tests, edges,
     outputs
<1>9. TimerType' /\ TestType' /\ OutputType' /\ SampleType'
  BY <1>2 DEF SInv, TypeOK, TimerType, TestType, OutputType, SampleType, irqs, timer,
     tests,
     edges, outputs, samples
<1> QED
  BY <1>5, <1>6, <1>8, <1>9 DEF SInv, TypeOK

LEMMA SrPutStep ==
  ASSUME SInv, NEW chip \in Chips, NEW value \in SUBSET chip, SrPut(chip, value)
  PROVE  SInv'
<1>1. /\ phase = "bound" /\ task = "idle" /\ task' = "latch"
      /\ requests' = requests + 1 /\ requests < MaxRequests
      /\ shadow' = (shadow \ chip) \cup value
      /\ UNCHANGED <<irqs, timer, buffers, buf, stage, built, tests, fault, missed, edges,
                     chain, sreg, dirty, out_mask, shifted, samples>>
  BY DEF SrPut, Request
<1>2. chip \subseteq Channels
  BY ChipsAssumption
<1>3. TaskType'
  BY <1>1 DEF SInv, TypeOK, TaskType, buffers
<1>4. OutputType'
  BY <1>1, <1>2 DEF SInv, TypeOK, OutputType, edges
<1>5. TimerType' /\ TestType' /\ SampleType'
  BY <1>1 DEF SInv, TypeOK, TimerType, TestType, SampleType, irqs, timer, tests, samples
<1>6. Committing' /\ BuildIsPrivate' /\ LatestCommitWins'
  BY <1>1 DEF SInv, Committing, Whole, BuildIsPrivate, LatestCommitWins, halted, buffers
<1>7. InPlace' /\ Clean' /\ Quiet' /\ Unbound'
  BY <1>1 DEF SInv, InPlace, Clean, Quiet, Unbound, halted, timer, buffers, tests, edges
<1> QED
  BY <1>3, <1>4, <1>5, <1>6, <1>7 DEF SInv, TypeOK

LEMMA OnSampleStep ==
  ASSUME SInv, NEW on \in BOOLEAN, muscle_sr_on_sample(on)
  PROVE  SInv'
<1>1. /\ requests' = requests + 1 /\ requests < MaxRequests /\ sample_cb' = on
      /\ UNCHANGED <<irqs, timer, buffers, task, buf, stage, built, tests, fault, missed,
                     edges, outputs, sample_armed, sample_current, last_edge, sisr, early>>
  BY DEF muscle_sr_on_sample, Request
<1>2. TaskType'
  BY <1>1 DEF SInv, TypeOK, TaskType, buffers
<1>3. TimerType' /\ TestType' /\ OutputType' /\ SampleType'
  BY <1>1 DEF SInv, TypeOK, TimerType, TestType, OutputType, SampleType, irqs, timer,
     tests,
     edges, outputs
<1>4. Committing' /\ BuildIsPrivate' /\ LatestCommitWins'
  BY <1>1 DEF SInv, Committing, Whole, BuildIsPrivate, LatestCommitWins, halted, buffers
<1>5. InPlace' /\ Clean' /\ Quiet' /\ Unbound'
  BY <1>1 DEF SInv, InPlace, Clean, Quiet, Unbound, halted, timer, buffers, tests,
     edges, outputs
<1> QED
  BY <1>2, <1>3, <1>4, <1>5 DEF SInv, TypeOK

\* While the register is known to hold what was shifted, latch() puts out m.
LEMMA LatchedFacts ==
  ASSUME Clean, ~halted, NEW m
  PROVE  Latched(m) = m
  BY DEF Clean, Latched

LEMMA ArmSampleType ==
  ASSUME SInv, NEW at \in 0 .. FRAME - 1, arm_sample_for(at)
  PROVE  cmpB' \in 0 .. FRAME /\ SampleType'
<1>1. sample_cb \in BOOLEAN /\ sample_armed \in BOOLEAN /\ cmpB \in 0 .. FRAME
      /\ early \in BOOLEAN /\ sisr \in {"none", "clear", "call"}
  BY DEF SInv, TypeOK, SampleType, TimerType
<1>2. cmpB' \in 0 .. FRAME /\ last_edge' \in 0 .. FRAME - 1
  BY <1>1 DEF arm_sample_for
<1>3. sample_armed' \in BOOLEAN /\ sample_current' \in BOOLEAN
  BY <1>1 DEF arm_sample_for
<1> QED
  BY <1>1, <1>2, <1>3 DEF SampleType, arm_sample_for

LEMMA EdgeLatchStep ==
  ASSUME SInv, EdgeLatch
  PROVE  SInv'
<1> DEFINE s == sch[cur]
           m == s.mask[next_edge]
           last == next_edge = Len(s.t)
<1>1. /\ EdgeRuns /\ next_edge <= Len(s.t) /\ next_edge' = next_edge + 1
      /\ latch(m, s.t[next_edge]) /\ edge_armed' = ~last
      /\ IF last THEN preshift(s.mask[1]) ELSE keepshift(m)
      /\ isr' = IF last THEN "none" ELSE "edge_arm"
      /\ pendA' = IF isr = "none" THEN FALSE ELSE pendA
      /\ Served(pendF, pendA')
      /\ UNCHANGED <<irqs, running, count, cmpA, pendF, pendB, slate, buffers, tasks, tests,
                     fault, missed>>
  BY DEF EdgeLatch
<1>2. /\ Len(s.t) \in Nat \ {0} /\ next_edge \in 1 .. Len(s.t)
      /\ s.t[next_edge] \in 0 .. FRAME - 1 /\ m \subseteq Channels /\ s.mask[1] \subseteq Channels
      /\ phase # "bound" => m = {} /\ s.mask[1] = {}
  <2>1. Len(s.t) \in Nat \ {0} /\ next_edge \in 1 .. Len(s.t) /\ 1 \in 1 .. Len(s.t)
    BY <1>1, RunningFacts DEF SInv, InPlace, TypeOK, OutputType
  <2> QED
    BY <2>1, RunningFacts
<1>3. ~halted
  BY <1>1 DEF SInv, Quiet, EdgeRuns, EdgeEnters
<1>4. Latched(m) = m
  BY <1>3, LatchedFacts DEF SInv
<1> HIDE DEF s, m, last
<1>5. /\ chain' = m /\ dirty' = FALSE /\ shadow' = m /\ out_mask' = m
      /\ arm_sample_for(s.t[next_edge])
      /\ sreg' = shifted' /\ shifted' \in {m, s.mask[1]}
  BY <1>1, <1>4 DEF latch, preshift, keepshift
<1>6. cmpB' \in 0 .. FRAME /\ SampleType'
  BY <1>2, <1>5, ArmSampleType
<1>7. TimerType'
  <2>1. late' \in 0 .. Latency
    BY <1>1 DEF Served, SInv, TypeOK, TimerType
  <2>2. pendA' \in BOOLEAN
    BY <1>1 DEF SInv, TypeOK, TimerType
  <2> QED
    BY <1>1, <1>6, <2>1, <2>2 DEF SInv, TypeOK, TimerType, irqs
<1>8. OutputType'
  <2>1. edge_armed' \in BOOLEAN /\ next_edge' \in Nat
    BY <1>1, <1>2
  <2>2. isr' \in {"none", "edge_arm"}
    BY <1>1
  <2> QED
    BY <1>2, <1>5, <2>1, <2>2 DEF OutputType
<1>9. TaskType' /\ TestType'
  BY <1>1 DEF SInv, TypeOK, TaskType, TestType, buffers, tasks, tests
<1>10. Committing' /\ BuildIsPrivate' /\ LatestCommitWins'
  BY <1>1 DEF SInv, Committing, Whole, BuildIsPrivate, LatestCommitWins, halted,
     buffers, tasks
<1>11. InPlace'
  <2>1. sch' = sch /\ cur' = cur
    BY <1>1 DEF buffers
  <2>2. isr' = "edge_arm" => next_edge' <= Len(s.t)
    BY <1>1, <1>2 DEF last
  <2>3. isr' \in {"none", "edge_arm"} /\ next_edge' >= 1
    BY <1>1, <1>2
  <2> QED
    BY <2>1, <2>2, <2>3 DEF InPlace, s
<1>12. Clean' /\ Quiet'
  BY <1>1, <1>3, <1>5 DEF SInv, Clean, Quiet, halted, tests
<1>13. Unbound'
  BY <1>1, <1>2, <1>5 DEF SInv, Unbound, buffers, tasks, tests
<1> QED
  BY <1>6, <1>7, <1>8, <1>9, <1>10, <1>11, <1>12, <1>13 DEF SInv, TypeOK

LEMMA FrameStep ==
  ASSUME SInv, muscle_sr_isr_frame
  PROVE  SInv'
<1> DEFINE c == IF pending # NONE THEN pending ELSE cur
           s == sch[c]
           more == Len(s.t) > 1
           stale == s.mask[1] # out_mask \/ shifted = MASK_INVALID
<1>1. /\ isr = "none" /\ pendF /\ ~halted /\ ~Overrun /\ missed' = Missed /\ frame_seen' = TRUE
      /\ cur' = c /\ pending' = NONE /\ next_edge' = 2 /\ edge_armed' = more
      /\ isr' = IF more THEN "frame_arm" ELSE "none"
      /\ pendF' = FALSE /\ Served(FALSE, pendA)
      /\ UNCHANGED <<irqs, running, count, cmpA, pendA, pendB, slate, sch, tasks, selftest,
                     selftest_hit, wraps, phase, fault>>
  BY DEF muscle_sr_isr_frame
<1>2. /\ IF stale THEN latch(s.mask[1], 0)
                  ELSE arm_sample_for(0) /\ UNCHANGED <<chain, dirty, shadow, out_mask>>
      /\ IF more THEN IF stale THEN keepshift(s.mask[1]) ELSE UNCHANGED <<sreg, shifted>>
                 ELSE preshift(s.mask[1])
  BY DEF muscle_sr_isr_frame
<1>3. c \in Buffers /\ s \in Schedules
  BY DEF SInv, TypeOK, TaskType
<1>4. Len(s.t) \in Nat \ {0} /\ s.mask[1] \subseteq Channels
  BY <1>3, ScheduleFacts
<1>5. phase # "bound" => s.mask[1] = {}
  BY <1>3, <1>4, OffFacts DEF SInv, Unbound
<1>6. sch[c].win = built \/ task \in {"publish", "dead"}
  BY DEF SInv, LatestCommitWins
<1>7. Latched(s.mask[1]) = s.mask[1]
  BY <1>1, LatchedFacts DEF SInv
<1> HIDE DEF c, s, more, stale
<1>8. /\ arm_sample_for(0)
      /\ chain' \in {chain, s.mask[1]} /\ shadow' \in {shadow, s.mask[1]}
      /\ out_mask' \in {out_mask, s.mask[1]} /\ dirty' \in {dirty, FALSE}
      /\ sreg' \in {sreg, s.mask[1]} /\ shifted' \in {shifted, s.mask[1]}
      /\ dirty' \/ sreg' = shifted'
  <2>1. dirty \/ sreg = shifted
    BY <1>1 DEF SInv, Clean
  <2>2. CASE stale
    <3>1. /\ chain' = s.mask[1] /\ shadow' = s.mask[1] /\ out_mask' = s.mask[1]
          /\ dirty' = FALSE /\ arm_sample_for(0)
      BY <1>2, <1>7, <2>2 DEF latch
    <3>2. sreg' = s.mask[1] /\ shifted' = s.mask[1]
      BY <1>2, <1>7, <2>2 DEF preshift, keepshift
    <3> QED
      BY <3>1, <3>2
  <2>3. CASE ~stale
    <3>1. UNCHANGED <<chain, dirty, shadow, out_mask>> /\ arm_sample_for(0)
      BY <1>2, <2>3
    <3>2. \/ sreg' = sreg /\ shifted' = shifted
          \/ sreg' = s.mask[1] /\ shifted' = s.mask[1]
      BY <1>2, <2>3 DEF preshift
    <3> QED
      BY <2>1, <3>1, <3>2
  <2> QED
    BY <2>2, <2>3
<1>9. cmpB' \in 0 .. FRAME /\ SampleType'
  BY <1>8, ArmSampleType
<1>10. TimerType'
  <2>1. late' \in 0 .. Latency
    BY <1>1 DEF Served, SInv, TypeOK, TimerType
  <2> QED
    BY <1>1, <1>9, <2>1 DEF SInv, TypeOK, TimerType, irqs
<1>11. OutputType'
  <2>1. edge_armed' \in BOOLEAN
    BY <1>1, <1>4 DEF more
  <2>2. isr' \in {"none", "frame_arm"}
    BY <1>1
  <2>3. dirty' \in BOOLEAN
    BY <1>8 DEF SInv, TypeOK, OutputType
  <2> QED
    BY <1>1, <1>4, <1>8, <2>1, <2>2, <2>3 DEF SInv, TypeOK, OutputType
<1>12. TaskType'
  BY <1>1, <1>3 DEF SInv, TypeOK, TaskType, tasks
<1>13. TestType' /\ Quiet'
  <2>1. missed' \in 0 .. 1
    BY <1>1 DEF Overrun, Missed, SInv, TypeOK, TestType
  <2>2. phase # "boot"
    BY <1>1 DEF SInv, Quiet
  <2> QED
    BY <1>1, <2>1, <2>2 DEF SInv, TypeOK, TestType, Quiet, halted
<1>14. Committing' /\ BuildIsPrivate'
  <2>1. task \in {"build", "publish"} => buf \notin {c, NONE}
    BY DEF SInv, Committing, BuildIsPrivate, c, Buffers, NONE
  <2> QED
    BY <1>1, <2>1 DEF SInv, Committing, Whole, BuildIsPrivate, halted, tasks
<1>15. LatestCommitWins'
  BY <1>1, <1>6 DEF LatestCommitWins, tasks
<1>16. InPlace'
  <2>1. sch'[cur'] = s
    BY <1>1 DEF s
  <2> QED
    BY <1>1, <1>4, <2>1 DEF InPlace, more
<1>17. Clean'
  BY <1>8 DEF Clean
<1>18. Unbound'
  BY <1>1, <1>5, <1>8 DEF SInv, Unbound, tasks
<1> QED
  BY <1>9, <1>10, <1>11, <1>12, <1>13, <1>14, <1>15, <1>16, <1>17, <1>18 DEF SInv,
     TypeOK

-----------------------------------------------------------------------------
\* SInv is inductive.
LEMMA StepInv == SInv /\ [Next]_vars => SInv'
<1> SUFFICES ASSUME SInv, [Next]_vars PROVE SInv'
  OBVIOUS
<1>1. CASE Tick \/ EdgeIrqDies \/ FaultHandlerStop
  BY <1>1, TickStep, EdgeIrqDiesStep, FaultHandlerStopStep
<1>2. CASE Startup
  BY <1>2, muscle_sr_initStep, EdgeTestPassesStep, EdgeTestFailsStep,
     FrameTestPassesStep,
     FrameTestFailsStep DEF Startup
<1>3. CASE Interrupts
  BY <1>3, FrameHaltsStep, FrameStep, FrameArmStep, EdgeIgnoredStep, EdgeNotYetStep,
     EdgeLatchStep, EdgeArmStep, EdgeCheckStep DEF Interrupts
<1>4. CASE SampleInterrupt
  BY <1>4, SampleEnterStep, SampleClearStep, SampleCallStep DEF SampleInterrupt
<1>5. CASE Task
  BY <1>5, CommitSnapshotStep, CommitBuildStep, CommitPublishStep, SrPutStep,
     SrLatchStep,
     OnSampleStep, muscle_sr_emergency_stopStep DEF Task
<1>6. CASE UNCHANGED vars
  <2>1. TypeOK'
    BY <1>6 DEF vars, SInv, TypeOK, TimerType, TaskType, TestType, OutputType,
       SampleType,
       irqs, timer, buffers, tasks, tests, edges, outputs, samples
  <2> QED
    BY <1>6, <2>1 DEF vars, SInv, Committing, Whole, InPlace, Clean, Quiet, Unbound,
       BuildIsPrivate, LatestCommitWins, halted, timer, buffers, tasks, tests, edges, outputs
<1> QED
  BY <1>1, <1>2, <1>3, <1>4, <1>5, <1>6 DEF Next

LEMMA Invariance == Spec => []SInv
  BY InitInv, StepInv, PTL DEF Spec

\* Every variable keeps its declared type, and every place a handler reads in a
\* schedule is inside it.
THEOREM TypeCorrect == Spec => []TypeOK
<1>1. SInv => TypeOK
  BY DEF SInv
<1> QED
  BY <1>1, Invariance, PTL

\* Whatever frame interrupts come between commit()'s steps, the buffer it writes
\* is neither the running one nor the one waiting for the frame (muscle_sr.c:116-134).
THEOREM NothingHalfBuilt == Spec => []BuildIsPrivate
<1>1. SInv => BuildIsPrivate
  BY DEF SInv
<1> QED
  BY <1>1, Invariance, PTL

\* The next frame always runs the last table committed (muscle_sr.c:129-133, 190).
THEOREM NoCommitLost == Spec => []LatestCommitWins
<1>1. SInv => LatestCommitWins
  BY DEF SInv
<1> QED
  BY <1>1, Invariance, PTL

\* Each edge puts out the pattern scheduled for it, whatever sr! has left in the
\* shift register (muscle_sr.c:156-168).
THEOREM EdgesLatchTheirPattern == Spec => EdgesArePure
<1>1. SInv /\ [Next]_vars => [EdgeLatch => chain' = sch[cur].mask[next_edge]]_vars
  <2> SUFFICES ASSUME SInv, EdgeLatch
               PROVE  chain' = sch[cur].mask[next_edge]
    OBVIOUS
  <2>1. ~halted
    BY DEF EdgeLatch, EdgeRuns, EdgeEnters, SInv, Quiet
  <2>2. Latched(sch[cur].mask[next_edge]) = sch[cur].mask[next_edge]
    BY <2>1, LatchedFacts DEF SInv
  <2> QED
    BY <2>2 DEF EdgeLatch, latch
<1> QED
  BY <1>1, Invariance, PTL DEF Spec, EdgesArePure

(***************************************************************************)
(* Nothing is on before the self-test or after a halt. sr! is left out:    *)
(* it writes the chain without a look at the fault (sr595.c:116).          *)
(***************************************************************************)
HaltsOff == task # "latch" /\ (halted => chain = {})

\* Only a frame or an edge puts out a pattern, and neither runs after a halt.
LEMMA ChainSteps ==
  ASSUME SInv, ~Manual, task # "latch", [Next]_vars
  PROVE  /\ task' # "latch"
         /\ \/ chain' = {}
            \/ chain' = chain /\ (fault' = fault \/ ~halted')
            \/ (muscle_sr_isr_frame \/ EdgeLatch) /\ ~halted /\ ~halted'
<1>1. CASE Tick \/ EdgeIrqDies \/ FaultHandlerStop
  BY <1>1 DEF Tick, EdgeIrqDies, FaultHandlerStop, halt_with, all_off, tasks, outputs
<1>2. CASE Startup
  BY <1>2 DEF Startup, muscle_sr_init, EdgeTestPasses, EdgeTestFails, FrameTestPasses,
     FrameTestFails, halt_with, all_off, tasks, outputs
<1>3. CASE FrameHalts \/ FrameArm \/ EdgeIgnored \/ EdgeNotYet \/ EdgeArm \/ EdgeCheck
  BY <1>3 DEF FrameHalts, FrameArm, EdgeIgnored, EdgeNotYet, EdgeArm, EdgeCheck,
     halt_with,
     all_off, tasks, outputs
<1>4. CASE muscle_sr_isr_frame \/ EdgeLatch
  <2>1. ~halted
    BY <1>4 DEF muscle_sr_isr_frame, EdgeLatch, EdgeRuns, EdgeEnters, SInv, Quiet
  <2> QED
    BY <1>4, <2>1 DEF muscle_sr_isr_frame, EdgeLatch, halted, tasks
<1>5. CASE SampleInterrupt
  BY <1>5 DEF SampleInterrupt, SampleEnter, SampleClear, SampleCall, SampleRest, tasks,
     outputs
<1>6. CASE Task
  BY <1>6 DEF Task, CommitSnapshot, CommitBuild, CommitPublish, SrPut, SrLatch,
     muscle_sr_on_sample, muscle_sr_emergency_stop, halt_with, all_off, tasks, outputs
<1>7. CASE UNCHANGED vars
  BY <1>7 DEF vars, tasks, outputs
<1> QED
  BY <1>1, <1>2, <1>3, <1>4, <1>5, <1>6, <1>7 DEF Next, Interrupts

\* No wire is on before both interrupts have been seen to fire, nor, for good,
\* after a fault, as long as the chain is the muscles' alone (muscle_sr.h:52, 61-62).
THEOREM OffBeforeTestAfterHalt ==
  ASSUME ~Manual
  PROVE  Spec => []OffUnlessSound
<1>1. Init => HaltsOff
  BY DEF Init, HaltsOff, halted
<1>2. SInv /\ HaltsOff /\ [Next]_vars => HaltsOff'
  BY ChainSteps DEF HaltsOff, halted
<1>3. SInv /\ HaltsOff => OffUnlessSound
  BY DEF SInv, Quiet, Unbound, HaltsOff, OffUnlessSound
<1> QED
  BY <1>1, <1>2, <1>3, Invariance, PTL DEF Spec

(***************************************************************************)
(* One wire at a time. Rounding to timer counts keeps the order of times,  *)
(* so windows that do not overlap still do not once they are rounded.      *)
(***************************************************************************)
LEMMA CountsMonotone ==
  ASSUME NEW m \in Nat, NEW n \in Nat, m <= n
  PROVE  to_counts(m) <= to_counts(n)
<1>1. PICK k \in Nat : n = m + k
  OBVIOUS
<1>2. m * FRAME \in Nat /\ n * FRAME \in Nat /\ m * FRAME <= n * FRAME
  <2>1. n * FRAME = m * FRAME + k * FRAME
    BY <1>1
  <2>2. m * FRAME \in Nat /\ k * FRAME \in Nat
    BY <1>1
  <2> QED
    BY <2>1, <2>2
<1> DEFINE p == (m * FRAME) \div MUSCLE_FRAME
           q == (n * FRAME) \div MUSCLE_FRAME
<1>3. p \in Nat /\ q \in Nat /\ p <= q
  BY <1>2, DivMonotone
<1> HIDE DEF p, q
<1>4. GAP \in Nat \ {0} /\ GAP \div 2 \in Nat
  OBVIOUS
<1> DEFINE u == (p + GAP \div 2) \div GAP
           v == (q + GAP \div 2) \div GAP
<1>5. u \in Nat /\ v \in Nat /\ u <= v
  <2>1. p + GAP \div 2 \in Nat /\ q + GAP \div 2 \in Nat /\ p + GAP \div 2 <= q + GAP \div 2
    BY <1>3, <1>4
  <2> QED
    BY <1>4, <2>1, DivMonotone
<1>6. to_counts(m) = u * GAP /\ to_counts(n) = v * GAP
  BY DEF to_counts, p, q
<1> HIDE DEF u, v
<1>7. PICK j \in Nat : v = u + j
  BY <1>5
<1>8. v * GAP = u * GAP + j * GAP
  BY <1>4, <1>5, <1>7
<1>9. u * GAP \in Nat /\ j * GAP \in Nat
  BY <1>4, <1>5
<1> QED
  BY <1>6, <1>8, <1>9

\* What Muscle's schedule() hands over: see NeverOverlaps in MuscleProofs.
Disjoint(w) ==
  \A c, d \in Channels : (c # d /\ w.len[c] > 0 /\ w.len[d] > 0) =>
    w.start[c] + w.len[c] <= w.start[d] \/ w.start[d] + w.len[d] <= w.start[c]

LEMMA OneInPattern ==
  ASSUME NEW w \in Tables, Disjoint(w), NEW t \in Nat,
         NEW c \in PatternAt(w, t), NEW d \in PatternAt(w, t)
  PROVE  c = d
<1>1. w \in [start : [Channels -> Nat], len : [Channels -> Nat]]
  BY DEF Tables, Off
<1>2. /\ c \in Channels /\ w.len[c] > 0 /\ WinStart(w, c) <= t /\ t < WinEnd(w, c)
      /\ d \in Channels /\ w.len[d] > 0 /\ WinStart(w, d) <= t /\ t < WinEnd(w, d)
  BY DEF PatternAt
<1>3. ASSUME NEW x \in Channels, NEW y \in Channels, t < WinEnd(w, x), WinStart(w, y) <= t
      PROVE  ~(w.start[x] + w.len[x] <= w.start[y])
  <2>1. w.start[x] + w.len[x] \in Nat /\ w.start[y] \in Nat
    BY <1>1
  <2>2. /\ to_counts(w.start[x] + w.len[x]) \in Nat /\ to_counts(w.start[y]) \in Nat
        /\ WinEnd(w, x) <= to_counts(w.start[x] + w.len[x])
    BY <2>1, CountsType DEF WinEnd
  <2>3. WinEnd(w, x) \in Nat
    BY <2>2 DEF WinEnd
  <2>4. to_counts(w.start[y]) < to_counts(w.start[x] + w.len[x])
    BY <1>3, <2>2, <2>3 DEF WinStart
  <2> QED
    BY <2>1, <2>2, <2>4, CountsMonotone
<1> QED
  BY <1>2, <1>3 DEF Disjoint

OneWire == task # "latch" /\ \A c, d \in chain : c = d

LEMMA OneWireStep ==
  ASSUME ~Manual, \A w \in Layouts : Disjoint(w), SInv, OneWire, [Next]_vars
  PROVE  OneWire'
<1>1. ASSUME NEW b \in Buffers, Whole(sch[b])
      PROVE  \A i \in 1 .. Len(sch[b].t) : \A c, d \in sch[b].mask[i] : c = d
  <2>1. PICK w \in Tables : sch[b] = build[w]
    BY <1>1 DEF Whole
  <2>2. Disjoint(w)
    BY DEF Tables, Off, Disjoint
  <2> SUFFICES ASSUME NEW i \in 1 .. Len(build[w].t)
               PROVE  \A c, d \in build[w].mask[i] : c = d
    BY <2>1
  <2>3. build[w].mask[i] = PatternAt(w, build[w].t[i]) /\ build[w].t[i] \in Nat
    BY BuildFacts
  <2> QED
    BY <2>2, <2>3, OneInPattern
<1>2. CASE muscle_sr_isr_frame /\ ~halted
  <2> DEFINE c == IF pending # NONE THEN pending ELSE cur
  <2>1. c \in Buffers /\ Whole(sch[c]) /\ 1 \in 1 .. Len(sch[c].t)
    <3>1. c \in Buffers /\ ~(task = "build" /\ c = buf)
      BY DEF SInv, TypeOK, TaskType, BuildIsPrivate
    <3>2. Len(sch[c].t) \in Nat \ {0}
      BY <3>1, ScheduleFacts DEF SInv, TypeOK, TaskType
    <3> QED
      BY <1>2, <3>1, <3>2 DEF SInv, Committing
  <2>2. chain' \in {chain, sch[c].mask[1]}
    <3>1. Latched(sch[c].mask[1]) = sch[c].mask[1]
      BY <1>2, LatchedFacts DEF SInv
    <3> QED
      BY <1>2, <3>1 DEF muscle_sr_isr_frame, latch
  <2>3. \A a, d \in sch[c].mask[1] : a = d
    BY <1>1, <2>1
  <2> QED
    BY <2>2, <2>3, ChainSteps DEF OneWire
<1>3. CASE EdgeLatch /\ ~halted
  <2>1. Whole(sch[cur]) /\ next_edge \in 1 .. Len(sch[cur].t) /\ cur \in Buffers
    BY <1>3, RunningFacts DEF EdgeLatch, SInv, TypeOK, TaskType, OutputType, Committing,
       BuildIsPrivate, InPlace
  <2>2. chain' = sch[cur].mask[next_edge]
    BY <1>3, LatchedFacts DEF SInv, EdgeLatch, latch
  <2> QED
    BY <1>1, <2>1, <2>2, ChainSteps DEF OneWire
<1> QED
  BY <1>2, <1>3, ChainSteps DEF OneWire

\* If the tables committed do not overlap in muscle counts, two wires are never on
\* at once, not rounded to timer counts, not in the middle of an interrupt, not
\* after a compare interrupt has died (muscle.h:25-26). The scheduler's tables do
\* not: MuscleProofs!NeverOverlaps.
THEOREM OneWireOnly ==
  ASSUME ~Manual, \A w \in Layouts : Disjoint(w)
  PROVE  Spec => []OneWireAtATime
<1>1. Init => OneWire
  BY DEF Init, OneWire
<1>2. SInv /\ OneWire /\ [Next]_vars => OneWire'
  BY OneWireStep
<1>3. OneWire => OneWireAtATime
  <2> SUFFICES ASSUME OneWire PROVE Cardinality(chain) <= 1
    BY DEF OneWireAtATime
  <2>1. CASE chain = {}
    BY <2>1, FS_EmptySet
  <2>2. ASSUME NEW c \in chain
        PROVE  Cardinality(chain) <= 1
    <3>1. chain = {c}
      BY DEF OneWire
    <3>2. Cardinality({c}) = 1
      BY FS_Singleton
    <3> QED
      BY <3>1, <3>2
  <2> QED
    BY <2>1, <2>2
<1> QED
  BY <1>1, <1>2, <1>3, Invariance, PTL DEF Spec

(***************************************************************************)
(* The times of a schedule, in order.                                      *)
(***************************************************************************)
\* Nth lists a set of times in order, and leaves none out.
LEMMA NthOrder ==
  ASSUME NEW T \in SUBSET Nat, IsFiniteSet(T), 0 \in T, NEW i \in 1 .. Cardinality(T)
  PROVE  /\ Nth(T, i) \in T
         /\ Nth(T, 1) = 0
         /\ \A j \in 1 .. Cardinality(T) : i < j => Nth(T, i) < Nth(T, j)
         /\ \A x \in T : Nth(T, i) < x => i + 1 \in 1 .. Cardinality(T) /\ Nth(T, i + 1) <= x
<1> DEFINE n == Cardinality(T)
           Rank(u) == Cardinality({z \in T : z < u})
<1>1. n \in Nat
  BY FS_CardinalityType
<1>2. \A k \in 1 .. n : Nth(T, k) \in Nat /\ Nth(T, k) \in T /\ Rank(Nth(T, k)) = k - 1
  BY NthFacts
<1>3. \A x, y \in T : x < y => Rank(x) \in Nat /\ Rank(y) \in 0 .. n - 1 /\ Rank(x) < Rank(y)
  BY RankStrict
<1> HIDE DEF n, Rank
<1>4. Nth(T, 1) = 0
  <2>1. 1 \in 1 .. n /\ i \in 1 .. n
    BY <1>1 DEF n
  <2>2. Nth(T, 1) \in Nat /\ Nth(T, 1) \in T /\ Rank(Nth(T, 1)) = 0
    BY <1>2, <2>1
  <2>3. ~(0 < Nth(T, 1))
    BY <1>3, <2>2
  <2> QED
    BY <2>2, <2>3
<1>5. ASSUME NEW j \in 1 .. n, i < j
      PROVE  Nth(T, i) < Nth(T, j)
  <2>1. i \in 1 .. n
    BY DEF n
  <2>2. /\ Nth(T, i) \in Nat /\ Nth(T, i) \in T /\ Rank(Nth(T, i)) = i - 1
        /\ Nth(T, j) \in Nat /\ Nth(T, j) \in T /\ Rank(Nth(T, j)) = j - 1
    BY <1>2, <2>1
  <2>3. ~(Nth(T, j) < Nth(T, i)) /\ Nth(T, i) # Nth(T, j)
    BY <1>1, <1>3, <1>5, <2>1, <2>2
  <2> QED
    BY <2>2, <2>3
<1>6. ASSUME NEW x \in T, Nth(T, i) < x
      PROVE  i + 1 \in 1 .. n /\ Nth(T, i + 1) <= x
  <2>1. i \in 1 .. n
    BY DEF n
  <2>2. Nth(T, i) \in T /\ Rank(Nth(T, i)) = i - 1
    BY <1>2, <2>1
  <2>3. Rank(x) \in 0 .. n - 1 /\ i - 1 < Rank(x)
    BY <1>3, <1>6, <2>2
  <2>4. i + 1 \in 1 .. n
    BY <1>1, <2>1, <2>3
  <2>5. x \in Nat /\ Nth(T, i + 1) \in Nat /\ Nth(T, i + 1) \in T /\ Rank(Nth(T, i + 1)) = i
    BY <1>2, <2>1, <2>4
  <2>6. ~(x < Nth(T, i + 1))
    BY <1>3, <2>1, <2>3, <2>5
  <2> QED
    BY <2>4, <2>5, <2>6
<1> QED
  BY <1>1, <1>2, <1>4, <1>5, <1>6 DEF n

\* Every edge is a whole number of gaps into the frame (muscle_sr.c:63-68), so all but
\* the first are a gap or more.
LEMMA EdgesOnGrid ==
  ASSUME NEW w \in Tables, NEW x \in EdgeTimes(w)
  PROVE  (\E k \in Nat : x = GAP * k) /\ (x = 0 \/ GAP <= x)
<1>1. w \in [start : [Channels -> Nat], len : [Channels -> Nat]]
  BY DEF Tables, Off
<1>2. ASSUME NEW m \in Nat
      PROVE  \E k \in Nat : to_counts(m) = GAP * k
  <2> DEFINE k == ((m * FRAME) \div MUSCLE_FRAME + GAP \div 2) \div GAP
  <2>1. m * FRAME \in Nat
    OBVIOUS
  <2>2. (m * FRAME) \div MUSCLE_FRAME \in Nat /\ GAP \div 2 \in Nat
    BY <2>1
  <2>3. k \in Nat
    BY <2>2
  <2>4. to_counts(m) = k * GAP
    BY DEF to_counts
  <2> HIDE DEF k
  <2>5. k * GAP = GAP * k
    BY <2>3
  <2> QED
    BY <2>3, <2>4, <2>5
<1>3. \A ch \in Channels : w.start[ch] \in Nat /\ w.start[ch] + w.len[ch] \in Nat
  BY <1>1
<1>4. x < FRAME /\ (x = 0 \/ \E m \in Nat : x = to_counts(m))
  BY <1>3 DEF EdgeTimes, WinStart, WinEnd
<1>5. 0 = GAP * 0
  OBVIOUS
<1>6. PICK k \in Nat : x = GAP * k
  BY <1>2, <1>4, <1>5
<1>7. k # 0 => GAP * 1 <= GAP * k
  BY TimesMonotone
<1> QED
  BY <1>5, <1>6, <1>7

\* A schedule's times are its table's edge times in ascending order from 0.
LEMMA ScheduleTimes ==
  ASSUME NEW w \in Tables
  PROVE  /\ build[w].win = w
         /\ Len(build[w].t) \in Nat \ {0}
         /\ build[w].t[1] = 0
         /\ \A i \in 1 .. Len(build[w].t) :
              /\ build[w].t[i] \in 0 .. FRAME - 1 /\ build[w].t[i] \in EdgeTimes(w)
              /\ build[w].mask[i] = PatternAt(w, build[w].t[i])
              /\ \A j \in 1 .. Len(build[w].t) : i < j => build[w].t[i] < build[w].t[j]
              /\ \A x \in EdgeTimes(w) : build[w].t[i] < x =>
                   i + 1 \in 1 .. Len(build[w].t) /\ build[w].t[i + 1] <= x
         /\ \A i \in 2 .. Len(build[w].t) : GAP <= build[w].t[i]
<1> DEFINE T == EdgeTimes(w)
           n == Cardinality(T)
           t == [i \in 1 .. n |-> Nth(T, i)]
<1>1. T \in SUBSET (0 .. FRAME - 1) /\ T \in SUBSET Nat /\ IsFiniteSet(T) /\ n \in Nat \ {0}
  BY EdgeTimesFacts
<1>2. build[w].t = t
  BY DEF build
<1>3. 0 \in T
  BY DEF EdgeTimes
<1>4. \A x \in T : x = 0 \/ GAP <= x
  BY EdgesOnGrid
<1> HIDE DEF T
<1>5. /\ Nth(T, 1) = 0
      /\ \A i \in 1 .. n :
           /\ Nth(T, i) \in T
           /\ \A j \in 1 .. n : i < j => Nth(T, i) < Nth(T, j)
           /\ \A x \in T : Nth(T, i) < x => i + 1 \in 1 .. n /\ Nth(T, i + 1) <= x
  <2>1. 1 \in 1 .. n
    BY <1>1
  <2> QED
    BY <1>1, <1>3, <2>1, NthOrder
<1> HIDE DEF n
<1>6. Len(t) = n /\ \A i \in 1 .. n : t[i] = Nth(T, i)
  BY <1>1
<1> HIDE DEF t
<1>7. 1 \in 1 .. n
  BY <1>1
<1>8. \A i \in 1 .. n :
        /\ t[i] \in T
        /\ \A j \in 1 .. n : i < j => t[i] < t[j]
        /\ \A x \in T : t[i] < x => i + 1 \in 1 .. n /\ t[i + 1] <= x
  BY <1>5, <1>6
<1>9. t[1] = 0
  BY <1>5, <1>6, <1>7
<1>10. \A i \in 2 .. n : GAP <= t[i]
  <2> SUFFICES ASSUME NEW i \in 2 .. n PROVE GAP <= t[i]
    OBVIOUS
  <2>1. i \in 1 .. n /\ 1 < i
    BY <1>1
  <2>2. t[1] < t[i] /\ t[i] \in T /\ t[i] \in Nat
    BY <1>1, <1>7, <1>8, <2>1
  <2> QED
    BY <1>4, <1>9, <2>2
<1>11. build[w].win = w /\ \A i \in 1 .. n : build[w].mask[i] = PatternAt(w, t[i])
  BY <1>2, <1>6, BuildFacts
<1>12. \A i \in 1 .. n : t[i] \in 0 .. FRAME - 1
  BY <1>1, <1>8
<1> QED
  BY <1>1, <1>2, <1>6, <1>8, <1>9, <1>10, <1>11, <1>12 DEF T

\* Between two edges of a schedule its table asks for one pattern: a channel that
\* goes on or off makes an edge of its own, none is rounded away (muscle_sr.c:82-107).
LEMMA PatternHolds ==
  ASSUME NEW w \in Tables, NEW i \in 1 .. Len(build[w].t), NEW c \in 0 .. FRAME - 1,
         build[w].t[i] <= c,
         i + 1 <= Len(build[w].t) => c < build[w].t[i + 1]
  PROVE  PatternAt(w, c) = build[w].mask[i]
<1> DEFINE a == build[w].t[i]
<1>1. /\ a \in 0 .. FRAME - 1 /\ build[w].mask[i] = PatternAt(w, a)
      /\ \A x \in EdgeTimes(w) : a < x =>
           i + 1 \in 1 .. Len(build[w].t) /\ build[w].t[i + 1] <= x
      /\ i + 1 \in 1 .. Len(build[w].t) => build[w].t[i + 1] \in 0 .. FRAME - 1
  BY ScheduleTimes
<1>2. ASSUME NEW x \in EdgeTimes(w)
      PROVE  x <= a \/ c < x
  <2>1. x \in Nat
    BY EdgeTimesFacts
  <2>2. a < x => c < x
    BY <1>1, <2>1
  <2> QED
    BY <1>1, <2>1, <2>2
<1> HIDE DEF a
<1>3. w \in [start : [Channels -> Nat], len : [Channels -> Nat]]
  BY DEF Tables, Off
<1>4. ASSUME NEW ch \in Channels
      PROVE  /\ WinStart(w, ch) \in Nat /\ WinEnd(w, ch) \in Nat
             /\ WinEnd(w, ch) <= FRAME
  <2>1. w.start[ch] \in Nat /\ w.start[ch] + w.len[ch] \in Nat
    BY <1>3
  <2>2. to_counts(w.start[ch]) \in Nat /\ to_counts(w.start[ch] + w.len[ch]) \in Nat
    BY <2>1, CountsType
  <2> QED
    BY <2>2 DEF WinStart, WinEnd
<1>5. ASSUME NEW ch \in Channels, w.len[ch] > 0, WinStart(w, ch) < WinEnd(w, ch)
      PROVE  /\ WinStart(w, ch) <= a \/ c < WinStart(w, ch)
             /\ WinEnd(w, ch) <= a \/ c < WinEnd(w, ch)
  <2> DEFINE s == WinStart(w, ch)
             e == WinEnd(w, ch)
  <2>1. s \in Nat /\ e \in Nat /\ e <= FRAME /\ s < e
    BY <1>4, <1>5
  <2>2. s # 0 => ch \in PatternAt(w, s) /\ ch \notin PatternAt(w, s - 1)
    BY <1>5, <2>1 DEF PatternAt
  <2>3. ch \notin PatternAt(w, e) /\ ch \in PatternAt(w, e - 1)
    BY <1>5, <2>1 DEF PatternAt
  <2>4. s \in EdgeTimes(w)
    BY <1>5, <2>1, <2>2 DEF EdgeTimes
  <2>5. e < FRAME => e \in EdgeTimes(w)
    BY <1>5, <2>1, <2>3 DEF EdgeTimes
  <2> HIDE DEF s, e
  <2>6. (s <= a \/ c < s) /\ (e <= a \/ c < e)
    BY <1>2, <2>1, <2>4, <2>5
  <2> QED
    BY <2>6 DEF s, e
<1>6. ASSUME NEW ch \in Channels
      PROVE  ch \in PatternAt(w, c) <=> ch \in PatternAt(w, a)
  <2>1. /\ WinStart(w, ch) \in Nat /\ WinEnd(w, ch) \in Nat /\ a \in Nat /\ a <= c
    BY <1>1, <1>4 DEF a
  <2>2. ch \in PatternAt(w, c) \/ ch \in PatternAt(w, a) =>
          w.len[ch] > 0 /\ WinStart(w, ch) < WinEnd(w, ch)
    BY <2>1 DEF PatternAt
  <2> QED
    BY <1>5, <2>1, <2>2 DEF PatternAt
<1> QED
  BY <1>1, <1>6 DEF PatternAt

(***************************************************************************)
(* The frame in time. A frame interrupt served before the first edge it    *)
(* arms (FrameLatency < GAP) leaves every later edge to its own compare    *)
(* match, or to the pass of the edge interrupt that is late for it.        *)
(***************************************************************************)
Edges == sch[cur].t

FrameInTime ==
  /\ FrameStarts => count <= FrameLatency /\ frame_irq
  /\ frame_seen => frame_irq

\* Once a frame has started, the next edge is one of its own or past the last, and
\* edge_armed says which.
Place ==
  /\ ~frame_seen => isr = "none" /\ ~edge_armed
  /\ frame_seen => /\ next_edge \in 2 .. Len(Edges) + 1
                   /\ edge_armed = (next_edge <= Len(Edges))
  /\ selftest => phase = "edgetest"
  /\ phase = "boot" => ~frame_seen

\* Whether the next edge can still be latched.
Coming == edge_irq \/ pendA \/ isr # "none"

\* The last edge is not early by more than TOL; the next is ahead of the counter and
\* armed, or its interrupt is waiting or at work, not later than its latency.
InTime ==
  ~halted /\ frame_seen /\ ~pendF =>
    /\ Edges[next_edge - 1] <= count + TOL
    /\ Coming /\ next_edge <= Len(Edges) =>
         /\ count <= Edges[next_edge] + late
         /\ isr \in {"none", "edge_check"} => cmpA = Edges[next_edge]
         /\ isr = "none" => pendA \/ count < Edges[next_edge]

Timing == FrameInTime /\ Place /\ InTime

\* The schedule that runs is a whole one, so its times are in order.
LEMMA EdgesFacts ==
  ASSUME SInv, ~halted, NEW b \in Buffers, b \in {cur, pending}
  PROVE  /\ \E w \in Tables : sch[b] = build[w]
         /\ Len(sch[b].t) \in Nat \ {0} /\ sch[b].t[1] = 0
         /\ \A i \in 1 .. Len(sch[b].t) :
              /\ sch[b].t[i] \in 0 .. FRAME - 1 /\ sch[b].t[i] \in EdgeTimes(sch[b].win)
              /\ sch[b].mask[i] = PatternAt(sch[b].win, sch[b].t[i])
              /\ \A j \in 1 .. Len(sch[b].t) : i < j => sch[b].t[i] < sch[b].t[j]
         /\ \A i \in 2 .. Len(sch[b].t) : GAP <= sch[b].t[i]
         /\ sch[b].win \in Tables
         /\ phase # "bound" => Len(sch[b].t) = 1
<1>1. PICK w \in Tables : sch[b] = build[w]
  <2>1. ~(task = "build" /\ b = buf)
    BY DEF SInv, BuildIsPrivate
  <2> QED
    BY <2>1 DEF SInv, Committing, Whole
<1>2. phase # "bound" => Len(sch[b].t) = 1
  <2> SUFFICES ASSUME phase # "bound" PROVE Len(build[Off].t) = 1
    BY DEF SInv, Unbound
  <2>1. Off \in Tables /\ EdgeTimes(Off) = {0}
    BY OffFacts DEF EdgeTimes, Off
  <2>2. /\ Len(build[Off].t) \in Nat \ {0} /\ build[Off].t[1] = 0
        /\ \A i, j \in 1 .. Len(build[Off].t) :
             i < j => build[Off].t[j] \in EdgeTimes(Off) /\ build[Off].t[i] < build[Off].t[j]
    BY <2>1, ScheduleTimes
  <2> DEFINE n == Len(build[Off].t)
  <2> HIDE DEF n
  <2>3. n \in Nat \ {0} /\ ~(1 < n)
    <3>1. n \in Nat \ {0}
      BY <2>2 DEF n
    <3>2. ASSUME 1 < n PROVE FALSE
      <4>1. 1 \in 1 .. n /\ 2 \in 1 .. n
        BY <3>1, <3>2
      <4> QED
        BY <2>1, <2>2, <4>1 DEF n
    <3> QED
      BY <3>1, <3>2
  <2>4. n = 1
    BY <2>3
  <2> QED
    BY <2>4 DEF n
<1>3. /\ build[w].win = w
      /\ Len(build[w].t) \in Nat \ {0} /\ build[w].t[1] = 0
      /\ \A i \in 1 .. Len(build[w].t) :
           /\ build[w].t[i] \in 0 .. FRAME - 1 /\ build[w].t[i] \in EdgeTimes(w)
           /\ build[w].mask[i] = PatternAt(w, build[w].t[i])
           /\ \A j \in 1 .. Len(build[w].t) : i < j => build[w].t[i] < build[w].t[j]
      /\ \A i \in 2 .. Len(build[w].t) : GAP <= build[w].t[i]
  BY ScheduleTimes
<1> QED
  BY <1>1, <1>2, <1>3, Zenon

\* The running schedule as an interrupt finds it.
LEMMA NowFacts ==
  ASSUME SInv, ~halted
  PROVE  /\ Len(Edges) \in Nat \ {0} /\ Edges[1] = 0
         /\ \A i \in 1 .. Len(Edges) :
              /\ Edges[i] \in 0 .. FRAME - 1 /\ Edges[i] \in EdgeTimes(sch[cur].win)
              /\ \A j \in 1 .. Len(Edges) : i < j => Edges[i] < Edges[j]
         /\ \A i \in 2 .. Len(Edges) : GAP <= Edges[i]
         /\ sch[cur].win \in Tables
         /\ phase # "bound" => Len(Edges) = 1
<1>1. cur \in Buffers
  BY DEF SInv, TypeOK, TaskType
<1> QED
  BY <1>1, EdgesFacts DEF Edges

LEMMA NowTypes ==
  ASSUME SInv
  PROVE  /\ count \in 0 .. FRAME - 1 /\ late \in 0 .. Latency /\ slate \in 0 .. SampleLatency
         /\ cmpA \in 0 .. FRAME /\ cmpB \in 0 .. FRAME /\ last_edge \in 0 .. FRAME - 1
         /\ next_edge \in Nat /\ edge_armed \in BOOLEAN
         /\ running => ~halted
         /\ pendF \/ pendA \/ isr # "none" => ~halted
  BY DEF SInv, TypeOK, TimerType, SampleType, OutputType, Quiet

\* A tick counts on, or starts the next frame.
LEMMA TickCount ==
  ASSUME SInv, Tick
  PROVE  \/ count + 1 < FRAME /\ count' = count + 1
         \/ count + 1 = FRAME /\ count' = 0
<1>1. count \in 0 .. FRAME - 1 /\ count' = (count + 1) % FRAME
  BY DEF SInv, TypeOK, TimerType, Tick
<1> QED
  BY <1>1

\* A frame interrupt leaves no time for the count to wrap.
LEMMA FrameTicks ==
  ASSUME SInv, FrameInTime, Tick
  PROVE  FrameInTime' /\ (pendF' <=> pendF \/ (count' = 0 /\ frame_irq))
<1>1. /\ pendF' <=> pendF \/ (count' = 0 /\ frame_irq)
      /\ FrameStarts => count < FrameLatency
      /\ UNCHANGED <<isr, frame_irq, frame_seen>>
  BY DEF Tick, edges, irqs
<1>2. FrameStarts => count' = count + 1
  BY <1>1, TickCount, NowTypes
<1>3. FrameStarts' => count' <= FrameLatency /\ frame_irq
  <2>1. CASE FrameStarts
    BY <1>1, <1>2, <2>1, NowTypes DEF FrameInTime
  <2>2. CASE ~FrameStarts
    <3>1. FrameStarts' => count' = 0 /\ frame_irq
      BY <1>1, <2>2 DEF FrameStarts
    <3> QED
      BY <3>1
  <2> QED
    BY <2>1, <2>2
<1> QED
  BY <1>1, <1>3 DEF FrameInTime, SInv, TypeOK, TimerType

LEMMA TimingTick ==
  ASSUME SInv, Timing, Tick
  PROVE  Timing'
<1>1. /\ UNCHANGED <<irqs, running, cmpA, buffers, selftest, frame_seen, phase, edges>>
      /\ pendA' = (pendA \/ (count' = cmpA /\ edge_irq))
      /\ late'  = IF Urgent THEN late + 1 ELSE 0
      /\ running /\ fault' = fault
  BY DEF Tick
<1>2. FrameInTime' /\ (pendF' <=> pendF \/ (count' = 0 /\ frame_irq))
  BY FrameTicks DEF Timing
<1>3. Edges' = Edges
  BY <1>1 DEF Edges, buffers
<1>4. Place'
  BY <1>1, <1>3 DEF Timing, Place, edges
<1>5. InTime'
  <2> SUFFICES ASSUME frame_seen, ~pendF'
               PROVE  InTime'
    BY <1>1 DEF InTime, halted
  <2>1. ~pendF /\ count' = count + 1
    BY <1>2, TickCount DEF Timing, FrameInTime
  <2>2. ~halted
    BY <1>1, NowTypes
  <2>3. next_edge \in 2 .. Len(Edges) + 1
    BY DEF Timing, Place
  <2>4. Edges[next_edge - 1] <= count + TOL
    BY <2>1, <2>2 DEF Timing, InTime
  <2>5. next_edge - 1 \in 1 .. Len(Edges) /\ count \in Nat /\ late \in Nat
    BY <2>2, <2>3, NowFacts, NowTypes
  <2>6. Edges'[next_edge' - 1] <= count' + TOL
    BY <1>1, <1>3, <2>1, <2>2, <2>4, <2>5, NowFacts DEF edges
  <2>7. ASSUME Coming', next_edge <= Len(Edges)
        PROVE  /\ count' <= Edges[next_edge] + late'
               /\ isr \in {"none", "edge_check"} => cmpA = Edges[next_edge]
               /\ isr = "none" => pendA' \/ count' < Edges[next_edge]
    <3>1. Coming
      BY <1>1, <2>7 DEF Coming, irqs, edges
    <3>2. /\ count <= Edges[next_edge] + late
          /\ isr \in {"none", "edge_check"} => cmpA = Edges[next_edge]
          /\ isr = "none" => pendA \/ count < Edges[next_edge]
      BY <2>1, <2>2, <2>7, <3>1 DEF Timing, InTime
    <3>3. Edges[next_edge] \in Nat
      BY <2>2, <2>3, <2>5, <2>7, NowFacts
    <3>4. CASE Urgent
      <4>1. late' = late + 1 /\ (isr = "none" => pendA)
        BY <1>1, <2>1, <3>4 DEF Urgent
      <4>2. count' <= Edges[next_edge] + late'
        BY <2>1, <2>5, <3>2, <3>3, <4>1
      <4> QED
        BY <1>1, <3>2, <4>1, <4>2
    <3>5. CASE ~Urgent
      <4>1. isr = "none" /\ ~pendA /\ edge_irq /\ late' = 0
        BY <1>1, <3>1, <3>5 DEF Urgent, Coming
      <4>2. count < Edges[next_edge] /\ cmpA = Edges[next_edge]
        BY <3>2, <4>1
      <4>3. count' <= Edges[next_edge] + late' /\ (count' < cmpA \/ count' = cmpA)
        BY <2>1, <2>5, <3>3, <4>1, <4>2
      <4> QED
        BY <1>1, <4>1, <4>2, <4>3
    <3> QED
      BY <3>4, <3>5
  <2> QED
    BY <1>1, <1>3, <2>6, <2>7 DEF InTime, edges
<1> QED
  BY <1>2, <1>4, <1>5 DEF Timing

\* Outside the frame interrupt the running schedule stays what it is.
LEMMA EdgesStay ==
  ASSUME SInv, [Next]_vars, ~muscle_sr_isr_frame
  PROVE  cur' = cur /\ sch'[cur] = sch[cur] /\ Edges' = Edges
<1>1. cur \in Buffers /\ pending \in Buffers \cup {NONE} /\ sch \in [Buffers -> Schedules]
  BY DEF SInv, TypeOK, TaskType
<1>2. CASE \E w \in Layouts : CommitSnapshot(w)
  <2>1. FreeBuffer(cur, pending) # cur
    BY <1>1, FreeBufferFacts
  <2> QED
    BY <1>1, <1>2, <2>1 DEF CommitSnapshot, Edges
<1>3. CASE CommitBuild
  <2>1. buf # cur
    BY <1>3 DEF CommitBuild, SInv, BuildIsPrivate
  <2> QED
    BY <1>1, <1>3, <2>1 DEF CommitBuild, Edges
<1>4. CASE UNCHANGED <<sch, cur>>
  BY <1>4 DEF Edges
<1>5. CASE Tick \/ EdgeIrqDies \/ FaultHandlerStop \/ Startup
  BY <1>4, <1>5 DEF Tick, EdgeIrqDies, FaultHandlerStop, Startup, muscle_sr_init,
     EdgeTestPasses, EdgeTestFails, FrameTestPasses, FrameTestFails, buffers
<1>6. CASE Interrupts
  BY <1>4, <1>6 DEF Interrupts, FrameHalts, FrameArm, EdgeIgnored, EdgeNotYet, EdgeLatch,
     EdgeArm, EdgeCheck, buffers
<1>7. CASE SampleInterrupt
  BY <1>4, <1>7 DEF SampleInterrupt, SampleEnter, SampleClear, SampleCall, SampleRest, buffers
<1>8. CASE Task
  BY <1>2, <1>3, <1>4, <1>8 DEF Task, CommitPublish, SrPut, SrLatch, muscle_sr_on_sample,
     muscle_sr_emergency_stop, buffers
<1>9. CASE UNCHANGED vars
  BY <1>4, <1>9 DEF vars, buffers
<1> QED
  BY <1>5, <1>6, <1>7, <1>8, <1>9 DEF Next

\* A step that touches neither the timer nor the edge interrupt's place, but for an
\* interrupt that dies, a buffer that is not the running one, or a phase that ends.
LEMMA TimingStays ==
  ASSUME Timing, Edges' = Edges,
         UNCHANGED <<frame_irq, frame_seen, fault, count, cmpA, pendF, pendA, late, edges>>,
         edge_irq' => edge_irq, selftest' => selftest /\ phase' = phase,
         phase' = "boot" => phase = "boot"
  PROVE  Timing'
<1>1. FrameInTime'
  BY DEF Timing, FrameInTime, FrameStarts, edges
<1>2. Place'
  BY DEF Timing, Place, edges
<1>3. Coming' => Coming
  BY DEF Coming, edges
<1>4. InTime'
  BY <1>3 DEF Timing, InTime, edges, halted
<1> QED
  BY <1>1, <1>2, <1>4 DEF Timing

\* A halt stops the clock.
LEMMA TimingHalts ==
  ASSUME Timing, Edges' = Edges, halted', ~pendF',
         UNCHANGED <<frame_irq, frame_seen, next_edge, edge_armed>>,
         isr' = "none", selftest' => selftest /\ phase' = phase,
         phase' = "boot" => phase = "boot"
  PROVE  Timing'
<1>1. FrameInTime'
  BY DEF Timing, FrameInTime, FrameStarts
<1>2. Place'
  BY DEF Timing, Place
<1>3. InTime'
  BY DEF InTime
<1> QED
  BY <1>1, <1>2, <1>3 DEF Timing

LEMMA TimingStartup ==
  ASSUME SInv, Timing, [Next]_vars, Startup, Edges' = Edges
  PROVE  Timing'
<1>1. CASE muscle_sr_init
  <2>1. /\ phase = "boot" /\ phase' = "edgetest" /\ ~frame_seen' /\ ~frame_seen /\ ~pendF
        /\ UNCHANGED <<frame_irq, pendF, edges>>
    BY <1>1 DEF muscle_sr_init, Timing, Place, irqs, SInv, Quiet
  <2>2. isr = "none" /\ ~edge_armed
    BY <2>1 DEF Timing, Place
  <2> QED
    BY <2>1, <2>2 DEF Timing, FrameInTime, FrameStarts, Place, InTime, edges
<1>2. CASE EdgeTestPasses \/ FrameTestPasses
  BY <1>2, TimingStays DEF EdgeTestPasses, FrameTestPasses, irqs, timer, edges,
     Timing, Place
<1>3. CASE EdgeTestFails \/ FrameTestFails
  BY <1>3, TimingHalts DEF EdgeTestFails, FrameTestFails, halt_with, halted, irqs, edges,
     Timing, Place
<1> QED
  BY <1>1, <1>2, <1>3 DEF Startup

LEMMA TimingFrameHalts ==
  ASSUME SInv, Timing, FrameHalts, Edges' = Edges
  PROVE  Timing'
<1>1. edge_armed
  BY DEF FrameHalts, Overrun, Missed
<1>2. frame_seen /\ frame_seen' = TRUE
  BY <1>1 DEF Timing, Place, FrameHalts
<1> QED
  BY <1>2, TimingHalts DEF FrameHalts, halt_with, halted, irqs, edges

LEMMA TimingFrame ==
  ASSUME FrameLatency < GAP, SInv, Timing, muscle_sr_isr_frame
  PROVE  Timing'
<1> DEFINE c == IF pending # NONE THEN pending ELSE cur
<1>1. /\ isr = "none" /\ pendF /\ ~halted /\ frame_seen' = TRUE
      /\ cur' = c /\ next_edge' = 2 /\ edge_armed' = (Len(sch[c].t) > 1)
      /\ isr' = IF Len(sch[c].t) > 1 THEN "frame_arm" ELSE "none"
      /\ pendF' = FALSE /\ Served(FALSE, pendA)
      /\ UNCHANGED <<irqs, fault, count, cmpA, pendA, sch, selftest, phase>>
  BY DEF muscle_sr_isr_frame
<1>2. c \in Buffers /\ c \in {cur, pending}
  BY DEF SInv, TypeOK, TaskType
<1> HIDE DEF c
<1>3. Edges' = sch[c].t
  BY <1>1 DEF Edges
<1>4. /\ Len(Edges') \in Nat \ {0} /\ Edges'[1] = 0
      /\ 2 <= Len(Edges') => Edges'[2] \in Nat /\ GAP <= Edges'[2]
  <2>1. /\ Len(sch[c].t) \in Nat \ {0} /\ sch[c].t[1] = 0
        /\ \A i \in 1 .. Len(sch[c].t) : sch[c].t[i] \in 0 .. FRAME - 1
        /\ \A i \in 2 .. Len(sch[c].t) : GAP <= sch[c].t[i]
    BY <1>1, <1>2, EdgesFacts
  <2>2. 2 <= Len(sch[c].t) => 2 \in 1 .. Len(sch[c].t) /\ 2 \in 2 .. Len(sch[c].t)
    BY <2>1
  <2> QED
    BY <1>3, <2>1, <2>2
<1>5. count <= FrameLatency /\ frame_irq /\ count \in Nat /\ late' \in Nat
  BY <1>1, NowTypes DEF Timing, FrameInTime, halted, FrameStarts, Served
<1>6. FrameInTime'
  BY <1>1, <1>5 DEF FrameInTime, halted, irqs
<1>7. Place'
  BY <1>1, <1>3, <1>4 DEF Timing, Place, SInv, Quiet
<1>8. InTime'
  <2>1. Edges'[next_edge' - 1] <= count' + TOL
    BY <1>1, <1>4, <1>5
  <2>2. 2 <= Len(Edges') => isr' = "frame_arm" /\ count' <= Edges'[next_edge'] + late'
    BY <1>1, <1>3, <1>4, <1>5
  <2> QED
    BY <1>1, <2>1, <2>2 DEF InTime, halted
<1> QED
  BY <1>6, <1>7, <1>8 DEF Timing

LEMMA TimingFrameArm ==
  ASSUME FrameLatency < GAP, SInv, Timing, FrameArm, Edges' = Edges
  PROVE  Timing'
<1>1. /\ isr = "frame_arm" /\ cmpA' = Edges[2] /\ isr' = "none" /\ Served(pendF, pendA)
      /\ UNCHANGED <<irqs, fault, count, pendF, pendA, tests, next_edge, edge_armed>>
  BY DEF FrameArm, Edges
<1>2. next_edge = 2 /\ 2 <= Len(Edges) /\ frame_seen /\ ~halted
  BY <1>1, NowTypes DEF SInv, InPlace, Timing, Place, Edges
<1>3. 2 \in 1 .. Len(Edges) /\ 2 \in 2 .. Len(Edges) /\ Edges[2] \in Nat /\ GAP <= Edges[2]
  BY <1>2, NowFacts
<1>4. count <= FrameLatency /\ count \in Nat /\ late' \in Nat
  BY <1>1, NowTypes DEF Timing, FrameInTime, halted, FrameStarts, Served
<1>5. FrameInTime' /\ Place'
  BY <1>1, <1>2 DEF Timing, FrameInTime, halted, FrameStarts, Place, irqs, tests
<1>6. InTime'
  <2>1. Edges[next_edge - 1] <= count + TOL
    BY <1>2, <1>4, NowFacts
  <2>2. count < Edges[2] /\ count <= Edges[2] + late'
    BY <1>3, <1>4
  <2> QED
    BY <1>1, <1>2, <2>1, <2>2 DEF InTime, halted
<1> QED
  BY <1>5, <1>6 DEF Timing

\* The edge interrupt runs only for an edge of the frame in progress.
LEMMA EdgeRunsFacts ==
  ASSUME SInv, Timing, EdgeRuns \/ isr \in {"edge_arm", "edge_check"}, next_edge <= Len(Edges)
  PROVE  /\ ~halted /\ frame_seen /\ Coming
         /\ next_edge \in 2 .. Len(Edges) /\ next_edge \in 1 .. Len(Edges)
         /\ next_edge - 1 \in 1 .. Len(Edges)
         /\ Edges[next_edge] \in 0 .. FRAME - 1
         /\ Edges[next_edge - 1] < Edges[next_edge]
         /\ next_edge + 1 <= Len(Edges) =>
              Edges[next_edge + 1] \in 0 .. FRAME - 1 /\ Edges[next_edge] < Edges[next_edge + 1]
<1>1. frame_seen /\ ~halted /\ Coming
  BY NowTypes DEF Timing, Place, EdgeRuns, EdgeEnters, Coming
<1>2. Len(Edges) \in Nat \ {0} /\ next_edge \in 2 .. Len(Edges)
  BY <1>1, NowFacts DEF Timing, Place
<1>3. next_edge \in 1 .. Len(Edges) /\ next_edge - 1 \in 1 .. Len(Edges)
      /\ (next_edge + 1 <= Len(Edges) => next_edge + 1 \in 1 .. Len(Edges))
  BY <1>2
<1>4. /\ Edges[next_edge] \in 0 .. FRAME - 1
      /\ Edges[next_edge - 1] < Edges[next_edge]
      /\ next_edge + 1 <= Len(Edges) =>
           Edges[next_edge + 1] \in 0 .. FRAME - 1 /\ Edges[next_edge] < Edges[next_edge + 1]
  <2>1. next_edge - 1 < next_edge /\ next_edge < next_edge + 1
    BY <1>2
  <2> QED
    BY <1>1, <1>3, <2>1, NowFacts
<1> QED
  BY <1>1, <1>2, <1>3, <1>4

LEMMA TimingEdgeIgnored ==
  ASSUME SInv, Timing, EdgeIgnored, Edges' = Edges
  PROVE  Timing'
<1>1. /\ isr = "none" /\ pendA /\ ~pendF /\ (selftest \/ ~edge_armed)
      /\ isr' = "none" /\ pendA' = FALSE
      /\ UNCHANGED <<irqs, fault, count, cmpA, pendF, selftest, frame_seen, phase, next_edge,
                     edge_armed>>
  BY DEF EdgeIgnored, EdgeEnters, EdgeReturns
<1>2. FrameInTime' /\ Place'
  BY <1>1 DEF Timing, FrameInTime, halted, FrameStarts, Place, irqs
<1>3. frame_seen => ~(next_edge <= Len(Edges))
  <2> SUFFICES ASSUME frame_seen, selftest PROVE ~(next_edge <= Len(Edges))
    BY <1>1 DEF Timing, Place
  <2>1. Len(Edges) = 1
    BY <1>1, NowTypes, NowFacts DEF Timing, Place
  <2> QED
    BY <2>1 DEF Timing, Place
<1>4. InTime'
  BY <1>1, <1>3 DEF Timing, InTime, halted
<1> QED
  BY <1>2, <1>4 DEF Timing

LEMMA TimingEdgeNotYet ==
  ASSUME SInv, Timing, EdgeNotYet, Edges' = Edges
  PROVE  Timing'
<1>1. /\ EdgeRuns /\ next_edge <= Len(Edges) /\ count + TOL < Edges[next_edge]
      /\ cmpA' = Edges[next_edge] /\ isr' = "none" /\ Served(pendF, pendA')
      /\ UNCHANGED <<irqs, fault, count, pendF, tests, next_edge, edge_armed>>
  BY DEF EdgeNotYet, EdgeReturns, Edges
<1>2. frame_seen /\ Edges[next_edge] \in Nat
  BY <1>1, EdgeRunsFacts
<1>3. FrameInTime' /\ Place'
  BY <1>1, <1>2 DEF Timing, FrameInTime, halted, FrameStarts, Place, irqs, tests
<1>4. InTime'
  <2>1. count \in Nat /\ late' \in Nat
    BY <1>1, NowTypes DEF Served
  <2>2. count < Edges[next_edge] /\ count <= Edges[next_edge] + late'
    BY <1>1, <1>2, <2>1
  <2> QED
    BY <1>1, <2>2 DEF Timing, InTime, halted, tests
<1> QED
  BY <1>3, <1>4 DEF Timing

LEMMA TimingEdgeLatch ==
  ASSUME SInv, Timing, EdgeLatch, Edges' = Edges
  PROVE  Timing'
<1> DEFINE last == next_edge = Len(Edges)
<1>1. /\ EdgeRuns /\ next_edge <= Len(Edges) /\ count + TOL >= Edges[next_edge]
      /\ next_edge' = next_edge + 1 /\ edge_armed' = ~last
      /\ isr' = IF last THEN "none" ELSE "edge_arm"
      /\ Served(pendF, pendA')
      /\ UNCHANGED <<irqs, fault, count, cmpA, pendF, tests>>
  BY DEF EdgeLatch, Edges
<1>2. /\ frame_seen /\ Coming /\ ~halted /\ next_edge \in 2 .. Len(Edges)
      /\ Edges[next_edge] \in 0 .. FRAME - 1
      /\ next_edge + 1 <= Len(Edges) =>
           Edges[next_edge + 1] \in 0 .. FRAME - 1 /\ Edges[next_edge] < Edges[next_edge + 1]
  BY <1>1, EdgeRunsFacts
<1>3. Len(Edges) \in Nat
  BY <1>2, NowFacts
<1>4. FrameInTime'
  BY <1>1 DEF Timing, FrameInTime, halted, FrameStarts, irqs, tests
<1>5. Place'
  <2>1. next_edge' \in 2 .. Len(Edges) + 1 /\ edge_armed' = (next_edge' <= Len(Edges))
    BY <1>1, <1>2, <1>3
  <2> QED
    BY <1>1, <1>2, <2>1 DEF Timing, Place, tests
<1>6. InTime'
  <2> SUFFICES ASSUME ~halted, ~pendF
               PROVE  /\ Edges[next_edge' - 1] <= count + TOL
                      /\ next_edge' <= Len(Edges) =>
                           isr' = "edge_arm" /\ count <= Edges[next_edge'] + late'
    BY <1>1 DEF InTime, halted
  <2>1. Edges[next_edge' - 1] <= count + TOL
    BY <1>1, <1>2, NowTypes
  <2>2. ASSUME next_edge' <= Len(Edges)
        PROVE  isr' = "edge_arm" /\ count <= Edges[next_edge'] + late'
    <3>1. isr' = "edge_arm" /\ late' = late
      BY <1>1, <1>2, <1>3, <2>2 DEF Served
    <3>2. count <= Edges[next_edge] + late
      BY <1>1, <1>2 DEF Timing, InTime, halted
    <3>3. /\ Edges[next_edge + 1] \in Nat /\ Edges[next_edge] < Edges[next_edge + 1]
          /\ Edges[next_edge] \in Nat /\ count \in Nat /\ late \in Nat
      BY <1>1, <1>2, <2>2, NowTypes
    <3>4. count <= Edges[next_edge + 1] + late
      BY <3>2, <3>3
    <3> QED
      BY <1>1, <3>1, <3>4
  <2> QED
    BY <2>1, <2>2
<1> QED
  BY <1>4, <1>5, <1>6 DEF Timing

LEMMA TimingEdgeArm ==
  ASSUME SInv, Timing, EdgeArm, Edges' = Edges
  PROVE  Timing'
<1>1. /\ isr = "edge_arm" /\ cmpA' = Edges[next_edge] /\ isr' = "edge_check"
      /\ UNCHANGED <<irqs, fault, count, pendF, pendA, late, tests, next_edge, edge_armed>>
  BY DEF EdgeArm, Edges
<1>2. FrameInTime' /\ Place'
  BY <1>1 DEF Timing, FrameInTime, halted, FrameStarts, Place, irqs, tests
<1>3. InTime'
  BY <1>1 DEF Timing, InTime, halted, Coming, tests
<1> QED
  BY <1>2, <1>3 DEF Timing

LEMMA TimingEdgeCheck ==
  ASSUME SInv, Timing, EdgeCheck, Edges' = Edges
  PROVE  Timing'
<1>1. /\ isr = "edge_check" /\ isr' = IF count + MARGIN < Edges[next_edge] THEN "none" ELSE "edge"
      /\ Served(pendF, pendA)
      /\ UNCHANGED <<irqs, fault, count, cmpA, pendF, pendA, tests, next_edge, edge_armed>>
  BY DEF EdgeCheck, Ahead, Edges
<1>2. frame_seen /\ next_edge <= Len(Edges) /\ Edges[next_edge] \in Nat
  BY <1>1, EdgeRunsFacts DEF SInv, InPlace, Edges
<1>3. FrameInTime' /\ Place'
  BY <1>1, <1>2 DEF Timing, FrameInTime, halted, FrameStarts, Place, irqs, tests
<1>4. InTime'
  <2>1. count \in Nat /\ late' \in Nat /\ Coming
    BY <1>1, NowTypes DEF Served, Coming
  <2>2. CASE isr' = "none"
    <3>1. count < Edges[next_edge] /\ count <= Edges[next_edge] + late'
      BY <1>1, <1>2, <2>1, <2>2
    <3> QED
      BY <1>1, <1>2, <2>1, <2>2, <3>1 DEF Timing, InTime, halted, tests
  <2>3. CASE isr' = "edge"
    <3>1. late' = late
      BY <1>1, <2>3 DEF Served
    <3> QED
      BY <1>1, <1>2, <2>1, <2>3, <3>1 DEF Timing, InTime, halted, tests
  <2> QED
    BY <1>1, <2>2, <2>3
<1> QED
  BY <1>3, <1>4 DEF Timing

\* Timing is inductive, relative to SInv.
LEMMA TimingStep ==
  ASSUME FrameLatency < GAP, SInv, Timing, [Next]_vars
  PROVE  Timing'
<1>1. CASE muscle_sr_isr_frame
  BY <1>1, TimingFrame
<1>2. CASE ~muscle_sr_isr_frame
  <2>1. Edges' = Edges
    BY <1>2, EdgesStay
  <2>2. CASE Tick
    BY <2>2, TimingTick
  <2>3. CASE EdgeIrqDies
    BY <2>1, <2>3, TimingStays DEF EdgeIrqDies, timer, tests
  <2>4. CASE FaultHandlerStop
    BY <2>1, <2>4, TimingHalts DEF FaultHandlerStop, halt_with, halted, irqs, tests
  <2>5. CASE Startup
    BY <2>1, <2>5, TimingStartup
  <2>6. CASE Interrupts
    BY <1>2, <2>1, <2>6, TimingFrameHalts, TimingFrameArm, TimingEdgeIgnored, TimingEdgeNotYet,
       TimingEdgeLatch, TimingEdgeArm, TimingEdgeCheck DEF Interrupts
  <2>7. CASE SampleInterrupt
    BY <2>1, <2>7, TimingStays DEF SampleInterrupt, SampleEnter, SampleClear, SampleCall,
       SampleRest, irqs, tests, edges
  <2>8. CASE Task /\ ~muscle_sr_emergency_stop
    <3>1. UNCHANGED <<irqs, timer, tests, fault, edges>>
      BY <2>8 DEF Task, CommitSnapshot, CommitBuild, CommitPublish, SrPut, SrLatch,
         muscle_sr_on_sample
    <3> QED
      BY <2>1, <3>1, TimingStays DEF irqs, timer, tests
  <2>9. CASE muscle_sr_emergency_stop
    BY <2>1, <2>9, TimingHalts DEF muscle_sr_emergency_stop, halt_with, halted, irqs, tests, edges
  <2>10. CASE UNCHANGED vars
    BY <2>1, <2>10, TimingStays DEF vars, irqs, timer, tests
  <2> QED
    BY <2>2, <2>3, <2>4, <2>5, <2>6, <2>7, <2>8, <2>9, <2>10 DEF Next
<1> QED
  BY <1>1, <1>2

LEMMA TimingInit ==
  ASSUME Init
  PROVE  Timing
BY DEF Init, Timing, FrameInTime, FrameStarts, Place, InTime

LEMMA TimingInvariance ==
  ASSUME FrameLatency < GAP
  PROVE  Spec => []Timing
<1>1. SInv /\ Timing /\ [Next]_vars => Timing'
  BY TimingStep
<1>2. Init => Timing
  BY TimingInit
<1> QED
  BY <1>1, <1>2, Invariance, PTL DEF Spec


(***************************************************************************)
(* The outputs follow the windows. sr! is left out: it writes the chain    *)
(* behind the schedule's back, until the next edge.                        *)
(***************************************************************************)
\* The chain shows the pattern of the last edge latched, and out_mask knows it.
Shown ==
  /\ task # "latch"
  /\ chain = out_mask
  /\ frame_seen /\ ~halted => chain = sch[cur].mask[next_edge - 1]

LEMMA ShownStep ==
  ASSUME ~Manual, SInv, Timing, Shown, [Next]_vars
  PROVE  Shown'
<1>1. task' # "latch"
  BY ChainSteps DEF Shown
<1>2. CASE muscle_sr_isr_frame
  <2> DEFINE c == IF pending # NONE THEN pending ELSE cur
  <2>1. ~halted /\ cur' = c /\ sch' = sch /\ next_edge' = 2
    BY <1>2 DEF muscle_sr_isr_frame
  <2>2. Latched(sch[c].mask[1]) = sch[c].mask[1]
    BY <2>1, LatchedFacts DEF SInv
  <2>3. chain' = sch[c].mask[1] /\ out_mask' = sch[c].mask[1]
    <3>1. CASE sch[c].mask[1] # out_mask \/ shifted = MASK_INVALID
      BY <1>2, <2>2, <3>1 DEF muscle_sr_isr_frame, latch
    <3>2. CASE ~(sch[c].mask[1] # out_mask \/ shifted = MASK_INVALID)
      BY <1>2, <3>2 DEF muscle_sr_isr_frame, Shown
    <3> QED
      BY <3>1, <3>2
  <2> QED
    BY <1>1, <2>1, <2>3 DEF Shown
<1>3. CASE EdgeLatch
  <2>1. /\ ~halted /\ frame_seen /\ next_edge \in Nat
    BY <1>3, EdgeRunsFacts, NowTypes DEF EdgeLatch, Edges
  <2>2. chain' = sch[cur].mask[next_edge] /\ out_mask' = sch[cur].mask[next_edge]
    BY <1>3, <2>1, LatchedFacts DEF EdgeLatch, latch, SInv
  <2>3. next_edge' - 1 = next_edge /\ UNCHANGED <<sch, cur>>
    BY <1>3, <2>1 DEF EdgeLatch, buffers
  <2> QED
    BY <1>1, <2>2, <2>3 DEF Shown
<1>4. ASSUME ~muscle_sr_isr_frame, UNCHANGED <<chain, out_mask, next_edge, fault>>,
             frame_seen' => frame_seen
      PROVE  Shown'
  BY <1>1, <1>4, EdgesStay DEF Shown, halted
<1>5. ASSUME NEW why, why # "OK", halt_with(why)
      PROVE  Shown'
  BY <1>1, <1>5 DEF halt_with, all_off, Shown, halted
<1>6. ASSUME ~muscle_sr_isr_frame, ~EdgeLatch
      PROVE  Shown'
  <2>1. CASE Tick \/ EdgeIrqDies
    BY <1>4, <1>6, <2>1 DEF Tick, EdgeIrqDies, tests, edges, outputs
  <2>2. CASE muscle_sr_init \/ EdgeTestPasses \/ FrameTestPasses
    BY <1>4, <1>6, <2>2 DEF muscle_sr_init, EdgeTestPasses, FrameTestPasses, edges, outputs
  <2>3. CASE EdgeTestFails \/ FrameTestFails \/ FaultHandlerStop \/ FrameHalts
             \/ muscle_sr_emergency_stop
    BY <1>5, <2>3 DEF EdgeTestFails, FrameTestFails, FaultHandlerStop, FrameHalts,
       muscle_sr_emergency_stop
  <2>4. CASE FrameArm \/ EdgeIgnored \/ EdgeNotYet \/ EdgeArm \/ EdgeCheck
    BY <1>4, <1>6, <2>4 DEF FrameArm, EdgeIgnored, EdgeNotYet, EdgeArm, EdgeCheck, tests, outputs
  <2>5. CASE SampleInterrupt
    BY <1>4, <1>6, <2>5 DEF SampleInterrupt, SampleEnter, SampleClear, SampleCall, SampleRest,
       tests, edges, outputs
  <2>6. CASE Task /\ ~muscle_sr_emergency_stop
    <3>1. UNCHANGED <<tests, fault, edges, chain, out_mask>>
      BY <2>6 DEF Task, CommitSnapshot, CommitBuild, CommitPublish, SrPut, SrLatch, Shown,
         muscle_sr_on_sample, outputs
    <3> QED
      BY <1>4, <1>6, <3>1 DEF tests, edges
  <2>7. CASE UNCHANGED vars
    BY <1>4, <1>6, <2>7 DEF vars, tests, edges, outputs
  <2> QED
    BY <1>6, <2>1, <2>2, <2>3, <2>4, <2>5, <2>6, <2>7 DEF Next, Startup, Interrupts
<1> QED
  BY <1>2, <1>3, <1>6

\* Between two steps of its interrupts the chain shows what the table that runs asks
\* for now, or, for the edge that is next, TOL counts from now.
LEMMA ShownFollows ==
  ASSUME SInv, Timing, Shown
  PROVE  OutputsFollowWindows
<1> SUFFICES ASSUME phase = "bound", running, edge_irq, ~Urgent
             PROVE  \E e \in 0 .. TOL : chain = PatternAt(sch[cur].win, (count + e) % FRAME)
  BY DEF OutputsFollowWindows
<1> DEFINE i == next_edge - 1
<1>1. ~halted /\ frame_seen /\ ~pendF /\ ~pendA /\ isr = "none" /\ Coming
  BY NowTypes DEF SInv, Unbound, Urgent, Coming
<1>2. /\ next_edge \in 2 .. Len(Edges) + 1
      /\ Edges[i] <= count + TOL
      /\ next_edge <= Len(Edges) => count < Edges[next_edge]
  BY <1>1 DEF Timing, Place, InTime
<1>3. PICK w \in Tables : sch[cur] = build[w]
  BY <1>1, EdgesFacts DEF SInv, TypeOK, TaskType
<1>4. /\ Len(Edges) \in Nat \ {0} /\ i \in 1 .. Len(Edges) /\ i + 1 = next_edge
      /\ Edges[i] \in 0 .. FRAME - 1 /\ count \in 0 .. FRAME - 1
  BY <1>1, <1>2, NowFacts, NowTypes
<1>5. chain = build[w].mask[i] /\ sch[cur].win = w /\ Edges = build[w].t
      /\ build[w].mask[i] = PatternAt(w, Edges[i])
  BY <1>1, <1>3, <1>4, ScheduleTimes DEF Shown, Edges
<1> HIDE DEF i
<1>6. CASE Edges[i] <= count
  <2>1. PatternAt(w, count) = build[w].mask[i]
    BY <1>2, <1>4, <1>5, <1>6, PatternHolds
  <2>2. (count + 0) % FRAME = count
    BY <1>4
  <2> QED
    BY <1>5, <2>1, <2>2
<1>7. CASE count < Edges[i]
  <2>1. PICK e \in 0 .. TOL : count + e = Edges[i]
    BY <1>2, <1>4, <1>7
  <2>2. (count + e) % FRAME = Edges[i]
    BY <1>4, <2>1
  <2> QED
    BY <1>5, <2>2
<1> QED
  BY <1>4, <1>6, <1>7

\* With the frame interrupt served before the first edge it can arm, and the chain
\* left to the muscles, the outputs are at every moment those the adopted window table
\* asks for, an edge early by TOL at most, or late while its interrupt is still to
\* finish, however late that is (muscle_sr.c:3-7, 201-223).
THEOREM WiresFollowWindows ==
  ASSUME ~Manual, FrameLatency < GAP
  PROVE  Spec => []OutputsFollowWindows
<1>1. Init => Shown
  BY DEF Init, Shown
<1>2. SInv /\ Timing /\ Shown /\ [Next]_vars => Shown'
  BY ShownStep
<1>3. SInv /\ Timing /\ Shown => OutputsFollowWindows
  BY ShownFollows
<1> QED
  BY <1>1, <1>2, <1>3, Invariance, TimingInvariance, PTL DEF Spec

(***************************************************************************)
(* No sample before its delay. A sample interrupt still waiting when the   *)
(* next edge is latched is taken for that edge's (see sr_sample_late), so  *)
(* edges must not come while one may wait. Which edges: those of one       *)
(* table, if the client registers once; if it withdraws and registers      *)
(* again in mid-frame, the compare value left from the table before can    *)
(* still match, and the edges of any two tables count.                     *)
(***************************************************************************)
\* From an edge at e, the next at f is latched either before e's sample is due, and
\* supersedes it, or after it has been served, though f be early by TOL; and no sample
\* is served past the end of the frame. `once`: the client registers once.
SamplesFit(once) ==
  \A v, w \in Tables : (once => v = w) =>
    \A e \in EdgeTimes(v) : e + DELAY < FRAME =>
      /\ e + DELAY + SampleLatency < FRAME
      /\ \A f \in EdgeTimes(w) : e < f =>
           f + Latency < e + DELAY \/ e + DELAY + SampleLatency + TOL < f

\* The edges compare B may still be set for.
Owed(once) == IF once THEN EdgeTimes(sch[cur].win) ELSE UNION {EdgeTimes(w) : w \in Tables}

\* Compare B is set for such an edge, and for the last one if that is to be sampled.
SampleSet(once) ==
  /\ cmpB # NEVER => (once => sample_cb) /\ \E e \in Owed(once) : cmpB = e + DELAY
  /\ sample_current => cmpB # NEVER /\ cmpB = last_edge + DELAY

\* A sample interrupt waiting or at work was raised at the delay of such an edge, slate
\* counts ago at most, and not before the delay of the edge it will be taken for.
SampleDue(once) ==
  /\ ~halted /\ Sampling =>
       \E e \in Owed(once) : e + DELAY < FRAME /\ e + DELAY <= count /\ count <= e + DELAY + slate
  /\ Sampling /\ sample_current => last_edge + DELAY <= count

Sampled(once) ==
  /\ SampleSet(once) /\ SampleDue(once)
  /\ phase = "boot" => sisr = "none"
  /\ ~early

\* It is enough that the delay is not a whole number of gaps, and far enough from one.
OffGrid ==
  LET r == DELAY % GAP IN
  /\ Latency < r /\ r + SampleLatency + TOL < GAP
  /\ FRAME % GAP <= r \/ r + SampleLatency < FRAME % GAP

LEMMA OffGridFits ==
  ASSUME OffGrid
  PROVE  SamplesFit(FALSE)
<1> DEFINE q == DELAY \div GAP
           r == DELAY % GAP
           p == FRAME \div GAP
           z == FRAME % GAP
<1>1. GAP \in Nat \ {0} /\ DELAY \in Nat /\ FRAME \in Nat
  OBVIOUS
<1>2. /\ q \in Nat /\ r \in 0 .. GAP - 1 /\ DELAY = GAP * q + r
      /\ p \in Nat /\ z \in 0 .. GAP - 1 /\ FRAME = GAP * p + z
  BY <1>1
<1>3. Latency < r /\ r + SampleLatency + TOL < GAP /\ (z <= r \/ r + SampleLatency < z)
  BY DEF OffGrid
<1> HIDE DEF q, r, p, z
<1>4. ASSUME NEW a \in Nat, NEW b \in Nat, a < b
      PROVE  GAP * a + GAP <= GAP * b
  <2>1. GAP * (a + 1) <= GAP * b
    BY <1>4, TimesMonotone
  <2>2. GAP * (a + 1) = GAP * a + GAP
    OBVIOUS
  <2> QED
    BY <2>1, <2>2
<1>5. ASSUME NEW v \in Tables, NEW w \in Tables, NEW e \in EdgeTimes(v), e + DELAY < FRAME
      PROVE  /\ e + DELAY + SampleLatency < FRAME
             /\ \A f \in EdgeTimes(w) : e < f =>
                  f + Latency < e + DELAY \/ e + DELAY + SampleLatency + TOL < f
  <2>1. PICK k \in Nat : e = GAP * k
    BY EdgesOnGrid
  <2>2. k + q \in Nat /\ e + DELAY = GAP * (k + q) + r
    BY <1>2, <2>1
  <2> DEFINE m == k + q
  <2> HIDE DEF m
  <2>3. GAP * m \in Nat /\ GAP * p \in Nat /\ m \in Nat /\ e + DELAY = GAP * m + r
    BY <1>1, <1>2, <2>2, TimesMonotone DEF m
  <2>4. e + DELAY + SampleLatency < FRAME
    <3>1. CASE m < p
      BY <1>1, <1>2, <1>3, <1>4, <2>3, <3>1
    <3>2. CASE m = p
      <4>1. r < z
        BY <1>2, <1>5, <2>3, <3>2
      <4> QED
        BY <1>2, <1>3, <2>3, <3>2, <4>1
    <3>3. CASE p < m
      <4>1. GAP * p + GAP <= GAP * m
        BY <1>2, <1>4, <2>3, <3>3
      <4> QED
        BY <1>2, <1>5, <2>3, <4>1
    <3> QED
      BY <1>2, <2>3, <3>1, <3>2, <3>3
  <2>5. ASSUME NEW f \in EdgeTimes(w)
        PROVE  f + Latency < e + DELAY \/ e + DELAY + SampleLatency + TOL < f
    <3>1. PICK j \in Nat : f = GAP * j
      BY EdgesOnGrid
    <3>2. GAP * j \in Nat
      BY <1>1
    <3>3. CASE j <= m
      <4>1. GAP * j <= GAP * m
        BY <1>1, <2>3, <3>3, TimesMonotone
      <4> QED
        BY <1>2, <1>3, <2>3, <3>1, <3>2, <4>1
    <3>4. CASE m < j
      <4>1. GAP * m + GAP <= GAP * j
        BY <1>4, <2>3, <3>4
      <4> QED
        BY <1>2, <1>3, <2>3, <3>1, <3>2, <4>1
    <3> QED
      BY <2>3, <3>3, <3>4
  <2> QED
    BY <2>4, <2>5
<1> QED
  BY <1>5 DEF SamplesFit

LEMMA OwedFacts ==
  ASSUME SInv, ~halted, NEW once \in BOOLEAN
  PROVE  /\ 0 \in Owed(once)
         /\ \A i \in 1 .. Len(Edges) : Edges[i] \in Owed(once)
         /\ \A e \in Owed(once) : e \in 0 .. FRAME - 1 /\ (e = 0 \/ GAP <= e)
<1>1. sch[cur].win \in Tables
  BY NowFacts
<1>2. \A w \in Tables : 0 \in EdgeTimes(w)
  BY DEF EdgeTimes
<1>3. \A i \in 1 .. Len(Edges) : Edges[i] \in EdgeTimes(sch[cur].win)
  BY NowFacts
<1>4. ASSUME NEW w \in Tables, NEW e \in EdgeTimes(w)
      PROVE  e \in 0 .. FRAME - 1 /\ (e = 0 \/ GAP <= e)
  BY <1>4, EdgeTimesFacts, EdgesOnGrid
<1>5. CASE once
  BY <1>1, <1>2, <1>3, <1>4, <1>5 DEF Owed
<1>6. CASE ~once
  BY <1>1, <1>2, <1>3, <1>4, <1>6 DEF Owed
<1> QED
  BY <1>5, <1>6

\* What SamplesFit says of an edge compare B may be set for.
LEMMA OwedFits ==
  ASSUME SInv, ~halted, NEW once \in BOOLEAN, SamplesFit(once), NEW e \in Owed(once),
         e + DELAY < FRAME
  PROVE  /\ e + DELAY + SampleLatency < FRAME
         /\ \A i \in 1 .. Len(Edges) : e < Edges[i] =>
              Edges[i] + Latency < e + DELAY \/ e + DELAY + SampleLatency + TOL < Edges[i]
<1>1. PICK v \in Tables : e \in EdgeTimes(v) /\ (once => v = sch[cur].win)
  BY NowFacts DEF Owed
<1>2. sch[cur].win \in Tables /\ \A i \in 1 .. Len(Edges) : Edges[i] \in EdgeTimes(sch[cur].win)
  BY NowFacts
<1> QED
  BY <1>1, <1>2 DEF SamplesFit

LEMMA SampledInit ==
  ASSUME Init, NEW once \in BOOLEAN
  PROVE  Sampled(once)
BY DEF Init, Sampled, SampleSet, SampleDue, Sampling, NEVER

\* A step that leaves compare B, the registration and the running schedule alone.
LEMMA SampledStays ==
  ASSUME NEW once \in BOOLEAN, Sampled(once), cur' = cur, sch'[cur] = sch[cur],
         UNCHANGED <<fault, count, cmpB, slate, sample_current, last_edge, early>>,
         once => (sample_cb => sample_cb'), Sampling' => Sampling,
         phase' = "boot" => phase = "boot" /\ sisr' = sisr
  PROVE  Sampled(once)'
<1>1. Owed(once)' = Owed(once)
  BY DEF Owed
<1>2. SampleSet(once)'
  BY <1>1 DEF Sampled, SampleSet, NEVER
<1>3. SampleDue(once)'
  BY <1>1 DEF Sampled, SampleDue, halted
<1> QED
  BY <1>2, <1>3 DEF Sampled

LEMMA SampledHalts ==
  ASSUME NEW once \in BOOLEAN, Sampled(once), cur' = cur, sch'[cur] = sch[cur], halted',
         UNCHANGED <<count, cmpB, sample_cb, sample_current, last_edge, early>>,
         Sampling' => Sampling, phase' = "boot" => phase = "boot" /\ sisr' \in {sisr, "none"}
  PROVE  Sampled(once)'
<1>1. Owed(once)' = Owed(once)
  BY DEF Owed
<1>2. SampleSet(once)'
  BY <1>1 DEF Sampled, SampleSet, NEVER
<1>3. SampleDue(once)'
  BY DEF Sampled, SampleDue
<1> QED
  BY <1>2, <1>3 DEF Sampled

LEMMA SampledTick ==
  ASSUME NEW once \in BOOLEAN, SamplesFit(once), SInv, Sampled(once), Tick
  PROVE  Sampled(once)'
<1>1. /\ Sampling => slate < SampleLatency
      /\ pendB' <=> pendB \/ count' = cmpB
      /\ slate' = IF Sampling THEN slate + 1 ELSE 0
      /\ UNCHANGED <<running, cmpB, buffers, phase, fault, samples>>
      /\ running
  BY DEF Tick
<1>2. ~halted /\ ~halted'
  BY <1>1, NowTypes DEF halted
<1>3. /\ cmpB \in 0 .. FRAME /\ slate \in Nat /\ last_edge \in Nat /\ count \in Nat
      /\ \A e \in Owed(once) : e \in Nat
  BY <1>2, NowTypes, OwedFacts
<1>4. Owed(once)' = Owed(once)
  BY <1>1 DEF Owed, buffers
<1>5. SampleSet(once)'
  BY <1>1, <1>4 DEF Sampled, SampleSet, NEVER, samples
<1>6. ASSUME Sampling
      PROVE  SampleDue(once)'
  <2>1. PICK e \in Owed(once) : e + DELAY < FRAME /\ e + DELAY <= count /\ count <= e + DELAY + slate
    BY <1>2, <1>6 DEF Sampled, SampleDue
  <2>2. e + DELAY + SampleLatency < FRAME
    BY <1>2, <2>1, OwedFits
  <2>3. count' = count + 1
    BY <1>1, <1>3, <1>6, <2>1, <2>2, TickCount
  <2>4. e + DELAY <= count' /\ count' <= e + DELAY + slate'
    BY <1>1, <1>3, <1>6, <2>1, <2>3
  <2>5. sample_current => last_edge + DELAY <= count'
    BY <1>3, <1>6, <2>3 DEF Sampled, SampleDue
  <2> QED
    BY <1>1, <1>4, <2>1, <2>4, <2>5 DEF SampleDue, samples
<1>7. ASSUME ~Sampling
      PROVE  SampleDue(once)'
  <2> SUFFICES ASSUME Sampling' PROVE SampleDue(once)'
    BY DEF SampleDue
  <2>1. count' = cmpB /\ slate' = 0
    BY <1>1, <1>7 DEF Sampling, samples
  <2>2. count' < FRAME /\ count' \in Nat
    BY <1>3, TickCount
  <2>3. PICK e \in Owed(once) : cmpB = e + DELAY
    BY <2>1, <2>2 DEF Sampled, SampleSet, NEVER
  <2>4. e + DELAY < FRAME /\ e + DELAY <= count' /\ count' <= e + DELAY + slate'
    BY <1>3, <2>1, <2>2, <2>3
  <2>5. sample_current => last_edge + DELAY <= count'
    BY <1>3, <2>1, <2>2 DEF Sampled, SampleSet
  <2> QED
    BY <1>1, <1>4, <2>4, <2>5 DEF SampleDue, samples
<1> QED
  BY <1>1, <1>5, <1>6, <1>7 DEF Sampled, samples

\* arm_sample_for() at an edge, which may leave compare B as it was only where that is
\* still right, and a waiting sample only if it is not early for this edge.
LEMMA SampledArms ==
  ASSUME NEW once \in BOOLEAN, SInv, Sampled(once), ~halted, NEW at \in Nat, arm_sample_for(at),
         at \in Owed(once)', Owed(once)' = Owed(once) \/ at = 0,
         Sampling => \E e \in Owed(once) \cap Owed(once)' :
           e + DELAY < FRAME /\ e + DELAY <= count /\ count <= e + DELAY + slate,
         Sampling /\ at + DELAY < FRAME => at + DELAY <= count,
         UNCHANGED <<fault, count, pendB, slate, phase>>
  PROVE  Sampled(once)'
<1> DEFINE arm == sample_cb /\ at + DELAY < FRAME
<1>1. /\ sample_current' = arm /\ cmpB' = (IF arm THEN at + DELAY ELSE cmpB) /\ last_edge' = at
      /\ UNCHANGED <<sample_cb, sisr, early>>
  BY DEF arm_sample_for
<1>2. Sampling' <=> Sampling
  BY <1>1 DEF Sampling
<1>3. SampleDue(once)'
  BY <1>1, <1>2 DEF SampleDue, halted
<1>4. SampleSet(once)'
  <2>1. CASE arm
    <3>1. cmpB' = at + DELAY /\ cmpB' # FRAME /\ sample_cb' /\ last_edge' = at
      BY <1>1, <2>1
    <3> QED
      BY <3>1 DEF SampleSet, NEVER
  <2>2. CASE ~arm
    <3>1. cmpB' = cmpB /\ sample_current' = FALSE /\ sample_cb' = sample_cb
      BY <1>1, <2>2
    <3>2. ASSUME cmpB # NEVER
          PROVE  (once => sample_cb) /\ \E e \in Owed(once)' : cmpB = e + DELAY
      <4>1. (once => sample_cb) /\ \E e \in Owed(once) : cmpB = e + DELAY
        BY <3>2 DEF Sampled, SampleSet
      <4>2. PICK e \in Owed(once) : cmpB = e + DELAY
        BY <4>1
      <4>3. e + DELAY < FRAME /\ e \in Nat
        BY <3>2, <4>2, NowTypes, OwedFacts DEF NEVER
      <4>4. CASE Owed(once)' = Owed(once)
        BY <4>1, <4>4
      <4>5. CASE at = 0 /\ once
        BY <2>2, <4>1, <4>3, <4>5
      <4>6. CASE ~once
        BY <4>1, <4>6 DEF Owed
      <4> QED
        BY <4>4, <4>5, <4>6
    <3> QED
      BY <3>1, <3>2 DEF SampleSet, NEVER
  <2> QED
    BY <2>1, <2>2
<1> QED
  BY <1>1, <1>3, <1>4 DEF Sampled

\* At the start of a frame a waiting sample can only be that of an edge at 0.
LEMMA SampledFrame ==
  ASSUME FrameLatency < GAP, NEW once \in BOOLEAN, SInv, Timing, Sampled(once),
         muscle_sr_isr_frame
  PROVE  Sampled(once)'
<1> DEFINE c == IF pending # NONE THEN pending ELSE cur
<1>1. /\ pendF /\ ~halted /\ cur' = c
      /\ UNCHANGED <<fault, count, pendB, slate, phase, sch>>
  BY DEF muscle_sr_isr_frame
<1>2. arm_sample_for(0)
  BY DEF muscle_sr_isr_frame, latch
<1>3. c \in Buffers /\ c \in {cur, pending}
  BY DEF SInv, TypeOK, TaskType
<1> HIDE DEF c
<1>4. sch'[cur'].win \in Tables /\ sch[cur].win \in Tables
  BY <1>1, <1>3, EdgesFacts, NowFacts
<1>5. 0 \in Owed(once) /\ 0 \in Owed(once)'
  <2>1. \A w \in Tables : 0 \in EdgeTimes(w)
    BY DEF EdgeTimes
  <2>2. CASE once
    BY <1>4, <2>1, <2>2 DEF Owed
  <2>3. CASE ~once
    BY <1>4, <2>1, <2>3 DEF Owed
  <2> QED
    BY <2>2, <2>3
<1>6. Sampling => 0 + DELAY < FRAME /\ 0 + DELAY <= count /\ count <= 0 + DELAY + slate
  <2> SUFFICES ASSUME Sampling
               PROVE  0 + DELAY < FRAME /\ 0 + DELAY <= count /\ count <= 0 + DELAY + slate
    OBVIOUS
  <2>1. PICK e \in Owed(once) :
          e + DELAY < FRAME /\ e + DELAY <= count /\ count <= e + DELAY + slate
    BY <1>1 DEF Sampled, SampleDue
  <2>2. e \in 0 .. FRAME - 1 /\ (e = 0 \/ GAP <= e)
    BY <1>1, OwedFacts
  <2>3. count <= FrameLatency
    BY <1>1 DEF Timing, FrameInTime, FrameStarts
  <2>4. count \in Nat
    BY NowTypes
  <2>5. e = 0
    BY <2>1, <2>2, <2>3, <2>4
  <2> QED
    BY <2>1, <2>5
<1> QED
  BY <1>1, <1>2, <1>5, <1>6, SampledArms

\* An edge that is latched while a sample waits is not after that sample's edge: it
\* would have come before the sample was due, or be still to come.
LEMMA SampledLatch ==
  ASSUME FrameLatency < GAP, NEW once \in BOOLEAN, SamplesFit(once), SInv, Timing,
         Sampled(once), EdgeLatch
  PROVE  Sampled(once)'
<1> DEFINE at == Edges[next_edge]
<1>1. /\ arm_sample_for(at) /\ count + TOL >= at /\ next_edge <= Len(Edges)
      /\ EdgeRuns
      /\ UNCHANGED <<fault, count, pendB, slate, phase, buffers>>
  BY DEF EdgeLatch, latch, Edges, tests
<1>2. ~halted /\ frame_seen /\ Coming /\ next_edge \in 2 .. Len(Edges)
      /\ next_edge \in 1 .. Len(Edges) /\ at \in 0 .. FRAME - 1
  BY <1>1, EdgeRunsFacts
<1>3. Owed(once)' = Owed(once)
  BY <1>1 DEF Owed, buffers
<1>4. at \in Owed(once) /\ \A e \in Owed(once) : e \in 0 .. FRAME - 1
  BY <1>2, OwedFacts
<1>5. count \in 0 .. FRAME - 1 /\ late \in 0 .. Latency /\ slate \in 0 .. SampleLatency
  BY NowTypes
<1>6. count <= at + Latency
  <2>1. CASE pendF
    <3>1. count <= FrameLatency
      BY <2>1 DEF Timing, FrameInTime, FrameStarts
    <3>2. GAP <= at
      BY <1>2, NowFacts
    <3> QED
      BY <1>2, <1>5, <3>1, <3>2
  <2>2. CASE ~pendF
    <3>1. count <= at + late
      BY <1>1, <1>2, <2>2 DEF Timing, InTime
    <3> QED
      BY <1>2, <1>5, <3>1
  <2> QED
    BY <2>1, <2>2
<1>7. ASSUME Sampling
      PROVE  /\ \E e \in Owed(once) :
                  e + DELAY < FRAME /\ e + DELAY <= count /\ count <= e + DELAY + slate
             /\ at + DELAY <= count
  <2>1. PICK e \in Owed(once) :
          e + DELAY < FRAME /\ e + DELAY <= count /\ count <= e + DELAY + slate
    BY <1>2, <1>7 DEF Sampled, SampleDue
  <2>2. e < at => at + Latency < e + DELAY \/ e + DELAY + SampleLatency + TOL < at
    BY <1>2, <2>1, OwedFits
  <2>3. e \in Nat /\ at \in Nat /\ count \in Nat /\ slate \in Nat /\ slate <= SampleLatency
    BY <1>2, <1>4, <1>5
  <2> HIDE DEF at
  <2>4. ~(e < at)
    BY <1>1, <1>6, <2>1, <2>2, <2>3
  <2>5. at + DELAY <= count
    BY <2>1, <2>3, <2>4
  <2> QED
    BY <2>1, <2>5
<1> HIDE DEF at
<1> QED
  BY <1>1, <1>2, <1>3, <1>4, <1>7, SampledArms

\* The callback comes after the delay of the edge it is for; another sample may wait.
LEMMA SampledHandler ==
  ASSUME NEW once \in BOOLEAN, SInv, Sampled(once), SampleInterrupt
  PROVE  Sampled(once)'
<1>1. UNCHANGED <<fault, phase, count, cmpB, sch, cur, sample_cb, sample_current, last_edge>>
  BY DEF SampleInterrupt, SampleEnter, SampleClear, SampleCall, SampleRest, buffers, tests
<1>2. sch'[cur] = sch[cur] /\ cur' = cur
  BY <1>1
<1>3. CASE SampleEnter
  <2>1. /\ pendB /\ pendB' = FALSE /\ early' = early /\ sisr = "none"
        /\ sisr' \in {"clear", "none"} /\ slate' = IF sisr' = "none" THEN 0 ELSE slate
    BY <1>3 DEF SampleEnter
  <2>2. CASE sisr' = "none"
    <3>1. ~Sampling'
      BY <2>1, <2>2 DEF Sampling
    <3>2. SampleSet(once)' /\ SampleDue(once)'
      BY <1>1, <3>1 DEF Sampled, SampleSet, SampleDue, Owed, NEVER
    <3> QED
      BY <1>1, <2>1, <2>2, <3>2 DEF Sampled
  <2>3. CASE sisr' = "clear"
    <3>1. phase # "boot"
      BY <2>1 DEF SInv, Quiet
    <3> QED
      BY <1>1, <1>2, <2>1, <2>3, <3>1, SampledStays DEF Sampling
  <2> QED
    BY <2>1, <2>2, <2>3
<1>4. CASE SampleClear
  <2>1. phase # "boot"
    BY <1>4 DEF SampleClear, Sampled
  <2> QED
    BY <1>1, <1>2, <1>4, <2>1, SampledStays DEF SampleClear, Sampling
<1>5. CASE SampleCall
  <2>1. /\ sisr = "call" /\ sisr' = "none" /\ pendB' = pendB
        /\ slate' = IF pendB THEN slate ELSE 0
        /\ early' = (early \/ (sample_current /\ sample_cb /\ count < last_edge + DELAY))
    BY <1>5 DEF SampleCall
  <2>2. Sampling /\ (Sampling' => pendB)
    BY <2>1 DEF Sampling
  <2>3. ~(sample_current /\ count < last_edge + DELAY)
    BY <2>2, NowTypes DEF Sampled, SampleDue
  <2>4. ~early'
    BY <2>1, <2>3 DEF Sampled
  <2>5. Sampling' => slate' = slate
    BY <2>1 DEF Sampling
  <2>6. SampleSet(once)' /\ SampleDue(once)'
    BY <1>1, <2>2, <2>5 DEF Sampled, SampleSet, SampleDue, Owed, NEVER, halted
  <2> QED
    BY <2>1, <2>4, <2>6 DEF Sampled
<1> QED
  BY <1>3, <1>4, <1>5 DEF SampleInterrupt

LEMMA SampledStep ==
  ASSUME FrameLatency < GAP, NEW once \in BOOLEAN, SamplesFit(once), SInv, Timing,
         Sampled(once), [Next]_vars, once => (sample_cb => sample_cb')
  PROVE  Sampled(once)'
<1>1. CASE Tick
  BY <1>1, SampledTick
<1>2. CASE muscle_sr_isr_frame
  BY <1>2, SampledFrame
<1>3. CASE EdgeLatch
  BY <1>3, SampledLatch
<1>4. CASE SampleInterrupt
  BY <1>4, SampledHandler
<1>5. ASSUME ~muscle_sr_isr_frame
      PROVE  cur' = cur /\ sch'[cur] = sch[cur]
  BY <1>5, EdgesStay
<1>6. CASE EdgeTestFails \/ FrameTestFails \/ FaultHandlerStop \/ FrameHalts
           \/ muscle_sr_emergency_stop
  <2>1. ASSUME ~muscle_sr_isr_frame
        PROVE  Sampled(once)'
    <3>1. PICK why \in {"NO_EDGE_IRQ", "NO_FRAME_IRQ", "STOPPED", "EDGES_MISSED"} : halt_with(why)
      BY <1>6 DEF EdgeTestFails, FrameTestFails, FaultHandlerStop, FrameHalts,
         muscle_sr_emergency_stop
    <3>2. halted' /\ pendB' = FALSE /\ UNCHANGED <<count, cmpB>>
      BY <3>1 DEF halt_with, halted
    <3>3. /\ UNCHANGED <<sample_cb, sample_current, last_edge, early>>
          /\ sisr' \in {sisr, "none"} /\ (phase' = "boot" => phase = "boot")
      BY <1>6 DEF EdgeTestFails, FrameTestFails, FaultHandlerStop, FrameHalts,
         muscle_sr_emergency_stop, samples, tests
    <3>4. Sampling' => Sampling
      BY <3>2, <3>3 DEF Sampling
    <3> QED
      BY <1>5, <2>1, <3>2, <3>3, <3>4, SampledHalts
  <2> QED
    BY <1>2, <2>1
<1>7. CASE /\ ~muscle_sr_isr_frame
           /\ UNCHANGED <<fault, count, cmpB, pendB, slate, sample_current, last_edge, early, sisr>>
           /\ phase' = "boot" => phase = "boot"
  BY <1>5, <1>7, SampledStays DEF Sampling
<1>8. CASE EdgeIrqDies \/ muscle_sr_init \/ EdgeTestPasses \/ FrameTestPasses
  BY <1>2, <1>7, <1>8 DEF EdgeIrqDies, muscle_sr_init, EdgeTestPasses, FrameTestPasses, timer,
     tests, samples
<1>9. CASE FrameArm \/ EdgeIgnored \/ EdgeNotYet \/ EdgeArm \/ EdgeCheck
  BY <1>2, <1>7, <1>9 DEF FrameArm, EdgeIgnored, EdgeNotYet, EdgeArm, EdgeCheck, tests, samples
<1>10. CASE Task /\ ~muscle_sr_emergency_stop
  BY <1>2, <1>7, <1>10 DEF Task, CommitSnapshot, CommitBuild, CommitPublish, SrPut, SrLatch,
     muscle_sr_on_sample, timer, tests, samples
<1>11. CASE UNCHANGED vars
  BY <1>2, <1>7, <1>11 DEF vars, timer, tests, samples
<1> QED
  BY <1>1, <1>2, <1>3, <1>4, <1>6, <1>8, <1>9, <1>10, <1>11 DEF Next, Startup, Interrupts

\* The callback never comes before its delay, whatever the client registers, where the
\* edges of any two tables leave a sample its time ("cb is called from the sample
\* interrupt delay_us after each edge", muscle_sr.h:89-90).
THEOREM SamplesKeepTheirDelay ==
  ASSUME FrameLatency < GAP, SamplesFit(FALSE)
  PROVE  Spec => []SampleNotEarly
<1>1. Init => Sampled(FALSE)
  BY SampledInit
<1>2. SInv /\ Timing /\ Sampled(FALSE) /\ [Next]_vars => Sampled(FALSE)'
  BY SampledStep
<1>3. Sampled(FALSE) => SampleNotEarly
  BY DEF Sampled, SampleNotEarly
<1> QED
  BY <1>1, <1>2, <1>3, Invariance, TimingInvariance, PTL DEF Spec

\* The same of a client that registers once and never withdraws, as the only one does
\* (wirecal.c:399): the edges of each table by itself are enough.
THEOREM RegisteredForGood ==
  ASSUME FrameLatency < GAP, SamplesFit(TRUE)
  PROVE  Spec /\ [][sample_cb => sample_cb']_vars => []SampleNotEarly
<1>1. Init => Sampled(TRUE)
  BY SampledInit
<1>2. SInv /\ Timing /\ Sampled(TRUE) /\ [Next]_vars /\ [sample_cb => sample_cb']_vars
        => Sampled(TRUE)'
  <2>1. [sample_cb => sample_cb']_vars => (sample_cb => sample_cb')
    BY DEF vars, samples
  <2> QED
    BY <2>1, SampledStep
<1>3. Sampled(TRUE) => SampleNotEarly
  BY DEF Sampled, SampleNotEarly
<1> QED
  BY <1>1, <1>2, <1>3, Invariance, TimingInvariance, PTL DEF Spec

\* So it is wherever the delay falls between two multiples of the gap, clear of the
\* latencies on either side, whatever the tables and the registrations are.
THEOREM DelayOffTheGrid ==
  ASSUME FrameLatency < GAP, OffGrid
  PROVE  Spec => []SampleNotEarly
BY OffGridFits, SamplesKeepTheirDelay
=============================================================================
