------------------------------ MODULE MuscleSr ------------------------------
(***************************************************************************)
(* src/Robot/limbs/muscle/muscle_sr.c with src/Robot/io/sr595/sr595.c: the *)
(* muscle windows realised on a 74HC595 chain by a frame timer.            *)
(*                                                                         *)
(* Three parties share this state: the task (commit, sr!, start-up), the   *)
(* frame and compare-A interrupts, which do not nest and outrank           *)
(* everything, and the compare-B (sample) interrupt, which they preempt.   *)
(* An interrupt handler is cut into steps wherever the timer can move on   *)
(* between two things it does, or an interrupt can come between them.      *)
(***************************************************************************)
EXTENDS Integers, Sequences, FiniteSets

CONSTANTS
  Channels,        \* channels driven (0-23 in the code)
  Chips,           \* the chain's chips: a partition of Channels
  MUSCLE_FRAME,    \* muscle counts per frame
  FRAME,           \* tm->frame_counts
  GAP,             \* GAP_US in timer counts
  TOL, MARGIN,     \* as in the code, in counts
  Layouts,         \* the window tables the muscle scheduler commits
  AHEAD,           \* hz / 1000: where the self-test arms compare A
  DELAY,           \* sample_delay_counts
  FrameLatency,    \* counts into the frame by which its interrupt is served
  Latency,         \* counts within which the edge interrupt is served
  SampleLatency,   \* counts within which the sample interrupt is served
  MaxRequests,     \* bound: commits that change something, manual writes and
                   \*   sample registrations in a behaviour
  Manual,          \* whether sr! is used from the CLI
  Faulty           \* which of {"edge", "frame", "stop"} can go wrong

ASSUME TimingAssumption ==
  /\ MUSCLE_FRAME \in Nat \ {0} /\ FRAME \in Nat \ {0}
  /\ GAP \in 1 .. FRAME /\ TOL \in Nat /\ MARGIN \in Nat
  /\ AHEAD \in 0 .. FRAME - 1 /\ DELAY \in Nat
  /\ FrameLatency \in 0 .. FRAME - 1 /\ Latency \in Nat /\ SampleLatency \in Nat
ASSUME LayoutsAssumption ==
  Layouts \subseteq [start : [Channels -> Nat], len : [Channels -> Nat]]
ASSUME ChipsAssumption ==
  UNION Chips = Channels /\ \A c, d \in Chips : c = d \/ c \cap d = {}
ASSUME SwitchesAssumption ==
  MaxRequests \in Nat /\ Manual \in BOOLEAN /\ Faulty \subseteq {"edge", "frame", "stop"}

Off          == [start |-> [ch \in Channels |-> 0], len |-> [ch \in Channels |-> 0]]
NONE         == 255
MASK_INVALID == {-1}           \* no pattern of channels
NEVER        == FRAME          \* a compare value the counter does not take
Buffers      == 0 .. 2

VARIABLES
  phase,          \* "boot", "edgetest", "frametest", "bound", "failed"
  edge_irq, frame_irq,                          \* the interrupts are wired up and alive
  wraps,          \* frames the start-up test has waited
  running, count, cmpA, cmpB,                   \* the timer
  pendF, pendA, pendB, late, slate,             \* its interrupts, and how long they wait
  sch, cur, pending,                            \* the three schedule buffers
  task, buf, stage, built, requests,            \* the task's side of commit() and sr!
  fault, missed, selftest, selftest_hit, frame_seen,
  isr, next_edge, edge_armed,                   \* the edge interrupt's place in the frame
  chain, sreg, shadow, dirty,                   \* outputs, shift register, sr595.c's state
  out_mask, shifted,
  sample_cb, sample_armed, sample_current, last_edge, sisr, early

irqs    == <<edge_irq, frame_irq>>
timer   == <<running, count, cmpA, cmpB, pendF, pendA, pendB, late, slate>>
buffers == <<sch, cur, pending>>
tasks   == <<task, buf, stage, built, requests>>
tests   == <<selftest, selftest_hit, frame_seen, wraps, phase>>
edges   == <<isr, next_edge, edge_armed>>
outputs == <<chain, sreg, shadow, dirty, out_mask, shifted>>
samples == <<sample_cb, sample_armed, sample_current, last_edge, sisr, early>>
vars == <<irqs, timer, buffers, tasks, tests, fault, missed, edges, outputs, samples>>

halted == fault # "OK"

(***************************************************************************)
(* build(): the distinct edge times of a window table, ascending, and the  *)
(* pattern from each; edges that change nothing are dropped. `win` stands  *)
(* for win_us, what the schedule was built from.                           *)
(***************************************************************************)
to_counts(m) == (((m * FRAME) \div MUSCLE_FRAME + GAP \div 2) \div GAP) * GAP

WinStart(w, ch) == to_counts(w.start[ch])
WinEnd(w, ch)   == LET e == to_counts(w.start[ch] + w.len[ch])
                   IN IF e > FRAME THEN FRAME ELSE e

\* Mutant of PatternAt: a window still on at the count it ends.
PatternAtClosed(w, c) ==
  {ch \in Channels : w.len[ch] > 0 /\ WinStart(w, ch) <= c /\ c <= WinEnd(w, ch)}

\* The channels w asks to be on at count c; a window rounded away is none.
PatternAt(w, c) ==
  {ch \in Channels : w.len[ch] > 0 /\ WinStart(w, ch) <= c /\ c < WinEnd(w, ch)}

EdgeTimes(w) ==
  LET on    == {ch \in Channels : w.len[ch] > 0 /\ WinStart(w, ch) < WinEnd(w, ch)}
      times == {0} \cup {WinStart(w, ch) : ch \in on} \cup {WinEnd(w, ch) : ch \in on}
  IN  {t \in times : t < FRAME /\ (t = 0 \/ PatternAt(w, t) # PatternAt(w, t - 1))}

\* The i-th of a set of times, in ascending order.
Nth(T, i) == CHOOSE x \in T : Cardinality({y \in T : y < x}) = i - 1

Tables == Layouts \cup {Off}

build == [w \in Tables |->
  LET T == EdgeTimes(w)
      t == [i \in 1 .. Cardinality(T) |-> Nth(T, i)]
  IN  [t |-> t, mask |-> [i \in 1 .. Cardinality(T) |-> PatternAt(w, t[i])], win |-> w]]

\* What a reader of a half-built schedule could see.
Torn == [t |-> <<0>>, mask |-> <<Channels>>, win |-> Off]

Init ==
  /\ phase = "boot" /\ wraps = 0
  /\ edge_irq \in IF "edge" \in Faulty THEN BOOLEAN ELSE {TRUE}
  /\ frame_irq \in IF "frame" \in Faulty THEN BOOLEAN ELSE {TRUE}
  /\ running = FALSE /\ count = 0 /\ cmpA = NEVER /\ cmpB = NEVER
  /\ pendF = FALSE /\ pendA = FALSE /\ pendB = FALSE /\ late = 0 /\ slate = 0
  /\ sch = [b \in Buffers |-> build[Off]] /\ cur = 0 /\ pending = NONE
  /\ task = "idle" /\ buf = NONE /\ stage = Off /\ built = Off /\ requests = 0
  /\ fault = "OK" /\ missed = 0
  /\ selftest = FALSE /\ selftest_hit = FALSE /\ frame_seen = FALSE
  /\ isr = "none" /\ next_edge = 1 /\ edge_armed = FALSE
  /\ chain = {} /\ sreg = {} /\ shadow = {} /\ dirty = TRUE
  /\ out_mask = {} /\ shifted = MASK_INVALID
  /\ sample_cb = FALSE /\ sample_armed = FALSE /\ sample_current = FALSE
  /\ last_edge = 0 /\ sisr = "none" /\ early = FALSE

(***************************************************************************)
(* The timer (external): counts up, wraps once per frame, and raises an    *)
(* interrupt on the wrap and on each compare value. The board serves them  *)
(* within the given counts. A frame interrupt that came after the frame's  *)
(* first edge would miss it, which the code tolerates for one frame.       *)
(***************************************************************************)
Urgent      == pendF \/ pendA \/ isr # "none"
FrameStarts == pendF \/ isr = "frame_arm"
Sampling    == pendB \/ sisr # "none"

Tick ==
  /\ running
  /\ Urgent => late < Latency
  /\ FrameStarts => count < FrameLatency
  /\ Sampling => slate < SampleLatency
  /\ count' = (count + 1) % FRAME
  /\ pendF' = (pendF \/ (count' = 0 /\ frame_irq))
  /\ pendA' = (pendA \/ (count' = cmpA /\ edge_irq))
  /\ pendB' = (pendB \/ count' = cmpB)
  /\ late'  = IF Urgent THEN late + 1 ELSE 0
  /\ slate' = IF Sampling THEN slate + 1 ELSE 0
  /\ wraps' = IF phase \in {"edgetest", "frametest"} /\ count' = 0 THEN wraps + 1 ELSE wraps
  /\ wraps <= 3
  /\ UNCHANGED <<irqs, running, cmpA, cmpB, buffers, tasks, selftest, selftest_hit,
                 frame_seen, phase, fault, missed, edges, outputs, samples>>

\* The compare interrupt stops coming, at any time.
EdgeIrqDies ==
  /\ "edge" \in Faulty /\ edge_irq /\ phase = "bound"
  /\ edge_irq' = FALSE
  /\ UNCHANGED <<frame_irq, timer, buffers, tasks, tests, fault, missed, edges,
                 outputs, samples>>

(***************************************************************************)
(* halt_with(): no more interrupts, chain cleared.                         *)
(***************************************************************************)
\* Mutant of all_off: the chain is not cleared.
KeepOn == UNCHANGED <<chain, sreg, shadow>>

\* sr595_all_off()
all_off == chain' = {} /\ sreg' = {} /\ shadow' = {}

halt_with(why) ==
  /\ fault' = why
  /\ running' = FALSE /\ pendF' = FALSE /\ pendA' = FALSE /\ pendB' = FALSE
  /\ late' = 0 /\ slate' = 0
  /\ all_off
  /\ out_mask' = {}
  /\ UNCHANGED <<count, cmpA, cmpB, dirty, shifted>>

\* muscle_sr_emergency_stop() from the task.
muscle_sr_emergency_stop ==
  /\ "stop" \in Faulty /\ phase = "bound"
  /\ task = "idle" /\ isr = "none" /\ sisr = "none"
  /\ halt_with("STOPPED")
  /\ UNCHANGED <<irqs, buffers, tasks, tests, missed, edges, samples>>

\* The same from a fault handler: whatever it interrupted never goes on.
FaultHandlerStop ==
  /\ "stop" \in Faulty /\ phase = "bound" /\ task # "dead"
  /\ halt_with("STOPPED")
  /\ task' = "dead" /\ isr' = "none" /\ sisr' = "none"
  /\ UNCHANGED <<irqs, buffers, buf, stage, built, requests, tests, missed,
                 next_edge, edge_armed, sample_cb, sample_armed, sample_current,
                 last_edge, early>>

(***************************************************************************)
(* Start-up: muscle_sr_init() and its self-test.                           *)
(***************************************************************************)
\* Mutants: any end of the wait passes; the wait has no bound.
PassesAnyhow == selftest_hit \/ wraps >= 3
WaitsOn      == FALSE

EdgeTestOk == selftest_hit
WaitOver   == wraps >= 3             \* wait_for()'s limit, three frames

muscle_sr_init ==
  /\ phase = "boot"
  /\ phase' = "edgetest"
  /\ selftest' = TRUE /\ selftest_hit' = FALSE /\ frame_seen' = FALSE
  /\ running' = TRUE /\ cmpA' = AHEAD
  /\ UNCHANGED <<irqs, count, cmpB, pendF, pendA, pendB, late, slate, buffers, tasks,
                 wraps, fault, missed, edges, outputs, samples>>

EdgeTestPasses ==
  /\ phase = "edgetest" /\ isr = "none" /\ EdgeTestOk
  /\ selftest' = FALSE
  /\ phase' = "frametest" /\ wraps' = 0
  /\ UNCHANGED <<irqs, timer, buffers, tasks, selftest_hit, frame_seen, fault, missed,
                 edges, outputs, samples>>

EdgeTestFails ==
  /\ phase = "edgetest" /\ isr = "none" /\ ~EdgeTestOk /\ WaitOver
  /\ selftest' = FALSE
  /\ phase' = "failed"
  /\ halt_with("NO_EDGE_IRQ")
  /\ UNCHANGED <<irqs, buffers, tasks, selftest_hit, frame_seen, wraps, missed, edges,
                 samples>>

FrameTestPasses ==
  /\ phase = "frametest" /\ isr = "none" /\ frame_seen
  /\ phase' = "bound" /\ wraps' = 0
  /\ UNCHANGED <<irqs, timer, buffers, tasks, selftest, selftest_hit, frame_seen, fault,
                  missed, edges, outputs, samples>>

FrameTestFails ==
  /\ phase = "frametest" /\ isr = "none" /\ ~frame_seen /\ WaitOver
  /\ phase' = "failed"
  /\ halt_with("NO_FRAME_IRQ")
  /\ UNCHANGED <<irqs, buffers, tasks, selftest, selftest_hit, frame_seen, wraps, missed,
                 edges, samples>>

(***************************************************************************)
(* The task: commit() after a full set of set_window() calls. Interrupts   *)
(* run between its three steps; each access to cur and pending is inside   *)
(* safe().                                                                 *)
(***************************************************************************)
Request ==
  /\ phase = "bound" /\ task = "idle"
  /\ isr = "none" /\ sisr = "none"
  /\ requests < MaxRequests
  /\ requests' = requests + 1

\* Mutant of FreeBuffer: any but the running one.
FreeBufferNotCur(c, p) == CHOOSE b \in Buffers : b # c /\ \A a \in Buffers : a < b => a = c

FreeBuffer(c, p) == CHOOSE b \in Buffers :
  b \notin {c, p} /\ \A a \in Buffers : a < b => a \in {c, p}

CommitSnapshot(w) ==
  /\ Request
  /\ ~halted /\ w # built
  /\ stage' = w
  /\ buf' = FreeBuffer(cur, pending)
  /\ sch' = [sch EXCEPT ![FreeBuffer(cur, pending)] = Torn]
  /\ task' = "build"
  /\ UNCHANGED <<irqs, timer, cur, pending, built, tests, fault, missed, edges, outputs,
                 samples>>

TaskRuns == isr = "none" /\ sisr = "none"

\* Mutant of Staged: what was committed before.
StagedBefore == built

Staged == stage

CommitBuild ==
  /\ task = "build" /\ TaskRuns
  /\ sch' = [sch EXCEPT ![buf] = build[Staged]]
  /\ task' = "publish"
  /\ UNCHANGED <<irqs, timer, cur, pending, buf, stage, built, requests, tests, fault,
                 missed, edges, outputs, samples>>

\* Mutant of Published: a schedule that waits for its frame is not replaced.
PublishedIfFree == IF pending = NONE THEN buf ELSE pending

Published == buf

CommitPublish ==
  /\ task = "publish" /\ TaskRuns
  /\ pending' = Published
  /\ built' = stage
  /\ buf' = NONE
  /\ task' = "idle"
  /\ UNCHANGED <<irqs, timer, sch, cur, stage, requests, tests, fault, missed, edges,
                 outputs, samples>>

\* sr595_cli_write: put the chip's byte in the shadow, then latch the shadow
\* with interrupts masked.
SrPut(chip, value) ==
  /\ Manual /\ Request
  /\ shadow' = (shadow \ chip) \cup value
  /\ task' = "latch"
  /\ UNCHANGED <<irqs, timer, buffers, buf, stage, built, tests, fault, missed, edges,
                 chain, sreg, dirty, out_mask, shifted, samples>>

SrLatch ==
  /\ task = "latch" /\ TaskRuns
  /\ sreg' = shadow /\ chain' = shadow
  /\ dirty' = TRUE
  /\ task' = "idle"
  /\ UNCHANGED <<irqs, timer, buffers, buf, stage, built, requests, tests, fault, missed,
                 edges, shadow, out_mask, shifted, samples>>

muscle_sr_on_sample(on) ==
  /\ DELAY > 0 /\ Request
  /\ sample_cb' = on
  /\ UNCHANGED <<irqs, timer, buffers, task, buf, stage, built, tests, fault, missed,
                 edges, outputs, sample_armed, sample_current, last_edge, sisr, early>>

(***************************************************************************)
(* Pieces of the interrupt handlers.                                       *)
(***************************************************************************)
\* Mutant of arm_sample_for: the compare value is the edge's own.
ArmSampleAtEdge(at) ==
  LET arm == sample_cb /\ at + DELAY < FRAME IN
  /\ sample_armed' = (sample_armed \/ arm)
  /\ sample_current' = arm
  /\ cmpB' = IF arm THEN at + 1 ELSE cmpB
  /\ last_edge' = at
  /\ UNCHANGED <<sample_cb, sisr, early>>

\* arm_sample_for, after edge_seq++: sample_current says sample_seq = edge_seq.
arm_sample_for(at) ==
  LET arm == sample_cb /\ at + DELAY < FRAME IN
  /\ sample_armed' = (sample_armed \/ arm)
  /\ sample_current' = arm
  /\ cmpB' = IF arm THEN at + DELAY ELSE cmpB
  /\ last_edge' = at
  /\ UNCHANGED <<sample_cb, sisr, early>>

\* Mutant of Latched: `dirty` is not looked at.
LatchedBlind(m) == IF shifted # m THEN m ELSE sreg

\* latch(): the register is shifted again if its contents are not m.
Latched(m) == IF (dirty \/ shifted # m) THEN m ELSE sreg

latch(m, at) ==
  /\ chain' = Latched(m)
  /\ dirty' = FALSE
  /\ shadow' = m /\ out_mask' = m
  /\ arm_sample_for(at)

preshift(m) == sreg' = m /\ shifted' = m
keepshift(m) == sreg' = Latched(m) /\ shifted' = m      \* latch without a preshift

\* `late` runs on while something urgent (f, a) is left to serve.
Served(f, a) == late' = IF isr' # "none" \/ f \/ a THEN late ELSE 0

(***************************************************************************)
(* muscle_sr_isr_frame. Time can pass between the latch, which may have to *)
(* shift the pattern first, and the arming of the first edge.              *)
(***************************************************************************)
\* Mutant of Missed: the frames missed before are forgotten.
MissedNow == IF edge_armed THEN 1 ELSE 0

Missed  == IF edge_armed THEN missed + 1 ELSE 0
Overrun == Missed >= 2

FrameHalts ==
  /\ isr = "none" /\ pendF /\ ~halted
  /\ Overrun
  /\ missed' = Missed
  /\ frame_seen' = TRUE
  /\ halt_with("EDGES_MISSED")
  /\ UNCHANGED <<irqs, buffers, tasks, selftest, selftest_hit, wraps, phase, edges,
                 samples>>

muscle_sr_isr_frame ==
  LET c == IF pending # NONE THEN pending ELSE cur
      s == sch[c]
  IN
  /\ isr = "none" /\ pendF /\ ~halted
  /\ ~Overrun
  /\ missed' = Missed
  /\ frame_seen' = TRUE
  /\ cur' = c /\ pending' = NONE
  /\ IF s.mask[1] # out_mask \/ shifted = MASK_INVALID
       THEN latch(s.mask[1], 0)
       ELSE arm_sample_for(0) /\ UNCHANGED <<chain, dirty, shadow, out_mask>>
  /\ next_edge' = 2
  /\ edge_armed' = (Len(s.t) > 1)
  /\ isr' = IF Len(s.t) > 1 THEN "frame_arm" ELSE "none"
  /\ IF Len(s.t) > 1
       THEN IF s.mask[1] # out_mask \/ shifted = MASK_INVALID
              THEN keepshift(s.mask[1]) ELSE UNCHANGED <<sreg, shifted>>
       ELSE preshift(s.mask[1])
  /\ pendF' = FALSE
  /\ Served(FALSE, pendA)
  /\ UNCHANGED <<irqs, running, count, cmpA, pendA, pendB, slate, sch, tasks, selftest,
                 selftest_hit, wraps, phase, fault>>

FrameArm ==
  /\ isr = "frame_arm"
  /\ cmpA' = sch[cur].t[2]
  /\ preshift(sch[cur].mask[2])
  /\ isr' = "none"
  /\ Served(pendF, pendA)
  /\ UNCHANGED <<irqs, running, count, cmpB, pendF, pendA, pendB, slate, buffers, tasks,
                 tests, fault, missed, next_edge, edge_armed, chain, shadow, dirty,
                 out_mask, samples>>

(***************************************************************************)
(* muscle_sr_isr_edge: its loop from the top, the arming of the next edge, *)
(* and the look at the clock that decides whether to go round again.       *)
(***************************************************************************)
EdgeEnters == isr = "none" /\ pendA /\ ~pendF
EdgeRuns   == isr = "edge" \/ (EdgeEnters /\ ~selftest /\ edge_armed)
EdgeReturns ==
  /\ isr' = "none"
  /\ pendA' = IF isr = "none" THEN FALSE ELSE pendA
  /\ Served(pendF, pendA')

\* During the self-test the handler only notes that it ran; otherwise it
\* ignores a match nothing was armed for.
EdgeIgnored ==
  /\ EdgeEnters /\ (selftest \/ ~edge_armed)
  /\ selftest_hit' = (selftest_hit \/ selftest)
  /\ EdgeReturns
  /\ UNCHANGED <<irqs, running, count, cmpA, cmpB, pendF, pendB, slate, buffers, tasks,
                 selftest, frame_seen, wraps, phase, fault, missed, next_edge, edge_armed,
                 outputs, samples>>

\* An early or stale event: wait for the real one.
EdgeNotYet ==
  /\ EdgeRuns
  /\ next_edge <= Len(sch[cur].t)
  /\ count + TOL < sch[cur].t[next_edge]
  /\ cmpA' = sch[cur].t[next_edge]
  /\ EdgeReturns
  /\ UNCHANGED <<irqs, running, count, cmpB, pendF, pendB, slate, buffers, tasks, tests,
                 fault, missed, next_edge, edge_armed, outputs, samples>>

EdgeLatch ==
  LET s == sch[cur]
      i == next_edge
      last == i = Len(s.t)
  IN
  /\ EdgeRuns
  /\ i <= Len(s.t)
  /\ count + TOL >= s.t[i]
  /\ latch(s.mask[i], s.t[i])
  /\ next_edge' = i + 1
  /\ IF last THEN preshift(s.mask[1]) ELSE keepshift(s.mask[i])
  /\ edge_armed' = ~last
  /\ isr' = IF last THEN "none" ELSE "edge_arm"
  /\ pendA' = IF isr = "none" THEN FALSE ELSE pendA
  /\ Served(pendF, pendA')
  /\ UNCHANGED <<irqs, running, count, cmpA, pendF, pendB, slate, buffers, tasks, tests,
                 fault, missed>>

EdgeArm ==
  /\ isr = "edge_arm"
  /\ cmpA' = sch[cur].t[next_edge]
  /\ preshift(sch[cur].mask[next_edge])
  /\ isr' = "edge_check"
  /\ UNCHANGED <<irqs, running, count, cmpB, pendF, pendA, pendB, late, slate, buffers,
                 tasks, tests, fault, missed, next_edge, edge_armed, chain, shadow, dirty,
                 out_mask, samples>>

\* Mutant of Ahead: the clock is not looked at again.
AheadAlways == TRUE

Ahead == count + MARGIN < sch[cur].t[next_edge]

EdgeCheck ==
  /\ isr = "edge_check"
  /\ isr' = IF Ahead THEN "none" ELSE "edge"
  /\ Served(pendF, pendA)
  /\ UNCHANGED <<irqs, running, count, cmpA, cmpB, pendF, pendA, pendB, slate, buffers, tasks,
                 tests, fault, missed, next_edge, edge_armed, outputs, samples>>

(***************************************************************************)
(* muscle_sr_isr_sample, which the others preempt between any two steps.   *)
(***************************************************************************)
SampleStep == ~Urgent
SampleRest == <<irqs, running, count, cmpA, cmpB, pendF, pendA, late, buffers, tasks,
                tests, fault, missed, edges, outputs>>

SampleEnter ==
  /\ SampleStep /\ sisr = "none" /\ pendB
  /\ pendB' = FALSE
  /\ sisr' = IF sample_armed THEN "clear" ELSE "none"
  /\ slate' = IF sisr' = "none" THEN 0 ELSE slate
  /\ UNCHANGED <<SampleRest, sample_cb, sample_armed, sample_current, last_edge, early>>

SampleClear ==
  /\ SampleStep /\ sisr = "clear"
  /\ sample_armed' = FALSE
  /\ sisr' = "call"
  /\ UNCHANGED <<SampleRest, pendB, slate, sample_cb, sample_current, last_edge, early>>

\* `early` notes a callback that came before its time.
SampleCall ==
  /\ SampleStep /\ sisr = "call"
  /\ early' = (early \/ (sample_current /\ sample_cb /\ count < last_edge + DELAY))
  /\ sisr' = "none"
  /\ slate' = IF pendB THEN slate ELSE 0
  /\ UNCHANGED <<SampleRest, pendB, sample_cb, sample_armed, sample_current, last_edge>>

Startup == muscle_sr_init \/ EdgeTestPasses \/ EdgeTestFails
           \/ FrameTestPasses \/ FrameTestFails

Interrupts ==
  \/ FrameHalts \/ muscle_sr_isr_frame \/ FrameArm
  \/ EdgeIgnored \/ EdgeNotYet \/ EdgeLatch \/ EdgeArm \/ EdgeCheck

SampleInterrupt == SampleEnter \/ SampleClear \/ SampleCall

Task ==
  \/ \E w \in Layouts : CommitSnapshot(w)
  \/ CommitBuild \/ CommitPublish
  \/ \E chip \in Chips : \E value \in SUBSET chip : SrPut(chip, value)
  \/ SrLatch
  \/ \E on \in BOOLEAN : muscle_sr_on_sample(on)
  \/ muscle_sr_emergency_stop

Next ==
  \/ Tick \/ EdgeIrqDies \/ FaultHandlerStop
  \/ Startup \/ Interrupts \/ SampleInterrupt \/ Task

Spec == Init /\ [][Next]_vars
(***************************************************************************)
(* Time passes, interrupts are served and the task's steps are taken.      *)
(***************************************************************************)
FairSpec ==
  /\ Spec
  /\ WF_vars(Tick) /\ WF_vars(Startup) /\ WF_vars(Interrupts) /\ WF_vars(SampleInterrupt)
  /\ WF_vars(CommitBuild) /\ WF_vars(CommitPublish) /\ WF_vars(SrLatch)

-----------------------------------------------------------------------------
Schedules == {build[w] : w \in Tables} \cup {Torn}

TimerType ==
  /\ edge_irq \in BOOLEAN /\ frame_irq \in BOOLEAN
  /\ running \in BOOLEAN
  /\ count \in 0 .. FRAME - 1 /\ cmpA \in 0 .. FRAME /\ cmpB \in 0 .. FRAME
  /\ pendF \in BOOLEAN /\ pendA \in BOOLEAN /\ pendB \in BOOLEAN
  /\ late \in 0 .. Latency /\ slate \in 0 .. SampleLatency

TaskType ==
  /\ sch \in [Buffers -> Schedules]
  /\ cur \in Buffers /\ pending \in Buffers \cup {NONE}
  /\ task \in {"idle", "build", "publish", "latch", "dead"}
  /\ buf \in Buffers \cup {NONE}
  /\ stage \in Tables /\ built \in Tables
  /\ requests \in 0 .. MaxRequests

TestType ==
  /\ phase \in {"boot", "edgetest", "frametest", "bound", "failed"}
  /\ wraps \in 0 .. 4
  /\ selftest \in BOOLEAN /\ selftest_hit \in BOOLEAN /\ frame_seen \in BOOLEAN
  /\ fault \in {"OK", "NO_FRAME_IRQ", "NO_EDGE_IRQ", "EDGES_MISSED", "STOPPED"}
  /\ missed \in 0 .. 2

OutputType ==
  /\ isr \in {"none", "frame_arm", "edge", "edge_arm", "edge_check"}
  /\ next_edge \in Nat /\ edge_armed \in BOOLEAN
  /\ chain \subseteq Channels /\ sreg \subseteq Channels /\ shadow \subseteq Channels
  /\ out_mask \subseteq Channels /\ shifted \in (SUBSET Channels) \cup {MASK_INVALID}
  /\ dirty \in BOOLEAN

SampleType ==
  /\ sample_cb \in BOOLEAN /\ sample_armed \in BOOLEAN /\ sample_current \in BOOLEAN
  /\ last_edge \in 0 .. FRAME - 1 /\ early \in BOOLEAN
  /\ sisr \in {"none", "clear", "call"}

\* The state of muscle_sr.c and sr595.c has the types of its declarations.
TypeOK == TimerType /\ TaskType /\ TestType /\ OutputType /\ SampleType

\* "the interrupt never sees a half-built one" (muscle_sr.h:16-17), nor one the
\* task may still write: whatever frame interrupts come between commit()'s
\* snapshot, build and publish, the buffer being written is neither the running
\* one nor the one the next frame adopts.
BuildIsPrivate ==
  task \in {"build", "publish"} => buf \notin {cur, pending}

\* The wires follow the windows: with its interrupts served in time, the outputs
\* are at every moment those the adopted window table asks for, an edge early by
\* TOL at most, or late while its interrupt is still being served (muscle_sr.c:
\* 3-7, and the "latched pattern must be the pattern the windows call for at that
\* time" of test/muscle_sr_test.c:7-9).
OutputsFollowWindows ==
  (phase = "bound" /\ running /\ edge_irq /\ ~Urgent) =>
    \E e \in 0 .. TOL : chain = PatternAt(sch[cur].win, (count + e) % FRAME)

\* Packed windows never put two wires on at once (muscle.h:25-26), not even
\* rounded to timer counts, mid-interrupt, or with a compare interrupt that died.
OneWireAtATime == Cardinality(chain) <= 1

\* The last table committed is the one the next frame start will run: no commit
\* is lost to a frame interrupt that adopts an older one, nor put back by it.
LatestCommitWins ==
  task \notin {"publish", "dead"} =>
    sch[IF pending # NONE THEN pending ELSE cur].win = built

\* "If the test fails nothing is ever latched", and "anything other than
\* MUSCLE_SR_OK means no pattern is being latched and the chain is cleared"
\* (muscle_sr.h:52, 61-62): no wire is on before both interrupts have been seen
\* to fire, nor, for good, after a fault, whatever late interrupt or task step
\* is still to come.
OffUnlessSound ==
  /\ chain # {} => phase = "bound" /\ selftest_hit /\ frame_seen
  /\ halted => chain = {} /\ ~running

\* An edge puts out exactly the pattern scheduled for it, whatever a manual sr!
\* has left in the shift register since it was shifted in (muscle_sr.c:156-160).
EdgesArePure == [][EdgeLatch => chain' = sch[cur].mask[next_edge]]_vars

\* "cb is called from the sample interrupt delay_us after each edge"
\* (muscle_sr.h:89-90): never sooner.
SampleNotEarly == ~early

\* "The change reaches the wires within one frame" (muscle_sr.h:16-18): once
\* everything is committed off and nothing else is committed, the wires go off
\* and stay off, even if the compare interrupt has died.
RelaxTurnsOff ==
  <>[](task = "idle" /\ phase = "bound" /\ built = Off) => <>[](chain = {})

\* A dead compare interrupt leaves a window on for at most two frames: while the
\* running schedule has edges to latch, the timer is halted in the end
\* (muscle_sr.c:179-181).
DeadCompareHalts ==
  (phase = "bound" /\ ~edge_irq /\ Len(sch[cur].t) > 1)
    ~> (halted \/ Len(sch[cur].t) = 1)

\* Start-up ends with the shim bound or a fault recorded, whatever interrupt is
\* missing: the self-test's waits are bounded.
StartupEnds == <>(phase \in {"bound", "failed"})
=============================================================================
