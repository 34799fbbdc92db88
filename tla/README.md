# Verification of the ActiveRobot firmware

TLA+ models of the robot's firmware (`src/Robot`), the TLC runs that check
them and the TLAPS proofs about them. The firmware is C on one core: a
cooperative scheduler (TEA: `later()` queues an action, `after()`/`in()` queue
it with a delay, each action runs to completion) and a handful of interrupts.
The models follow the C, function by function; `PROJECT.json` maps each
definition to the lines it stands for.

## The system

| Component | State it keeps | Operations | Talks to | What is hard | What makes it correct |
|---|---|---|---|---|---|
| Muscle scheduler `limbs/muscle/muscle.c` | fitted limbs, activation per muscle, scheduled windows, one queued `schedule()` | init, set_fitted, bind_hw, set, limb_set, relax, schedule | gait, wirecal, CLI above; a board shim (`muscle_hw_t`) below | calls between a queued `schedule()` and its run; interrupts between its `set_window()` calls | antagonists never pull together; windows fit the frame and never overlap; a release reaches the board |
| Shift-register shim `limbs/muscle/muscle_sr.c` | three schedule buffers, edge index, self-test flags, fault, the timer | stage/commit, frame, edge and sample interrupts, self-test, emergency stop | muscle scheduler above; sr595 and a frame timer below; wirecal by callback | three priorities share buffers with no lock; interrupts late, lost or dead | the interrupt never reads a buffer being written; outputs follow the windows; a fault turns everything off for good |
| 74HC595 chain `io/sr595/sr595.c` | shadow, dirty flag, what is shifted in, what is latched | put, latch, shift, strobe, all_off, `sr!` | shim, CLI | task and interrupt shift the same register | an edge latches exactly its own pattern |
| File store `storage/fs/fs.c` | flash (two directory sectors, a data log), directory in RAM, write pointer | mount, format, append_line, remove, rename, copy, compaction | board flash driver; calib, CLI | every flash call may fail, or be the last before a power loss; flash writes only erased bytes | each operation whole or not at all; durable once returned; nothing is written twice |
| Calibration values `storage/calib/calib.c` | registered items, a loader feeding CLI keys | save, load, step | file store, CLI key queue, wirecal | loader and CLI run in turns over a bounded queue; save cut off | the file is the old or the new one; what was saved comes back |
| Wire calibration `limbs/wirecal/wirecal.c` | state machine, timers, sample ring, monitor | start, stop, steps, time-out, sample interrupt, drain, isns, scope | muscle, muscle_sr samples, calib | interrupt fills a ring the task drains; stop/halt/abort in every state | every run ends; its time-outs match its state; readings belong to their step |
| Resistance-curve analysis `wirecal_analyze.c` | none | a function | wirecal | off-by-one at the ends, either direction, data that end mid-change | the transition it finds is the one its header defines |
| Gait `limbs/gait/gait.c` | gait, four leg states, rhythm | start/switch, stop, tick, tip-over | muscle, posture, contact sensor | switches mid-swing, ticks racing stops | enough legs down; one chain of ticks; swings end |
| Posture `limbs/posture/posture.c` | filtered angles, valid, tipped | sample, bind, notify | gait | sensor that stops answering | a new tip-over is told once |
| HTTP server `net/http/http_server.c` | connection slots, event streams bound to paths, the terminal's stream, keepalive chain | accept, recv (one action per kind of request), sent, err, push, emit, keepalive, start, stop | lwIP callbacks, CLI output | callbacks in any order, slots and pcbs reused at once, closes from both sides, a stream evicting another | slots and pcbs stay matched; streams are bound to open connections; whoever waits is woken |
| Telnet server `net/telnet/telnet_server.c` | sessions, the one output goes back to | accept, recv, sent, poll, err, emit, start, stop; the command parser | lwIP callbacks, CLI output | as for HTTP; commands cut into segments anywhere | as for HTTP; the CLI gets what was typed and nothing else |
| NTP time `net/ntp` | UTC and uptime at the last sync, observers | start, stop, kick, sync, query | lwIP's sntp client | uptime wraps at 2^32 ms | not modelled |
| CLI transports `cli/cli_transport*.c` | who claimed `EmitEvent`, the CDC retry | claim, emit, retry, transmit complete | HTTP, telnet, USB CDC, the CLI's queue | three talkers share one output queue | one retry at most; output left in the queue has something coming for it |
| Canary `diagnostics/canary` | none but the memory it filled | init, check | CLI | - | not modelled |
| AD5593R and its limbs `io/ad5593r` | a window per limb; the chip's registers, DACs and selected channel | reset, set_dac, read_adc, other reads; calibrate (one, all), set, get_cal | I2C, CLI | any transfer may be lost, the first after a reset without a sign; a sweep cut short; the processor restarts and the chip does not; roundings | a reset that succeeds has configured the chip; a window is whole and the limb's own; no limb is driven beyond where it saturates, by a chip that is set up |
| Other I2C parts, show_* words, board start-up, boot loader | none of interest | single transfers, printing, set-up executed once | | | not modelled |

How they interact: gait and wirecal call `limb_set()`/`muscle_relax()`; the
scheduler queues `schedule()`, which hands windows to the shim; the shim's
frame interrupt adopts them and its edge interrupts latch them into the chain;
the sample interrupt hands readings to wirecal's ring; a finished calibration
calls `calib_save()`, which writes lines through the file store; at boot
`calib_load()` feeds those lines to the CLI as if typed. Posture tells gait of
a tip-over by callback. The network servers and the USB port put characters
into the CLI's key queue and claim `EmitEvent`, on which the CLI's output queue
is drained.

`PROJECT.json` lists the hazards of this code at the line where each bites,
with the properties that cover it or the reason why none does.

## Modules

| Module | Models | Its state and actions in the code |
|---|---|---|
| `Muscle` | muscle.c | variables are the file's statics; `muscle_*`, `limb_set` are its functions; `schedule()` is `ScheduleBegin` and one `ScheduleChannel` per turn of its loop, the last with `commit()`, because the board's interrupts run between them. `pending` is the queued action. |
| `MuscleTable` | what muscle.h promises | the abstract specification: activations and fitted limbs only. `Muscle` implements it (`ImplementsTable`), and `WireCal` is written on it. |
| `MuscleSr` | muscle_sr.c and sr595.c | interrupts are cut into steps wherever the timer may move on or another interrupt may come: `FrameHalts`/`muscle_sr_isr_frame`/`FrameArm`, `EdgeIgnored`/`EdgeNotYet`/`EdgeLatch`/`EdgeArm`/`EdgeCheck`, `SampleEnter`/`SampleClear`/`SampleCall`; `commit()` is snapshot, build and publish. `Tick` is the timer. |
| `FileStore` | what fs.h promises | files as a function from names to contents, each operation atomic. |
| `Fs` | fs.c | one step per flash call with the RAM updates around it; `pc` is the call about to be made. A cell is what one write call puts out. `compact()`'s insertion sort (`Order`) and region loop (`RegionsOf`) are functions of how far they are. `ImplementsStore` is the refinement, with `shown` and `goal` as history. |
| `WireCal` | wirecal.c | the run's state machine, `timed`/`ready` for the scheduler's queues, `on_sample` for the interrupt, `drain` with its reads one at a time. |
| `Calib` | calib.c | `save` line by line, `calib_step` the loader, `keyq`/`line` the CLI's key queue and line. |
| `Calibration` | wirecal.c + calib.c | composes `WireCal`, `MuscleTable`, `Calib` and `FileStore` with power loss. |
| `WireAnalyze` | wirecal_analyze.c | its loops as recursive functions over the curve's indices. |
| `Posture`, `Gait` | posture.c, gait.c | `gait_tick` steps the four legs in turn (`step_leg`), each seeing what those before it did; `Sample` is a posture sample with the tip-over it reports. |
| `CliTransport` | cli_transport.c, cli_transport_cdc.c | `emitter` is what `when(EmitEvent, ...)` set last; `emitq` is what the output queue holds: nothing, only output from before the last change of claimant (`old`), or newer. |
| `Lwip` | lwIP, external, as the servers use it | `owner` is a pcb's `tcp_arg`; a closed pcb is free for the next connection at once. |
| `Http` | http_server.c | a callback is an action; what it does to slots, pcbs and streams is an operator from one record `w` of them to the next, so that `conn_close` inside `RecvStream` or `http_server_stop` reads as in the code. `flight` is how many units a pcb has written and not seen acknowledged, what a `tcp_sent` callback is to come for. `tcp_write` is refused when they would not fit, or whenever lwIP has no memory: `granted` is that choice, made for every write, and `starved` remembers the pcbs refused with nothing in flight. |
| `Telnet` | telnet_server.c | the same, without `flight`: nothing waits for an acknowledgment here; `iac_state`, `iac_process`, `Parse` and `Segment` are the parser, on kinds of bytes. |
| `Network` | their composition | the three transports over one pool of pcbs and one output queue. |
| `Ad5593r` | ad5593r.c and the chip | an attempt at a register is a step (`reg`, `attempt`, `all_ok` are `ad5593r_reset()`'s progress); a register is right or not; a DAC write is a function of the DACs, for its callers. |
| `LimbDrive` | ad5593r_limb.c | `todo` is what `calibrate_all()` has left, a turn of the sweep's loop is `SweepTurn`, its early returns `SweepFails`, its end `SweepEnd`; `curve` is how each limb's ADC answers its DAC. |
| `Arithmetic` | | lemmas about naturals, quotients, least and greatest elements and recursive functions on `0 .. n`, for the proofs. |
| `MuscleProofs`, `MuscleSrProofs`, `FsProofs`, `CalibrationProofs`, `GaitProofs`, `NetworkProofs`, `LimbDriveProofs` | | the theorems about `Muscle`, `MuscleSr`, `Fs`, `Calibration` (with `WireCal` and `Calib`), `Gait`, `Network` (with `Http`, `Telnet`, `CliTransport`) and `LimbDrive` (with `Ad5593r`). |
| `MC*` | | instances for TLC. |

Operators whose name ends in a variant of a definition's (`ClampNot`,
`SetActAlone`, ...) and are marked "Mutant of" are the plausible bugs each
property is known to catch; no specification uses them.

## What the runs show

| Run | Shows | Bounds, and why they are enough |
|---|---|---|
| `muscle` | Any history of set, refit, relax and init calls, the queued `schedule()` run in the end: exclusive antagonists, unfitted limbs relaxed, windows inside the frame and disjoint, windows current once nothing is queued, releases reach the board, the table contract holds. | Two limbs (a refit can take one away and leave one), activations off and over the limit, a frame that does not divide evenly. The safety is proved for every value. |
| `sr` | Commits at any time against interrupts served late, missing or dying, and emergency stops: private buffers, outputs as the windows ask, last commit wins, one wire at a time, nothing before the self-test or after a halt, a dead compare interrupt halts the timer, start-up ends. | Two channels, one chip each, three commits (enough to fill the three buffers and supersede one), a frame of 12 counts with edges 4 apart. |
| `sr_sample` | The sample interrupt preempted by edges, `sr!` writing the chain in between: no early sample when the delay is clear of the distances between edges, each edge latches its own pattern. | As above, with `sr!`; a frame of 15 counts, edges 5 apart and a delay of 7, so that one edge supersedes a sample and the next comes after it. |
| `sr_sample_late` | **Finding.** A pending sample overtaken by an edge is taken for the new edge's. | As above without `sr!`, the delay as long as the distance of two edges. |
| `fs` | Every sequence of append, remove, rename and copy, compaction included, with a write or erase that fails or a power loss at any flash call: each operation is the abstract store's or a failure of it (`ImplementsStore`; a compaction that a fault broke is the exception, `CompactionBroken`), nothing is programmed twice, the tail is erased, entries nest or are apart, power loss outside compaction is harmless, "no space" is said only when live data fill the log. | One fault in a behaviour, four sectors of two cells, three interchangeable names (symmetry), five directory generations: the directory and the log both fill, and compaction moves data across a sector boundary. With both a directory write that failed and a later power loss `ImplementsStore` would not hold: what showed after the failure is not what is mounted (`FaultsApart` in the proofs says when it does). |
| `fs_compact_power` | **Finding.** Power loss in compaction loses files. | One power loss. |
| `fs_copy_read` | **Finding.** A failed read in a copy leads to cells written twice. | One failed read. |
| `calibration` | Runs stopped, halted, aborted or finished at any point beside isns, saves failing or cut off by power loss, loads at boot and repeated: time-outs match the state, readings belong to their step, every run ends, the file is old or new, saved values come back, the echo comes back. | One muscle under test and one beside it, ramps of two steps of two samples, a ring that holds two readings, two keys, two loads; runs start with nothing unsaved; words are typed when nothing loads (but repeated loads are); at most one reading arrives during a drain; time-outs come after the board has adopted the windows, as their lengths (seconds against a frame of milliseconds) make them. `wirecal_analyze()` is checked as an assumption of this run (`AnalysisFindsTransition`), over all curves of 7 to 9 points out of three resistances that differ by exactly, less and more than the thresholds. |
| `gait` | Starts, switches, stops, tip-overs and feet landing early, late or never: two legs stay down, one chain of ticks, every swing ends. | Phases in eighths (both duties and the early-landing threshold fall on them), a reach of two ticks. Pace and bound have trot's duty and support. Swings are followed for one leg at a time. |
| `gait_switch` | **Finding.** A switch to crawl mid-swing puts feet down and lifts them again unchecked. | As above. |
| `network` | Connections accepted, served, evicted, reset and closed by either side, servers started and stopped, output claimed by three transports, any write refused: slots match pcbs, streams are live, and whoever waits is woken, unless lwIP refused its last write with nothing in flight. | Two web slots and two telnet sessions over three interchangeable pcbs (symmetry), so that each server can take a pcb the other just closed, one request can evict another's stream, and a slot can be free while pcbs are not; a send buffer of two units against responses of one and three, which fit at once, in parts, or not yet; two stream paths and the terminal; `MaxKeepalives` bounds the keepalive chains that reconnects stack up. Safety only, no fairness. The Telnet parser is checked as an assumption of this run (`KeysAreData`), over every two units a client can send and every place to cut them. |
| `limb_drive` | Resets, calibrations of one limb or all, percentages and reads in any order, after resets that failed too: `ResetConfigures`, `CalibrationIsWhole`, `CalibrationEnds`, and `NeverBeyondSaturation`: the one thing that drives a limb beyond its saturation is a sweep of a chip that is not set up. | Two limbs with any two of six curves (dead, never saturating, all at once, uneven), so that one's sweep could spoil the other's; six codes against three millivolts, so that every rounding loses something; percentages in, at and beyond the range; two lost transfers (both attempts at a register, or a sweep and its return to 0) and restarts anywhere. A chip with a register missing is taken to sense nothing, and the wait for a code to settle to run no other action, as the comment at its length says (ad5593r_limb.c:14-24; `timeoutWait()` is TimbreOS's). A limb's region is the one the code's thresholds draw: see the observations. DACs are driven by these calls alone. |

### Fairness

A queued action runs in the end (the TEA loop never starves its queue and no
action but a calibration of the AD5593R's limbs blocks; a call that has begun
goes on), time passes, and an enabled interrupt is served within the
latencies the constants give; that is all the liveness properties assume. No
fairness is assumed of callers, of the CLI, of faults, sensors or of readings.
In `MuscleSr` the frame and compare-A interrupts do not nest and preempt the
sample interrupt, as the board is set up to do (muscle_sr.h); the fault
handler's emergency stop does not return. `stop(action)` is taken to remove an
action from both of TEA's queues, which is how every caller uses it (TEA is a
submodule; what it does is modelled from its use and marked external in the
map, as are the CLI, the flash chip and the timer).

### Findings

1. **Samples can come early** (muscle_sr.c:228 against muscle_sr.h:89-91). The
   guard against superseded samples compares two variables the new edge writes
   both of, so it never fires for the case it is there for.
2. **Compaction is not safe against power loss** (fs.c:241 against fs.h:8-9
   and calib.h:15-16). Data move before the directory does.
3. **A failed read in fs_append_line leaves the tail pointer behind**
   (fs.c:369 against fs.c:114-115). The failed write next to it rescans.
4. **A switch to crawl mid-swing steps unchecked** (gait.c:172 against
   gait.h:16-17). Legs between phase 0.5 and 0.75 come down and go up again in
   mode SWING, two at once.

Other places where the code and a document differ. No run states these as
violated; the models follow the code:

- The calibration of a limb is not the algorithm its constants describe.
  ad5593r_limb.c:26-32 estimates a slope over a trailing window of codes "so
  single-sample ADC noise can't fake a \"linear\" transition", and :12 has
  `ADC_SATURATE` at 4090. Neither constant is used: :79-84 takes the first
  reading over `LOW_ADC` (2621) as the region's start and the first at
  `HIGH_ADC` (3768) as its end, one reading deciding each. The run's curve
  `Uneven` is such a case: readings that fall back after its start and its end
  change nothing.
- ad5593r_limb.h:31: "Leaves the DAC at 0 afterward regardless of outcome".
  When the transfer that sets it to 0 is the one that fails, the DAC stays on,
  and `calibrate_all()` goes on to the next limb.
- ad5593r_limb.h:8-9: a calibration "ramps a limb's DAC up one code at a time
  from 0 until the ADC saturates". After a reset that failed the ADC cannot
  answer, nothing in ad5593r_limb.c:58-90 asks, and the ramp goes to full
  drive, whatever the limb bears. `NeverBeyondSaturation` shows that nothing
  else does; without its exception it fails.
- ad5593r.h:36: "Returns false if any transaction was NACKed", and :39-42: a
  reset restores a known good state "after a wedged bus or a DAC channel left
  mid-ramp". The result of the reset command is not looked at (ad5593r.c:103;
  the chip never acknowledges its last byte), so one that is lost goes unseen:
  the six registers are written, the reset reports success, and a DAC is still
  where it was. A write that fails and is repeated is no false either.
- muscle_sr.h:61-62: with a fault "no pattern is being latched and the chain is
  cleared". `sr!` turns outputs on after a halt (sr595.c:116); the property
  `OffUnlessSound` is checked without `sr!`.
- cli_transport.h:5-7: "the CLI always talks back through whichever transport
  last sent it a byte". `http_sent`, `cdc_emit_action` and
  `tud_cdc_tx_complete_cb` drain the output queue for their own transport
  though another has claimed it since.
- `ntp_sync_init()` keeps the time its header says it resets.

Smaller observations, which no document contradicts:

- Network: a write that lwIP refuses for want of memory to a connection with
  nothing in flight leaves its response unsent in its slot until the other
  side closes (http_server.c:272-273; there is no poll callback), and output
  pulled for the terminal is lost (:132). `WaitersAreWoken` says that this is
  the only way to be left waiting. Every terminal stream that connects starts a
  keepalive chain beside the ones that run (http_server.c:348); a connection
  that never finishes its request holds its slot for good; `http_accept` aborts
  a pcb and returns ERR_MEM, where lwIP asks for ERR_ABRT; `telnet_poll` closes
  every session at its first poll, whatever it does; a failed `tcp_listen`
  loses the new pcb; output telnet has no room for is lost.
- Muscles and gait: `muscle_sr_mask()` does not show what `sr!` wrote; a frame
  interrupt served after the frame's first edge misses that edge for a frame
  (muscle_sr.c:179-181); a gait started while the robot still lies tipped is
  not halted; an IMU that stops answering freezes the last attitude.
- Files: a name of FS_NAME_MAX characters or more is stored cut but looked up
  whole, so it is never found again (fs.c:72-77, 391); an operation that
  reported failure because its directory could not be written is visible until
  the next mount, which shows the old state (a save whose rename failed so is
  read back as the new one until then); `fs_list` counts the bytes a copy
  shares twice, so `reclaimable` can fall below zero and print as a huge number
  (fs.c:261-264).
- Calibration of wires: REST relaxes only the wires of other limbs, and a halt
  typed during REST does not end the run, which drives the wire afterwards; the
  scope's give-up time-out is never stopped and can disarm a later scope; a
  save typed while a load runs saves a half-loaded set; with a cold resistance
  below 667 milliohm the analysis' edge is 0 and every curve with a transition
  is open.
- Calibration of limbs: a limb that never saturates is accepted as calibrated,
  its window ending at full drive; 0 % can be a code or two below the window's
  start, because both conversions round down.
- Time: `ntp_sync_kick()` starts a client that was stopped, and without a sync
  for 2^32 ms (49.7 days) the clock falls back by as much.

## What is proved

Every theorem below has the form `Spec => ...`, but for two about pure
algorithms (`KeysAreTyped`, `TransitionIsFound`), and holds for every value of
the constants that the named assumptions of its module allow (counts and sizes
are naturals, times are ordered, names differ; `CalibrationAssumption` also
asks for a CLI key queue that holds two keys, which is what a line of the file
needs). Hypotheses beyond those are stated in the theorem and given here. The
`PROPERTY`s and `INVARIANT`s proved are all the safety of the passing runs.

| Module | Theorems | Hypotheses |
|---|---|---|
| `MuscleProofs` | `TypeCorrect`, `PairsExclusive`, `NoUnfittedActive`, `NeverOverlaps`, `WindowsCurrent`, and the refinement `Implements` (`ImplementsTable`) | none |
| `MuscleSrProofs` | `TypeCorrect`, `NothingHalfBuilt` (`BuildIsPrivate`), `NoCommitLost` (`LatestCommitWins`), `EdgesLatchTheirPattern` (`EdgesArePure`) | none: any timing of the interrupts, any that die, any `sr!` |
| | `OffBeforeTestAfterHalt` (`OffUnlessSound`) | `~Manual`: nobody types `sr!`, which writes the outputs directly |
| | `OneWireOnly` (`OneWireAtATime`) | `~Manual`; the tables committed are packed (`Disjoint`), which is what `NeverOverlaps` proves of the muscle scheduler's |
| | `WiresFollowWindows` (`OutputsFollowWindows`) | `~Manual`; `FrameLatency < GAP`: the frame interrupt has armed the frame's first edge before it comes. Nothing is asked of the edge and sample interrupts |
| | `SamplesKeepTheirDelay` (`SampleNotEarly`) | `FrameLatency < GAP`; `SamplesFit(FALSE)`: no edge of any table can be latched while a sample of an edge before it, of any table, may wait |
| | `RegisteredForGood` (`SampleNotEarly`) | `FrameLatency < GAP`; the same of the edges of each table by itself (`SamplesFit(TRUE)`); the client never withdraws |
| | `DelayOffTheGrid` (`SampleNotEarly`) | `FrameLatency < GAP`; `OffGrid`: the delay lies between two multiples of the gap, clear of the latencies |
| `FsProofs` | `EntriesNestKept`, `FullMeansFull` (`NoSpaceMeansFull`) | none: any number and kind of faults |
| | `NeverProgramsTwiceKept`, `TailErasedKept` | reads succeed; `fs_copy_read` shows the counterexample otherwise |
| | the refinement `StoreImplemented` (`ImplementsStore`), `PowerLossSafeKept` (`PowerLossSafeOutsideCompact`) | `NamesFit`: no name is longer than the directory stores; `FaultsApart`: reads succeed, and power losses and failing calls do not occur in one behaviour (or at most one fault does) |
| `CalibrationProofs` | `TypeCorrect`, `TimersKept` (`RunHoldsItsTimer`), `SamplesKept` (`SamplesAreOfThisStep`), `FileKept` (`FileIsOldOrNew`), `Restored` (`SavedIsRestored`), `EchoKept` (`EchoComesBack`) | none |
| | `TransitionIsFound` (the assumption `AnalysisFindsTransition`, for curves of any resistances) | at most `MAX_POINTS` points, beyond which the code drops the rest; products in 32 bits, as `WireAnalyze` says |
| `GaitProofs` | `SupportKept` (`TwoLegsSupport`), `NoSecondChain` (`OneTickChain`) | none |
| `NetworkProofs` | `SlotsKept` (`SlotsMatchPcbs`), `StreamsKept` (`StreamsAreLive`), `NobodyIsForgotten` (`WaitersAreWoken`) | none |
| | `KeysAreTyped` (what the assumption `KeysAreData` says of two units) | a stream of characters, escaped 255s, commands, options and subnegotiations of any length, in any segments |
| `LimbDriveProofs` | `ResetIsWhole` (`ResetConfigures`), `CalibratedByItsCurve` (`CalibrationIsWhole`), `NeverOverdriven` (`NeverBeyondSaturation`) | none |

Hardly any of these invariants is inductive. What each proof adds, and why:

- **Muscle.** `BoardNeverOverlaps` says nothing of why the *next* commit will
  be sound. `MInv` adds what the loop of `schedule()` maintains: the windows
  staged so far are packed in order below `at` (`PackedBelow`), and `at` is at
  most one slot per active muscle passed. The bound on the total then needs
  the table: antagonists exclude each other and only fitted limbs are active,
  so mapping an active muscle to its limb and pair is injective, there are at
  most two per fitted limb (`TwoPerLimb`), a window is at most a slot
  (`WindowFitsSlot`), and two slots for every fitted limb fit the frame
  (`SlotsFitFrame`). No caller's step can come inside the loop (`reschedule`'s
  guard: one task context). `WindowsCurrent` needs `CurrentInv`: in the middle
  of the loop the channels already done are current. `Implements`: each call
  of muscle.c is a step of `MuscleTable`, `schedule()`'s steps are stutters.
- **Shim.** `SInv`. The task and the interrupts meet in three buffers:
  `Committing` says that `commit()` writes only the one it took and that every
  other is whole; `InPlace` that the edge interrupt's index stays inside the
  schedule running, although `frame` may exchange it; `Clean` that the shift
  register holds what the code believes it does, or is marked dirty; `Quiet`
  that a halted timer raises nothing more; `Unbound` that before the self-test
  has passed every schedule is the empty one. `OneWireOnly` rests on a lemma
  that a pattern of a packed table, rounded to timer counts, has one channel.
- **Shim, in time.** `Timing`: while a frame runs, the last edge is not early
  by more than `TOL`, and the next is ahead of the counter with compare A set
  for it, or its interrupt is waiting or at work and the counter is at most
  `late` past it. The frame interrupt is the one that must be in time, because
  it arms its first edge without a look at the clock afterwards; the edge
  interrupt has one (`Ahead`), and so any latency of its own will do. `Shown`:
  the chain shows the pattern of the last edge. `PatternHolds` ties that to
  the windows: between two edges of `build`'s schedule the table asks for one
  pattern, because whatever goes on or off makes an edge. `Sampled`: compare B
  stands for the delay of an edge of a table, and a sample that waits was
  raised there, at most `slate` counts ago; so when an edge is latched over
  it, either that edge's own delay has passed too, or `SamplesFit` is broken.
  A client that withdraws and registers again in mid-frame leaves compare B
  set by a table that may no longer run, hence two theorems. With the code's
  numbers (muscle_sr_test.c's 3 MHz: a gap of 72 counts, a delay of 750, frames
  of 60000) `OffGrid` asks for edges served within 10 us and samples within
  13 us, and `FrameLatency < GAP` for frame interrupts within 24 us.
- **File store.** Four invariants. `FInv` is where things
  are: files lie below the tail and begin together or share no cell (`Nest`),
  in both directories on flash as well as in RAM, and what an append still has
  to write fits. That compaction preserves it is a chain of lemmas about its
  operators: the sort keeps every entry and orders them, the regions tile
  `0 .. Total` without gaps, every file is inside one, and each moves down
  when `Sound`. `CleanInv` is what is erased: everything from the tail on, or,
  while an append writes, from where its next cell goes, and in a compaction
  the part beyond what has been packed. `StoreInv` is what the files hold: the
  contents a caller last saw (`shown`) are in the flash cells that RAM's
  directory points to, what the operation under way will make of them (`goal`)
  is one operation of the abstract store away (`Effect`), and a mount would
  find one or the other. In a compaction each cell of a file is where it was,
  staged in RAM, or where it belongs (`PackedCell`); since cells only move
  down, the sector written next holds nothing that is still needed (`Trip`,
  `WriteStore`). `FaultsApart` is necessary: after a directory write that
  failed callers see the new state until the power goes and the old one
  afterwards, which is no step of the abstract store. `FullInv` is why "no
  space" can be believed: where an append may give up, every cell below the
  tail is a file's, because the regions of a compaction leave no gap and no
  two of them begin at one cell, which needs the sort to be one (`OrderSorts`).
- **Calibration run.** A reading of an earlier step may still be in the ring
  while the next one settles. It cannot be taken for the new step's, because
  whenever the settled time-out is in the scheduler's queue, a `drain()` is
  ahead of it or has begun (`RingInv`). `TimersInv` and `SteadyInv` match
  state, timers and queue, across stop, halt and abort.
- **Calibration file.** `SaveInv`: between two lines of a save the temporary
  file is the prefix of the file of these values (`Script(values)[n]`), and
  nothing is loaded meanwhile. `LoadInv`: in a load, the offset is the end of
  such a prefix of what was saved, the CLI holds at most the line there, and
  every value that is not yet as saved is set by a line still to come
  (`Pending`). That lines are found again by their offset is proved from
  `Script` as a recursive function over the keys.
- **Curve analysis.** Each loop of `wirecal_analyze()` is a recursive function
  over the points that takes its value at one from the point before it, or
  after it; such a function exists (`DescentExists`, `AscentExists`). Counting
  along the curve, it is then the steepest point so far (`SteepestIs`), or
  where the stretch of points no less steep than the edge begins and ends
  (`DownIs`, `UpIs`).
- **Gait.** `TwoLegsSupport` is kept by each leg's turn within a tick, because
  a leg that lifts counts the feet as the legs before it have just left them.
- **Network.** The handlers go from one record of a server's state to the
  next, and so do the proofs: `Sound` (slots match blocks, streams are bound
  one to one, a response that is not all sent has something in flight or was
  refused with nothing in flight), with the slots a handler is in the middle of
  exempt (`SoundBut`); each handler keeps it, leaves the other server's blocks
  alone and stops no waiting terminal (`TelnetKept`,
  `TermKept`, `HttpKept`). A write that is granted puts
  something in flight and one that is refused, with something there, leaves it;
  what an acknowledgment takes away, `http_sent` writes again before it returns.
- **Telnet parser.** A segment's parse is a recursive function of its bytes,
  which exists (`Recursion`) and is followed byte by byte (`ParseSteps`). What
  it does on a part of a stream depends only on the state there (`ParseFrom`),
  so cuts do not matter (`CutAnywhere`), and each unit takes the parser where
  the client is, out of or inside a subnegotiation (`SaidIsParsed`).
- **Limbs.** The progress of a call is the invariant: registers confirmed so
  far (`Configuring`), codes a sweep has tried and what it saw there (`Swept`),
  limbs done (`Turns`, `Done`). What a sweep sees is the limb's curve or, through
  a chip that is not set up, nothing (`Shown`); no register changes while one
  lasts, so a code it found alive is the curve's. `NeverBeyondSaturation` is an
  action property: a sweep of a chip that is set up has met no saturated code
  before the one it writes, and a percentage of a stored window comes to a code
  within it, because percentages, codes and millivolts round down on each of
  three conversions (`LevelBelow`).

For these proofs a few definitions took another form, with the same meaning:
`build` is a function of the table, `Parse` one of the bytes of a segment, `conn_close` takes a set of slots (one, or
all when a server stops), a save's `todo` is a set of keys and its file a
recursive function, and an operator of several cases became one operator each
(`WireTurn`, `WireFrame`, `StoreTurn`; `Order`, `RegionsOf`).

### Only model-checked

- All liveness: `RelaxTurnsOff`, `DeadCompareHalts`, `StartupEnds`, and the
  properties of `Muscle`, `Calibration`, `Gait` and `LimbDrive` under fairness
  (the prover has neither fairness nor ENABLED).

## What is not modelled

Within modelled parts: a power loss inside one sector erase, a format cut off,
the wrap of the directory's generation counter; the fs words that only print;
a second `muscle_sr_init()`; a frame interrupt that dies while running (the
timer's outputs then stay as they are: the shim relies on the frame interrupt
to notice anything); wirecal's scope (it changes only what is printed); the
values of readings; the filters' and the rhythm's arithmetic; DAC codes written
raw from the CLI; a connection refused for want of a slot (it leaves nothing behind).
Not modelled at all: the NTP client's own file, whose protocol is lwIP's and
whose rest is two assignments and a subtraction with nothing to interleave;
the canary, which fills and scans memory and keeps no state; the other I2C
parts, one transfer and a conversion each; words that print; set-up executed
once. Other parts are
in the table above and in `PROJECT.json` with the reason.

## Plan

Order: what the wires do first (muscle, shim), then what is stored (fs,
calib), then what drives them (wirecal, gait), then the network.

1. Done: `MuscleTable` < `Muscle` + proofs; `MuscleSr`; `FileStore` < `Fs`;
   `WireCal`, `WireAnalyze`, `Calib` -> `Calibration`; `Posture` -> `Gait`;
   `CliTransport`, `Lwip`, `Http`, `Telnet` -> `Network`; `Ad5593r` ->
   `LimbDrive`.
2. Done: the proofs above: the safety of every component and both refinements
   (`MuscleTable` by `Muscle`, `FileStore` by `Fs`), the two contracts that
   `Calibration` is composed on.
3. Done: the shim in time, which leaves the safety of no passing run to TLC
   alone.
4. Done: the two algorithms on data of any length, the Telnet parser and the
   analysis of the curves.
5. Left: liveness stays with TLC.
