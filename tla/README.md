# TLA+ models of the GNSS-SDR assisted PCPS acquisition

This directory holds TLA+ models of the assisted parallel code-phase search
(PCPS) acquisition block of GNSS-SDR
(`src/src/algorithms/acquisition/gnuradio_blocks/pcps_assisted_acquisition_cc.cc`),
the threads that drive it, the receiver's TCP telecommand interface
(`src/src/core/receiver/tcp_cmd_interface.cc`), and the TLC configurations
that check them.
`PROJECT.json` lists every component, run, mutant, source mapping, finding and
hazard.

## 1. Inventory

### Components

| Component | Source | State | Operations |
|---|---|---|---|
| Acquisition state machine | `pcps_assisted_acquisition_cc.cc` `general_work` | `d_state` (0 StandBy .. 6 Negative_Acq), `d_active`, `d_disable_assist`, `d_well_count`, `d_sample_counter`, `d_input_power`, the `Acq_*` fields of the shared `Gnss_Synchro` | one state transition per `general_work` call; `init()`; `set_active` (header, not in the repository) |
| Search grid + peak search | `reset_grid`, `compute_and_accumulate_grid`, `search_maximum` | `d_grid_data` (rows = Doppler hypotheses, columns = code delays) | zero, accumulate one dwell, find the peak, compute the test statistic |
| Doppler grid builder | `get_assistance`, `redefine_grid` | `d_doppler_min/max`, `d_num_doppler_points`, wipe-off waveforms | assisted window from a record, fall back to the configured range, rebuild |
| Spectral correlator | `set_local_code`, `compute_and_accumulate_grid`, `init`, VOLK kernels, FFT objects | `d_fft_if` (its input buffer), `d_ifft`, `d_fft_codes` | copy the local code in, transform and conjugate it, carrier wipe-off into the same input buffer, FFT, multiply by the code spectrum, IFFT, magnitude squared |
| Assistance provider | `global_gps_acq_assist_map` (a `Concurrent_Map`, not in the repository) | one record per PRN | read once per attempt by the block; written concurrently by the control path |
| Channel (external) | adapter header `gps_l1_ca_pcps_assisted_acquisition.h`; channel FSM not in the repository | waiting / tracking | `init()`, activate, handle ACQ_SUCCESS / ACQ_FAIL |
| TCP telecommand interface | `src/src/core/receiver/tcp_cmd_interface.cc` | stored time and LLH, control queue | `reset`, `standby`, `hotstart`, `warmstart`, `coldstart`, `status`, session loop of `run_cmd_server` |
| OSNMA receiver, telemetry configuration, CPU capabilities | `osnma_msg_receiver.h`, `tlm_conf.cc`, `hwcaps.h` | declarations, configuration fields, constants | none with behaviour worth a model |

### How they interact

* The GNU Radio scheduler thread calls `general_work` whenever at least
  `4 * d_fft_size` samples are available (`forecast`). Each call runs one case
  of the switch on `d_state`.
* The channel thread calls `init()` (which writes `d_state = 0` and clears the
  result fields) and activates the block (`set_active(true)`). It learns the
  outcome through the block's `events` message port: GNU Radio queues the
  message and a message-handler thread delivers it later. That means the
  channel can react before the `general_work` call that published it has
  returned.
* The block and the tracking stage share one `Gnss_Synchro` object. The
  block writes `Acq_delay_samples`, `Acq_doppler_hz` and
  `Acq_samplestamp_samples` at every decision. Tracking starts from the
  stamp with the delay as code phase, so the stamp must be at the code phase
  the accumulated dwells started at.
* The block reads the process-wide assistance map once per attempt, in
  `get_assistance`. The control path writes that map concurrently.

### What is hard

* Interleaving of the scheduler thread with the channel thread. The order of
  `d_active = false` and the event publication in cases 5 and 6 decides
  whether a re-activation can be lost. `init()` writes `d_state` from the
  other thread.
* The two-stage search. An assisted window comes first and the configured
  range comes after it. Stale windows and stale dwell counts carry over
  between the stages and between attempts.
* Numeric edges of the decision: a zero input power
  (inf/NaN), a zero Doppler step, a window narrower than one step (empty
  grid), and the unsigned Doppler sum of line 256.
* The peak search itself (see the finding below).
* A buffer with two jobs: `d_fft_if`'s input buffer stages the local code
  for `init()` and is also the work buffer of every dwell.

### What makes each component correct

* State machine: no activation is lost, exactly one event per activation,
  every activation eventually decided, at most one fallback.
* Grid and peak search: the decision uses the grid's real peak and the number
  of dwells it holds. A negative decision means nothing crossed the threshold.
  A positive one means something did.
* Doppler grid builder: a negative result only after the configured range was
  searched. The reported Doppler is a hypothesis of the grid that was searched.

## 2. Modules

| Module | Models | How state and actions correspond to the code |
|---|---|---|
| `PcpsGrid` | the pure algorithms | `NumDopplerPoints` and `DopplerHz` (lines 208, 218), `AssistedWindow` (165-174), `IndexMax` (the VOLK arg-max kernel), `SearchRows`/`SearchMaximum` (228-245, the row loop as a RECURSIVE operator), `Exceeds` (248-252, 385: the test statistic compared with the threshold, including IEEE inf/NaN for zero power). |
| `PcpsAssistedAcquisition` | the block, the channel thread, the assistance writer | one VARIABLE per member (`d_state`, `d_active`, `d_disable_assist`, `d_well_count`, `d_doppler_min/max`, `d_num_doppler_points`, `d_grid_data`, `d_input_power`, `d_gnss_synchro`); `work_pc` marks a case-5/6 call that has published and not returned. Actions are `StandBy`, `GetAssist`, `ComputeGrid`, `Decide`, `RedefineGrid`, `PositiveAcq` and `NegativeAcq`, one per case of `general_work` (each with all the helpers it calls), plus `init`, `set_active`, `HandleEvent`, `LossOfLock` and `WriteAssist`. `searched` is a history variable: the windows decided on in the current attempt, capped at `HistoryBound`. `monitor` is the block's output item, written by `emit_monitor` (the copy in case 5 when `MonitorOutput`). `decided` is a history variable: the Acq fields the current decision recorded, dropped when the call returns. `fft_inbuf` and `d_fft_codes` say what `d_fft_if`'s input buffer and the conjugated code spectrum hold (`"empty"`, the local `"code"`, or an input `"signal"` block): `set_local_code` fills the buffer, `init` transforms it, `compute_and_accumulate_grid` overwrites it when the grid has rows. `grid_size` is the division of line 208, which for a zero step traps (`ZeroDivisionTraps`: the call never returns) or gives 0. |
| `AcquisitionAttempt` | what the block promises its channel | `active` (activated, not yet decided), `events`, `channel`; the block's only visible step is `Decide`: deactivate and publish one event. `Spec` has weak fairness on `Decide` and `HandleEvent`. `PcpsAssistedAcquisition` instantiates it with `active <- d_active` (`Attempt`), and `AttemptSpec` is checked as a property; a channel that has not yet supplied the local code (`"new"`) maps to `"idle"`. |
| `MC_PcpsAcquisitionStop` | a channel that stops an attempt | `Stop` (spec-modelled `set_active(false)` while the channel waits), added to `Next` in `StopSpec` |
| `MC_PcpsAssistedAcquisition` | constants for TLC | the configured range, the assistance records, the energies and the powers |
| `TcpCmdInterface` | the telecommand interface (`tcp_cmd_interface.cc`) | `rx` and `utc` are `rx_latitude_/longitude_/altitude_` and `receiver_utc_time_`; `functions` is the key set of `functions_`; `control_queue`/`control_queue_set` are the queue behind `control_queue_`. `server`, `inbox` and `sock` are the accept/session loop of `run_cmd_server` and the client's end of the socket. One operator per handler (`reset`, `standby`, `coldstart`, `status`, `set_ch_satellite`, `hotstart`, `warmstart` via `start_command`), `dispatch` for the `exit`/empty/unknown/registered branches, and the actions `Accept`, `ReadLine`, `ReadEof`, `ReadError`, `set_msg_queue`. The client (`Connect`, `Send`, `Hangup`) and the control thread (`ControlPop`) are the environment. |

Data abstraction. The sample stream, FFTs and wipe-offs are not modelled.
Each dwell adds a nondeterministic energy from `Energies` to each cell.
`estimate_input_power` returns a member of `Powers`. The float statistic
`2·N·(magt/N⁴)/(power·dwells)` is compared exactly, in rationals.
`Acq_doppler_hz` is the signed sum of line 256. The block header that
declares `d_doppler_step` is not in the repository; `set_doppler_step` takes
a `uint32_t`, and if the member is one too, the sum is unsigned and a
negative Doppler is reported as that value plus 2^32. TLC's integers cannot
hold it, so `Acq_doppler_wrapped` records the wrap, and the constant
`DopplerStepUnsigned` (TRUE in every cfg) selects the build. No run asserts
the reported Doppler, because whether it is wrong depends on the missing
declaration.
Logging and the dump file are left out. `d_sample_counter` is kept modulo
`SamplesPerMs` (one code period; `d_fft_size` is a whole number of periods),
which is all the stamp property tells apart. Every call adds what it
consumes: the count offered (a member of `InputCounts` of at least
`4 * d_fft_size`, from `forecast`) in every case but 2, `d_fft_size` in case
2. `dwell_phases` is a history variable: the counter's residue at the start
of each dwell of the current grid. The 64-bit counter wraps only after
2^64 samples, out of reach of any run.
In `TcpCmdInterface` a line is a record of its command word and, for the
start commands, its time token (well-formed or not) and three position
tokens: a number, `"nan"` (`stof` returns NaN) or `"junk"` (`stof` throws).
Response texts are reduced to their kind.

The code does not contain the channel, the `set_active` setter or the
assistance writer. They are modelled from the spec and marked
`spec_modelled` in the map. The channel supplies the local code once
(`set_local_code`, spec section 6), and for each attempt calls `init()` and
then activates the block. It waits for one event. On success it goes to tracking, which may
later lose lock and start again; on failure it may start again at once.

## 3. Runs

| Run | cfg | Expect | What it shows |
|---|---|---|---|
| `acq_safety` | `MC_PcpsAssistedAcquisition.cfg` | pass | `TypeOK`; `NoLostActivation`, `OneEventPerActivation` (thread interleaving in cases 5/6 and `init`); `DecideAfterFullDwells`; `AtMostOneFallback`, `NegativeOnlyAfterFullRange` (two-stage search); `StampMarksCodeStart` (the sample stamp of a positive decision is at the code phase every dwell of the grid began at: case 2 consumes `d_fft_size`, not what it is offered). |
| `acq_liveness` | `MC_PcpsAssistedAcquisition_Liveness.cfg` | pass | `DecisionEventuallyPublished`: every activation ends in an event. `AttemptSpec`: the block and channel refine `AcquisitionAttempt`, so the deactivation and the publication are one step for the channel, and every activation is eventually decided. Monitor output is off here: no liveness property depends on it. |
| `monitor_copy_race` | `MC_PcpsAssistedAcquisition_Monitor.cfg` | violation | the monitor record of a positive call can be the one `init()` cleared. |
| `zero_power_detection` | `MC_PcpsAssistedAcquisition_ZeroPower.cfg` | violation | `NoFalseAlarm` (a positive decision needs a cell above the threshold under the measured power): with `Powers = {0, 1}`, a zero-power block turns a sub-threshold grid into ACQ_SUCCESS. |
| `empty_grid_dump` | `MC_PcpsAssistedAcquisition_EmptyGrid.cfg` | violation | with a 3000 Hz step, the ±1000 Hz assisted window has no rows, and the dump reads row 0. |
| `stop_not_honored` | `MC_PcpsAcquisitionStop.cfg` | violation | a stop during an attempt does not stop it: the decision event still reaches the idle channel. |
| `missed_detection` | `MC_PcpsAssistedAcquisition_NoMissedDetection.cfg` | violation | the block decides ACQ_FAIL on a grid with a cell above the threshold. |
| `tcp_commands` | `TcpCmdInterface.cfg` | pass | `TypeOK` (no unparsable token is ever stored); `EventOnlyForAcceptedCommand`: a line answered OK pushes exactly the event documented for its command, and no other line pushes one; `SessionEnds`: once the client closes or resets, the session loop ends and the server accepts again. |
| `tcp_rejected_command_state` | `TcpCmdInterface_Rejected.cfg` | violation | a hotstart answered with an error has still overwritten the stored time and position. |
| `tcp_pipelined_lines_lost` | `TcpCmdInterface_LinesAnswered.cfg` | violation | two lines that arrive in one read get one answer. |
| `local_code_reuse` | `MC_PcpsAssistedAcquisition_LocalCode.cfg` | violation | `CorrelatesWithLocalCode`: from the second attempt on, the dwells correlate against the spectrum of an input block, not of the local code. |
| `zero_doppler_step` | `MC_PcpsAssistedAcquisition_ZeroStep.cfg` | violation | `DecisionEventuallyPublished` with `DopplerStep = 0` on a build whose division traps: the first attempt never decides. |

Every property of a passing run has a mutant in `PROJECT.json`: a plausible
bug in the mapped code, written as an operator just before the definition it
replaces, that TLC must catch. Examples are publishing before clearing
`d_active`, forgetting `d_well_count = 0`, and `>=` for `>`.

### Bounds, and why they are enough

* `FftSize = 2` delay bins and a 2000 Hz step. The configured range
  [-2000, 2000] gives 2 rows. The assistance record {0 Hz, 500 Hz} gives the
  ±1000 Hz window, which is 1 row. The record {1000 Hz, 1000 Hz} gives the
  ±2000 Hz window, which is 2 rows different from the configured ones. So the
  window really changes between the assisted search and the retry, and both
  branches of `get_assistance` and a miss all occur.
* `MaxDwells = 2`, so the "stay in ComputeGrid" branch fires and a leftover
  dwell count shows.
* `Energies = {0, 4, 8}` and a threshold of 1 with unit power. The statistic
  is `peak/8`, so peaks below, on and above the threshold are all reachable.
  Both decisions, the retry, and the channel reacting before the publishing
  call returns are all reached. The safety run has about 4.8 million distinct states (monitor output on, 91 s with 2 workers); the liveness run, with it off, about 156 000.
* `SamplesPerMs = 2` with `FftSize = 2`, and `InputCounts = {8, 9}` in the
  safety run: 9 samples shift the code phase by one, so a call offered an
  odd count moves the counter off the dwells' phase unless the code consumes
  exactly `d_fft_size`. The liveness and zero-step runs use `{8}`, since the
  phase does not influence control.

* TCP: one well-formed time, latitude `v1`, longitude `v1` or `junk`,
  altitude `v1` or `nan`, and one unknown word. These reach every branch of
  `start_command`, including the partial update. The client keeps at most 2
  lines unanswered (`InboxBound`), which is the least that shows the lost
  line. Queued plus in-flight events stay at most 2 (`QueueBound`). The queue
  may be set at any time, so `ERROR` for a missing queue happens too. The run
  has about 230 000 distinct states.

### Refinement

`AttemptSpec == Attempt!Spec`, where
`Attempt == INSTANCE AcquisitionAttempt WITH active <- d_active` (the
other abstract variables are the same names). `d_active` is TRUE exactly
from `set_active` until the publishing step of case 5/6. So every other
`general_work` call is a stuttering step of the abstract spec. TLC checks
the abstract safety and its fairness on every behaviour of the detailed
model.

### Fairness

`WF(Work)`: the scheduler keeps calling `general_work` while samples stream
in. Every case is enabled whenever the block is in it, so each call makes
progress. `WF(HandleEvent)`: the message-handler thread delivers queued
messages. The channel's own requests and the assistance writer get no
fairness. Nothing obliges them to act. In `TcpCmdInterface`, only the
server thread (`WF(Server)`) gets fairness: it blocks in accept or
read_until and acts whenever those return. The client and the control
thread need not act. A write to a reset connection is taken to fail, as it
does on a TCP socket that received a reset.

## 4. Findings

* **search_maximum reads the wrong cell** (line 241). When a row beats the
  best so far, the code sets `magt = d_grid_data[i][index_time]` with the
  *previous* row's `index_time`. It should use the row's own arg-max. The
  reported peak, and with it the test statistic, Doppler and delay, are not
  the grid's maximum. A single row `[0, 0, 1]` reports 0. In the block this
  turns into missed detections: ACQ_FAIL on a grid whose cell (1,1) holds 12
  against a threshold of 8. The spec flags the routine as an open question
  (section 9).
* **The local code is lost after the first attempt** (line 311).
  `set_local_code` copies the code into `d_fft_if`'s input buffer, and
  `init()` transforms whatever that buffer holds. Every dwell writes its
  wiped-off input into the same buffer. With the code supplied once before
  `init()`, as the spec (section 6) states, the next attempt's `init()`
  computes `d_fft_codes` from the last input block. No later attempt can
  then detect the satellite.
* **A zero Doppler step is accepted** (line 208). The constructor sets
  `d_doppler_step = 0`, and `set_doppler_step` stores any value. The spec
  (sections 4.3 and 7) asks for a fail-fast at configuration. Instead,
  `redefine_grid` divides by it in the first attempt. Where that division
  traps, the receiver dies and the channel waits forever. Where it gives 0,
  the grid is empty (see the dump finding).

* **A rejected hotstart/warmstart still changes the receiver state**
  (line 187). The time is stored before the position is parsed. The position
  is stored before the NaN check and before the control-queue check. So an
  `ERROR` reply leaves `get_utc_time`/`get_LLH` returning the rejected
  values. When a later token makes `stof` throw, the reply is
  `ERROR: command execution error` and the position is partly updated.
* **Pipelined commands are dropped** (line 332). `boost::asio::streambuf b`
  is declared inside the session loop. `read_until` may read past the first
  newline. Only that first line is handled, and the rest is destroyed with
  `b`. A client that sends `standby\nreset\n` in one write gets one answer.

* **A zero-power block is a detection** (line 252). The statistic divides
  by the power of the block after the last dwell. An all-zero block gives
  +inf, so any non-zero grid is declared ACQ_SUCCESS.
* **The dump reads a row of an empty grid** (line 270). With an assisted
  window narrower than the Doppler step there are no hypotheses.
  `search_maximum` keeps row 0, and the dump writes `d_grid_data[0]`.
* **The monitor copy races with the channel** (line 433). Case 5 copies the
  shared `Gnss_Synchro` after publishing ACQ_SUCCESS. The channel thread can
  already have re-initialised it.
* **A stop is not honoured** (line 356). `d_active` is read only in case 0.
  The spec (section 5) asks a stop to return to StandBy at once. The code
  completes the attempt and publishes its event.

## 5. Not modelled, and the plan

Not modelled:

* FFT/VOLK numerics. They are abstracted to energies.
* The dump file. It is I/O.
* The adapter, OSNMA and hwcaps headers. They are declarations only.
* `tlm_conf.cc`. It is a straight-line read of nine configuration keys with
  defaults: no state, no concurrency, no error path.
* The data race of `init()` against a `general_work` call in progress.
  Calls are atomic steps in the model.
* `set_pvt` and the PVT report of `status` (read-only), and `keep_running_`,
  which nothing in the repository clears.

Plan for the next sittings, in order:

1. **Stop and restart**: a refinement of a cancellable attempt. The channel
   stops, runs `init()` and activates again, and a stale event of the old
   attempt reaches the new one.
2. **TCP**: a control thread that reads `get_LLH`/`get_utc_time` when it
   handles event 12/13. The session loop on a read error from a socket that
   still accepts writes (line 387).
