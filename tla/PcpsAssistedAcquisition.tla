----------------------- MODULE PcpsAssistedAcquisition -----------------------
(***************************************************************************)
(* The assisted PCPS acquisition block (pcps_assisted_acquisition_cc.cc)   *)
(* and the threads that touch it:                                          *)
(*   - the flow-graph scheduler thread, calling general_work: one state    *)
(*     transition of d_state per call;                                     *)
(*   - the channel thread, calling init() and activating the block, and    *)
(*     receiving the ACQ_SUCCESS / ACQ_FAIL events published on the block's *)
(*     "events" message port (an asynchronous queue);                      *)
(*   - the control path writing the shared assistance map                  *)
(*     (global_gps_acq_assist_map) for this satellite.                      *)
(* The sample data is abstracted to the per-cell energy each dwell adds    *)
(* to the grid and to the input power measured at the decision.            *)
(***************************************************************************)
EXTENDS Integers, Sequences, PcpsGrid

CONSTANTS
    MaxDwells,          \* d_max_dwells
    FftSize,            \* d_fft_size = sampled_ms * samples_per_ms
    DopplerStep,        \* d_doppler_step (set_doppler_step)
    ConfigDopplerMin,   \* d_config_doppler_min
    ConfigDopplerMax,   \* d_config_doppler_max
    ThresholdNum,       \* d_threshold = ThresholdNum / ThresholdDen
    ThresholdDen,
    Energies,           \* energies one dwell may add to one grid cell
    Powers,             \* input powers estimate_input_power may return
    AssistRecords,      \* Gps_Acq_Assist records the map may hold
    NoAssist,           \* the map holds no record for this PRN
    MonitorOutput,      \* d_enable_monitor_output
    ZeroDivisionTraps,  \* the build's CPU traps on an integer division by 0
    SamplesPerMs,       \* d_samples_per_ms: one code period, in samples
    InputCounts,        \* ninput_items[0] the scheduler may offer a call
    DopplerStepUnsigned \* d_doppler_step is declared uint32_t (the header
                        \* is not in the repository; set_doppler_step
                        \* takes a uint32_t)

ASSUME /\ MaxDwells \in Nat \ {0}
       /\ FftSize \in Nat \ {0}
       /\ DopplerStep \in Nat
       /\ ZeroDivisionTraps \in BOOLEAN
       /\ DopplerStepUnsigned \in BOOLEAN
       /\ ThresholdDen \in Nat \ {0}
       /\ NoAssist \notin AssistRecords
       /\ MonitorOutput \in BOOLEAN
       /\ SamplesPerMs \in Nat \ {0}
       /\ FftSize % SamplesPerMs = 0
       /\ InputCounts \subseteq Nat

VARIABLES
    d_state,            \* 0 StandBy .. 6 Negative_Acq
    d_active,
    d_disable_assist,
    d_well_count,
    d_doppler_min,
    d_doppler_max,
    d_num_doppler_points,
    d_grid_data,
    d_input_power,
    d_gnss_synchro,     \* the Acq_* fields of the shared Gnss_Synchro
    work_pc,            \* "idle", or the event a general_work call of
                        \* case 5/6 has published before returning
    events,             \* the events port: messages not yet handled
    channel,            \* the channel's view of this acquisition
    assist,             \* global_gps_acq_assist_map entry for the PRN
    searched,           \* history: the ranges decided on in this attempt
    monitor,            \* the Gnss_Synchro last copied to the monitor output
    decided,            \* history: the Acq_* fields recorded by the last decision
    fft_inbuf,          \* what d_fft_if's input buffer holds: "empty", the
                        \* local "code", or a wiped-off input "signal" block
    d_fft_codes,        \* what d_fft_codes is the conjugated FFT of
    d_sample_counter,   \* modulo SamplesPerMs: its code phase
    dwell_phases        \* history: d_sample_counter at the start of each
                        \* dwell accumulated in the current grid

block == <<d_state, d_active, d_disable_assist, d_well_count, d_doppler_min,
           d_doppler_max, d_num_doppler_points, d_grid_data, d_input_power,
           d_gnss_synchro, work_pc>>
observed == <<monitor, decided>>
correlator == <<fft_inbuf, d_fft_codes>>
sampling == <<d_sample_counter, dwell_phases>>
vars == <<block, events, channel, assist, searched, observed, correlator,
          sampling>>

Events == {"ACQ_SUCCESS", "ACQ_FAIL"}

\* The history keeps the first HistoryBound searches of an attempt: enough
\* to see one search too many, and finite when an attempt never ends.
HistoryBound == 3
Record(h, x) == IF Len(h) < HistoryBound THEN Append(h, x) ELSE h
ChannelStates == {"new", "idle", "inited", "acquiring", "tracking"}
Buffers == {"empty", "code", "signal"}
NoDecision == [Acq_delay_samples |-> 0, Acq_doppler_hz |-> 0,
               Acq_doppler_wrapped |-> FALSE,
               Acq_samplestamp_samples |-> 0]

-----------------------------------------------------------------------------
(* Helpers of the block, each one member function.                         *)

\* get_assistance(): read the map once; a hit gives the assisted window and
\* enables assistance, a miss disables it and keeps the previous window.
get_assistance ==
    IF assist # NoAssist
    THEN [min |-> AssistedWindow(assist).min,
          max |-> AssistedWindow(assist).max, disable |-> FALSE]
    ELSE [min |-> d_doppler_min, max |-> d_doppler_max, disable |-> TRUE]

\* Mutation: reset_grid() forgets d_well_count = 0.
redefine_and_reset_grid_keep_count(dmin, dmax, disabled) ==
    LET n == NumDopplerPoints(IF disabled THEN ConfigDopplerMin ELSE dmin,
                              IF disabled THEN ConfigDopplerMax ELSE dmax, DopplerStep)
    IN  /\ d_doppler_min' = IF disabled THEN ConfigDopplerMin ELSE dmin
        /\ d_doppler_max' = IF disabled THEN ConfigDopplerMax ELSE dmax
        /\ d_num_doppler_points' = n
        /\ d_grid_data' = ZeroGrid(n, FftSize)
        /\ UNCHANGED d_well_count

\* Mutation: reset_grid() zeroes the old grid; redefine_grid() does not
\* reallocate it for the new number of hypotheses.
redefine_and_reset_grid_no_realloc(dmin, dmax, disabled) ==
    LET lo == IF disabled THEN ConfigDopplerMin ELSE dmin
        hi == IF disabled THEN ConfigDopplerMax ELSE dmax
    IN  /\ d_doppler_min' = lo
        /\ d_doppler_max' = hi
        /\ d_num_doppler_points' = NumDopplerPoints(lo, hi, DopplerStep)
        /\ d_grid_data' = [c \in DOMAIN d_grid_data |-> 0]
        /\ d_well_count' = 0

\* Mutation: redefine_grid() without the fallback to the configured range.
redefine_and_reset_grid_keep_window(dmin, dmax, disabled) ==
    /\ d_doppler_min' = dmin
    /\ d_doppler_max' = dmax
    /\ d_num_doppler_points' = NumDopplerPoints(dmin, dmax, DopplerStep)
    /\ d_grid_data' = ZeroGrid(NumDopplerPoints(dmin, dmax, DopplerStep), FftSize)
    /\ d_well_count' = 0

\* floor(std::abs(max - min) / d_doppler_step) is an unsigned integer
\* division.  By a zero step (the constructor's value, kept if
\* set_doppler_step is never called or is given 0) it is undefined: it
\* traps where the CPU's division traps, and gives 0 where it does not.
grid_size_defined == DopplerStep > 0 \/ ~ZeroDivisionTraps

grid_size(lo, hi) ==
    IF DopplerStep = 0 THEN 0 ELSE NumDopplerPoints(lo, hi, DopplerStep)

\* redefine_grid() followed by reset_grid(), given the window and the
\* assistance flag in effect (dmin, dmax, disabled): without assistance the
\* configured range is restored; the grid is reallocated for the new number
\* of hypotheses, zeroed, and the dwell count restarts.  A trapping
\* division ends the receiver: the call never returns.
redefine_and_reset_grid(dmin, dmax, disabled) ==
    LET lo == IF disabled THEN ConfigDopplerMin ELSE dmin
        hi == IF disabled THEN ConfigDopplerMax ELSE dmax
        n  == grid_size(lo, hi)
    IN  /\ grid_size_defined
        /\ d_doppler_min' = lo
        /\ d_doppler_max' = hi
        /\ d_num_doppler_points' = n
        /\ d_grid_data' = ZeroGrid(n, FftSize)
        /\ d_well_count' = 0

\* compute_and_accumulate_grid(): every Doppler row of the grid gains the
\* squared magnitude of this block's correlation, abstracted as energy e.
\* The carrier wipe-off of each row is written into d_fft_if's input
\* buffer, the buffer set_local_code filled, and correlated against
\* d_fft_codes.
compute_and_accumulate_grid(e) ==
    /\ d_grid_data' = [c \in DOMAIN d_grid_data |-> d_grid_data[c] + e[c]]
    /\ fft_inbuf' = IF d_num_doppler_points > 0 THEN "signal" ELSE fft_inbuf
    /\ UNCHANGED d_fft_codes

\* forecast(): the scheduler calls general_work with at least
\* d_gnuradio_forecast_samples = 4 * d_fft_size input items.
Offered == {n \in InputCounts : n >= 4 * FftSize}

\* d_sample_counter += n; consume_each(n).  Only the counter's residue
\* modulo one code period is kept.
count_input(n) == d_sample_counter' = (d_sample_counter + n) % SamplesPerMs

-----------------------------------------------------------------------------
(* general_work, one action per case of the switch on d_state.  Every call *)
(* advances d_sample_counter by what it consumes; the samples themselves   *)
(* are not modelled.  A call runs only when the previous call returned.    *)

\* Case 0, StandBy: go to GetAssist once activated.
StandBy ==
    /\ work_pc = "idle"
    /\ d_state = 0
    /\ d_state' = IF d_active THEN 1 ELSE 0
    /\ \E n \in Offered : count_input(n)
    /\ UNCHANGED dwell_phases
    /\ UNCHANGED <<d_active, d_disable_assist, d_well_count, d_doppler_min,
                   d_doppler_max, d_num_doppler_points, d_grid_data,
                   d_input_power, d_gnss_synchro, work_pc>>
    /\ UNCHANGED <<events, channel, assist, searched>>
    /\ UNCHANGED observed
    /\ UNCHANGED correlator

\* Case 1, GetAssist: get_assistance(); redefine_grid(); reset_grid().
GetAssist ==
    /\ work_pc = "idle"
    /\ d_state = 1
    /\ LET a == get_assistance
       IN  /\ d_disable_assist' = a.disable
           /\ redefine_and_reset_grid(a.min, a.max, a.disable)
    /\ \E n \in Offered : count_input(n)
    /\ dwell_phases' = {}
    /\ d_state' = 2
    /\ searched' = <<>>
    /\ UNCHANGED <<d_active, d_input_power, d_gnss_synchro, work_pc>>
    /\ UNCHANGED <<events, channel, assist>>
    /\ UNCHANGED observed
    /\ UNCHANGED correlator

\* Mutation: the dwell test off by one (d_well_count > d_max_dwells).
dwells_complete_strict(count) == count > MaxDwells

\* The dwell test of case 2: d_well_count >= d_max_dwells.
dwells_complete(count) == count >= MaxDwells

\* Mutation: case 2 consumes all the input offered, as the other cases do.
dwell_consumed_all(n) == n

\* compute_and_accumulate_grid() returns d_fft_size: a dwell consumes one
\* FFT of samples, whatever the call was offered.
dwell_consumed(n) == FftSize

\* Case 2, ComputeGrid: accumulate one dwell; decide after d_max_dwells.
ComputeGrid ==
    /\ work_pc = "idle"
    /\ d_state = 2
    /\ \E e \in [DOMAIN d_grid_data -> Energies] :
           compute_and_accumulate_grid(e)
    /\ \E n \in Offered : count_input(dwell_consumed(n))
    /\ dwell_phases' = dwell_phases \cup {d_sample_counter}
    /\ d_well_count' = d_well_count + 1
    /\ d_state' = IF dwells_complete(d_well_count + 1) THEN 3 ELSE 2
    /\ UNCHANGED <<d_active, d_disable_assist, d_doppler_min, d_doppler_max,
                   d_num_doppler_points, d_input_power, d_gnss_synchro,
                   work_pc>>
    /\ UNCHANGED <<events, channel, assist, searched>>
    /\ UNCHANGED observed

\* estimate_input_power(): the mean squared magnitude of the d_fft_size
\* samples offered to the call, abstracted to the powers they can give.
estimate_input_power == Powers

\* search_maximum() on the current grid.
Peak == SearchMaximum(d_grid_data, d_num_doppler_points, FftSize)

\* Line 256: index_doppler * d_doppler_step + d_doppler_min, converted to
\* double.  With an unsigned d_doppler_step the sum is a uint32_t, so a
\* negative Doppler becomes Acq_doppler_hz + 2^32; TLC's integers cannot
\* hold that value, so the wrap is recorded as a flag beside the sum.
doppler_wraps(hz) == DopplerStepUnsigned /\ hz < 0

\* search_maximum(), step 4: record the peak in the Gnss_Synchro.
record_peak(pk) ==
    LET hz == DopplerHz(d_doppler_min, DopplerStep, pk.index_doppler)
    IN  d_gnss_synchro' =
            [Acq_delay_samples |-> pk.index_time,
             Acq_doppler_hz |-> hz,
             Acq_doppler_wrapped |-> doppler_wraps(hz),
             Acq_samplestamp_samples |-> d_sample_counter]

\* Mutation: the retry does not set d_disable_assist.
decide_next_keep_assist(positive) ==
    IF positive
    THEN d_state' = 5 /\ UNCHANGED d_disable_assist
    ELSE IF ~d_disable_assist
         THEN d_state' = 4 /\ UNCHANGED d_disable_assist
         ELSE d_state' = 6 /\ UNCHANGED d_disable_assist

\* The branch of case 3 on the test statistic: positive, else one retry
\* without assistance, else negative.
decide_next(positive) ==
    IF positive
    THEN d_state' = 5 /\ UNCHANGED d_disable_assist
    ELSE IF ~d_disable_assist
         THEN d_disable_assist' = TRUE /\ d_state' = 4
         ELSE d_state' = 6 /\ UNCHANGED d_disable_assist

\* Case 3, decide: estimate the input power, search the maximum, record it,
\* compare the test statistic with the threshold.
Decide ==
    /\ work_pc = "idle"
    /\ d_state = 3
    /\ \E p \in estimate_input_power :
           /\ d_input_power' = p
           /\ record_peak(Peak)
           /\ decide_next(Exceeds(Peak.magt, p, d_well_count, FftSize,
                                  ThresholdNum, ThresholdDen))
    /\ \E n \in Offered : count_input(n)
    /\ UNCHANGED dwell_phases
    /\ searched' = Record(searched, <<d_doppler_min, d_doppler_max>>)
    /\ decided' = d_gnss_synchro'
    /\ UNCHANGED monitor
    /\ UNCHANGED <<d_active, d_well_count, d_doppler_min, d_doppler_max,
                   d_num_doppler_points, d_grid_data, work_pc>>
    /\ UNCHANGED <<events, channel, assist>>
    /\ UNCHANGED correlator

\* Mutation: the retry reads the assistance map again.
RedefineGrid_reassist ==
    /\ work_pc = "idle"
    /\ d_state = 4
    /\ d_disable_assist' = get_assistance.disable
    /\ redefine_and_reset_grid(get_assistance.min, get_assistance.max,
                               get_assistance.disable)
    /\ \E n \in Offered : count_input(n)
    /\ dwell_phases' = {}
    /\ d_state' = 2
    /\ UNCHANGED <<d_active, d_input_power, d_gnss_synchro, work_pc>>
    /\ UNCHANGED <<events, channel, assist, searched>>
    /\ UNCHANGED observed
    /\ UNCHANGED correlator

\* Case 4, RedefineGrid: open the search to the configured range.
RedefineGrid ==
    /\ work_pc = "idle"
    /\ d_state = 4
    /\ redefine_and_reset_grid(d_doppler_min, d_doppler_max, d_disable_assist)
    /\ \E n \in Offered : count_input(n)
    /\ dwell_phases' = {}
    /\ d_state' = 2
    /\ UNCHANGED <<d_active, d_disable_assist, d_input_power, d_gnss_synchro,
                   work_pc>>
    /\ UNCHANGED <<events, channel, assist, searched>>
    /\ UNCHANGED observed
    /\ UNCHANGED correlator

\* Mutation: the event is published before d_active is cleared.
decision_call_publish_first(st, ev) ==
    \/ /\ work_pc = "idle"
       /\ d_state = st
       /\ events' = Append(events, ev)
       /\ work_pc' = ev
       /\ UNCHANGED <<d_state, d_active>>
    \/ /\ work_pc = ev
       /\ d_active' = FALSE
       /\ d_state' = 0
       /\ work_pc' = "idle"
       /\ UNCHANGED events

\* Mutation: the call does not return the block to StandBy.
decision_call_no_standby(st, ev) ==
    \/ /\ work_pc = "idle"
       /\ d_state = st
       /\ d_active' = FALSE
       /\ events' = Append(events, ev)
       /\ work_pc' = ev
       /\ UNCHANGED d_state
    \/ /\ work_pc = ev
       /\ work_pc' = "idle"
       /\ UNCHANGED <<d_state, d_active, events>>

\* Cases 5 and 6 (Positive_Acq, Negative_Acq).  The call deactivates the
\* block and publishes the event; the channel thread may handle the event
\* before the same call goes on to set d_state back to StandBy, so the call
\* is two steps, work_pc remembering the event in between.
decision_call(st, ev) ==
    \/ /\ work_pc = "idle"
       /\ d_state = st
       /\ d_active' = FALSE
       /\ events' = Append(events, ev)
       /\ work_pc' = ev
       /\ UNCHANGED d_state
    \/ /\ work_pc = ev
       /\ d_state' = 0
       /\ work_pc' = "idle"
       /\ UNCHANGED <<d_active, events>>

\* Case 5, after d_state = 0: with monitor output enabled, the call copies
\* *d_gnss_synchro to its output item, as it is at that moment.
emit_monitor ==
    monitor' = IF MonitorOutput /\ work_pc = "ACQ_SUCCESS"
               THEN <<d_gnss_synchro>> ELSE monitor

\* The input the call consumes after publishing, before it returns.
consume_on_return ==
    IF work_pc = "idle" THEN UNCHANGED d_sample_counter
    ELSE \E n \in Offered : count_input(n)

\* The history of the decision is dropped when the call returns.
forget_decision ==
    decided' = IF work_pc = "idle" THEN decided ELSE NoDecision

PositiveAcq ==
    /\ decision_call(5, "ACQ_SUCCESS")
    /\ emit_monitor
    /\ forget_decision
    /\ consume_on_return
    /\ UNCHANGED dwell_phases
    /\ UNCHANGED <<d_disable_assist, d_well_count, d_doppler_min,
                   d_doppler_max, d_num_doppler_points, d_grid_data,
                   d_input_power, d_gnss_synchro>>
    /\ UNCHANGED <<channel, assist, searched>>
    /\ UNCHANGED correlator

NegativeAcq ==
    /\ decision_call(6, "ACQ_FAIL")
    /\ UNCHANGED <<d_disable_assist, d_well_count, d_doppler_min,
                   d_doppler_max, d_num_doppler_points, d_grid_data,
                   d_input_power, d_gnss_synchro>>
    /\ UNCHANGED <<channel, assist, searched>>
    /\ forget_decision
    /\ consume_on_return
    /\ UNCHANGED dwell_phases
    /\ UNCHANGED monitor
    /\ UNCHANGED correlator

Work ==
    \/ StandBy \/ GetAssist \/ ComputeGrid \/ Decide \/ RedefineGrid
    \/ PositiveAcq \/ NegativeAcq

-----------------------------------------------------------------------------
(* The channel thread and the assistance writer.                          *)

\* set_local_code(): the channel supplies the local code once, before the
\* first init() (spec, section 6); it is copied into d_fft_if's input buffer.
set_local_code ==
    /\ channel = "new"
    /\ fft_inbuf' = "code"
    /\ channel' = "idle"
    /\ UNCHANGED <<block, events, assist, searched, observed, d_fft_codes>>
    /\ UNCHANGED sampling

\* init(): clear the acquisition fields of the Gnss_Synchro, the input
\* power and the state, then transform d_fft_if's input buffer and store
\* its conjugate in d_fft_codes.
init ==
    /\ channel = "idle"
    /\ d_gnss_synchro' = NoDecision
    /\ d_input_power' = 0
    /\ d_state' = 0
    /\ d_fft_codes' = fft_inbuf
    /\ channel' = "inited"
    /\ UNCHANGED <<d_active, d_disable_assist, d_well_count, d_doppler_min,
                   d_doppler_max, d_num_doppler_points, d_grid_data, work_pc>>
    /\ UNCHANGED <<events, assist, searched, fft_inbuf>>
    /\ UNCHANGED sampling
    /\ UNCHANGED observed

\* The channel starts the acquisition: set_active(true).
set_active ==
    /\ channel = "inited"
    /\ d_active' = TRUE
    /\ channel' = "acquiring"
    /\ UNCHANGED <<d_state, d_disable_assist, d_well_count, d_doppler_min,
                   d_doppler_max, d_num_doppler_points, d_grid_data,
                   d_input_power, d_gnss_synchro, work_pc>>
    /\ UNCHANGED <<events, assist, searched>>
    /\ UNCHANGED observed
    /\ UNCHANGED correlator
    /\ UNCHANGED sampling

\* The channel handles the next event: success hands over to tracking,
\* failure frees the channel for a new attempt.
HandleEvent ==
    /\ events # <<>>
    /\ channel' = IF Head(events) = "ACQ_SUCCESS" THEN "tracking" ELSE "idle"
    /\ events' = Tail(events)
    /\ UNCHANGED <<block, assist, searched>>
    /\ UNCHANGED observed
    /\ UNCHANGED correlator
    /\ UNCHANGED sampling

\* Tracking loses the satellite; the channel may acquire again.
LossOfLock ==
    /\ channel = "tracking"
    /\ channel' = "idle"
    /\ UNCHANGED <<block, events, assist, searched>>
    /\ UNCHANGED observed
    /\ UNCHANGED correlator
    /\ UNCHANGED sampling

\* The control path writes or clears this PRN's assistance record.
WriteAssist ==
    /\ \E a \in AssistRecords \cup {NoAssist} : assist' = a /\ assist' # assist
    /\ UNCHANGED <<block, events, channel, searched>>
    /\ UNCHANGED observed
    /\ UNCHANGED correlator
    /\ UNCHANGED sampling

-----------------------------------------------------------------------------
\* The block as constructed: no grid, no window, inactive.
Init ==
    /\ d_state = 0
    /\ d_active = FALSE
    /\ d_disable_assist = FALSE
    /\ d_well_count = 0
    /\ d_doppler_min = 0
    /\ d_doppler_max = 0
    /\ d_num_doppler_points = 0
    /\ d_grid_data = ZeroGrid(0, FftSize)
    /\ d_input_power = 0
    /\ d_gnss_synchro = NoDecision
    /\ work_pc = "idle"
    /\ events = <<>>
    /\ channel = "new"
    /\ assist \in AssistRecords \cup {NoAssist}
    /\ searched = <<>>
    /\ monitor = <<>>
    /\ decided = NoDecision
    /\ fft_inbuf = "empty"
    /\ d_fft_codes = "empty"
    /\ d_sample_counter = 0
    /\ dwell_phases = {}

Next ==
    \/ Work
    \/ set_local_code \/ init \/ set_active \/ HandleEvent \/ LossOfLock
    \/ WriteAssist

\* The scheduler keeps calling general_work while samples stream in, and the
\* message handler thread keeps delivering events.  The channel's own
\* requests and the assistance writer need not happen.
Fairness == WF_vars(Work) /\ WF_vars(HandleEvent)

Spec == Init /\ [][Next]_vars /\ Fairness
-----------------------------------------------------------------------------
(***************************************************************************)
(* Properties.                                                             *)
(***************************************************************************)

TypeOK ==
    /\ d_state \in 0 .. 6
    /\ d_sample_counter \in 0 .. SamplesPerMs - 1
    /\ dwell_phases \subseteq 0 .. SamplesPerMs - 1
    /\ d_gnss_synchro.Acq_samplestamp_samples \in 0 .. SamplesPerMs - 1
    /\ d_active \in BOOLEAN
    /\ d_disable_assist \in BOOLEAN
    /\ d_well_count \in Nat
    /\ d_num_doppler_points = grid_size(d_doppler_min, d_doppler_max)
    /\ DOMAIN d_grid_data = Cells(d_num_doppler_points, FftSize)
    /\ \A c \in DOMAIN d_grid_data : d_grid_data[c] \in Nat
    /\ d_input_power \in Powers \cup {0}
    /\ d_gnss_synchro.Acq_delay_samples \in 0 .. FftSize - 1
    /\ work_pc \in {"idle"} \cup Events
    /\ events \in Seq(Events)
    /\ channel \in ChannelStates
    /\ assist \in AssistRecords \cup {NoAssist}
    /\ Len(monitor) <= 1
    /\ fft_inbuf \in Buffers /\ d_fft_codes \in Buffers

\* The spec's decision rule (section 4.1): the test statistic
\* 2 * N * (peak / N^4) / (power * dwells) is above the threshold.
StatisticAboveThreshold(peak, power, wells) ==
    power > 0 /\ 2 * FftSize * peak * ThresholdDen > ThresholdNum * FftSize^4 * power * wells

\* No lost activation: while the channel waits for a decision, the block is
\* active, or in the middle of an attempt, or its decision is on its way.
\* Case 5/6 must clear d_active before publishing the event: once the event
\* is out, the channel may re-activate the block at any moment.
NoLostActivation ==
    channel = "acquiring" =>
        \/ d_active
        \/ d_state # 0
        \/ work_pc # "idle"
        \/ events # <<>>

\* Exactly one event per activation: an event is only ever pending while
\* the channel waits, and never two of them.
OneEventPerActivation ==
    events # <<>> => channel = "acquiring" /\ Len(events) = 1

\* The test statistic is computed on the grid of d_max_dwells dwells: every
\* decision divides by the number of dwells the grid really holds.
DecideAfterFullDwells ==
    d_state = 3 => d_well_count = MaxDwells

\* An attempt searches the grid at most twice, and a second search, after
\* an assisted search failed, covers the configured Doppler range.
AtMostOneFallback ==
    /\ Len(searched) <= 2
    /\ \A i \in 2 .. Len(searched) :
           searched[i] = <<ConfigDopplerMin, ConfigDopplerMax>>

\* ACQ_FAIL is only decided after the configured Doppler range was searched:
\* a narrow or stale assisted window never turns into a negative result.
NegativeOnlyAfterFullRange ==
    d_state = 6 =>
        <<d_doppler_min, d_doppler_max>> = <<ConfigDopplerMin, ConfigDopplerMax>>

\* No false alarm: a positive decision is only taken when some cell of the
\* grid really exceeds the threshold under the measured input power.
NoFalseAlarm ==
    d_state = 5 =>
        \E c \in DOMAIN d_grid_data :
            StatisticAboveThreshold(d_grid_data[c], d_input_power, d_well_count)

\* Every acquisition the channel starts ends in a decision event.
DecisionEventuallyPublished ==
    channel = "acquiring" ~> channel # "acquiring"

\* The record copied to the monitor output at the end of a positive call is
\* the one the decision recorded (case 5 copies *d_gnss_synchro after the
\* event is out, while the channel thread may already act on the event).
MonitorReportsDecision ==
    [][work_pc = "ACQ_SUCCESS" /\ work_pc' = "idle" /\ MonitorOutput
         => monitor' = <<decided>>]_vars

\* With the dump enabled, search_maximum writes d_grid_data[index_doppler]
\* to the file: the row it reads exists (spec, section 7: the block never
\* reads out of bounds).
DumpRowExists ==
    d_state = 3 => Peak.index_doppler < d_num_doppler_points

\* Refinement: the block and the channel implement AcquisitionAttempt, with
\* d_active as the abstract "activated and not decided" flag.  Every
\* general_work call but the publishing one of cases 5/6 is a stuttering
\* step; that one must clear d_active and publish in the same step, and an
\* activated block must eventually get there.  A channel that has not yet
\* supplied the local code is an idle one; set_local_code stutters.
Attempt == INSTANCE AcquisitionAttempt
               WITH active <- d_active,
                    channel <- IF channel = "new" THEN "idle" ELSE channel

AttemptSpec == Attempt!Spec

\* Spec, section 8 and 4.1: a negative decision means no cell of the grid
\* exceeded the threshold (search_maximum finds the grid's peak).
NoMissedDetection ==
    d_state = 6 =>
        \A c \in DOMAIN d_grid_data :
            ~StatisticAboveThreshold(d_grid_data[c], d_input_power, d_well_count)

\* Every dwell correlates the input with the conjugated FFT of the local
\* code.  The code is supplied once, before init() (spec, section 6), into
\* d_fft_if's input buffer; compute_and_accumulate_grid writes the wiped-off
\* input into that same buffer, and every later init() transforms it again.
CorrelatesWithLocalCode == d_state = 2 => d_fft_codes = "code"

\* Tracking starts from Acq_samplestamp_samples with code phase
\* Acq_delay_samples, so the stamp search_maximum records must be at the
\* code phase at which every dwell of the grid began: d_sample_counter must
\* advance by what each dwell consumed, and by whole code periods between
\* the first dwell and the decision.
StampMarksCodeStart ==
    d_state = 5 => dwell_phases = {d_gnss_synchro.Acq_samplestamp_samples}
=============================================================================
