------------------------ MODULE MC_PcpsAcquisitionStop ------------------------
(***************************************************************************)
(* The acquisition block with a channel that may stop an attempt in       *)
(* progress.  Stopping deactivates the block (set_active(false)) and frees *)
(* the channel; general_work reads d_active only in case 0, so the block  *)
(* carries on from wherever it is.                                         *)
(***************************************************************************)
EXTENDS MC_PcpsAssistedAcquisition

\* The channel stops the acquisition while it waits for the decision (no
\* event published yet): the block is deactivated, the channel is idle.
Stop ==
    /\ channel = "acquiring"
    /\ events = <<>>
    /\ work_pc = "idle"
    /\ d_active' = FALSE
    /\ channel' = "idle"
    /\ UNCHANGED <<d_state, d_disable_assist, d_well_count, d_doppler_min,
                   d_doppler_max, d_num_doppler_points, d_grid_data,
                   d_input_power, d_gnss_synchro, work_pc>>
    /\ UNCHANGED <<events, assist, searched, observed, correlator, sampling>>

StopSpec == Init /\ [][Next \/ Stop]_vars /\ Fairness
=============================================================================
