---------------------- MODULE MC_PcpsAssistedAcquisition ----------------------
(***************************************************************************)
(* Model-checking instance of PcpsAssistedAcquisition.  Doppler values are *)
(* in Hz; the 1000 Hz limits of get_assistance are the code's.             *)
(***************************************************************************)
EXTENDS PcpsAssistedAcquisition

\* Configured range [-2000, 2000] with a 2000 Hz step: two hypotheses.
MCConfigDopplerMin == -2000
MCConfigDopplerMax == 2000

\* One record below the 1000 Hz uncertainty limit (window +-1000: one
\* hypothesis) and one at it (window +-2000 around 1000 Hz: two hypotheses,
\* not the configured ones).
MCAssistRecords ==
    { [Doppler0 |-> 0, dopplerUncertainty |-> 500],
      [Doppler0 |-> 1000, dopplerUncertainty |-> 1000] }

\* Two code-delay bins, energies 0, 4 and 8 per dwell and cell, threshold 1:
\* with unit power and two dwells the statistic is magt / 8, so a peak of 8
\* sits exactly on the threshold, 12 and 16 exceed it.
MCEnergies == {0, 4, 8}
MCPowers == {1}
=============================================================================
