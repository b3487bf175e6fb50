------------------------- MODULE AcquisitionAttempt -------------------------
(***************************************************************************)
(* What the acquisition block promises the channel that drives it: once   *)
(* activated, it publishes exactly one decision event (ACQ_SUCCESS or      *)
(* ACQ_FAIL) and deactivates in the same step; it publishes nothing while  *)
(* it is not activated.  The channel prepares the block (init), activates *)
(* it, and handles the events in order; on success it tracks and may lose *)
(* lock, on failure it may start again.  How the block searches (the grid, *)
(* the assistance, the dwells and the retry) is hidden.                    *)
(***************************************************************************)
EXTENDS Sequences

CONSTANT Events        \* {"ACQ_SUCCESS", "ACQ_FAIL"}

VARIABLES
    active,            \* the block has been activated and has not decided
    events,            \* published events the channel has not handled
    channel            \* "idle", "inited", "acquiring" or "tracking"

avars == <<active, events, channel>>

Init ==
    /\ active = FALSE
    /\ events = <<>>
    /\ channel = "idle"

Prepare ==
    /\ channel = "idle"
    /\ channel' = "inited"
    /\ UNCHANGED <<active, events>>

Activate ==
    /\ channel = "inited"
    /\ active' = TRUE
    /\ channel' = "acquiring"
    /\ UNCHANGED events

\* The block's one observable step: deactivate and publish the decision.
Decide ==
    /\ active
    /\ active' = FALSE
    /\ \E ev \in Events : events' = Append(events, ev)
    /\ UNCHANGED channel

HandleEvent ==
    /\ events # <<>>
    /\ channel' = IF Head(events) = "ACQ_SUCCESS" THEN "tracking" ELSE "idle"
    /\ events' = Tail(events)
    /\ UNCHANGED active

LossOfLock ==
    /\ channel = "tracking"
    /\ channel' = "idle"
    /\ UNCHANGED <<active, events>>

Next == Prepare \/ Activate \/ Decide \/ HandleEvent \/ LossOfLock

\* An activated block eventually decides; a published event is eventually
\* handled.
Spec == Init /\ [][Next]_avars /\ WF_avars(Decide) /\ WF_avars(HandleEvent)
=============================================================================
