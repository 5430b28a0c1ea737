--------------------------- MODULE JesdSyncTiming ---------------------------
(***************************************************************************)
(* When the groups of JesdSync are released: how long a group with ready   *)
(* links can wait, at which phase of the multiframe its data starts, and   *)
(* what holds while the software leaves the mode alone.  Three history     *)
(* variables watch the controller and never influence it.                  *)
(***************************************************************************)
EXTENDS JesdSync

VARIABLES
  ready_run,  \* edges in a row at which the group was ready, in one mode
  run_age,    \* edges since the group was released, modulo LmfcPeriod
  mode_kept   \* no change of sync_mode since the last edge in reset

history == <<ready_run, run_age, mode_kept>>
tvars == <<vars, history>>

\* A group that has been ready for this many edges in a row must be running:
\* one edge to leave ST_ERROR, one to leave ST_WAIT_LOCK, and the boundary
\* that ST_WAIT_LMFC then waits for is at most LmfcPeriod edges away.
LatencyBound == LmfcPeriod + 2

TInit ==
  /\ Init
  /\ ready_run = [g \in Group |-> 0]
  /\ run_age = [g \in Group |-> 0]
  /\ mode_kept = TRUE

\* ready_run saturates at LatencyBound, run_age wraps with the multiframe.
NextReadyRun(g) ==
  IF ~AllReady(g) THEN 0
  ELSE IF ready_run[g] = LatencyBound THEN LatencyBound ELSE ready_run[g] + 1

NextRunAge(g) ==
  IF ~grp_release[g] \/ run_age[g] = LmfcPeriod - 1 THEN 0 ELSE run_age[g] + 1

TClockEdge(err_clr) ==
  /\ ClockEdge(err_clr)
  /\ ready_run' = [g \in Group |-> NextReadyRun(g)]
  /\ run_age' = [g \in Group |-> NextRunAge(g)]
  /\ UNCHANGED mode_kept

TResetEdge ==
  /\ ResetEdge
  /\ ready_run' = [g \in Group |-> 0]
  /\ run_age' = [g \in Group |-> 0]
  /\ mode_kept' = TRUE

TModeChange ==
  /\ ModeChange
  /\ ready_run' = [g \in Group |-> 0]
  /\ mode_kept' = FALSE
  /\ UNCHANGED run_age

TInput ==
  /\ (\E l \in Link : LinkChange(l)) \/ ResetChange
  /\ UNCHANGED history

TNext ==
  \/ TResetEdge
  \/ \E err_clr \in SUBSET Link : TClockEdge(err_clr)
  \/ TModeChange
  \/ TInput

TSpec == TInit /\ [][TNext]_tvars

\* The link clock runs; nothing is asked of the links or of the software.
TEdge == TResetEdge \/ \E err_clr \in SUBSET Link : TClockEdge(err_clr)

TFairSpec == TSpec /\ WF_tvars(TEdge)
-----------------------------------------------------------------------------
HistoryOK ==
  /\ ready_run \in [Group -> 0 .. LatencyBound]
  /\ run_age \in [Group -> 0 .. LmfcPeriod - 1]

\* Bounded re-synchronisation: however the group got where it is - a first
\* lock, a drop of one clock, a drop while waiting for the boundary - its
\* data is released after LatencyBound edges with its links ready.
BoundedLatency ==
  \A g \in Group : ready_run[g] = LatencyBound => grp_release[g]

\* Deterministic latency: every group starts its data at the same phase of
\* the multiframe, so that two running groups are always a whole number of
\* multiframes apart, whenever and however often each was re-synchronised.
SamePhase ==
  \A g, h \in Group :
    grp_release[g] /\ grp_release[h] => run_age[g] = run_age[h]

\* With the mode left alone, every link whose loss stops a running group is
\* on record after that edge, whatever the software clears at that moment.
DropRecorded ==
  [][\A g \in Group :
       mode_kept /\ ~rst /\ grp_release[g] /\ ~grp_release'[g]
         => (Required(g) \ txlink_ready) \subseteq sync_err']_tvars

\* In all-four mode, left alone, the groups move as one: both DACs are
\* released by the same edge and stopped by the same edge.
Lockstep ==
  mode_kept /\ sync_mode = "all_four" =>
    \A g, h \in Group : /\ grp_state[g] = grp_state[h]
                        /\ grp_release[g] = grp_release[h]
=============================================================================
