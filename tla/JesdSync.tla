------------------------------ MODULE JesdSync ------------------------------
(***************************************************************************)
(* JesdSyncController (ip/dac_controller_0/src/jesd_sync_controller.vhd):  *)
(* the LMFC counter, the synchronisation state machine of each group of    *)
(* links and the sticky error flags, all clocked by the link clock.        *)
(*                                                                         *)
(* ResetEdge and ClockEdge are the rising edges of clk with rst = '1' and  *)
(* rst = '0': every clocked process of the entity takes its step in the    *)
(* same edge, from the values all of them had before it.  The inputs       *)
(* change between edges.  A group of the entity is hard-wired to two of    *)
(* the four links; here GroupOf says which links belong to which group.    *)
(***************************************************************************)
EXTENDS Integers

CONSTANTS
  LmfcPeriod,  \* C_LMFC_PERIOD, link clocks per local multiframe
  Link,        \* the JESD204B links
  Group,       \* the groups, one per DAC
  GroupOf      \* the group each link belongs to

ASSUME LmfcAssumption == LmfcPeriod \in Nat \ {0}
ASSUME GroupAssumption == GroupOf \in [Link -> Group]

VARIABLES
  rst,           \* reset input
  txlink_ready,  \* the links whose ready input is high
  sync_mode,     \* "per_dac" (0) or "all_four" (1)
  lmfc_count,
  lmfc_bound,
  grp_state,
  grp_release,
  sync_err       \* the links whose sticky error flag is set

inputs == <<rst, txlink_ready, sync_mode>>
registers == <<lmfc_count, lmfc_bound, grp_state, grp_release, sync_err>>
vars == <<inputs, registers>>

Mode == {"per_dac", "all_four"}
SyncState == {"WAIT_LOCK", "WAIT_LMFC", "RUNNING", "ERROR"}

LinksOf(g) == {l \in Link : GroupOf[l] = g}
Required(g) == IF sync_mode = "per_dac" THEN LinksOf(g) ELSE Link
AllReady(g) == Required(g) \subseteq txlink_ready
Running(g) == grp_state[g] = "RUNNING"

Init ==
  /\ rst = TRUE
  /\ txlink_ready = {}
  /\ sync_mode \in Mode
  /\ lmfc_count = 0
  /\ lmfc_bound = FALSE
  /\ grp_state = [g \in Group |-> "WAIT_LOCK"]
  /\ grp_release = [g \in Group |-> FALSE]
  /\ sync_err = {}

-----------------------------------------------------------------------------
(* The clocked processes, as the values of their registers after an edge.  *)

\* Mutant of LmfcStep: compares with the period, one too late.
LmfcLate ==
  /\ lmfc_bound' = (lmfc_count = LmfcPeriod)
  /\ lmfc_count' = IF lmfc_count = LmfcPeriod THEN 0 ELSE lmfc_count + 1

LmfcStep ==
  /\ lmfc_bound' = (lmfc_count = LmfcPeriod - 1)
  /\ lmfc_count' = IF lmfc_count = LmfcPeriod - 1 THEN 0 ELSE lmfc_count + 1

\* Mutant of NextState: ST_ERROR has no way out.
ErrorSticks(g) ==
  CASE grp_state[g] = "WAIT_LOCK" ->
         IF AllReady(g) THEN "WAIT_LMFC" ELSE "WAIT_LOCK"
    [] grp_state[g] = "WAIT_LMFC" /\ ~AllReady(g) -> "WAIT_LOCK"
    [] grp_state[g] = "WAIT_LMFC" /\ lmfc_bound -> "RUNNING"
    [] Running(g) /\ ~AllReady(g) -> "ERROR"
    [] OTHER -> grp_state[g]

NextState(g) ==
  CASE grp_state[g] = "WAIT_LOCK" ->
         IF AllReady(g) THEN "WAIT_LMFC" ELSE "WAIT_LOCK"
    [] grp_state[g] = "WAIT_LMFC" ->
         IF ~AllReady(g) THEN "WAIT_LOCK"
         ELSE IF lmfc_bound THEN "RUNNING" ELSE "WAIT_LMFC"
    [] grp_state[g] = "RUNNING" ->
         IF AllReady(g) THEN "RUNNING" ELSE "ERROR"
    [] OTHER -> "WAIT_LOCK"

\* Mutants of NextRelease: the drop does not withdraw the release; the
\* release does not wait for the boundary.
ReleaseKept(g) ==
  \/ Running(g)
  \/ grp_state[g] = "WAIT_LMFC" /\ ((AllReady(g) /\ lmfc_bound) \/ grp_release[g])

ReleaseEarly(g) ==
  AllReady(g) /\ (Running(g) \/ grp_state[g] = "WAIT_LMFC")

\* WAIT_LMFC assigns the release only on the edge that starts the group:
\* otherwise the register keeps its value.
NextRelease(g) ==
  CASE Running(g) -> AllReady(g)
    [] grp_state[g] = "WAIT_LMFC" ->
         (AllReady(g) /\ lmfc_bound) \/ grp_release[g]
    [] OTHER -> FALSE

\* Mutant of Faults: blames every link of the group.
WholeGroup ==
  {l \in Link : Running(GroupOf[l]) /\ ~AllReady(GroupOf[l])}

\* The links whose flag this edge sets: links that are down in a group that
\* was running and is no longer ready.
Faults ==
  {l \in Link : /\ Running(GroupOf[l])
                /\ ~AllReady(GroupOf[l])
                /\ l \notin txlink_ready}

\* Mutant of ErrStep: the clear is assigned last and wins.
ClearWins(err_clr) == sync_err' = (sync_err \cup Faults) \ err_clr

\* The clear is assigned first and the fault second: the fault wins.
ErrStep(err_clr) == sync_err' = (sync_err \ err_clr) \cup Faults

-----------------------------------------------------------------------------
ResetEdge ==
  /\ rst
  /\ lmfc_count' = 0
  /\ lmfc_bound' = FALSE
  /\ grp_state' = [g \in Group |-> "WAIT_LOCK"]
  /\ grp_release' = [g \in Group |-> FALSE]
  /\ sync_err' = {}
  /\ UNCHANGED inputs

ClockEdge(err_clr) ==
  /\ ~rst
  /\ LmfcStep
  /\ grp_state' = [g \in Group |-> NextState(g)]
  /\ grp_release' = [g \in Group |-> NextRelease(g)]
  /\ ErrStep(err_clr)
  /\ UNCHANGED inputs

Edge == ResetEdge \/ \E err_clr \in SUBSET Link : ClockEdge(err_clr)

LinkChange(l) ==
  /\ \/ l \in txlink_ready /\ txlink_ready' = txlink_ready \ {l}
     \/ l \notin txlink_ready /\ txlink_ready' = txlink_ready \cup {l}
  /\ UNCHANGED <<rst, sync_mode, registers>>

ModeChange ==
  /\ sync_mode' \in Mode \ {sync_mode}
  /\ UNCHANGED <<rst, txlink_ready, registers>>

ResetChange ==
  /\ rst' = ~rst
  /\ UNCHANGED <<txlink_ready, sync_mode, registers>>

Input == (\E l \in Link : LinkChange(l)) \/ ModeChange \/ ResetChange

Next == Edge \/ Input

Spec == Init /\ [][Next]_vars
-----------------------------------------------------------------------------
(* Properties                                                              *)

TypeOK ==
  /\ rst \in BOOLEAN
  /\ txlink_ready \in SUBSET Link
  /\ sync_mode \in Mode
  /\ lmfc_count \in 0 .. LmfcPeriod - 1
  /\ lmfc_bound \in BOOLEAN
  /\ grp_state \in [Group -> SyncState]
  /\ grp_release \in [Group -> BOOLEAN]
  /\ sync_err \in SUBSET Link

\* The release register of a group is high exactly while its state machine
\* is running: the two are separate registers in p_grp0 and p_grp1, written
\* in different branches, and the outputs data_release and group_synced that
\* are read from them must never disagree.
ReleaseMatchesState == \A g \in Group : grp_release[g] <=> Running(g)

\* The detailed controller implements the gate that LinkRelease describes:
\* released only on an LMFC boundary with every required link ready,
\* withdrawn at the first edge that sees one of them down, never otherwise.
Gate == INSTANCE LinkRelease WITH
          boundary <- lmfc_bound,
          ready    <- [g \in Group |-> AllReady(g)],
          open     <- grp_release
ImplementsGate == Gate!Spec

\* A sticky flag appears only at an edge that closes the gate of the link's
\* own group, and only for a link that is down: no flag for a link that
\* never carried data, none for a healthy one.
FlagsOnlyOnDrop ==
  [][\A l \in sync_err' \ sync_err :
       /\ l \notin txlink_ready
       /\ grp_release[GroupOf[l]]
       /\ ~grp_release'[GroupOf[l]]]_vars

\* Once the links of a group stay ready, its data is released and stays so:
\* no state of the machine is a dead end, ST_ERROR included.
GroupComesUp ==
  \A g \in Group :
    <>[](AllReady(g) /\ ~rst) => <>[](grp_release[g])

\* What doc/potential_issues.md (ISSUE-010) and the comment in p_err say of
\* the write-1-to-clear: it cannot remove the flag of a link whose fault is
\* still there.
ActiveFaultStays ==
  [][\A l \in sync_err : ~rst /\ l \notin txlink_ready => l \in sync_err']_vars
=============================================================================
