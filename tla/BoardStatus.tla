---------------------------- MODULE BoardStatus ----------------------------
(***************************************************************************)
(* What one reset and one 100 MHz clock of the board do between the card   *)
(* and the links on one side and software that polls on the other:         *)
(*   - the reset synchroniser of clocks_and_resets.sv;                     *)
(*   - the FMC gate, FmcHandshake, whose rst it is, its pg_m2c tied high;   *)
(*   - p_jesd_rst and p_cdc_status of dac_controller_0.vhd, next to the    *)
(*     link clock's side: p_txlink_rst and JesdSync in per-DAC mode;       *)
(*   - the bits that software waits for (ad9176_jesd_wait_lock of the      *)
(*     reference driver, dac_subsys_wait_link_lock of the shipped tool).   *)
(* The board has two of the controller's four links, those of group 0.     *)
(*                                                                         *)
(* The link clock runs, and is the faster: at least one of its edges       *)
(* falls between two control edges (three do, at 312.5 MHz).  The sticky   *)
(* error flags are left out.                                               *)
(***************************************************************************)
EXTENDS FmcHandshake

CONSTANTS LmfcPeriod, RstHold  \* C_LMFC_PERIOD, C_RST_HOLD_CYCLES

ASSUME BoardAssumption ==
  LmfcPeriod \in Nat \ {0} /\ RstHold \in Nat /\ RstHold >= 3

Link == 0 .. 3
Group == 0 .. 1
Active == {0, 1}  \* links 2 and 3 are tied low

VARIABLES
  held,                                  \* control edges since the reset source went away
  rst_cnt, jesd_rst_n,
  txlink_rst_meta, txlink_rst,           \* their input is rst
  txlink_ready, lmfc_count, lmfc_bound, grp_state, grp_release,
  status_meta, status_sync,
  ticked,                                \* a link edge since the last control edge
  age                                    \* history, see Watched

Sync == INSTANCE JesdSync WITH
          GroupOf <- [l \in Link |-> l \div 2], rst <- txlink_rst,
          sync_mode <- "per_dac", sync_err <- {}
Reset == INSTANCE TxlinkReset WITH reset_sink_reset <- rst

fmc == <<inputs, registers, runs>>
link_regs == <<txlink_rst_meta, txlink_rst, lmfc_count, lmfc_bound, grp_state, grp_release>>
control_regs == <<held, rst_cnt, jesd_rst_n, status_meta, status_sync>>
board_vars == <<fmc, link_regs, txlink_ready, control_regs, ticked, age>>

ResetStages == 3
Dark == [ready |-> {}, synced |-> {}]
Status == [ready |-> txlink_ready, synced |-> {g \in Group : grp_state[g] = "RUNNING"}]

BoardInit ==
  /\ Init /\ pg_m2c = TRUE
  /\ held = 0 /\ rst_cnt = 0 /\ jesd_rst_n = FALSE
  /\ txlink_rst_meta = TRUE /\ txlink_rst = TRUE
  /\ txlink_ready = {} /\ lmfc_count = 0 /\ lmfc_bound = FALSE
  /\ grp_state = [g \in Group |-> "WAIT_LOCK"] /\ grp_release = [g \in Group |-> FALSE]
  /\ status_meta = Dark /\ status_sync = Dark
  /\ ticked = FALSE /\ age = 3
-----------------------------------------------------------------------------
(* The control clock.                                                      *)

\* Mutant of p_jesd_rst: the core leaves reset with the first edge.
NoHold ==
  IF rst THEN rst_cnt' = 0 /\ jesd_rst_n' = FALSE
  ELSE jesd_rst_n' = TRUE /\ UNCHANGED rst_cnt

p_jesd_rst ==
  IF rst THEN rst_cnt' = 0 /\ jesd_rst_n' = FALSE
  ELSE IF rst_cnt # RstHold - 1 THEN rst_cnt' = rst_cnt + 1 /\ jesd_rst_n' = FALSE
  ELSE jesd_rst_n' = TRUE /\ UNCHANGED rst_cnt

\* Each bit has two flip-flops of its own.  A bit that changes while it is
\* caught is caught before or after the change, as with an edge that comes
\* before or after the link edge that changes it.
p_cdc_status ==
  IF rst THEN status_meta' = Dark /\ status_sync' = Dark
  ELSE status_meta' = Status /\ status_sync' = status_meta

ControlEdge ==
  /\ ticked
  /\ ResetEdge \/ ClockEdge
  /\ p_jesd_rst /\ p_cdc_status
  /\ held' = IF held = ResetStages THEN held ELSE held + 1
  /\ ticked' = FALSE
  /\ age' = Min2(age + 1, 3)
  /\ UNCHANGED <<link_regs, txlink_ready>>

\* The PLL loses lock or the processor asks for a reset: at once in, and out
\* ResetStages edges after the cause has gone.
AssertReset ==
  /\ rst' = TRUE /\ held' = 0
  /\ age' = 3
  /\ UNCHANGED <<present, pg_m2c, registers, runs, rst_cnt, jesd_rst_n, status_meta,
                 status_sync, link_regs, txlink_ready, ticked>>

ReleaseReset ==
  /\ rst /\ held = ResetStages
  /\ ResetChange
  /\ UNCHANGED <<control_regs, link_regs, txlink_ready, ticked, age>>
-----------------------------------------------------------------------------
(* The link clock.                                                         *)

LinkReset ==
  /\ lmfc_count' = 0 /\ lmfc_bound' = FALSE
  /\ grp_state' = [g \in Group |-> "WAIT_LOCK"]
  /\ grp_release' = [g \in Group |-> FALSE]

LinkStep ==
  /\ Sync!LmfcStep
  /\ grp_state' = [g \in Group |-> Sync!NextState(g)]
  /\ grp_release' = [g \in Group |-> Sync!NextRelease(g)]

\* age counts, up to 3, the control edges since group 0 was last released; 3
\* also if it has not been since the last reset.  A release begins when no
\* reset is up; one of before the reset does not count while it lasts.
Watched ==
  age' = IF grp_release'[0] /\ (age < 3 \/ (~rst /\ ~grp_release[0])) THEN 0 ELSE age

LinkEdge ==
  /\ IF txlink_rst THEN LinkReset ELSE LinkStep
  /\ Reset!ResetSync
  /\ ticked' = TRUE
  /\ Watched
  /\ UNCHANGED <<fmc, txlink_ready, control_regs>>

LinkChange ==
  /\ \E l \in Active : \/ l \in txlink_ready /\ txlink_ready' = txlink_ready \ {l}
                       \/ l \notin txlink_ready /\ txlink_ready' = txlink_ready \cup {l}
  /\ UNCHANGED <<fmc, link_regs, control_regs, ticked, age>>

CardChange ==
  /\ Bounce
  /\ UNCHANGED <<link_regs, txlink_ready, control_regs, ticked, age>>
-----------------------------------------------------------------------------
(* The software.                                                           *)

\* Mutants of lock_mask: the group is not asked for; every link and group is.
LinksOnly == Active \subseteq status_sync.ready
WholeBoard == Link \subseteq status_sync.ready /\ Group \subseteq status_sync.synced

\* What a read of JESD_SYNC_STATUS has to show.
lock_mask == Active \subseteq status_sync.ready /\ 0 \in status_sync.synced

BoardNext ==
  \/ ControlEdge \/ AssertReset \/ ReleaseReset
  \/ LinkEdge \/ LinkChange \/ CardChange

\* Both clocks run; nothing is asked of card, links, reset or software.
BoardSpec ==
  /\ BoardInit
  /\ [][BoardNext]_board_vars
  /\ WF_board_vars(ControlEdge) /\ WF_board_vars(LinkEdge)
-----------------------------------------------------------------------------
\* Software that reads a lock reads of a release of this life of the board,
\* at most three control clocks old: no mix of bits caught at different edges,
\* and nothing left in any flip-flop over a reset, passes for a lock.  (The
\* bridge does not answer while rst is up.)
LockIsFresh == lock_mask /\ ~rst => age < 3

\* Links that stay up are reported, and stay reported, although half of the
\* controller's links and one of its groups never come up on this board.
LockIsSeen ==
  <>[](Active \subseteq txlink_ready /\ ~rst) => <>[]lock_mask

\* The JESD core leaves reset only after the controller that feeds it, which
\* is reset by the other clock.
CoreComesLast ==
  jesd_rst_n /\ ~rst => ~txlink_rst_meta /\ ~txlink_rst
=============================================================================
