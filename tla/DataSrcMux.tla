----------------------------- MODULE DataSrcMux -----------------------------
(***************************************************************************)
(* DataSrcMux (ip/dac_controller_0/src/data_src_mux.vhd): the switch       *)
(* between the tone generator and the external FIFO, and the samples that  *)
(* leave it.  src_sel is double-buffered in shadow_src; a switch is first  *)
(* marked pending and then carried out on an LMFC boundary, towards the    *)
(* FIFO only when it has been filled far enough.                           *)
(*                                                                         *)
(* An edge of the link clock with rst = '0' is exactly one of the four     *)
(* branches of p_switch.  The module says nothing of its inputs: the       *)
(* modules that use it (SrcSwitching, TxPath) drive them.                  *)
(***************************************************************************)
EXTENDS Integers

CONSTANTS
  FillThreshold,  \* G_FILL_THRESHOLD
  FifoDepth       \* G_FIFO_DEPTH

ASSUME FillAssumption ==
  FifoDepth \in Nat /\ FillThreshold \in 1 .. FifoDepth

VARIABLES
  rst, src_sel, lmfc_boundary, fifo_fill_level,  \* inputs
  shadow_src, pending, active_src                \* registers

mux_inputs == <<rst, src_sel, lmfc_boundary, fifo_fill_level>>
mux_registers == <<shadow_src, pending, active_src>>
mux_vars == <<mux_inputs, mux_registers>>

Source == {"nco", "fifo"}

MuxInit ==
  /\ shadow_src = "nco"
  /\ pending = FALSE
  /\ active_src = "nco"

MuxReset ==
  /\ rst
  /\ shadow_src' = "nco"
  /\ pending' = FALSE
  /\ active_src' = "nco"

\* Mutants of Admissible: one entry short of the threshold; one too many.
AlmostFilled == shadow_src = "nco" \/ fifo_fill_level + 1 >= FillThreshold

OverFilled == shadow_src = "nco" \/ fifo_fill_level > FillThreshold

\* The source in the shadow register may take over at this boundary.
Admissible == shadow_src = "nco" \/ fifo_fill_level >= FillThreshold

KeepSource ==
  /\ shadow_src = active_src
  /\ pending' = FALSE
  /\ UNCHANGED active_src

\* Mutant of SwitchSource: does not ask for pending.
SwitchAtOnce ==
  /\ shadow_src # active_src
  /\ lmfc_boundary
  /\ Admissible
  /\ active_src' = shadow_src
  /\ pending' = FALSE

SwitchSource ==
  /\ shadow_src # active_src
  /\ pending /\ lmfc_boundary
  /\ Admissible
  /\ active_src' = shadow_src
  /\ pending' = FALSE

\* Mutant of WaitForFill: forgets the request.
GiveUp ==
  /\ shadow_src # active_src
  /\ pending /\ lmfc_boundary
  /\ ~Admissible
  /\ pending' = FALSE
  /\ UNCHANGED active_src

WaitForFill ==
  /\ shadow_src # active_src
  /\ pending /\ lmfc_boundary
  /\ ~Admissible
  /\ UNCHANGED <<active_src, pending>>

MarkPending ==
  /\ shadow_src # active_src
  /\ ~(pending /\ lmfc_boundary)
  /\ pending' = TRUE
  /\ UNCHANGED active_src

MuxClock ==
  /\ ~rst
  /\ shadow_src' = src_sel
  /\ KeepSource \/ SwitchSource \/ WaitForFill \/ MarkPending

\* The selected source drives the samples and their valid flag.
SamplesValid(nco_valid, fifo_valid) ==
  IF active_src = "nco" THEN nco_valid ELSE fifo_valid
=============================================================================
