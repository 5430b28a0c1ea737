---------------------------- MODULE LinkControl ----------------------------
(***************************************************************************)
(* What software does to a running transmit path, on its way from the      *)
(* register bank to the link clock (ip/dac_controller_0/src/               *)
(* dac_controller_0.vhd): the source select through p_cdc_sync_csr to      *)
(* DataSrcMux, the error clears of ErrClrCdc, and the reset they share.    *)
(* One edge of the link clock moves all of it.                             *)
(***************************************************************************)
EXTENDS SrcSwitching

VARIABLES
  reset_sink_reset, txlink_rst_meta,                     \* rst is txlink_rst
  csr_src_sel, src_sel_meta,                             \* src_sel is src_sel_sync
  jesd_sync_err_clr, err_clr_toggle,
  err_clr_tog_meta, err_clr_tog_sync, err_clr_tog_prev,
  seen, owed

Clears == INSTANCE ErrClrCdc WITH txlink_rst <- rst

clear_bits == <<jesd_sync_err_clr, err_clr_toggle, err_clr_tog_meta,
                err_clr_tog_sync, err_clr_tog_prev, seen, owed>>
resets == <<reset_sink_reset, txlink_rst_meta, rst>>
selects == <<csr_src_sel, src_sel_meta, src_sel>>
fifo_side == <<lmfc_boundary, fifo_fill_level>>
control_vars == <<clear_bits, resets, selects, fifo_side, mux_registers, asked>>

ControlInit ==
  /\ Init /\ Clears!Init
  /\ csr_src_sel = "nco" /\ src_sel_meta = "nco" /\ src_sel = "nco"
-----------------------------------------------------------------------------
p_cdc_sync_csr ==
  IF rst THEN src_sel_meta' = "nco" /\ src_sel' = "nco"
  ELSE src_sel_meta' = csr_src_sel /\ src_sel' = src_sel_meta

LinkEdge ==
  /\ WatchedReset \/ WatchedClock
  /\ p_cdc_sync_csr
  /\ Clears!LinkClock
  /\ UNCHANGED <<csr_src_sel, fifo_side>>

\* A control clock, with or without the write of a clear.
SinkEdge(write) ==
  /\ Clears!SinkClock(write)
  /\ UNCHANGED <<selects, fifo_side, mux_registers, asked>>

\* The write of JESD_TX_SRC_SEL.
WriteSelect(s) ==
  /\ ~reset_sink_reset
  /\ csr_src_sel' = s
  /\ UNCHANGED <<clear_bits, resets, src_sel_meta, src_sel, fifo_side,
                 mux_registers, asked>>

SinkReset ==
  /\ Clears!SinkReset
  /\ csr_src_sel' = "nco"
  /\ UNCHANGED <<src_sel_meta, src_sel, fifo_side, mux_registers, asked>>

AssertReset ==
  /\ Clears!AssertReset
  /\ UNCHANGED <<selects, fifo_side, mux_registers, asked>>

ReleaseReset ==
  /\ csr_src_sel = "nco"
  /\ Clears!ReleaseReset
  /\ UNCHANGED <<selects, fifo_side, mux_registers, asked>>

\* The multiframe boundary and the level of the FIFO come from elsewhere.
Elsewhere ==
  /\ Boundary \/ Fill
  /\ UNCHANGED <<clear_bits, resets, selects>>

ControlNext ==
  \/ LinkEdge
  \/ \E write \in BOOLEAN : SinkEdge(write)
  \/ \E s \in Source : WriteSelect(s)
  \/ SinkReset \/ AssertReset \/ ReleaseReset
  \/ Elsewhere

ControlSpec == ControlInit /\ [][ControlNext]_control_vars

\* The link clock runs.
ControlFairSpec == ControlSpec /\ WF_control_vars(LinkEdge)
-----------------------------------------------------------------------------
\* A source that software selects and leaves selected is sent in the end, the
\* FIFO once it stays filled to the threshold: no order of requests,
\* boundaries and fill levels leaves the switch with its request forgotten.
SelectTakesEffect ==
  \A s \in Source :
    (/\ <>[](/\ csr_src_sel = s /\ ~reset_sink_reset /\ ~rst
             /\ s = "nco" \/ fifo_fill_level >= FillThreshold)
     /\ []<><<LinkEdge /\ lmfc_boundary>>_control_vars)
      => <>[](active_src = s)

\* The controller never sees a clear that nobody wrote: a flag cannot vanish
\* unread, not even when a reset throws the level back in mid-flight.
NoSpuriousClear == [][LinkEdge /\ Clears!Delivered => owed > 0]_control_vars

\* Nor is a clear lost or merged with another: three are under way at most,
\* one for each flip-flop, so the ones that are written go on arriving.
NoClearLost == owed <= 3

\* Left alone, the crossing comes to rest with nothing owed.
ClearsArrive == <>[](~jesd_sync_err_clr) => []<>(owed = 0)
=============================================================================
