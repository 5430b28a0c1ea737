---------------------------- MODULE TxlinkReset ----------------------------
(***************************************************************************)
(* p_txlink_rst (ip/dac_controller_0/src/dac_controller_0.vhd): the reset  *)
(* of the control clock, brought to the link clock by two flip-flops.      *)
(* reset_sink_reset is a single bit: an edge that meets it while it        *)
(* changes catches the old or the new value, which is an edge before or    *)
(* after the change.                                                       *)
(***************************************************************************)
VARIABLES reset_sink_reset, txlink_rst_meta, txlink_rst

resets == <<reset_sink_reset, txlink_rst_meta, txlink_rst>>

InReset ==
  /\ reset_sink_reset = TRUE
  /\ txlink_rst_meta = TRUE
  /\ txlink_rst = TRUE

\* One edge of the link clock.
ResetSync ==
  /\ txlink_rst_meta' = reset_sink_reset
  /\ txlink_rst' = txlink_rst_meta
  /\ UNCHANGED reset_sink_reset

\* The reset source, outside the entity: it may act at any time, and holds a
\* reset until `seen', what it is to have been seen everywhere.
AssertSink ==
  /\ ~reset_sink_reset
  /\ reset_sink_reset' = TRUE
  /\ UNCHANGED <<txlink_rst_meta, txlink_rst>>

ReleaseSink(seen) ==
  /\ reset_sink_reset /\ txlink_rst_meta /\ txlink_rst /\ seen
  /\ reset_sink_reset' = FALSE
  /\ UNCHANGED <<txlink_rst_meta, txlink_rst>>
=============================================================================
