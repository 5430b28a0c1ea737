----------------------------- MODULE ErrClrCdc -----------------------------
(***************************************************************************)
(* The way of one bit of JESD_SYNC_ERR, written as 1, to the err_clr input *)
(* of JesdSyncController (ip/dac_controller_0/src/dac_controller_0.vhd):   *)
(* the pulse of the register bank flips a level, the level goes through    *)
(* two flip-flops of the link clock, and a third makes a pulse of every    *)
(* flip.  The four bits are independent.                                   *)
(*                                                                         *)
(* The two clocks interleave in any order, except that a write of the      *)
(* register bank takes AxiToAvmm three control clocks, which last longer   *)
(* than one link clock: between two writes there is a link edge (seen),    *)
(* and the first write after a reset finds the link side out of it.        *)
(***************************************************************************)
EXTENDS TxlinkReset, Naturals

VARIABLES
  jesd_sync_err_clr, err_clr_toggle,                     \* control clock
  err_clr_tog_meta, err_clr_tog_sync, err_clr_tog_prev,  \* link clock
  seen,   \* a link edge has come since the level last had to move
  owed    \* history: clears written and not yet delivered

source == <<jesd_sync_err_clr, err_clr_toggle>>
destination == <<err_clr_tog_meta, err_clr_tog_sync, err_clr_tog_prev>>
vars == <<source, destination, seen, owed, resets>>

Init ==
  /\ InReset
  /\ jesd_sync_err_clr = FALSE /\ err_clr_toggle = FALSE
  /\ err_clr_tog_meta = FALSE /\ err_clr_tog_sync = FALSE
  /\ err_clr_tog_prev = FALSE
  /\ seen = TRUE /\ owed = 0

\* The pulse that JesdSyncController samples.
err_clr_txclk == err_clr_tog_sync # err_clr_tog_prev
-----------------------------------------------------------------------------
\* Mutant of SinkClock: the pulse sets the level instead of flipping it.
SetLevel(write) ==
  /\ ~reset_sink_reset
  /\ write => seen /\ ~jesd_sync_err_clr /\ ~txlink_rst
  /\ jesd_sync_err_clr' = write
  /\ err_clr_toggle' = (err_clr_toggle \/ jesd_sync_err_clr)
  /\ seen' = (seen /\ ~jesd_sync_err_clr)
  /\ owed' = IF jesd_sync_err_clr THEN owed + 1 ELSE owed
  /\ UNCHANGED <<destination, resets>>

\* An edge of the control clock; write is the write strobe of the register
\* bank with a 1 for this bit (p_write, p_err_clr_toggle).
SinkClock(write) ==
  /\ ~reset_sink_reset
  /\ write => seen /\ ~jesd_sync_err_clr /\ ~txlink_rst
  /\ jesd_sync_err_clr' = write
  /\ err_clr_toggle' = (err_clr_toggle # jesd_sync_err_clr)
  /\ seen' = (seen /\ ~jesd_sync_err_clr)
  /\ owed' = IF jesd_sync_err_clr THEN owed + 1 ELSE owed
  /\ UNCHANGED <<destination, resets>>

SinkReset ==
  /\ reset_sink_reset
  /\ jesd_sync_err_clr' = FALSE /\ err_clr_toggle' = FALSE
  /\ UNCHANGED <<destination, seen, owed, resets>>

\* Mutant of Shift: the pulse is made of the first flip-flop.
ShiftShort ==
  /\ err_clr_tog_meta' = err_clr_toggle
  /\ err_clr_tog_sync' = err_clr_toggle
  /\ err_clr_tog_prev' = err_clr_tog_meta

Shift ==
  /\ err_clr_tog_meta' = err_clr_toggle
  /\ err_clr_tog_sync' = err_clr_tog_meta
  /\ err_clr_tog_prev' = err_clr_tog_sync

Delivered == err_clr_txclk /\ ~txlink_rst

LinkClock ==
  /\ IF txlink_rst
     THEN /\ err_clr_tog_meta' = FALSE /\ err_clr_tog_sync' = FALSE
          /\ err_clr_tog_prev' = FALSE
          /\ owed' = 0
     ELSE Shift /\ owed' = IF Delivered THEN owed - 1 ELSE owed
  /\ seen' = TRUE
  /\ ResetSync
  /\ UNCHANGED source

AssertReset ==
  AssertSink /\ UNCHANGED <<source, destination, seen, owed>>

ReleaseReset ==
  /\ ReleaseSink(~err_clr_toggle /\ ~jesd_sync_err_clr /\ seen)
  /\ UNCHANGED <<source, destination, seen, owed>>
=============================================================================
