---------------------------- MODULE FifoCrossing ----------------------------
(***************************************************************************)
(* DcFifo as dac_controller_0 instantiates it: the write side is reset by  *)
(* reset_sink_reset, the read side by txlink_rst, the same reset after the *)
(* two flip-flops of p_txlink_rst.  The ports are driven by any writer and *)
(* any reader (in the present design both are tied off).                   *)
(*                                                                         *)
(* Assumption on the reset source, which is outside the entity: a reset    *)
(* lasts until the read side has seen it (ResetHeld).                      *)
(***************************************************************************)
EXTENDS DcFifo, TxlinkReset

vars == <<fifo_vars, resets>>

Init ==
  /\ FifoInit
  /\ InReset

WrClock ==
  /\ IF reset_sink_reset THEN WrResetEdge ELSE WrEdge
  /\ UNCHANGED resets

RdClock ==
  /\ IF txlink_rst THEN RdResetEdge ELSE RdEdge
  /\ ResetSync

\* The pointers of both sides are cleared, and have been seen to be.
ResetHeld ==
  /\ rd_ptr_gray = Zero /\ rd_gray_before = Zero
  /\ wr_ptr_gray = Zero /\ wr_gray_before = Zero
  /\ wr_ptr_gray_rd_sync = Zero /\ wr_ptr_gray_rd_meta = Zero

AssertReset == AssertSink /\ UNCHANGED fifo_vars

ReleaseReset == ReleaseSink(ResetHeld) /\ UNCHANGED fifo_vars

Next == WrClock \/ RdClock \/ AssertReset \/ ReleaseReset

Spec == Init /\ [][Next]_vars

FairSpec == Spec /\ WF_vars(RdClock) /\ WF_vars(WrClock)
-----------------------------------------------------------------------------
\* What the FIFO holds, from the two binary pointers and the memory.
Held == (wr_ptr_bin + 2 * Depth - rd_ptr_bin) % (2 * Depth)
Contents == [i \in 1 .. Held |-> mem[Address(rd_ptr_bin + i - 1)]]

\* The FIFO is a bounded queue, in whatever order the edges of the two clocks
\* come and whatever the synchronisers catch: nothing lost, repeated,
\* reordered or overwritten, and clean again after every reset.
Queue == INSTANCE FifoQueue WITH
           queue     <- IF reset_sink_reset THEN <<>> ELSE Contents,
           out       <- rd_data,
           valid     <- rd_valid,
           resetting <- reset_sink_reset
ImplementsQueue == Queue!Spec

\* The level that DataSrcMux compares with its threshold, in the read domain,
\* never counts data that is not there.
FillNeverOverstated == ~reset_sink_reset => fill_level <= Held

\* Neither side is shut out for good by what it cannot see: while the FIFO
\* holds something the reader sees that again and again, and while there is
\* room the writer does.
EventuallyVisible ==
  /\ <>[](~reset_sink_reset /\ Held > 0) => []<>(~empty_i)
  /\ <>[](~reset_sink_reset /\ Held < Depth) => []<>(~full_i)
=============================================================================
