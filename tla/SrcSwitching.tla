---------------------------- MODULE SrcSwitching ----------------------------
(***************************************************************************)
(* DataSrcMux, a boundary and a fill level that change at any time between *)
(* edges, and a history variable that counts how long a request stood.     *)
(* LinkControl composes it with the way of the select.                     *)
(***************************************************************************)
EXTENDS DataSrcMux

\* asked: the number of edges in a row, up to two, at which src_sel differed
\* from the source that is active after the edge.
VARIABLE asked

vars == <<mux_vars, asked>>

Init ==
  /\ MuxInit
  /\ rst = TRUE
  /\ src_sel \in Source
  /\ lmfc_boundary = FALSE
  /\ fifo_fill_level = 0
  /\ asked = 0

WatchedReset == MuxReset /\ asked' = 0

WatchedClock ==
  /\ MuxClock
  /\ asked' = IF src_sel = active_src' THEN 0
              ELSE IF active_src' # active_src THEN 1
              ELSE IF asked = 2 THEN 2 ELSE asked + 1

Boundary ==
  /\ lmfc_boundary' = ~lmfc_boundary
  /\ UNCHANGED <<rst, src_sel, fifo_fill_level, mux_registers, asked>>

Fill ==
  /\ fifo_fill_level' \in (0 .. FifoDepth) \ {fifo_fill_level}
  /\ UNCHANGED <<rst, src_sel, lmfc_boundary, mux_registers, asked>>
-----------------------------------------------------------------------------
TypeOK ==
  /\ rst \in BOOLEAN
  /\ src_sel \in Source
  /\ lmfc_boundary \in BOOLEAN
  /\ fifo_fill_level \in 0 .. FifoDepth
  /\ shadow_src \in Source
  /\ pending \in BOOLEAN
  /\ active_src \in Source
  /\ asked \in 0 .. 2

\* A switch answers a request that stood for two edges in a row: src_sel may
\* glitch for one clock, or be taken back, without the samples ever changing
\* source, however the glitches fall around the boundaries.
SwitchWasAskedTwice ==
  [][active_src' # active_src /\ ~rst => asked = 2]_vars

\* The status that software polls is honest: while no switch is pending and
\* the request has stood, the request is what is being sent.
NotPendingMeansDone == asked = 2 => pending

\* The FIFO takes over filled to the threshold, on a boundary.
FifoStartsFilled ==
  [][active_src' = "fifo" /\ active_src = "nco" =>
       fifo_fill_level >= FillThreshold /\ lmfc_boundary]_vars
=============================================================================
