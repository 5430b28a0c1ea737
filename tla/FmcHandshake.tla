---------------------------- MODULE FmcHandshake ----------------------------
(***************************************************************************)
(* fmc_handshake (projects/agilex5_devkit/src/fmc_handshake.sv): the gate  *)
(* that keeps the JESD transceivers in reset until the FMC card has been   *)
(* seen, with its power good, for HOLDOFF_CYCLES.  Both inputs come from   *)
(* outside the clock, bounce, and go through two flip-flops each.          *)
(***************************************************************************)
EXTENDS Naturals

CONSTANT HoldOff  \* HOLDOFF_CYCLES

ASSUME HoldOffAssumption == HoldOff \in Nat

VARIABLES
  rst, present, pg_m2c,  \* inputs; present is not fmc_prsnt_n
  present_q, pg_q,       \* <<q0, q1>> of each synchroniser
  hold_cnt, ready_q,
  runs                   \* history, see Recorded

inputs == <<rst, present, pg_m2c>>
registers == <<present_q, pg_q, hold_cnt, ready_q>>
vars == <<inputs, registers, runs>>

Min2(a, b) == IF a < b THEN a ELSE b

Init ==
  /\ rst = TRUE /\ present \in BOOLEAN /\ pg_m2c \in BOOLEAN
  /\ present_q = <<FALSE, FALSE>> /\ pg_q = <<FALSE, FALSE>>
  /\ hold_cnt = 0 /\ ready_q = FALSE
  /\ runs = <<0, 0, 0>>
-----------------------------------------------------------------------------
ready_now == present_q[2] /\ pg_q[2]

Synchronise ==
  /\ present_q' = <<present, present_q[1]>>
  /\ pg_q' = <<pg_m2c, pg_q[1]>>

\* Mutants of Filter: a count that a bounce does not restart; a count that
\* starts over when it is complete.
KeepCount ==
  IF ~ready_now THEN ready_q' = FALSE /\ UNCHANGED hold_cnt
  ELSE IF hold_cnt = HoldOff THEN ready_q' = TRUE /\ UNCHANGED hold_cnt
  ELSE hold_cnt' = hold_cnt + 1 /\ UNCHANGED ready_q

CountAgain ==
  IF ~ready_now THEN hold_cnt' = 0 /\ ready_q' = FALSE
  ELSE IF hold_cnt = HoldOff THEN ready_q' = TRUE /\ hold_cnt' = 0
  ELSE hold_cnt' = hold_cnt + 1 /\ ready_q' = FALSE

Filter ==
  IF ~ready_now THEN hold_cnt' = 0 /\ ready_q' = FALSE
  ELSE IF hold_cnt = HoldOff THEN ready_q' = TRUE /\ UNCHANGED hold_cnt
  ELSE hold_cnt' = hold_cnt + 1 /\ UNCHANGED ready_q

\* runs[1] counts, up to HoldOff + 1, the edges in a row out of reset that have
\* sampled a card with its power good; runs[2] and runs[3] are what it was one
\* and two edges ago.
Recorded(good) ==
  runs' = << IF good THEN Min2(runs[1] + 1, HoldOff + 1) ELSE 0, runs[1], runs[2] >>

ResetEdge ==
  /\ rst
  /\ present_q' = <<FALSE, FALSE>> /\ pg_q' = <<FALSE, FALSE>>
  /\ hold_cnt' = 0 /\ ready_q' = FALSE
  /\ runs' = <<0, 0, 0>>
  /\ UNCHANGED inputs

ClockEdge ==
  /\ ~rst
  /\ Synchronise
  /\ Filter
  /\ Recorded(present /\ pg_m2c)
  /\ UNCHANGED inputs

\* The presence contact closes or opens.
Bounce ==
  /\ present' = ~present
  /\ UNCHANGED <<rst, pg_m2c, registers, runs>>

PowerChange ==
  /\ pg_m2c' = ~pg_m2c
  /\ UNCHANGED <<rst, present, registers, runs>>

ResetChange ==
  /\ rst' = ~rst
  /\ UNCHANGED <<present, pg_m2c, registers, runs>>

Next == ResetEdge \/ ClockEdge \/ Bounce \/ PowerChange \/ ResetChange

Spec == Init /\ [][Next]_vars

-----------------------------------------------------------------------------
\* fmc_ready is up only if the card and its power were sampled good at
\* HoldOff + 1 edges in a row up to two edges ago: whatever the pattern of
\* bounces on the two contacts, one bad sample takes the transceivers back to
\* reset three edges later and costs a whole hold-off.
ReadyWasHeld == ready_q => runs[3] = HoldOff + 1

\* A card that has come to rest is reported, and stays reported.
ReadyComes == <>[](present /\ pg_m2c /\ ~rst) => <>[]ready_q
=============================================================================
