------------------------- MODULE BoardStatus_proofs -------------------------
(***************************************************************************)
(* ReadyWasHeld, CoreComesLast and LockIsFresh for every hold-off,         *)
(* multiframe and JESD reset count of at least three.  The gate stands by  *)
(* itself.  The other two rest on counting link edges by control edges: as *)
(* many control edges as have passed since an event, at least as many link *)
(* edges but one have, and one more if ticked.                             *)
(***************************************************************************)
EXTENDS BoardStatus, TLAPS

(* The gate, for any pattern of the two contacts.                          *)

GateType ==
  /\ rst \in BOOLEAN /\ present \in BOOLEAN /\ pg_m2c \in BOOLEAN
  /\ present_q \in BOOLEAN \X BOOLEAN
  /\ pg_q \in BOOLEAN \X BOOLEAN
  /\ hold_cnt \in 0 .. HoldOff
  /\ ready_q \in BOOLEAN
  /\ runs \in (0 .. HoldOff + 1) \X (0 .. HoldOff + 1) \X (0 .. HoldOff + 1)

Capped(n) == IF n < HoldOff + 1 THEN n ELSE HoldOff + 1

\* The flip-flops show which runs are not broken; a run that is not broken is
\* one longer than it was an edge earlier; the counter is the oldest run, and
\* ready_q says that it is complete.
GateHeld ==
  /\ present_q[1] /\ pg_q[1] <=> runs[1] > 0
  /\ present_q[2] /\ pg_q[2] <=> runs[2] > 0
  /\ runs[1] > 0 => runs[1] = Capped(runs[2] + 1)
  /\ runs[2] > 0 => runs[2] = Capped(runs[3] + 1)
  /\ hold_cnt = IF runs[3] < HoldOff THEN runs[3] ELSE HoldOff
  /\ ready_q <=> runs[3] = HoldOff + 1

GateInv == GateType /\ GateHeld

\* What the contacts, the reset and the other clock do to the gate.
Outside ==
  /\ rst' \in BOOLEAN /\ present' \in BOOLEAN /\ pg_m2c' \in BOOLEAN
  /\ UNCHANGED <<registers, runs>>

GateStep == ResetEdge \/ ClockEdge \/ Outside

LEMMA GateInitial == Init => GateInv
<1> SUFFICES ASSUME Init PROVE GateInv
  OBVIOUS
<1>1. 0 \in 0 .. HoldOff /\ 0 \in 0 .. HoldOff + 1
  BY HoldOffAssumption
<1>2. GateType
  BY <1>1 DEF Init, GateType
<1>3. present_q[1] = FALSE /\ present_q[2] = FALSE /\ ready_q = FALSE
  BY DEF Init
<1>4. runs[1] = 0 /\ runs[2] = 0 /\ runs[3] = 0 /\ hold_cnt = 0
  BY DEF Init
<1>5. GateHeld
  BY <1>3, <1>4, HoldOffAssumption DEF GateHeld
<1>6. QED
  BY <1>2, <1>5 DEF GateInv

LEMMA GateTypeStep == GateType /\ GateStep => GateType'
<1> SUFFICES ASSUME GateType, GateStep PROVE GateType'
  OBVIOUS
<1> USE HoldOffAssumption
<1>1. CASE ResetEdge
  <2>1. 0 \in 0 .. HoldOff /\ 0 \in 0 .. HoldOff + 1
    OBVIOUS
  <2>2. UNCHANGED inputs /\ hold_cnt' \in 0 .. HoldOff /\ ready_q' \in BOOLEAN
    BY <1>1, <2>1 DEF ResetEdge
  <2>3. present_q' \in BOOLEAN \X BOOLEAN /\ pg_q' \in BOOLEAN \X BOOLEAN
    BY <1>1 DEF ResetEdge
  <2>4. runs' \in (0 .. HoldOff + 1) \X (0 .. HoldOff + 1) \X (0 .. HoldOff + 1)
    BY <1>1, <2>1 DEF ResetEdge
  <2>5. QED
    BY <2>2, <2>3, <2>4 DEF GateType, inputs
<1>2. CASE ClockEdge
  <2>1. UNCHANGED inputs
    BY <1>2 DEF ClockEdge
  <2>2. present_q' \in BOOLEAN \X BOOLEAN /\ pg_q' \in BOOLEAN \X BOOLEAN
    BY <1>2 DEF ClockEdge, Synchronise, GateType
  <2>3. hold_cnt' \in 0 .. HoldOff
    BY <1>2 DEF ClockEdge, Filter, GateType
  <2>4. ready_q' \in BOOLEAN
    BY <1>2 DEF ClockEdge, Filter, GateType
  <2>5. runs' \in (0 .. HoldOff + 1) \X (0 .. HoldOff + 1) \X (0 .. HoldOff + 1)
    BY <1>2 DEF ClockEdge, Recorded, Min2, GateType
  <2>6. QED
    BY <2>1, <2>2, <2>3, <2>4, <2>5 DEF GateType, inputs
<1>3. CASE Outside
  BY <1>3 DEF Outside, GateType, registers
<1>4. QED
  BY <1>1, <1>2, <1>3 DEF GateStep

LEMMA GateHeldStep == GateInv /\ GateStep => GateHeld'
<1> SUFFICES ASSUME GateType, GateHeld, GateStep PROVE GateHeld'
  BY DEF GateInv
<1> USE HoldOffAssumption
<1>1. CASE ResetEdge
  BY <1>1 DEF ResetEdge, GateHeld
<1>2. CASE ClockEdge
  <2>1. /\ present_q'[1] = present /\ present_q'[2] = present_q[1]
        /\ pg_q'[1] = pg_m2c /\ pg_q'[2] = pg_q[1]
    BY <1>2 DEF ClockEdge, Synchronise
  <2>2. /\ runs'[1] = IF present /\ pg_m2c THEN Capped(runs[1] + 1) ELSE 0
        /\ runs'[2] = runs[1] /\ runs'[3] = runs[2]
    BY <1>2 DEF ClockEdge, Recorded, Min2, Capped
  <2>3. runs[1] \in 0 .. HoldOff + 1 /\ runs[2] \in 0 .. HoldOff + 1
          /\ runs[3] \in 0 .. HoldOff + 1
    BY DEF GateType
  <2>4. runs'[1] > 0 <=> present /\ pg_m2c
    BY <2>2, <2>3 DEF Capped
  <2>5. /\ present_q'[1] /\ pg_q'[1] <=> runs'[1] > 0
        /\ present_q'[2] /\ pg_q'[2] <=> runs'[2] > 0
    BY <2>1, <2>2, <2>4 DEF GateHeld
  <2>6. /\ runs'[1] > 0 => runs'[1] = Capped(runs'[2] + 1)
        /\ runs'[2] > 0 => runs'[2] = Capped(runs'[3] + 1)
    BY <2>2, <2>4 DEF GateHeld
  <2>7. ready_now <=> runs[2] > 0
    BY DEF ready_now, GateHeld
  <2>8. hold_cnt = IF runs[3] < HoldOff THEN runs[3] ELSE HoldOff
    BY DEF GateHeld
  <2>9. hold_cnt' = IF runs'[3] < HoldOff THEN runs'[3] ELSE HoldOff
    <3>1. CASE runs[2] = 0
      <4>1. hold_cnt' = 0
        BY <1>2, <2>7, <3>1 DEF ClockEdge, Filter
      <4>2. QED
        BY <2>2, <3>1, <4>1
    <3>2. CASE runs[2] > 0
      <4>1. hold_cnt' = IF hold_cnt = HoldOff THEN HoldOff ELSE hold_cnt + 1
        BY <1>2, <2>7, <3>2 DEF ClockEdge, Filter
      <4>2. runs[2] = Capped(runs[3] + 1)
        BY <3>2 DEF GateHeld
      <4>3. QED
        BY <2>2, <2>3, <2>8, <4>1, <4>2 DEF Capped
    <3>3. QED
      BY <2>3, <3>1, <3>2
  <2>10. ready_q' => runs'[3] = HoldOff + 1
    <3> SUFFICES ASSUME ready_q' PROVE runs'[3] = HoldOff + 1
      OBVIOUS
    <3>1. runs[2] > 0 /\ (hold_cnt = HoldOff \/ ready_q)
      BY <1>2, <2>7 DEF ClockEdge, Filter
    <3>2. runs[2] = Capped(runs[3] + 1)
      BY <3>1 DEF GateHeld
    <3>3. runs[3] >= HoldOff
      BY <2>3, <2>8, <3>1 DEF GateHeld
    <3>4. QED
      BY <2>2, <2>3, <3>2, <3>3 DEF Capped
  <2>11. runs'[3] = HoldOff + 1 => ready_q'
    <3> SUFFICES ASSUME runs[2] = HoldOff + 1 PROVE ready_q'
      BY <2>2
    <3>1. runs[2] > 0 /\ ready_now
      BY <2>7
    <3>2. runs[2] = Capped(runs[3] + 1)
      BY <3>1 DEF GateHeld
    <3>3. hold_cnt = HoldOff
      BY <2>3, <2>8, <3>2 DEF Capped
    <3>4. QED
      BY <1>2, <3>1, <3>3 DEF ClockEdge, Filter
  <2>12. QED
    BY <2>5, <2>6, <2>9, <2>10, <2>11 DEF GateHeld, Capped
<1>3. CASE Outside
  BY <1>3 DEF Outside, GateHeld, registers, Capped
<1>4. QED
  BY <1>1, <1>2, <1>3 DEF GateStep

LEMMA GateOwn == GateInv /\ GateStep => GateInv'
  BY GateTypeStep, GateHeldStep DEF GateInv

\* The gate by itself, whose power good may come and go as well.
LEMMA GateKept == Spec => []GateInv
PROOF
<1>1. GateInv /\ [Next]_vars => GateInv'
  <2> SUFFICES ASSUME GateInv, [Next]_vars PROVE GateInv'
    OBVIOUS
  <2>1. CASE ResetEdge \/ ClockEdge
    BY <2>1, GateOwn DEF GateStep
  <2>2. CASE Bounce \/ PowerChange \/ ResetChange \/ UNCHANGED vars
    <3>1. Outside
      BY <2>2 DEF Bounce, PowerChange, ResetChange, vars, inputs, Outside, GateInv, GateType
    <3> QED BY <3>1, GateOwn DEF GateStep
  <2> QED BY <2>1, <2>2 DEF Next
<1> QED BY GateInitial, <1>1, PTL DEF Spec

\* The gate on the board, under its reset and next to its other clock.
LEMMA BoardGateKept == BoardSpec => []GateInv
PROOF
<1>1. BoardInit => GateInv
  BY GateInitial DEF BoardInit
<1>2. GateInv /\ [BoardNext]_board_vars => GateInv'
  <2> SUFFICES ASSUME GateInv, [BoardNext]_board_vars PROVE GateInv'
    OBVIOUS
  <2>1. CASE ControlEdge
    BY <2>1, GateOwn DEF ControlEdge, GateStep
  <2>2. CASE AssertReset \/ ReleaseReset \/ CardChange
    <3>1. Outside
      BY <2>2 DEF AssertReset, ReleaseReset, ResetChange, CardChange, Bounce, Outside,
                  GateInv, GateType
    <3> QED BY <3>1, GateOwn DEF GateStep
  <2>3. CASE LinkEdge \/ LinkChange \/ UNCHANGED board_vars
    <3>1. Outside
      BY <2>3 DEF LinkEdge, LinkChange, board_vars, fmc, inputs, Outside, GateInv, GateType
    <3> QED BY <3>1, GateOwn DEF GateStep
  <2> QED BY <2>1, <2>2, <2>3 DEF BoardNext
<1> QED BY <1>1, <1>2, PTL DEF BoardSpec

\* A card that has been good for a whole hold-off is reported as soon as its
\* samples are through the synchronisers, no edge later.  (In the end:
\* ReadyComes.)
ReadyAtOnce == runs[3] = HoldOff + 1 => ready_q

LEMMA GateSays == GateInv => ReadyWasHeld /\ ReadyAtOnce
  BY DEF GateInv, GateHeld, ReadyWasHeld, ReadyAtOnce

\* fmc_ready is never raised, or kept, without a whole hold-off of good
\* samples of both contacts, for every HOLDOFF_CYCLES: the gate by itself.
THEOREM GateHoldsOff == Spec => []ReadyWasHeld
  BY GateKept, GateSays, PTL

\* And it is raised at once when there has been one.
THEOREM GateReports == Spec => []ReadyAtOnce
  BY GateKept, GateSays, PTL

\* The same on the board, whose reset and other clock come in between.
THEOREM HoldOffKept == BoardSpec => []ReadyWasHeld
  BY BoardGateKept, GateSays, PTL

\* And there, too, a card that has been good for the hold-off is reported.
THEOREM ReadyReported == BoardSpec => []ReadyAtOnce
  BY BoardGateKept, GateSays, PTL
-----------------------------------------------------------------------------
(* The lock that software reads, and the reset of the core.                *)

BitInv ==
  /\ rst \in BOOLEAN /\ ticked \in BOOLEAN /\ jesd_rst_n \in BOOLEAN
  /\ txlink_rst_meta \in BOOLEAN /\ txlink_rst \in BOOLEAN
  /\ grp_release[0] \in BOOLEAN

CountInv ==
  /\ held \in 0 .. ResetStages
  /\ rst_cnt \in 0 .. RstHold - 1
  /\ age \in 0 .. 3

TypeInv == BitInv /\ CountInv

\* What a reset that lasts has done, by its edges.
HeldInv ==
  /\ rst /\ (held >= 2 \/ (held = 1 /\ ticked)) => txlink_rst_meta
  /\ rst /\ (held = 3 \/ (held = 2 /\ ticked)) => txlink_rst
  /\ rst /\ held = 3 /\ ticked => ~grp_release[0]
  /\ rst /\ held >= 1 => /\ rst_cnt = 0 /\ ~jesd_rst_n
                         /\ status_meta = Dark /\ status_sync = Dark

\* How far its end has come on the link side.
CoreInv ==
  ~rst =>
    /\ rst_cnt >= 2 \/ (rst_cnt = 1 /\ ticked) => ~txlink_rst_meta
    /\ rst_cnt >= 3 \/ (rst_cnt = 2 /\ ticked) => ~txlink_rst
    /\ jesd_rst_n => ~txlink_rst_meta /\ ~txlink_rst

\* A release of this life is no older than its last link edge; one that is of
\* the life before ends with the next link edge, before software sees it.
ReleaseInv ==
  /\ grp_release[0] <=> grp_state[0] = "RUNNING"
  /\ rst => age = 3
  /\ ~rst /\ grp_release[0] => IF age = 3 THEN txlink_rst /\ ~ticked
                               ELSE age <= 1 /\ (ticked => age = 0)

\* The flip-flops of the status follow, a control edge each.
StatusInv ==
  ~rst => /\ 0 \in status_meta.synced => age <= 1
          /\ 0 \in status_sync.synced => age <= 2

IInv == TypeInv /\ HeldInv /\ CoreInv /\ ReleaseInv /\ StatusInv
-----------------------------------------------------------------------------
LEMMA BoardInitial == BoardInit => IInv
PROOF
<1> SUFFICES ASSUME BoardInit PROVE IInv
  OBVIOUS
<1>1. /\ rst = TRUE /\ held = 0 /\ rst_cnt = 0 /\ age = 3
      /\ jesd_rst_n = FALSE /\ ticked = FALSE
      /\ txlink_rst_meta = TRUE /\ txlink_rst = TRUE
      /\ grp_state[0] = "WAIT_LOCK" /\ grp_release[0] = FALSE
  BY DEF BoardInit, Init, Group
<1>2. BitInv
  BY <1>1, Zenon DEF BitInv
<1>3. CountInv
  BY <1>1, BoardAssumption DEF CountInv, ResetStages
<1>4. HeldInv /\ CoreInv /\ ReleaseInv /\ StatusInv
  BY <1>1 DEF HeldInv, CoreInv, ReleaseInv, StatusInv
<1> QED BY <1>2, <1>3, <1>4 DEF IInv, TypeInv

\* An edge of the control clock: the counters and the status.
LEMMA ControlOwn ==
  ASSUME IInv, ControlEdge
  PROVE  IInv'
PROOF
<1>1. /\ ticked /\ ticked' = FALSE
      /\ rst' = rst /\ txlink_rst_meta' = txlink_rst_meta /\ txlink_rst' = txlink_rst
      /\ grp_state' = grp_state /\ grp_release' = grp_release
      /\ held' = IF held = 3 THEN held ELSE held + 1
      /\ age' = IF age + 1 < 3 THEN age + 1 ELSE 3
  BY DEF ControlEdge, ResetEdge, ClockEdge, inputs, link_regs, ResetStages, Min2
<1>2. p_jesd_rst /\ p_cdc_status
  BY DEF ControlEdge
<1> USE BoardAssumption
<1>3. TypeInv'
  <2>1. rst_cnt' \in 0 .. RstHold - 1
    BY <1>2 DEF p_jesd_rst, IInv, TypeInv, BitInv, CountInv
  <2>2. jesd_rst_n' \in BOOLEAN
    BY <1>2, Zenon DEF p_jesd_rst
  <2>3. CountInv'
    BY <1>1, <2>1 DEF IInv, TypeInv, CountInv, ResetStages
  <2>4. BitInv'
    BY <1>1, <2>2, Zenon DEF IInv, TypeInv, BitInv
  <2> QED BY <2>3, <2>4 DEF TypeInv
<1>4. CASE rst
  <2>1. rst_cnt' = 0 /\ ~jesd_rst_n' /\ status_meta' = Dark /\ status_sync' = Dark
    BY <1>2, <1>4 DEF p_jesd_rst, p_cdc_status
  <2>2. HeldInv'
    BY <1>1, <1>4, <2>1 DEF IInv, TypeInv, BitInv, CountInv, HeldInv, ResetStages, Dark
  <2>3. CoreInv' /\ ReleaseInv' /\ StatusInv'
    BY <1>1, <1>4 DEF IInv, TypeInv, BitInv, CountInv, CoreInv, ReleaseInv, StatusInv
  <2> QED BY <1>3, <2>2, <2>3 DEF IInv
<1>5. CASE ~rst
  <2>1. HeldInv'
    BY <1>1, <1>5 DEF HeldInv
  <2>2. CoreInv'
    <3>1. CASE rst_cnt # RstHold - 1
      BY <1>1, <1>2, <1>5, <3>1 DEF p_jesd_rst, IInv, TypeInv, BitInv, CountInv, CoreInv
    <3>2. CASE rst_cnt = RstHold - 1
      BY <1>1, <1>2, <1>5, <3>2 DEF p_jesd_rst, IInv, TypeInv, BitInv, CountInv, CoreInv
    <3> QED BY <3>1, <3>2
  <2>3. ReleaseInv'
    BY <1>1, <1>5 DEF IInv, TypeInv, BitInv, CountInv, ReleaseInv
  <2>4. StatusInv'
    <3>1. status_meta' = Status /\ status_sync' = status_meta
      BY <1>2, <1>5 DEF p_cdc_status
    <3>2. 0 \in Status.synced => grp_release[0]
      BY DEF Status, IInv, ReleaseInv
    <3>3. 0 \in Status.synced => age = 0
      BY <1>1, <1>5, <3>2 DEF IInv, TypeInv, BitInv, CountInv, ReleaseInv
    <3> QED BY <1>1, <1>5, <3>1, <3>3 DEF IInv, TypeInv, BitInv, CountInv, StatusInv
  <2> QED BY <1>3, <2>1, <2>2, <2>3, <2>4 DEF IInv
<1> QED BY <1>4, <1>5

\* The state machine of group 0 keeps its release flag.
LEMMA LinkGroup ==
  ASSUME IInv, LinkEdge
  PROVE  /\ grp_release'[0] \in BOOLEAN
         /\ grp_release'[0] <=> grp_state'[0] = "RUNNING"
         /\ txlink_rst => ~grp_release'[0]
PROOF
<1>1. 0 \in Group
  BY DEF Group
<1>2. CASE txlink_rst
  BY <1>1, <1>2 DEF LinkEdge, LinkReset
<1>3. CASE ~txlink_rst
  <2>1. grp_state'[0] = Sync!NextState(0) /\ grp_release'[0] = Sync!NextRelease(0)
    BY <1>1, <1>3 DEF LinkEdge, LinkStep
  <2>2. grp_release[0] \in BOOLEAN /\ (grp_release[0] <=> grp_state[0] = "RUNNING")
    BY DEF IInv, TypeInv, BitInv, CountInv, ReleaseInv
  <2>3. Sync!NextRelease(0) \in BOOLEAN
    BY <2>2 DEF Sync!NextRelease, Sync!Running, Sync!AllReady
  <2>4. Sync!NextRelease(0) <=> Sync!NextState(0) = "RUNNING"
    BY <2>2 DEF Sync!NextRelease, Sync!NextState, Sync!Running
  <2> QED BY <1>3, <2>1, <2>3, <2>4
<1> QED BY <1>2, <1>3

LEMMA LinkOwn ==
  ASSUME IInv, LinkEdge
  PROVE  IInv'
PROOF
<1>1. /\ ticked'
      /\ txlink_rst_meta' = rst /\ txlink_rst' = txlink_rst_meta
      /\ UNCHANGED <<rst, held, rst_cnt, jesd_rst_n, status_meta, status_sync>>
  BY DEF LinkEdge, Reset!ResetSync, fmc, inputs, control_regs
<1>2. age' = IF grp_release'[0] /\ (age < 3 \/ (~rst /\ ~grp_release[0])) THEN 0 ELSE age
  BY DEF LinkEdge, Watched
<1>3. /\ grp_release'[0] \in BOOLEAN
      /\ grp_release'[0] <=> grp_state'[0] = "RUNNING"
      /\ txlink_rst => ~grp_release'[0]
  BY LinkGroup
<1>4. TypeInv'
  BY <1>1, <1>2, <1>3 DEF IInv, TypeInv, BitInv, CountInv
<1>5. HeldInv'
  BY <1>1, <1>3 DEF IInv, TypeInv, BitInv, CountInv, HeldInv, ResetStages, Dark
<1>6. CoreInv'
  BY <1>1, BoardAssumption DEF IInv, TypeInv, BitInv, CountInv, CoreInv
<1>7. ReleaseInv'
  BY <1>1, <1>2, <1>3 DEF IInv, TypeInv, BitInv, CountInv, ReleaseInv
<1>8. StatusInv'
  BY <1>1, <1>2 DEF IInv, TypeInv, BitInv, CountInv, StatusInv
<1> QED BY <1>4, <1>5, <1>6, <1>7, <1>8 DEF IInv

LEMMA ResetOwn ==
  ASSUME IInv, AssertReset \/ ReleaseReset
  PROVE  IInv'
PROOF
<1>1. /\ UNCHANGED <<rst_cnt, status_meta, status_sync, grp_state>>
      /\ jesd_rst_n' = jesd_rst_n /\ ticked' = ticked /\ grp_release' = grp_release
      /\ txlink_rst_meta' = txlink_rst_meta /\ txlink_rst' = txlink_rst
  BY DEF AssertReset, ReleaseReset, control_regs, link_regs
<1>2. CASE AssertReset
  <2>1. rst' = TRUE /\ held' = 0 /\ age' = 3
    BY <1>2 DEF AssertReset
  <2> QED BY <1>1, <2>1
    DEF IInv, TypeInv, BitInv, CountInv, HeldInv, CoreInv, ReleaseInv,
        StatusInv, ResetStages
<1>3. CASE ReleaseReset
  <2>1. rst /\ rst' = FALSE /\ held = 3 /\ UNCHANGED <<held, age>>
    BY <1>3 DEF ReleaseReset, ResetChange, control_regs, ResetStages,
                IInv, TypeInv, BitInv, CountInv
  <2>2. 0 \notin status_meta.synced /\ 0 \notin status_sync.synced
    BY <2>1 DEF IInv, HeldInv, Dark
  <2>3. rst_cnt = 0 /\ ~jesd_rst_n
    BY <2>1 DEF IInv, HeldInv
  <2>4. CoreInv'
    BY <1>1, <2>3 DEF CoreInv
  <2>5. ReleaseInv'
    BY <1>1, <2>1 DEF IInv, TypeInv, BitInv, CountInv, HeldInv, ReleaseInv
  <2>6. TypeInv'
    <3>1. BitInv'
      BY <1>1, <2>1, Zenon DEF IInv, TypeInv, BitInv
    <3>2. CountInv'
      BY <1>1, <2>1 DEF IInv, TypeInv, CountInv
    <3> QED BY <3>1, <3>2 DEF TypeInv
  <2>7. HeldInv' /\ StatusInv'
    BY <2>1, <2>2, <1>1 DEF HeldInv, StatusInv
  <2> QED BY <2>4, <2>5, <2>6, <2>7 DEF IInv
<1> QED BY <1>2, <1>3

LEMMA BoardStep == IInv /\ [BoardNext]_board_vars => IInv'
PROOF
<1> SUFFICES ASSUME IInv, [BoardNext]_board_vars PROVE IInv'
  OBVIOUS
<1>1. CASE ControlEdge
  BY <1>1, ControlOwn
<1>2. CASE AssertReset \/ ReleaseReset
  BY <1>2, ResetOwn
<1>3. CASE LinkEdge
  BY <1>3, LinkOwn
<1>4. CASE LinkChange \/ CardChange \/ UNCHANGED board_vars
  <2>1. UNCHANGED <<rst, control_regs, link_regs, ticked, age>>
    BY <1>4 DEF LinkChange, CardChange, Bounce, board_vars, fmc, inputs
  <2> QED BY <2>1
    DEF IInv, TypeInv, BitInv, CountInv, HeldInv, CoreInv, ReleaseInv, StatusInv,
        control_regs, link_regs, Dark
<1> QED BY <1>1, <1>2, <1>3, <1>4 DEF BoardNext

LEMMA BoardCorrect == BoardSpec => []IInv
  BY BoardInitial, BoardStep, PTL DEF BoardSpec

\* The JESD core leaves reset after the controller that feeds it, for every
\* reset count of at least three: the two flip-flops of p_txlink_rst and the
\* edge that may have come before the reset ended.
THEOREM CoreLast == BoardSpec => []CoreComesLast
PROOF
<1>1. IInv => CoreComesLast
  BY DEF IInv, CoreInv, CoreComesLast
<1> QED BY <1>1, BoardCorrect, PTL

\* A lock that software reads is of a release of this life of the board, at
\* most three control clocks old.
THEOREM LockFresh == BoardSpec => []LockIsFresh
PROOF
<1>1. IInv => LockIsFresh
  BY DEF IInv, TypeInv, BitInv, CountInv, StatusInv, LockIsFresh, lock_mask
<1> QED BY <1>1, BoardCorrect, PTL
=============================================================================
