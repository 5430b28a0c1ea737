---------------------------- MODULE TxPath_proofs ----------------------------
(***************************************************************************)
(* Proofs about the link clock side.  First JesdSync and JesdSyncTiming,   *)
(* for every set of links and groups and every multiframe length.  Then    *)
(* TxPath, of which JesdSync is a part: the stream on a lane is            *)
(* continuous, for every table, all widths and every tone, while the       *)
(* software selects sources, switches the tone and resets the link clock   *)
(* at any edge.  What an edge does to the tone generator is taken from     *)
(* ToneWave_proofs.                                                        *)
(***************************************************************************)
EXTENDS JesdSyncTiming, TxPath, TLAPS

LEMMA TypeInit == Init => TypeOK
<1>1. 0 \in 0 .. LmfcPeriod - 1
  BY LmfcAssumption
<1>2. QED
  BY <1>1 DEF Init, TypeOK, Mode, SyncState

LEMMA TypeStep == TypeOK /\ [Next]_vars => TypeOK'
<1> SUFFICES ASSUME TypeOK, [Next]_vars PROVE TypeOK'
  OBVIOUS
<1> USE DEF TypeOK, inputs, registers
<1>1. CASE ResetEdge
  <2>1. 0 \in 0 .. LmfcPeriod - 1
    BY LmfcAssumption
  <2>2. QED
    BY <1>1, <2>1 DEF ResetEdge, SyncState
<1>2. ASSUME NEW err_clr \in SUBSET Link, ClockEdge(err_clr)
      PROVE  TypeOK'
  <2>1. lmfc_count' \in 0 .. LmfcPeriod - 1 /\ lmfc_bound' \in BOOLEAN
    BY <1>2, LmfcAssumption DEF ClockEdge, LmfcStep
  <2>2. \A g \in Group : NextState(g) \in SyncState
    BY DEF NextState, SyncState
  <2>3. \A g \in Group : NextRelease(g) \in BOOLEAN
    BY DEF NextRelease, AllReady
  <2>4. sync_err' \in SUBSET Link
    BY <1>2 DEF ClockEdge, ErrStep, Faults
  <2>5. QED
    BY <1>2, <2>1, <2>2, <2>3, <2>4 DEF ClockEdge
<1>3. CASE Input
  BY <1>3 DEF Input, LinkChange, ModeChange, ResetChange
<1>4. CASE UNCHANGED vars
  BY <1>4 DEF vars
<1>5. QED
  BY <1>1, <1>2, <1>3, <1>4 DEF Next, Edge

\* Type correctness of the controller.
THEOREM TypeCorrect == Spec => []TypeOK
BY TypeInit, TypeStep, PTL DEF Spec

-----------------------------------------------------------------------------
\* One edge keeps the release register of a group equal to "the state machine
\* is running": the heart of ReleaseMatchesState.
LEMMA ReleaseStep ==
  ASSUME TypeOK, NEW g \in Group, grp_release[g] <=> Running(g)
  PROVE  NextRelease(g) <=> NextState(g) = "RUNNING"
BY DEF TypeOK, SyncState, NextRelease, NextState, Running

LEMMA ReleaseInductive ==
  TypeOK /\ ReleaseMatchesState /\ [Next]_vars => ReleaseMatchesState'
<1> SUFFICES ASSUME TypeOK, ReleaseMatchesState, [Next]_vars
             PROVE  ReleaseMatchesState'
  OBVIOUS
<1> USE DEF ReleaseMatchesState, Running
<1>1. CASE ResetEdge
  BY <1>1 DEF ResetEdge
<1>2. ASSUME NEW err_clr \in SUBSET Link, ClockEdge(err_clr)
      PROVE  ReleaseMatchesState'
  <2> SUFFICES ASSUME NEW g \in Group
               PROVE  grp_release'[g] <=> grp_state'[g] = "RUNNING"
    OBVIOUS
  <2>1. grp_release'[g] = NextRelease(g) /\ grp_state'[g] = NextState(g)
    BY <1>2 DEF ClockEdge
  <2>2. QED
    BY <2>1, ReleaseStep
<1>3. CASE Input
  BY <1>3 DEF Input, LinkChange, ModeChange, ResetChange, registers
<1>4. CASE UNCHANGED vars
  BY <1>4 DEF vars, registers
<1>5. QED
  BY <1>1, <1>2, <1>3, <1>4 DEF Next, Edge

\* data_release and group_synced always agree.
THEOREM ReleaseCorrect == Spec => []ReleaseMatchesState
<1>1. Init => ReleaseMatchesState
  BY DEF Init, ReleaseMatchesState, Running
<1>2. QED
  BY <1>1, TypeCorrect, ReleaseInductive, PTL DEF Spec

-----------------------------------------------------------------------------
\* A step of the controller is a step of the abstract gate, or changes
\* nothing the gate can see.
LEMMA GateStep ==
  ASSUME TypeOK, ReleaseMatchesState, [Next]_vars
  PROVE  [Gate!Next]_(Gate!vars)
<1>0. /\ \A g \in Group : AllReady(g) \in BOOLEAN
      /\ [g \in Group |-> AllReady(g)] \in [Group -> BOOLEAN]
  BY DEF AllReady
<1>1. CASE ResetEdge
  <2>1. [g \in Group |-> AllReady(g)]' = [g \in Group |-> AllReady(g)]
    BY <1>1 DEF ResetEdge, inputs, AllReady, Required
  <2>2. Gate!Reset
    BY <1>1, <2>1 DEF ResetEdge, inputs, Gate!Reset
  <2>3. QED
    BY <2>2 DEF Gate!Next
<1>2. ASSUME NEW err_clr \in SUBSET Link, ClockEdge(err_clr)
      PROVE  Gate!Next
  <2>1. [g \in Group |-> AllReady(g)]' = [g \in Group |-> AllReady(g)]
    BY <1>2 DEF ClockEdge, inputs, AllReady, Required
  <2>2. ASSUME NEW g \in Group
        PROVE  /\ grp_release'[g] \in BOOLEAN
               /\ grp_release'[g] => AllReady(g)
               /\ grp_release[g] /\ AllReady(g) => grp_release'[g]
               /\ ~grp_release[g] /\ grp_release'[g] => lmfc_bound
    <3>1. grp_release'[g] = NextRelease(g)
      BY <1>2 DEF ClockEdge
    <3>2. grp_release[g] <=> Running(g)
      BY DEF ReleaseMatchesState
    <3>3. grp_release[g] \in BOOLEAN /\ grp_state[g] \in SyncState
      BY DEF TypeOK
    <3>4. QED
      BY <3>1, <3>2, <3>3, <1>0 DEF NextRelease, Running, SyncState
  <2>3. grp_release' \in [Group -> BOOLEAN] /\ lmfc_bound' \in BOOLEAN
    BY <1>2, <2>2 DEF ClockEdge, LmfcStep
  <2>4. Gate!Edge
    BY <1>2, <2>1, <2>2, <2>3 DEF ClockEdge, inputs, Gate!Edge
  <2>5. QED
    BY <2>4 DEF Gate!Next
<1>3. CASE Input
  <2>1. UNCHANGED registers /\ rst' \in BOOLEAN
    BY <1>3 DEF Input, LinkChange, ModeChange, ResetChange, TypeOK
  <2>2. [g \in Group |-> AllReady(g)]' \in [Group -> BOOLEAN]
    BY DEF AllReady
  <2>3. Gate!Environment
    BY <2>1, <2>2 DEF Gate!Environment, registers
  <2>4. QED
    BY <2>3 DEF Gate!Next
<1>4. CASE UNCHANGED vars
  BY <1>4 DEF vars, inputs, registers, Gate!vars, AllReady, Required
<1>5. QED
  BY <1>1, <1>2, <1>3, <1>4 DEF Next, Edge

\* The controller implements the abstract gate, for every number of links,
\* every grouping of them and every multiframe length.
THEOREM GateRefined == Spec => ImplementsGate
<1>1. Init => Gate!Init
  BY DEF Init, Gate!Init, AllReady
<1>2. QED
  BY <1>1, TypeCorrect, ReleaseCorrect, GateStep, PTL
  DEF Spec, ImplementsGate, Gate!Spec

\* A flag is set only at the edge that closes the gate of the link's own
\* group, and only for a link that is down at that edge.
LEMMA FlagStep ==
  ASSUME TypeOK, ReleaseMatchesState, [Next]_vars, NEW l \in sync_err' \ sync_err
  PROVE  l \notin txlink_ready /\ grp_release[GroupOf[l]] /\ ~grp_release'[GroupOf[l]]
<1>1. CASE ResetEdge
  BY <1>1 DEF ResetEdge
<1>2. CASE \E err_clr \in SUBSET Link : ClockEdge(err_clr)
  <2>1. PICK err_clr \in SUBSET Link : ClockEdge(err_clr)
    BY <1>2
  <2>2. l \in Faults
    BY <2>1 DEF ClockEdge, ErrStep
  <2>3. /\ l \in Link /\ l \notin txlink_ready
        /\ Running(GroupOf[l]) /\ ~AllReady(GroupOf[l])
    BY <2>2 DEF Faults
  <2>4. PICK g \in Group : g = GroupOf[l]
    BY <2>3, GroupAssumption
  <2>5. grp_release[g]
    BY <2>3, <2>4 DEF ReleaseMatchesState
  <2>6. grp_release'[g] = NextRelease(g)
    BY <2>1 DEF ClockEdge
  <2>7. ~NextRelease(g)
    BY <2>3, <2>4 DEF NextRelease, Running
  <2>8. QED
    BY <2>3, <2>4, <2>5, <2>6, <2>7
<1>3. CASE Input \/ UNCHANGED vars
  BY <1>3 DEF Input, LinkChange, ModeChange, ResetChange, vars, registers
<1>4. QED
  BY <1>1, <1>2, <1>3 DEF Next, Edge

\* A sticky flag is set only by a link that is down, at the edge that stops
\* its group.
THEOREM FlagsCorrect == Spec => FlagsOnlyOnDrop
<1>1. TypeOK /\ ReleaseMatchesState /\ [Next]_vars
        => [\A l \in sync_err' \ sync_err :
              /\ l \notin txlink_ready
              /\ grp_release[GroupOf[l]]
              /\ ~grp_release'[GroupOf[l]]]_vars
  BY FlagStep
<1>2. QED
  BY TypeCorrect, ReleaseCorrect, <1>1, PTL DEF Spec, FlagsOnlyOnDrop

-----------------------------------------------------------------------------
(* The groups move as one in all-four mode, while the mode is left alone.   *)

LEMMA TNextIsNext == [TNext]_tvars => [Next]_vars
BY DEF TNext, TResetEdge, TClockEdge, TModeChange, TInput, tvars,
       Next, Edge, Input

LEMMA LockstepInductive ==
  TypeOK /\ Lockstep /\ [TNext]_tvars => Lockstep'
<1> SUFFICES ASSUME TypeOK, Lockstep, [TNext]_tvars,
                    mode_kept', sync_mode' = "all_four",
                    NEW g \in Group, NEW h \in Group
             PROVE  /\ grp_state'[g] = grp_state'[h]
                    /\ grp_release'[g] = grp_release'[h]
  BY DEF Lockstep
<1>1. CASE TResetEdge
  BY <1>1 DEF TResetEdge, ResetEdge
<1>2. ASSUME NEW err_clr \in SUBSET Link, TClockEdge(err_clr)
      PROVE  /\ grp_state'[g] = grp_state'[h]
             /\ grp_release'[g] = grp_release'[h]
  <2>1. mode_kept /\ sync_mode = "all_four"
    BY <1>2 DEF TClockEdge, ClockEdge, inputs
  <2>2. grp_state[g] = grp_state[h] /\ grp_release[g] = grp_release[h]
    BY <2>1 DEF Lockstep
  <2>3. AllReady(g) = AllReady(h)
    BY <2>1 DEF AllReady, Required
  <2>4. NextState(g) = NextState(h) /\ NextRelease(g) = NextRelease(h)
    BY <2>2, <2>3 DEF NextState, NextRelease, Running
  <2>5. QED
    BY <1>2, <2>4 DEF TClockEdge, ClockEdge
<1>3. CASE TModeChange
  BY <1>3 DEF TModeChange
<1>4. CASE TInput \/ UNCHANGED tvars
  <2>1. mode_kept /\ sync_mode = "all_four" /\ UNCHANGED registers
    BY <1>4 DEF TInput, LinkChange, ResetChange, history, tvars, vars, inputs
  <2>2. QED
    BY <2>1 DEF Lockstep, registers
<1>5. QED
  BY <1>1, <1>2, <1>3, <1>4 DEF TNext

\* The watched controller is the controller.
LEMMA TSpecInvariants ==
  TSpec => []TypeOK /\ []ReleaseMatchesState /\ []Lockstep
<1>1. TInit => Lockstep
  BY DEF TInit, Init, Lockstep
<1>2. TSpec => Spec
  BY TNextIsNext, PTL DEF TInit, TSpec, Spec
<1>3. QED
  BY <1>1, <1>2, TypeCorrect, ReleaseCorrect, LockstepInductive, PTL DEF TSpec

\* In all-four mode both DACs are released and stopped by the same edges.
THEOREM LockstepCorrect == TSpec => []Lockstep
BY TSpecInvariants, PTL

\* An edge that stops a running group records every link it lost, whatever
\* the software clears in the same edge.
LEMMA DropStep ==
  ASSUME TypeOK, ReleaseMatchesState, Lockstep, [TNext]_tvars,
         NEW g \in Group, mode_kept, ~rst, grp_release[g], ~grp_release'[g]
  PROVE  (Required(g) \ txlink_ready) \subseteq sync_err'
<1>1. Running(g)
  BY DEF ReleaseMatchesState
<1>2. PICK err_clr \in SUBSET Link : ClockEdge(err_clr)
  BY DEF TNext, TResetEdge, TClockEdge, TModeChange, TInput, ResetEdge,
         ModeChange, LinkChange, ResetChange, registers, vars, tvars
<1>3. ~AllReady(g)
  BY <1>1, <1>2 DEF ClockEdge, NextRelease
<1>4. SUFFICES ASSUME NEW l \in Required(g), l \notin txlink_ready
               PROVE  l \in Faults
  BY <1>2 DEF ClockEdge, ErrStep
<1>5. l \in Link /\ GroupOf[l] \in Group
  BY GroupAssumption DEF Required, LinksOf
<1>6. CASE sync_mode = "per_dac"
  <2>1. GroupOf[l] = g
    BY <1>6 DEF Required, LinksOf
  <2>2. QED
    BY <1>1, <1>3, <1>4, <1>5, <2>1 DEF Faults
<1>7. CASE sync_mode = "all_four"
  <2>1. Running(GroupOf[l])
    BY <1>1, <1>5, <1>7 DEF Lockstep, Running
  <2>2. ~AllReady(GroupOf[l])
    BY <1>3, <1>7 DEF AllReady, Required
  <2>3. QED
    BY <1>4, <1>5, <2>1, <2>2 DEF Faults
<1>8. QED
  BY <1>6, <1>7 DEF TypeOK, Mode

\* No loss of a link goes unrecorded while the mode is left alone.
THEOREM DropCorrect == TSpec => DropRecorded
<1>1. TypeOK /\ ReleaseMatchesState /\ Lockstep /\ [TNext]_tvars
        => [\A g \in Group :
              mode_kept /\ ~rst /\ grp_release[g] /\ ~grp_release'[g]
                => (Required(g) \ txlink_ready) \subseteq sync_err']_tvars
  BY DropStep
<1>2. QED
  BY <1>1, TSpecInvariants, PTL DEF TSpec, DropRecorded

-----------------------------------------------------------------------------
(* The inductive invariant of the timing says, for each state of the       *)
(* machine, how many ready edges are behind the group and how many more it *)
(* needs.                                                                  *)

\* Edges a group in WAIT_LMFC still needs, if its links stay ready.
EdgesLeft == IF lmfc_bound THEN 1 ELSE LmfcPeriod - lmfc_count + 1

LatencyInv ==
  /\ lmfc_bound => lmfc_count = 0
  /\ \A g \in Group :
       /\ grp_state[g] = "ERROR" => ready_run[g] = 0
       /\ grp_state[g] = "WAIT_LOCK" => ready_run[g] <= 1
       /\ grp_state[g] = "WAIT_LMFC" =>
            /\ ready_run[g] + EdgesLeft <= LatencyBound
            /\ lmfc_count = 0 => lmfc_bound

\* A running group is always at the same distance from its release as the
\* multiframe counter is from the boundary it was released on.
PhaseInv ==
  \A g \in Group : Running(g) =>
    lmfc_count = IF run_age[g] = LmfcPeriod - 1 THEN 0 ELSE run_age[g] + 1

TInv == TypeOK /\ ReleaseMatchesState /\ HistoryOK /\ LatencyInv /\ PhaseInv

LEMMA TInvInit == TInit => TInv
<1>1. /\ 0 \in 0 .. LmfcPeriod - 1
      /\ 0 \in 0 .. LatencyBound
  BY LmfcAssumption DEF LatencyBound
<1>2. TInit => TypeOK /\ ReleaseMatchesState
  BY <1>1 DEF TInit, Init, TypeOK, Mode, SyncState, ReleaseMatchesState, Running
<1>3. TInit => HistoryOK
  BY <1>1 DEF TInit, HistoryOK
<1>4. TInit => LatencyInv /\ PhaseInv
  BY DEF TInit, Init, LatencyInv, PhaseInv, Running
<1>5. QED
  BY <1>2, <1>3, <1>4 DEF TInv

\* What one clock edge does to the counter.
LEMMA LmfcEdge ==
  ASSUME TypeOK, LmfcStep
  PROVE  /\ lmfc_count' \in 0 .. LmfcPeriod - 1
         /\ lmfc_bound' <=> lmfc_count' = 0
         /\ lmfc_count < LmfcPeriod - 1 =>
              lmfc_count' = lmfc_count + 1 /\ ~lmfc_bound'
         /\ lmfc_count = LmfcPeriod - 1 => lmfc_count' = 0 /\ lmfc_bound'
<1>1. /\ lmfc_count \in Int /\ 0 <= lmfc_count /\ lmfc_count <= LmfcPeriod - 1
      /\ LmfcPeriod \in Int /\ LmfcPeriod >= 1
  BY LmfcAssumption DEF TypeOK
<1>2. CASE lmfc_count = LmfcPeriod - 1
  <2>1. lmfc_bound' /\ lmfc_count' = 0
    BY <1>2 DEF LmfcStep
  <2>2. QED
    BY <1>1, <1>2, <2>1
<1>3. CASE lmfc_count < LmfcPeriod - 1
  <2>1. lmfc_count # LmfcPeriod - 1
    BY <1>1, <1>3
  <2>2. lmfc_count' = lmfc_count + 1 /\ ~lmfc_bound'
    BY <2>1 DEF LmfcStep
  <2>3. QED
    BY <1>1, <1>3, <2>2
<1>4. QED
  BY <1>1, <1>2, <1>3

LEMMA HistoryEdge ==
  ASSUME TypeOK, HistoryOK, NEW err_clr \in SUBSET Link, TClockEdge(err_clr)
  PROVE  HistoryOK'
<1>1. \A g \in Group : NextReadyRun(g) \in 0 .. LatencyBound
  BY LmfcAssumption DEF HistoryOK, NextReadyRun, LatencyBound
<1>2. \A g \in Group : NextRunAge(g) \in 0 .. LmfcPeriod - 1
  BY LmfcAssumption DEF HistoryOK, NextRunAge
<1>3. QED
  BY <1>1, <1>2 DEF HistoryOK, TClockEdge

LEMMA LatencyEdge ==
  ASSUME TInv, NEW err_clr \in SUBSET Link, TClockEdge(err_clr)
  PROVE  LatencyInv'
<1>1. LmfcStep /\ TypeOK
  BY DEF TClockEdge, ClockEdge, TInv
<1>2. /\ lmfc_count \in 0 .. LmfcPeriod - 1 /\ lmfc_bound \in BOOLEAN
      /\ lmfc_count' \in 0 .. LmfcPeriod - 1 /\ LmfcPeriod \in Nat \ {0}
      /\ lmfc_bound => lmfc_count = 0
  BY <1>1, LmfcEdge, LmfcAssumption DEF TypeOK, TInv, LatencyInv
<1>3. /\ lmfc_bound' <=> lmfc_count' = 0
      /\ lmfc_count < LmfcPeriod - 1 =>
           lmfc_count' = lmfc_count + 1 /\ ~lmfc_bound'
      /\ lmfc_count = LmfcPeriod - 1 => lmfc_count' = 0 /\ lmfc_bound'
  BY <1>1, LmfcEdge
<1>a. /\ lmfc_bound' => EdgesLeft' = 1
      /\ ~lmfc_bound' => EdgesLeft' = LmfcPeriod - lmfc_count' + 1
  BY DEF EdgesLeft
<1>b. EdgesLeft' <= LmfcPeriod /\ EdgesLeft' \in Int
  BY <1>2, <1>3, <1>a
<1>4. SUFFICES ASSUME NEW g \in Group
      PROVE  /\ grp_state'[g] = "ERROR" => ready_run'[g] = 0
             /\ grp_state'[g] = "WAIT_LOCK" => ready_run'[g] <= 1
             /\ grp_state'[g] = "WAIT_LMFC" =>
                  /\ ready_run'[g] + EdgesLeft' <= LatencyBound
                  /\ lmfc_count' = 0 => lmfc_bound'
  BY <1>3 DEF LatencyInv, LatencyBound
<1>5. /\ grp_state'[g] = NextState(g) /\ ready_run'[g] = NextReadyRun(g)
      /\ grp_state[g] \in SyncState /\ ready_run[g] \in 0 .. LatencyBound
  BY DEF TClockEdge, ClockEdge, TInv, TypeOK, HistoryOK
<1>6. CASE grp_state[g] = "WAIT_LOCK"
  <2>1. ready_run[g] <= 1
    BY <1>6 DEF TInv, LatencyInv
  <2>2. CASE AllReady(g)
    <3>1. grp_state'[g] = "WAIT_LMFC" /\ ready_run'[g] <= 2
      BY <1>2, <1>5, <1>6, <2>1, <2>2
      DEF NextState, NextReadyRun, LatencyBound
    <3>2. ready_run'[g] \in Int
      BY <1>2, <1>5 DEF NextReadyRun, LatencyBound
    <3>3. QED
      BY <1>2, <1>3, <1>b, <3>1, <3>2 DEF LatencyBound
  <2>3. CASE ~AllReady(g)
    BY <1>5, <1>6, <2>3 DEF NextState, NextReadyRun
  <2>4. QED
    BY <2>2, <2>3
<1>7. CASE grp_state[g] = "WAIT_LMFC"
  <2>1. ready_run[g] + EdgesLeft <= LatencyBound /\ (lmfc_count = 0 => lmfc_bound)
    BY <1>7 DEF TInv, LatencyInv
  <2>2. CASE AllReady(g) /\ lmfc_bound
    BY <1>5, <1>7, <2>2 DEF NextState
  <2>3. CASE AllReady(g) /\ ~lmfc_bound
    <3>1. grp_state'[g] = "WAIT_LMFC"
      BY <1>5, <1>7, <2>3 DEF NextState
    <3>2. ready_run[g] + LmfcPeriod - lmfc_count + 1 <= LatencyBound
      BY <1>2, <1>5, <2>1, <2>3 DEF EdgesLeft, LatencyBound
    <3>3. lmfc_count >= 1
      BY <1>2, <2>1, <2>3
    <3>4. ready_run'[g] = ready_run[g] + 1
      BY <1>2, <1>5, <2>3, <3>2, <3>3 DEF NextReadyRun, LatencyBound
    <3>5. EdgesLeft' = LmfcPeriod - lmfc_count
      BY <1>2, <1>3, <1>a, <3>3
    <3>6. QED
      BY <1>2, <1>3, <1>5, <3>1, <3>2, <3>4, <3>5 DEF LatencyBound
  <2>4. CASE ~AllReady(g)
    BY <1>5, <1>7, <2>4 DEF NextState, NextReadyRun
  <2>5. QED
    BY <2>2, <2>3, <2>4
<1>8. CASE grp_state[g] = "RUNNING"
  BY <1>5, <1>8 DEF NextState, NextReadyRun
<1>9. CASE grp_state[g] = "ERROR"
  <2>1. ready_run[g] = 0
    BY <1>9 DEF TInv, LatencyInv
  <2>2. ready_run'[g] <= 1 /\ grp_state'[g] = "WAIT_LOCK"
    BY <1>2, <1>5, <1>9, <2>1 DEF NextState, NextReadyRun, LatencyBound
  <2>3. QED
    BY <2>2
<1>10. QED
  BY <1>5, <1>6, <1>7, <1>8, <1>9 DEF SyncState

LEMMA PhaseEdge ==
  ASSUME TInv, NEW err_clr \in SUBSET Link, TClockEdge(err_clr)
  PROVE  PhaseInv'
<1> SUFFICES ASSUME NEW g \in Group, grp_state'[g] = "RUNNING"
             PROVE  lmfc_count' = IF run_age'[g] = LmfcPeriod - 1
                                  THEN 0 ELSE run_age'[g] + 1
  BY DEF PhaseInv, Running
<1>1. /\ LmfcStep /\ TypeOK
      /\ grp_state'[g] = NextState(g) /\ run_age'[g] = NextRunAge(g)
      /\ grp_state[g] \in SyncState /\ run_age[g] \in 0 .. LmfcPeriod - 1
      /\ lmfc_count \in 0 .. LmfcPeriod - 1 /\ LmfcPeriod \in Nat \ {0}
      /\ grp_release[g] <=> Running(g)
  BY LmfcAssumption
  DEF TClockEdge, ClockEdge, TInv, TypeOK, HistoryOK, ReleaseMatchesState
<1>2. \/ grp_state[g] = "WAIT_LMFC" /\ lmfc_bound
      \/ grp_state[g] = "RUNNING"
  BY <1>1 DEF NextState, SyncState
<1>3. CASE grp_state[g] = "WAIT_LMFC" /\ lmfc_bound
  <2>1. lmfc_count = 0 /\ run_age'[g] = 0
    BY <1>1, <1>3 DEF TInv, LatencyInv, NextRunAge, Running
  <2>2. QED
    BY <1>1, <2>1, LmfcEdge
<1>4. CASE grp_state[g] = "RUNNING"
  <2>1. lmfc_count = IF run_age[g] = LmfcPeriod - 1 THEN 0 ELSE run_age[g] + 1
    BY <1>4 DEF TInv, PhaseInv, Running
  <2>2. run_age'[g] = IF run_age[g] = LmfcPeriod - 1 THEN 0 ELSE run_age[g] + 1
    BY <1>1, <1>4 DEF NextRunAge, Running
  <2>3. QED
    BY <1>1, <2>1, <2>2, LmfcEdge
<1>5. QED
  BY <1>2, <1>3, <1>4

LEMMA TInvStep == TInv /\ [TNext]_tvars => TInv'
<1> SUFFICES ASSUME TInv, [TNext]_tvars PROVE TInv'
  OBVIOUS
<1> USE DEF TInv
<1>1. TypeOK'
  BY TNextIsNext, TypeStep
<1>2. ReleaseMatchesState'
  BY TNextIsNext, ReleaseInductive
<1>3. CASE TResetEdge
  <2>1. HistoryOK'
    BY <1>3, LmfcAssumption DEF TResetEdge, HistoryOK, LatencyBound
  <2>2. LatencyInv' /\ PhaseInv'
    BY <1>3 DEF TResetEdge, ResetEdge, LatencyInv, PhaseInv, Running
  <2>3. QED
    BY <1>1, <1>2, <2>1, <2>2
<1>4. ASSUME NEW err_clr \in SUBSET Link, TClockEdge(err_clr)
      PROVE  TInv'
  BY <1>1, <1>2, <1>4, HistoryEdge, LatencyEdge, PhaseEdge
<1>5. CASE TModeChange
  <2>1. UNCHANGED registers /\ ready_run' = [g \in Group |-> 0]
        /\ UNCHANGED run_age
    BY <1>5 DEF TModeChange, ModeChange
  <2>2. HistoryOK'
    BY <2>1, LmfcAssumption DEF HistoryOK, LatencyBound
  <2>3. LatencyInv'
    <3>1. EdgesLeft' = EdgesLeft
      BY <2>1 DEF registers, EdgesLeft
    <3>2. EdgesLeft \in Int /\ EdgesLeft <= LmfcPeriod + 1
      BY LmfcAssumption DEF EdgesLeft, TypeOK
    <3>3. QED
      BY <2>1, <3>1, <3>2, LmfcAssumption DEF registers, LatencyInv, LatencyBound
  <2>4. PhaseInv'
    BY <2>1 DEF registers, PhaseInv, Running
  <2>5. QED
    BY <1>1, <1>2, <2>2, <2>3, <2>4
<1>6. CASE TInput \/ UNCHANGED tvars
  <2>1. UNCHANGED registers /\ UNCHANGED history
    BY <1>6 DEF TInput, LinkChange, ResetChange, tvars, vars
  <2>2. HistoryOK' /\ LatencyInv' /\ PhaseInv'
    BY <2>1 DEF registers, history, HistoryOK, LatencyInv, EdgesLeft,
                PhaseInv, Running
  <2>3. QED
    BY <1>1, <1>2, <2>2
<1>7. QED
  BY <1>3, <1>4, <1>5, <1>6 DEF TNext

LEMMA TInvCorrect == TSpec => []TInv
BY TInvInit, TInvStep, PTL DEF TSpec

\* A group whose links have been ready for LmfcPeriod + 2 edges is running,
\* whatever state a drop, a mode change or a reset left it in.
THEOREM LatencyCorrect == TSpec => []BoundedLatency
<1>1. TInv => BoundedLatency
  <2> SUFFICES ASSUME TInv, NEW g \in Group, ready_run[g] = LatencyBound
               PROVE  grp_release[g]
    BY DEF BoundedLatency
  <2>1. /\ LmfcPeriod \in Nat \ {0} /\ lmfc_count \in 0 .. LmfcPeriod - 1
        /\ grp_state[g] \in SyncState
    BY LmfcAssumption DEF TInv, TypeOK
  <2>2. grp_state[g] # "ERROR" /\ grp_state[g] # "WAIT_LOCK"
    BY <2>1 DEF TInv, LatencyInv, LatencyBound
  <2>3. grp_state[g] # "WAIT_LMFC"
    BY <2>1 DEF TInv, LatencyInv, LatencyBound, EdgesLeft
  <2>4. QED
    BY <2>1, <2>2, <2>3 DEF TInv, ReleaseMatchesState, Running, SyncState
<1>2. QED
  BY <1>1, TInvCorrect, PTL

\* Two running groups were released a whole number of multiframes apart.
THEOREM PhaseCorrect == TSpec => []SamePhase
<1>1. TInv => SamePhase
  <2> SUFFICES ASSUME TInv, NEW g \in Group, NEW h \in Group,
                      grp_release[g], grp_release[h]
               PROVE  run_age[g] = run_age[h]
    BY DEF SamePhase
  <2>1. Running(g) /\ Running(h)
    BY DEF TInv, ReleaseMatchesState
  <2>2. /\ LmfcPeriod \in Nat \ {0}
        /\ run_age[g] \in 0 .. LmfcPeriod - 1
        /\ run_age[h] \in 0 .. LmfcPeriod - 1
    BY LmfcAssumption DEF TInv, HistoryOK
  <2>3. QED
    BY <2>1, <2>2 DEF TInv, PhaseInv
<1>2. QED
  BY <1>1, TInvCorrect, PTL

-----------------------------------------------------------------------------
(* The transmit path.                                                      *)

Gen == INSTANCE ToneWave_proofs WITH sent <- 0, Freq <- {}, Offset <- {}, Amp <- {}

(* The lemmas of Gen ask no more of the constants than TxPath assumes. *)
LEMMA Assumed == Gen!WaveAssumption /\ Gen!SettingsAssumption
BY NcoAssumption DEF Gen!WaveAssumption, Gen!SettingsAssumption

-----------------------------------------------------------------------------
(* The instance the path is built from and the one the lemmas are about have
   one meaning.                                                           *)
LEMMA SameSizes ==
  /\ Nco!Phase = Gen!Phase /\ Nco!Turn = Gen!Turn
  /\ \A x : Nco!wrap(x) = Gen!wrap(x)
BY DEF Nco!Phase, Gen!Phase, Nco!Turn, Gen!Turn, Nco!Quarter, Gen!Quarter, Nco!wrap, Gen!wrap

LEMMA SamePair == \A k : Nco!Pair(k) = Gen!Pair(k)
BY SameSizes DEF Nco!Pair, Gen!Pair, Nco!Sample, Gen!Sample, Nco!Wave, Gen!Wave, Nco!StepOf, Gen!StepOf

LEMMA SameClock == Nco!NcoClock => Gen!NcoClock
<1> SUFFICES ASSUME Nco!NcoClock PROVE Gen!NcoClock
  OBVIOUS
<1>1. Nco!phases = Gen!phases
  BY SameSizes DEF Nco!phases, Gen!phases
<1>2. \A p : Nco!get_quadrant(p) = Gen!get_quadrant(p)
  BY DEF Nco!get_quadrant, Gen!get_quadrant, Nco!Quarter, Gen!Quarter
<1>3. \A p : Nco!get_lut_addr(p) = Gen!get_lut_addr(p)
  BY <1>2 DEF Nco!get_lut_addr, Gen!get_lut_addr
<1>4. Gen!p_phase_acc
  BY SameSizes DEF Nco!NcoClock, Nco!p_phase_acc, Gen!p_phase_acc
<1>5. Gen!p_lut_read
  BY <1>1, <1>2, <1>3 DEF Nco!NcoClock, Nco!p_lut_read, Gen!p_lut_read
<1>6. Gen!p_output
  BY DEF Nco!NcoClock, Nco!p_output, Gen!p_output, Nco!scaled, Gen!scaled,
         Nco!apply_quadrant_sign, Gen!apply_quadrant_sign
<1> QED BY <1>4, <1>5, <1>6 DEF Gen!NcoClock

-----------------------------------------------------------------------------
TypeInv ==
  /\ rst \in BOOLEAN
  /\ csr \in Gen!Settled
  /\ lane_valid_r \in BOOLEAN
  /\ pipe_valid \in BOOLEAN \X BOOLEAN

\* With samples j and j + 1 in the table register, the two before are on the
\* output and the two before those on the lanes, as far as these are valid.
InStep(j) ==
  /\ phase_acc = Gen!AccAt(csr, j + 2)
  /\ Gen!Holds(j)
  /\ pipe_valid[2] => j >= 2 /\ (csr.amp <= Half => out = Gen!Pair(j - 2))
  /\ lane_valid_r => j >= 4 /\ (csr.amp <= Half => lane_data_r = Gen!Pair(j - 4))

StreamInv ==
  /\ pipe_valid[2] => pipe_valid[1]
  /\ ~pipe_valid[1] => phase_acc = 0
  /\ lane_valid_r => pipe_valid[2]
  /\ pipe_valid[1] /\ csr.enable => \E j \in Nat : InStep(j)

PathInv == TypeInv /\ StreamInv

LEMMA PathStarts == PathInit => PathInv
<1> SUFFICES ASSUME PathInit PROVE PathInv
  OBVIOUS
<1>1. csr \in Gen!Settled /\ ~csr.enable
  <2>1. 0 \in Gen!Phase /\ Half - 1 \in 0 .. 2 * Half - 1
    BY NcoAssumption, Assumed, Gen!Sizes DEF Gen!Phase
  <2> QED BY <2>1 DEF PathInit, Default, Gen!Settled
<1>2. pipe_valid = <<FALSE, FALSE>> /\ phase_acc = 0 /\ rst = TRUE /\ lane_valid_r = FALSE
  BY DEF PathInit, Init, Nco!NcoInit
<1>3. TypeInv
  BY <1>1, <1>2 DEF TypeInv
<1>4. StreamInv
  BY <1>1, <1>2 DEF StreamInv
<1> QED BY <1>3, <1>4 DEF PathInv

(* Settings change only where the tone goes off. *)
LEMMA SourceStands ==
  ASSUME csr \in Gen!Settled, SourceInputs
  PROVE  csr' \in Gen!Settled /\ (~rst /\ csr.enable /\ csr'.enable => csr' = csr)
<1>1. Default \in Gen!Settled
  <2>1. 0 \in Gen!Phase /\ Half - 1 \in 0 .. 2 * Half - 1
    BY NcoAssumption, Assumed, Gen!Sizes DEF Gen!Phase
  <2> QED BY <2>1 DEF Default, Gen!Settled
<1>2. Tone \in Gen!Settled /\ ~Tone.enable
  BY ToneAssumption, SameSizes DEF Gen!Settled
<1>3. \A e \in BOOLEAN : [csr EXCEPT !.enable = e] \in Gen!Settled
  BY DEF Gen!Settled
<1>4. \A e \in BOOLEAN : csr.enable /\ [csr EXCEPT !.enable = e].enable => [csr EXCEPT !.enable = e] = csr
  BY DEF Gen!Settled
<1>5. CASE rst
  BY <1>1, <1>5 DEF SourceInputs
<1>6. CASE ~rst
  BY <1>2, <1>3, <1>4, <1>6 DEF SourceInputs
<1> QED BY <1>5, <1>6

LEMMA EdgeTypes ==
  ASSUME TypeInv, PathEdge
  PROVE  TypeInv' /\ rst' = rst
<1>1. rst' = rst
  BY DEF PathEdge, ResetEdge, ClockEdge, inputs
<1>2. csr' \in Gen!Settled
  BY SourceStands DEF PathEdge, TypeInv
<1>3. pipe_valid' \in BOOLEAN \X BOOLEAN
  <2>1. pipe_valid[1] \in BOOLEAN
    BY DEF TypeInv
  <2>2. \A b, c \in BOOLEAN : <<b, c>> \in BOOLEAN \X BOOLEAN
    OBVIOUS
  <2>3. pipe_valid' = <<FALSE, FALSE>> \/ pipe_valid' = <<TRUE, pipe_valid[1]>>
    BY DEF PathEdge, Nco!NcoClock, Nco!p_phase_acc
  <2> QED BY <2>1, <2>2, <2>3
<1>4. lane_valid_r' \in BOOLEAN
  BY DEF PathEdge, p_pack
<1> QED BY <1>1, <1>2, <1>3, <1>4 DEF TypeInv

(* What the lanes take up. *)
LEMMA Packed ==
  ASSUME TypeInv, PathEdge, lane_valid_r'
  PROVE  ~rst /\ csr.enable /\ pipe_valid[2] /\ lane_data_r' = out
<1>1. ~rst /\ mux_valid /\ lane_data_r' = mux_samples
  BY DEF PathEdge, p_pack
<1>2. active_src = "nco" /\ Nco!samples_valid
  BY <1>1 DEF mux_valid, Mux!SamplesValid
<1> QED BY <1>1, <1>2 DEF mux_samples, Nco!samples_valid

LEMMA TonePlaysOn ==
  ASSUME PathInv, PathEdge, ~rst, csr.enable, csr' = csr
  PROVE  StreamInv'
<1>1. csr \in Gen!Settled /\ TypeInv /\ Gen!NcoClock
  BY SameClock DEF PathInv, TypeInv, PathEdge
<1>2. pipe_valid'[1] /\ pipe_valid'[2] = pipe_valid[1]
  <2>1. pipe_valid' = <<TRUE, pipe_valid[1]>>
    BY DEF PathEdge, Nco!NcoClock, Nco!p_phase_acc
  <2>2. \A b : <<TRUE, b>>[1] = TRUE /\ <<TRUE, b>>[2] = b
    OBVIOUS
  <2>3. pipe_valid'[1] = TRUE /\ pipe_valid'[2] = pipe_valid[1]
    BY <2>1, <2>2
  <2> QED BY <2>3
<1>3. lane_valid_r' => pipe_valid[2] /\ pipe_valid[1] /\ lane_data_r' = out
  BY <1>1, Packed DEF PathInv, StreamInv
<1>4. CASE ~pipe_valid[1]
  <2>1. phase_acc = Gen!AccAt(csr, 0)
    BY <1>1, <1>4, Assumed, Gen!AtRest DEF PathInv, StreamInv
  <2>2. phase_acc' = Gen!AccAt(csr, 0 + 2) /\ Gen!Holds(0)'
    BY <1>1, <2>1, Assumed, Gen!TableRead
  <2>3. ~pipe_valid'[2] /\ ~lane_valid_r'
    BY <1>2, <1>3, <1>4
  <2>4. InStep(0)'
    BY <2>2, <2>3 DEF InStep
  <2> QED BY <1>2, <2>3, <2>4 DEF StreamInv
<1>5. CASE pipe_valid[1]
  <2>1. PICK j \in Nat : InStep(j)
    BY <1>5 DEF PathInv, StreamInv
  <2> PICK k \in Nat : k = j + 2
    OBVIOUS
  <2>2. phase_acc' = Gen!AccAt(csr, k + 2) /\ Gen!Holds(k)'
    <3>1. phase_acc = Gen!AccAt(csr, k)
      BY <2>1 DEF InStep
    <3> QED BY <1>1, <3>1, Assumed, Gen!TableRead
  <2>3. csr.amp <= Half => out' = Gen!Pair(k - 2)
    <3>1. Gen!Holds(j) /\ k - 2 = j
      BY <2>1 DEF InStep
    <3>2. ASSUME csr.amp <= Half PROVE out' = Gen!Pair(j)
      BY <1>1, <3>1, <3>2, Assumed, Gen!PairSent
    <3> QED BY <3>1, <3>2
  <2>4. lane_valid_r' => k >= 4 /\ (csr.amp <= Half => lane_data_r' = Gen!Pair(k - 4))
    <3>1. k - 4 = j - 2 /\ k >= 2
      OBVIOUS
    <3> QED BY <1>3, <2>1, <3>1 DEF InStep
  <2>5. Gen!Pair(k - 2)' = Gen!Pair(k - 2) /\ Gen!Pair(k - 4)' = Gen!Pair(k - 4)
    BY DEF Gen!Pair, Gen!Sample
  <2>6. InStep(k)'
    BY <2>2, <2>3, <2>4, <2>5 DEF InStep
  <2> QED BY <1>2, <1>5, <2>6 DEF StreamInv
<1> QED BY <1>4, <1>5

LEMMA StreamKept ==
  ASSUME PathInv, PathEdge
  PROVE  StreamInv'
<1>1. CASE rst \/ ~csr.enable
  <2>1. phase_acc' = 0 /\ pipe_valid' = <<FALSE, FALSE>>
    BY <1>1 DEF PathEdge, Nco!NcoClock, Nco!p_phase_acc
  <2>2. ~lane_valid_r'
    BY <1>1, Packed DEF PathInv
  <2> QED BY <2>1, <2>2 DEF StreamInv
<1>2. CASE ~rst /\ csr.enable /\ ~csr'.enable
  <2>1. pipe_valid' = <<TRUE, pipe_valid[1]>>
    BY <1>2 DEF PathEdge, Nco!NcoClock, Nco!p_phase_acc
  <2>2. lane_valid_r' => pipe_valid[1]
    BY Packed DEF PathInv, StreamInv
  <2> QED BY <1>2, <2>1, <2>2 DEF StreamInv
<1>3. CASE ~rst /\ csr.enable /\ csr'.enable
  <2>1. csr' = csr
    BY <1>3, SourceStands DEF PathEdge, PathInv, TypeInv
  <2> QED BY <1>3, <2>1, TonePlaysOn
<1> QED BY <1>1, <1>2, <1>3

LEMMA PathStep == PathInv /\ [PathNext]_all_vars => PathInv'
<1> SUFFICES ASSUME PathInv, [PathNext]_all_vars PROVE PathInv'
  OBVIOUS
<1>1. CASE PathEdge
  BY <1>1, EdgeTypes, StreamKept DEF PathInv
<1>2. CASE PathInput \/ UNCHANGED all_vars
  <2>1. rst' \in BOOLEAN
    BY <1>2 DEF PathInput, LinkChange, ModeChange, ResetChange, PathInv, TypeInv, all_vars, vars, inputs
  <2>2. UNCHANGED <<csr, phase_acc, raw, quad_d, out, pipe_valid, lane_data_r, lane_valid_r>>
    BY <1>2 DEF PathInput, all_vars, source_inputs, path
  <2>3. TypeInv'
    BY <2>1, <2>2 DEF PathInv, TypeInv
  <2>4. \A j \in Nat : InStep(j) => InStep(j)'
    BY <2>2 DEF InStep, Gen!Holds, Gen!Pair, Gen!Sample
  <2>5. StreamInv'
    BY <2>2, <2>4 DEF PathInv, StreamInv
  <2> QED BY <2>3, <2>5 DEF PathInv
<1> QED BY <1>1, <1>2 DEF PathNext

(* StreamContinuous: consecutive words on a lane are consecutive pairs of
   the tone, through the multiplexer and the packing register.            *)
THEOREM StreamCorrect == PathSpec => StreamContinuous
<1>1. ASSUME PathInv, [PathNext]_all_vars
      PROVE  [PathEdge /\ lane_valid_r /\ lane_valid_r' /\ csr.amp <= Half =>
               \E k \in Nco!Phase :
                 lane_data_r = Nco!Pair(k) /\ lane_data_r' = Nco!Pair(k + 2)]_all_vars
  <2> SUFFICES ASSUME PathEdge, lane_valid_r, lane_valid_r', csr.amp <= Half
               PROVE  \E k \in Nco!Phase :
                        lane_data_r = Nco!Pair(k) /\ lane_data_r' = Nco!Pair(k + 2)
    OBVIOUS
  <2>1. csr \in Gen!Settled /\ csr.enable /\ pipe_valid[1] /\ pipe_valid[2] /\ lane_data_r' = out
    BY <1>1, Packed DEF PathInv, TypeInv, StreamInv
  <2>2. PICK j \in Nat : InStep(j)
    BY <1>1, <2>1 DEF PathInv, StreamInv
  <2>3. lane_data_r = Gen!Pair(j - 4) /\ lane_data_r' = Gen!Pair(j - 2) /\ j - 4 \in Nat
    BY <2>1, <2>2 DEF InStep
  <2> PICK n \in Nat : n = j - 4
    BY <2>3
  <2>4. Gen!wrap(n) \in Nco!Phase /\ Gen!wrap(n) \in Nat
    BY Assumed, Gen!WrapType, SameSizes
  <2>5. Gen!Pair(Gen!wrap(n) + 0) = Gen!Pair(n + 0)
    BY <2>1, Assumed, Gen!PairWraps
  <2>6. Gen!Pair(Gen!wrap(n) + 2) = Gen!Pair(n + 2)
    BY <2>1, Assumed, Gen!PairWraps
  <2>7. Gen!wrap(n) + 0 = Gen!wrap(n) /\ n + 0 = j - 4 /\ n + 2 = j - 2
    BY <2>4
  <2>8. lane_data_r = Nco!Pair(Gen!wrap(n)) /\ lane_data_r' = Nco!Pair(Gen!wrap(n) + 2)
    BY <2>3, <2>5, <2>6, <2>7, SamePair
  <2> QED BY <2>4, <2>8
<1>2. PathSpec => []PathInv
  BY PathStarts, PathStep, PTL DEF PathSpec
<1> QED BY <1>1, <1>2, PTL DEF PathSpec, StreamContinuous
-----------------------------------------------------------------------------
(* The controller on the path.                                             *)

\* On the transmit path the controller does what it does by itself: with its
\* inputs from the board, and its LMFC boundary also driving the multiplexer,
\* all that is proved of Spec holds there.
THEOREM PathControlled == PathSpec => Spec
PROOF
<1>1. PathInit => Init
  BY DEF PathInit
<1>2. [PathNext]_all_vars => [Next]_vars
  <2> SUFFICES ASSUME [PathNext]_all_vars PROVE [Next]_vars
    OBVIOUS
  <2>1. CASE PathEdge
    <3>1. ResetEdge \/ ClockEdge({})
      BY <2>1 DEF PathEdge
    <3>2. {} \in SUBSET Link
      OBVIOUS
    <3> QED BY <3>1, <3>2 DEF Next, Edge
  <2>2. CASE PathInput
    BY <2>2, FedAssumption DEF PathInput, Next, Input
  <2>3. CASE UNCHANGED all_vars
    BY <2>3 DEF all_vars
  <2> QED BY <2>1, <2>2, <2>3 DEF PathNext
<1> QED BY <1>1, <1>2, PTL DEF PathSpec, Spec

\* So the links of the path are fed through a gate that opens on an LMFC
\* boundary with every required link up and closes with the first that drops.
THEOREM PathGated == PathSpec => ImplementsGate
  BY PathControlled, GateRefined
=============================================================================
