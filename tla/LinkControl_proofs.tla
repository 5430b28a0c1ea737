------------------------- MODULE LinkControl_proofs -------------------------
(***************************************************************************)
(* Proofs about what software does to a running path: the source switch,   *)
(* for every FIFO depth and threshold, and the crossing of the error       *)
(* clears, for every interleaving of the two clocks and of resets.         *)
(***************************************************************************)
EXTENDS LinkControl, TLAPS

\* asked counts what the two registers show: none for a request that equals
\* the active source, at least one otherwise, and two only once the switch
\* is pending; a pending switch that is still wanted was asked twice.
AskedInv ==
  /\ asked = 0 <=> shadow_src = active_src
  /\ asked = 2 => pending
  /\ pending /\ shadow_src # active_src => asked = 2

SelectInv == csr_src_sel \in Source /\ src_sel_meta \in Source

SwitchInv == TypeOK /\ SelectInv /\ AskedInv

\* One for a flip of the level that has not come through the flip-flop yet.
Flip(before, after) == IF before = after THEN 0 ELSE 1

ClearType ==
  /\ reset_sink_reset \in BOOLEAN /\ txlink_rst_meta \in BOOLEAN
  /\ rst \in BOOLEAN
  /\ jesd_sync_err_clr \in BOOLEAN /\ err_clr_toggle \in BOOLEAN
  /\ err_clr_tog_meta \in BOOLEAN /\ err_clr_tog_sync \in BOOLEAN
  /\ err_clr_tog_prev \in BOOLEAN /\ seen \in BOOLEAN

\* How far a reset has come, and what its end finds.
PhaseInv ==
  /\ ~reset_sink_reset /\ txlink_rst_meta => rst
  /\ ~reset_sink_reset /\ rst => ~jesd_sync_err_clr /\ ~err_clr_toggle
  /\ rst /\ ~txlink_rst_meta =>
       /\ ~err_clr_tog_meta /\ ~err_clr_tog_sync /\ ~err_clr_tog_prev
       /\ owed = 0

\* The level moves only when its last flip is in the first flip-flop.
SpacedInv ==
  /\ jesd_sync_err_clr => seen
  /\ seen /\ ~reset_sink_reset /\ ~rst => err_clr_toggle = err_clr_tog_meta

\* The clears that are owed are the flips under way.  From its start a reset
\* may flip the level anew, so of the flips only those count that the level
\* of the reset cannot have reached.
OwedInv ==
  /\ owed \in 0 .. 3
  /\ ~rst => owed >= Flip(err_clr_tog_sync, err_clr_tog_prev)
  /\ ~rst /\ ~txlink_rst_meta =>
       owed >= Flip(err_clr_tog_meta, err_clr_tog_sync)
               + Flip(err_clr_tog_sync, err_clr_tog_prev)
  /\ ~rst /\ ~reset_sink_reset =>
       owed = Flip(err_clr_toggle, err_clr_tog_meta)
              + Flip(err_clr_tog_meta, err_clr_tog_sync)
              + Flip(err_clr_tog_sync, err_clr_tog_prev)

ClearInv == ClearType /\ PhaseInv /\ SpacedInv /\ OwedInv

ControlInv == SwitchInv /\ ClearInv
-----------------------------------------------------------------------------
(* The source switch.                                                      *)

LEMMA SwitchInitial == ControlInit => SwitchInv
PROOF
<1> SUFFICES ASSUME ControlInit PROVE SwitchInv
  OBVIOUS
<1>1. 0 \in 0 .. FifoDepth /\ 0 \in 0 .. 2
  BY FillAssumption
<1>2. /\ rst = TRUE /\ lmfc_boundary = FALSE /\ pending = FALSE
      /\ fifo_fill_level = 0 /\ asked = 0
      /\ shadow_src = "nco" /\ active_src = "nco"
      /\ csr_src_sel = "nco" /\ src_sel_meta = "nco" /\ src_sel = "nco"
  BY DEF ControlInit, Init, MuxInit
<1>3. TypeOK
  BY <1>1, <1>2, Zenon DEF TypeOK, Source
<1>4. SelectInv
  BY <1>2 DEF SelectInv, Source
<1>5. AskedInv
  BY <1>2 DEF AskedInv
<1> QED BY <1>3, <1>4, <1>5 DEF SwitchInv

\* An edge out of reset keeps the count true.
LEMMA AskedClock ==
  ASSUME TypeOK, AskedInv, WatchedClock
  PROVE  AskedInv'
PROOF
<1>1. /\ shadow_src' = src_sel
      /\ asked' = IF src_sel = active_src' THEN 0
                  ELSE IF active_src' # active_src THEN 1
                  ELSE IF asked = 2 THEN 2 ELSE asked + 1
      /\ asked \in 0 .. 2
      /\ \A s, t, u \in Source : s # t /\ t # u => s = u
      /\ {shadow_src, active_src, src_sel} \subseteq Source
  <2>1. /\ shadow_src' = src_sel
        /\ asked' = IF src_sel = active_src' THEN 0
                    ELSE IF active_src' # active_src THEN 1
                    ELSE IF asked = 2 THEN 2 ELSE asked + 1
    BY DEF WatchedClock, MuxClock
  <2>2. /\ asked \in 0 .. 2 /\ {shadow_src, active_src, src_sel} \subseteq Source
        /\ \A s, t, u \in Source : s # t /\ t # u => s = u
    BY DEF TypeOK, Source
  <2> QED BY <2>1, <2>2
<1>2. CASE KeepSource
  <2>1. asked = 0 /\ pending' = FALSE /\ active_src' = active_src
    BY <1>2 DEF KeepSource, AskedInv
  <2>2. asked' = IF src_sel = active_src THEN 0 ELSE 1
    BY <1>1, <2>1
  <2>3. asked' # 2 /\ (asked' = 0 <=> src_sel = active_src)
    BY <2>2
  <2> QED BY <1>1, <2>1, <2>3 DEF AskedInv
<1>3. CASE SwitchSource
  <2>1. pending' = FALSE /\ active_src' = shadow_src /\ active_src # shadow_src
    BY <1>3 DEF SwitchSource
  <2>2. asked' = IF src_sel = active_src' THEN 0 ELSE 1
    BY <1>1, <2>1
  <2>3. asked' # 2 /\ (asked' = 0 <=> src_sel = active_src')
    BY <2>2
  <2> QED BY <1>1, <2>1, <2>3 DEF AskedInv
<1>4. CASE WaitForFill \/ MarkPending
  <2>1. pending' /\ active_src' = active_src /\ shadow_src # active_src
    BY <1>4 DEF WaitForFill, MarkPending
  <2>2. asked # 0
    BY <2>1 DEF AskedInv
  <2>3. asked' = IF src_sel = active_src THEN 0 ELSE 2
    BY <1>1, <2>1, <2>2
  <2>4. /\ asked' = 0 <=> src_sel = active_src
        /\ asked' = 2 <=> src_sel # active_src
    BY <2>3
  <2> QED BY <1>1, <2>1, <2>4 DEF AskedInv
<1> QED BY <1>2, <1>3, <1>4 DEF WatchedClock, MuxClock

LEMMA SwitchEdge ==
  ASSUME SwitchInv, LinkEdge, rst' \in BOOLEAN
  PROVE  SwitchInv'
PROOF
<1>1. UNCHANGED <<csr_src_sel, lmfc_boundary, fifo_fill_level>>
  BY DEF LinkEdge, fifo_side
<1>2. src_sel' \in Source /\ src_sel_meta' \in Source
  BY DEF LinkEdge, p_cdc_sync_csr, SwitchInv, SelectInv, Source
<1>3. SelectInv'
  BY <1>1, <1>2 DEF SwitchInv, SelectInv
<1>4. CASE WatchedReset
  <2>1. shadow_src' = "nco" /\ active_src' = "nco" /\ pending' = FALSE /\ asked' = 0
    BY <1>4 DEF WatchedReset, MuxReset
  <2>2. AskedInv'
    BY <2>1 DEF AskedInv
  <2>3. asked' \in 0 .. 2
    BY <2>1
  <2>4. TypeOK'
    BY <1>1, <1>2, <2>1, <2>3 DEF SwitchInv, TypeOK, Source
  <2> QED BY <1>3, <2>2, <2>4 DEF SwitchInv
<1>5. CASE WatchedClock
  <2>1. AskedInv'
    BY <1>5, AskedClock DEF SwitchInv
  <2>2. asked' \in 0 .. 2
    BY <1>5 DEF WatchedClock, SwitchInv, TypeOK
  <2>3. shadow_src' \in Source /\ active_src' \in Source /\ pending' \in BOOLEAN
    BY <1>5 DEF WatchedClock, MuxClock, KeepSource, SwitchSource, WaitForFill,
                MarkPending, SwitchInv, TypeOK
  <2>4. TypeOK'
    BY <1>1, <1>2, <2>2, <2>3 DEF SwitchInv, TypeOK
  <2> QED BY <1>3, <2>1, <2>4 DEF SwitchInv
<1> QED BY <1>4, <1>5 DEF LinkEdge

\* What comes between the edges leaves the registers of the switch alone.
LEMMA SwitchOther ==
  ASSUME SwitchInv, rst' \in BOOLEAN,
         \/ \E write \in BOOLEAN : SinkEdge(write)
         \/ \E s \in Source : WriteSelect(s)
         \/ SinkReset \/ AssertReset \/ ReleaseReset \/ Elsewhere
         \/ UNCHANGED control_vars
  PROVE  SwitchInv'
PROOF
<1>1. UNCHANGED <<src_sel, src_sel_meta, shadow_src, pending, active_src, asked>>
  BY DEF SinkEdge, WriteSelect, SinkReset, AssertReset, ReleaseReset,
         Elsewhere, Boundary, Fill, control_vars, mux_registers, selects
<1>2. /\ lmfc_boundary' \in BOOLEAN
      /\ fifo_fill_level' \in 0 .. FifoDepth
  BY DEF SinkEdge, WriteSelect, SinkReset, AssertReset, ReleaseReset,
         Elsewhere, Boundary, Fill, control_vars, fifo_side, SwitchInv, TypeOK
<1>3. csr_src_sel' \in Source
  BY DEF SinkEdge, WriteSelect, SinkReset, AssertReset, ReleaseReset,
         Elsewhere, control_vars, selects, SwitchInv, SelectInv, Source
<1> QED BY <1>1, <1>2, <1>3 DEF SwitchInv, TypeOK, SelectInv, AskedInv
-----------------------------------------------------------------------------
(* The error clears.                                                       *)

LEMMA ClearInitial == ControlInit => ClearInv
PROOF
<1> SUFFICES ASSUME ControlInit PROVE ClearInv
  OBVIOUS
<1>1. /\ reset_sink_reset = TRUE /\ txlink_rst_meta = TRUE /\ rst = TRUE
      /\ jesd_sync_err_clr = FALSE /\ err_clr_toggle = FALSE
      /\ err_clr_tog_meta = FALSE /\ err_clr_tog_sync = FALSE
      /\ err_clr_tog_prev = FALSE /\ seen = TRUE /\ owed = 0
  BY DEF ControlInit, Clears!Init, Clears!InReset
<1>2. ClearType
  BY <1>1, Zenon DEF ClearType
<1>3. PhaseInv /\ SpacedInv /\ OwedInv
  BY <1>1 DEF PhaseInv, SpacedInv, OwedInv
<1> QED BY <1>2, <1>3 DEF ClearInv

LEMMA ClearEdge ==
  ASSUME ClearInv, Clears!LinkClock
  PROVE  ClearInv'
PROOF
<1>1. /\ txlink_rst_meta' = reset_sink_reset /\ rst' = txlink_rst_meta
      /\ reset_sink_reset' = reset_sink_reset
      /\ jesd_sync_err_clr' = jesd_sync_err_clr
      /\ err_clr_toggle' = err_clr_toggle /\ seen' = TRUE
  BY DEF Clears!LinkClock, Clears!ResetSync, Clears!source
<1>2. CASE rst
  <2>1. /\ err_clr_tog_meta' = FALSE /\ err_clr_tog_sync' = FALSE
        /\ err_clr_tog_prev' = FALSE /\ owed' = 0
    BY <1>2 DEF Clears!LinkClock
  <2>2. ClearType'
    BY <1>1, <2>1, Zenon DEF ClearInv, ClearType
  <2>3. PhaseInv'
    BY <1>1, <1>2, <2>1 DEF ClearInv, PhaseInv
  <2>4. SpacedInv'
    BY <1>1, <1>2, <2>1 DEF ClearInv, ClearType, SpacedInv, PhaseInv
  <2>5. OwedInv'
    <3>1. /\ Flip(err_clr_tog_meta, err_clr_tog_sync)' = 0
          /\ Flip(err_clr_tog_sync, err_clr_tog_prev)' = 0
      BY <2>1 DEF Flip
    <3>2. ~rst' /\ ~reset_sink_reset' => Flip(err_clr_toggle, err_clr_tog_meta)' = 0
      BY <1>1, <1>2, <2>1 DEF ClearInv, ClearType, PhaseInv, Flip
    <3> QED BY <2>1, <3>1, <3>2 DEF OwedInv
  <2> QED BY <2>2, <2>3, <2>4, <2>5 DEF ClearInv
<1>3. CASE ~rst
  <2>1. /\ err_clr_tog_meta' = err_clr_toggle
        /\ err_clr_tog_sync' = err_clr_tog_meta
        /\ err_clr_tog_prev' = err_clr_tog_sync
        /\ owed' = IF err_clr_tog_sync # err_clr_tog_prev THEN owed - 1 ELSE owed
    BY <1>3 DEF Clears!LinkClock, Clears!Shift, Clears!Delivered, Clears!err_clr_txclk
  <2>2. ClearType'
    BY <1>1, <2>1, Zenon DEF ClearInv, ClearType
  <2>3. PhaseInv'
    BY <1>1, <1>3, <2>1 DEF ClearInv, PhaseInv
  <2>4. SpacedInv'
    BY <1>1, <2>1 DEF SpacedInv
  <2>5. OwedInv'
    <3> DEFINE a == Flip(err_clr_toggle, err_clr_tog_meta)
               b == Flip(err_clr_tog_meta, err_clr_tog_sync)
               c == Flip(err_clr_tog_sync, err_clr_tog_prev)
    <3>1. owed' = owed - c /\ c \in {0, 1}
      BY <2>1 DEF OwedInv, ClearInv, Flip
    <3>2. /\ Flip(err_clr_tog_meta, err_clr_tog_sync)' = a
          /\ Flip(err_clr_tog_sync, err_clr_tog_prev)' = b
          /\ a \in {0, 1} /\ b \in {0, 1}
      BY <2>1 DEF Flip
    <3> HIDE DEF a, b, c
    <3>3. Flip(err_clr_toggle, err_clr_tog_meta)' = 0
      BY <1>1, <2>1 DEF Flip
    <3> QED BY <1>1, <1>3, <3>1, <3>2, <3>3 DEF ClearInv, OwedInv, PhaseInv, a, b, c
  <2> QED BY <2>2, <2>3, <2>4, <2>5 DEF ClearInv
<1> QED BY <1>2, <1>3

LEMMA ClearSink ==
  ASSUME ClearInv, NEW write \in BOOLEAN, Clears!SinkClock(write)
  PROVE  ClearInv'
PROOF
<1>1. /\ ~reset_sink_reset
      /\ write => seen /\ ~jesd_sync_err_clr /\ ~rst
      /\ reset_sink_reset' = reset_sink_reset
      /\ txlink_rst_meta' = txlink_rst_meta /\ rst' = rst
      /\ err_clr_tog_meta' = err_clr_tog_meta
      /\ err_clr_tog_sync' = err_clr_tog_sync
      /\ err_clr_tog_prev' = err_clr_tog_prev
      /\ jesd_sync_err_clr' = write
  BY DEF Clears!SinkClock, Clears!destination, Clears!resets
<1>2. CASE jesd_sync_err_clr
  <2>1. /\ seen' = FALSE /\ owed' = owed + 1 /\ write = FALSE
        /\ err_clr_toggle' = ~err_clr_toggle
    BY <1>1, <1>2 DEF Clears!SinkClock, ClearInv, ClearType
  <2>2. seen /\ ~rst /\ ~txlink_rst_meta /\ err_clr_toggle = err_clr_tog_meta
    BY <1>1, <1>2 DEF ClearInv, SpacedInv, PhaseInv
  <2>3. ClearType'
    BY <1>1, <2>1, Zenon DEF ClearInv, ClearType
  <2>4. PhaseInv' /\ SpacedInv'
    BY <1>1, <2>1, <2>2 DEF PhaseInv, SpacedInv
  <2>5. OwedInv'
    BY <1>1, <2>1, <2>2 DEF ClearInv, ClearType, OwedInv, Flip
  <2> QED BY <2>3, <2>4, <2>5 DEF ClearInv
<1>3. CASE ~jesd_sync_err_clr
  <2>1. /\ seen' = seen /\ owed' = owed /\ err_clr_toggle' = err_clr_toggle
    BY <1>3 DEF Clears!SinkClock, ClearInv, ClearType
  <2>2. ClearType'
    BY <1>1, <2>1, Zenon DEF ClearInv, ClearType
  <2>3. PhaseInv' /\ SpacedInv'
    BY <1>1, <2>1 DEF ClearInv, PhaseInv, SpacedInv
  <2>4. OwedInv'
    BY <1>1, <2>1 DEF ClearInv, OwedInv, Flip
  <2> QED BY <2>2, <2>3, <2>4 DEF ClearInv
<1> QED BY <1>2, <1>3

LEMMA ClearReset ==
  ASSUME ClearInv, Clears!SinkReset \/ Clears!AssertReset \/ Clears!ReleaseReset
  PROVE  ClearInv'
PROOF
<1>1. /\ txlink_rst_meta' = txlink_rst_meta /\ rst' = rst
      /\ err_clr_tog_meta' = err_clr_tog_meta
      /\ err_clr_tog_sync' = err_clr_tog_sync
      /\ err_clr_tog_prev' = err_clr_tog_prev
      /\ seen' = seen /\ owed' = owed
  BY DEF Clears!SinkReset, Clears!AssertReset, Clears!ReleaseReset,
         Clears!AssertSink, Clears!ReleaseSink, Clears!destination, Clears!resets
<1>2. CASE Clears!SinkReset
  <2>1. /\ reset_sink_reset /\ reset_sink_reset' = reset_sink_reset
        /\ jesd_sync_err_clr' = FALSE /\ err_clr_toggle' = FALSE
    BY <1>2 DEF Clears!SinkReset, Clears!resets
  <2>2. ClearType'
    BY <1>1, <2>1, Zenon DEF ClearInv, ClearType
  <2> QED BY <1>1, <2>1, <2>2 DEF ClearInv, PhaseInv, SpacedInv, OwedInv, Flip
<1>3. CASE Clears!AssertReset
  <2>1. /\ ~reset_sink_reset /\ reset_sink_reset' = TRUE
        /\ jesd_sync_err_clr' = jesd_sync_err_clr /\ err_clr_toggle' = err_clr_toggle
    BY <1>3 DEF Clears!AssertReset, Clears!AssertSink, Clears!source
  <2>2. ClearType'
    BY <1>1, <2>1, Zenon DEF ClearInv, ClearType
  <2> QED BY <1>1, <2>1, <2>2 DEF ClearInv, PhaseInv, SpacedInv, OwedInv, Flip
<1>4. CASE Clears!ReleaseReset
  <2>1. /\ reset_sink_reset' = FALSE /\ rst /\ txlink_rst_meta
        /\ ~jesd_sync_err_clr /\ ~err_clr_toggle
        /\ jesd_sync_err_clr' = jesd_sync_err_clr /\ err_clr_toggle' = err_clr_toggle
    BY <1>4 DEF Clears!ReleaseReset, Clears!ReleaseSink, Clears!source
  <2>2. ClearType'
    BY <1>1, <2>1, Zenon DEF ClearInv, ClearType
  <2> QED BY <1>1, <2>1, <2>2 DEF ClearInv, PhaseInv, SpacedInv, OwedInv, Flip
<1> QED BY <1>2, <1>3, <1>4
-----------------------------------------------------------------------------
LEMMA ControlStep == ControlInv /\ [ControlNext]_control_vars => ControlInv'
PROOF
<1> SUFFICES ASSUME ControlInv, [ControlNext]_control_vars PROVE ControlInv'
  OBVIOUS
<1>1. ClearInv'
  <2>1. CASE LinkEdge
    BY <2>1, ClearEdge DEF ControlInv, LinkEdge
  <2>2. ASSUME NEW write \in BOOLEAN, SinkEdge(write) PROVE ClearInv'
    BY <2>2, ClearSink DEF ControlInv, SinkEdge
  <2>3. CASE SinkReset \/ AssertReset \/ ReleaseReset
    BY <2>3, ClearReset DEF ControlInv, SinkReset, AssertReset, ReleaseReset
  <2>4. CASE (\E s \in Source : WriteSelect(s)) \/ Elsewhere \/ UNCHANGED control_vars
    <3>1. UNCHANGED <<clear_bits, resets>>
      BY <2>4 DEF WriteSelect, Elsewhere, control_vars
    <3> QED BY <3>1 DEF clear_bits, resets, ControlInv, ClearInv, ClearType,
                        PhaseInv, SpacedInv, OwedInv, Flip
  <2> QED BY <2>1, <2>2, <2>3, <2>4 DEF ControlNext
<1>2. rst' \in BOOLEAN
  BY <1>1 DEF ClearInv, ClearType
<1>3. SwitchInv'
  BY <1>2, SwitchEdge, SwitchOther DEF ControlInv, ControlNext
<1> QED BY <1>1, <1>3 DEF ControlInv

\* The invariant of the switch and of the crossing.
THEOREM ControlInvariant == ControlSpec => []ControlInv
PROOF
<1>1. ControlInit => ControlInv
  BY SwitchInitial, ClearInitial DEF ControlInv
<1> QED BY <1>1, ControlStep, PTL DEF ControlSpec

\* The pending flag tells software the truth about a request that stood.
THEOREM PendingHonest == ControlSpec => []NotPendingMeansDone
PROOF
<1>1. ControlInv => NotPendingMeansDone
  BY DEF ControlInv, SwitchInv, AskedInv, NotPendingMeansDone
<1> QED BY <1>1, ControlInvariant, PTL

\* The source changes only at an edge that switches, or resets.
LEMMA OnlySwitch ==
  ASSUME ControlNext, active_src' # active_src
  PROVE  \/ rst /\ active_src' = "nco"
         \/ ~rst /\ SwitchSource
PROOF
<1>1. LinkEdge
  BY DEF ControlNext, SinkEdge, WriteSelect, SinkReset, AssertReset, ReleaseReset,
         Elsewhere, Boundary, Fill, mux_registers
<1> QED BY <1>1 DEF LinkEdge, WatchedReset, MuxReset, WatchedClock, MuxClock,
                    KeepSource, WaitForFill, MarkPending

\* No glitch of src_sel shorter than two edges moves the samples.
THEOREM SwitchDeliberate == ControlSpec => SwitchWasAskedTwice
PROOF
<1>1. ControlInv /\ [ControlNext]_control_vars
        => [active_src' # active_src /\ ~rst => asked = 2]_vars
  <2> SUFFICES ASSUME ControlInv, [ControlNext]_control_vars,
                      active_src' # active_src, ~rst
               PROVE  asked = 2
    OBVIOUS
  <2>1. ControlNext
    BY DEF control_vars, mux_registers
  <2>2. SwitchSource
    BY <2>1, OnlySwitch
  <2> QED BY <2>2 DEF SwitchSource, ControlInv, SwitchInv, AskedInv
<1> QED BY <1>1, ControlInvariant, PTL DEF ControlSpec, SwitchWasAskedTwice

\* The samples never come from a FIFO that was not filled when it took over.
THEOREM FillRespected == ControlSpec => FifoStartsFilled
PROOF
<1>1. ControlInv /\ [ControlNext]_control_vars
        => [active_src' = "fifo" /\ active_src = "nco" =>
              fifo_fill_level >= FillThreshold /\ lmfc_boundary]_vars
  <2> SUFFICES ASSUME ControlInv, [ControlNext]_control_vars,
                      active_src' = "fifo", active_src = "nco"
               PROVE  fifo_fill_level >= FillThreshold /\ lmfc_boundary
    OBVIOUS
  <2>1. ControlNext
    BY DEF control_vars, mux_registers
  <2>2. SwitchSource
    BY <2>1, OnlySwitch
  <2> QED BY <2>2 DEF SwitchSource, Admissible
<1> QED BY <1>1, ControlInvariant, PTL DEF ControlSpec, FifoStartsFilled

\* At most one clear is under way per flip-flop: none is merged with another.
THEOREM NoneLost == ControlSpec => []NoClearLost
PROOF
<1>1. ControlInv => NoClearLost
  BY DEF ControlInv, ClearInv, OwedInv, NoClearLost
<1> QED BY <1>1, ControlInvariant, PTL

\* A clear that arrives was written, over resets in mid-flight too.
THEOREM NoneInvented == ControlSpec => NoSpuriousClear
PROOF
<1>1. ControlInv /\ [ControlNext]_control_vars
        => [LinkEdge /\ Clears!Delivered => owed > 0]_control_vars
  <2> SUFFICES ASSUME ControlInv, Clears!Delivered PROVE owed > 0
    OBVIOUS
  <2>1. ~rst /\ err_clr_tog_sync # err_clr_tog_prev
    BY DEF Clears!Delivered, Clears!err_clr_txclk
  <2> QED BY <2>1 DEF ControlInv, ClearInv, OwedInv, Flip
<1> QED BY <1>1, ControlInvariant, PTL DEF ControlSpec, NoSpuriousClear
-----------------------------------------------------------------------------
(* How long a clear and a switch take.                                     *)

\* The edges of the link clock until the last clear that is owed arrives:
\* three from the level, less one for each flip-flop behind it.
EdgesLeft ==
  IF err_clr_toggle # err_clr_tog_meta THEN 3
  ELSE IF err_clr_tog_meta # err_clr_tog_sync THEN 2
  ELSE IF err_clr_tog_sync # err_clr_tog_prev THEN 1
  ELSE 0

\* All that is owed has arrived three link edges after the last flip of the
\* level, unless a reset comes: each edge leaves one less, and with none left
\* nothing is owed.  (In the end: ClearsArrive.)
ClearBound ==
  /\ [](~rst /\ ~reset_sink_reset => (owed = 0 <=> EdgesLeft = 0))
  /\ [][LinkEdge /\ ~rst /\ EdgesLeft # 0 => EdgesLeft' = EdgesLeft - 1]_control_vars

LEMMA OneEdgeLess ==
  ASSUME ClearInv, LinkEdge, ~rst, EdgesLeft # 0
  PROVE  EdgesLeft' = EdgesLeft - 1
PROOF
<1>1. /\ err_clr_toggle' = err_clr_toggle
      /\ err_clr_tog_meta' = err_clr_toggle
      /\ err_clr_tog_sync' = err_clr_tog_meta
      /\ err_clr_tog_prev' = err_clr_tog_sync
  BY DEF LinkEdge, Clears!LinkClock, Clears!Shift, Clears!source
<1>2. ClearType
  BY DEF ClearInv
<1>3. CASE err_clr_toggle # err_clr_tog_meta
  <2>1. EdgesLeft = 3 /\ EdgesLeft' = 2
    BY <1>1, <1>3 DEF EdgesLeft
  <2> QED BY <2>1
<1>4. CASE err_clr_toggle = err_clr_tog_meta /\ err_clr_tog_meta # err_clr_tog_sync
  <2>1. EdgesLeft = 2 /\ EdgesLeft' = 1
    BY <1>1, <1>4 DEF EdgesLeft
  <2> QED BY <2>1
<1>5. CASE /\ err_clr_toggle = err_clr_tog_meta
           /\ err_clr_tog_meta = err_clr_tog_sync
           /\ err_clr_tog_sync # err_clr_tog_prev
  <2>1. EdgesLeft = 1 /\ EdgesLeft' = 0
    BY <1>1, <1>5 DEF EdgesLeft
  <2> QED BY <2>1
<1> QED BY <1>3, <1>4, <1>5 DEF EdgesLeft

\* Three link edges after the last write, the controller has seen every clear.
THEOREM ClearsBounded == ControlSpec => ClearBound
PROOF
<1>1. ControlInv => (~rst /\ ~reset_sink_reset => (owed = 0 <=> EdgesLeft = 0))
  BY DEF ControlInv, ClearInv, OwedInv, Flip, EdgesLeft
<1>2. ControlInv /\ [ControlNext]_control_vars
        => [LinkEdge /\ ~rst /\ EdgesLeft # 0 => EdgesLeft' = EdgesLeft - 1]_control_vars
  BY OneEdgeLess DEF ControlInv
<1> QED BY <1>1, <1>2, ControlInvariant, PTL DEF ControlSpec, ClearBound

\* A request that has stood for two edges is carried out at the first boundary
\* at which it may be: none goes by unused.  (In the end: SelectTakesEffect.)
SwitchAtBoundary ==
  [][LinkEdge /\ ~rst /\ asked = 2 /\ lmfc_boundary /\ Admissible
       => active_src' = shadow_src]_control_vars

\* A standing request is pending, and of the branches of p_switch only the
\* one that switches is then left.
THEOREM SwitchPrompt == ControlSpec => SwitchAtBoundary
PROOF
<1>1. ControlInv /\ [ControlNext]_control_vars
        => [LinkEdge /\ ~rst /\ asked = 2 /\ lmfc_boundary /\ Admissible
              => active_src' = shadow_src]_control_vars
  <2> SUFFICES ASSUME ControlInv, LinkEdge, ~rst, asked = 2, lmfc_boundary, Admissible
               PROVE  active_src' = shadow_src
    OBVIOUS
  <2>1. pending /\ shadow_src # active_src
    BY DEF ControlInv, SwitchInv, AskedInv
  <2> QED BY <2>1 DEF LinkEdge, WatchedReset, MuxReset, WatchedClock, MuxClock,
                      KeepSource, SwitchSource, WaitForFill, MarkPending
<1> QED BY <1>1, ControlInvariant, PTL DEF ControlSpec, SwitchAtBoundary
=============================================================================
