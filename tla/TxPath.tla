------------------------------- MODULE TxPath -------------------------------
(***************************************************************************)
(* The transmit path of dac_controller_0                                   *)
(* (ip/dac_controller_0/src/dac_controller_0.vhd), the part of it in the   *)
(* link clock: the tone generator and the source multiplexer, whose        *)
(* boundary comes from the sync controller; a JesdTxManager, which packs   *)
(* the pair into a register; and the gate link_valid.  All of it steps in  *)
(* the same edge.                                                          *)
(*                                                                         *)
(* As on this board, the links of the second group are tied low and the    *)
(* external FIFO is tied off: nothing is ever written to it, so its level  *)
(* stays 0 and it never offers a valid sample.  The two JesdTxManagers     *)
(* have the same inputs, and so the same registers: one is kept.           *)
(***************************************************************************)
EXTENDS JesdSync, Sequences

CONSTANTS
  Fed,                                    \* the links that are connected
  LutDepth, StepWidth, Half, Lut,         \* of SineWaveGen
  FillThreshold, FifoDepth,               \* of DataSrcMux
  Tone                                    \* what the software sets up, not enabled

ASSUME FedAssumption == Fed \subseteq Link

VARIABLES
  csr, phase_acc, raw, quad_d, out, pipe_valid,  \* u_sine_wave_gen
  src_sel, shadow_src, pending, active_src,      \* u_data_src_mux
  lane_data_r, lane_valid_r                      \* u_jtxm

Nco == INSTANCE SineRef

ASSUME NcoAssumption ==
  /\ {LutDepth, StepWidth, Half} \subseteq Nat \ {0}
  /\ Lut \in [0 .. LutDepth - 1 -> 0 .. Half - 1]
ASSUME ToneAssumption ==
  Tone \in [enable : {FALSE}, conv_enable : BOOLEAN, freq : Nco!Phase,
            phase_ofs : Nco!Phase, amp : 0 .. 2 * Half - 1]

Mux == INSTANCE DataSrcMux WITH lmfc_boundary <- lmfc_bound, fifo_fill_level <- 0

source_inputs == <<csr, src_sel>>
path == <<phase_acc, raw, quad_d, out, pipe_valid,
          shadow_src, pending, active_src, lane_data_r, lane_valid_r>>
all_vars == <<vars, source_inputs, path>>

\* C_SINE_CSR_DEFAULT.
Default == [enable |-> FALSE, conv_enable |-> FALSE, freq |-> 0,
            phase_ofs |-> 0, amp |-> Half - 1]

PathInit ==
  /\ Init
  /\ Nco!NcoInit /\ Mux!MuxInit
  /\ csr = Default
  /\ src_sel = "nco"
  /\ lane_data_r = <<0, 0>>
  /\ lane_valid_r = FALSE

mux_valid == Mux!SamplesValid(Nco!samples_valid, FALSE)
mux_samples == IF active_src = "nco" THEN out ELSE <<0, 0>>

\* Mutant of p_pack: the data are gated by the valid flag already registered.
BlankFirst ==
  LET valid == ~rst /\ mux_valid IN
    /\ lane_valid_r' = valid
    /\ lane_data_r' = IF valid /\ lane_valid_r THEN mux_samples ELSE <<0, 0>>

p_pack ==
  LET valid == ~rst /\ mux_valid IN
    /\ lane_valid_r' = valid
    /\ lane_data_r' = IF valid THEN mux_samples ELSE <<0, 0>>

link_valid(l) == lane_valid_r /\ grp_release[GroupOf[l]]

\* The registers of p_cdc_sine and p_cdc_sync_csr, which drive the path: the
\* reset clears them, otherwise they follow the software, and the settings are
\* taken over while the enable is low (CsrCdc).
SourceInputs ==
  IF rst THEN csr' = Default /\ src_sel' = "nco"
  ELSE /\ \/ \E e \in BOOLEAN : csr' = [csr EXCEPT !.enable = e]
          \/ csr' = Tone
       /\ src_sel' \in Mux!Source

PathEdge ==
  /\ ResetEdge \/ ClockEdge({})
  /\ Nco!NcoClock
  /\ Mux!MuxReset \/ Mux!MuxClock
  /\ p_pack
  /\ SourceInputs

\* A connected link comes or goes, the software changes the mode, the reset
\* of the link clock comes or goes.
PathInput ==
  /\ (\E l \in Fed : LinkChange(l)) \/ ModeChange \/ ResetChange
  /\ UNCHANGED <<source_inputs, path>>

PathNext == PathEdge \/ PathInput

PathSpec == PathInit /\ [][PathNext]_all_vars

\* The link clock runs.
PathFairSpec == PathSpec /\ WF_all_vars(PathEdge)

\* ad9176_bringup_full enables the tone after dac_subsys_wait_link_lock has
\* seen the first group synchronised.
ToneAfterLock(g) == csr'.enable /\ ~csr.enable => Running(g)
-----------------------------------------------------------------------------
\* Consecutive words on a lane are consecutive pairs of the tone: neither the
\* multiplexer, whatever the software selects, nor the packing register drops,
\* repeats or blanks a pair or lets an old one through when the tone restarts.
\* Above an amplitude of Half the samples are not those of a tone (ToneWave).
StreamContinuous ==
  [][PathEdge /\ lane_valid_r /\ lane_valid_r' /\ csr.amp <= Half =>
       \E k \in Nco!Phase :
         lane_data_r = Nco!Pair(k) /\ lane_data_r' = Nco!Pair(k + 2)]_all_vars

\* With the clock running, the reset over, the mode per_dac, the connected
\* links ready and the tone on, both links are fed for good.  The source
\* select does not matter: a request for the FIFO that is tied off stays
\* pending and the tone plays on.
LinksFed ==
  <>[](~rst /\ sync_mode = "per_dac" /\ Fed \subseteq txlink_ready /\ csr.enable)
    => <>[](\A l \in Fed : link_valid(l))

\* What jesd_tx_manager.vhd asks of its source: samples_valid is asserted at
\* all times while the link operates.
ContinuousData == \A l \in Fed : grp_release[GroupOf[l]] => mux_valid
=============================================================================
