---------------------------- MODULE SineWaveGen ----------------------------
(***************************************************************************)
(* SineWaveGen (ip/dac_controller_0/src/sine_wave_gen.vhd): one of its     *)
(* four identical converters.  A phase accumulator, a quarter-wave table   *)
(* read through a register, and a register behind the sign correction and  *)
(* the amplitude, with a valid flag that has to arrive with the samples.   *)
(* Two samples, s0 and s1, leave per clock.                                *)
(*                                                                         *)
(* The ranges of the vectors are constants, powers of two in the code; the *)
(* arithmetic is that of the vectors, modulo their ranges.  The contents   *)
(* of the table, which come from a real-valued sine at elaboration, are    *)
(* the constant Lut.                                                       *)
(***************************************************************************)
EXTENDS Integers, Sequences

CONSTANTS
  LutDepth,   \* G_LUT_DEPTH
  StepWidth,  \* the phases that read one entry, 2 ^ (G_PHASE_BITS - 2) / G_LUT_DEPTH
  Half,       \* half the range of a sample, 2 ^ (G_SAMPLE_BITS - 1)
  Lut         \* C_LUT_DATA

Quarter == LutDepth * StepWidth
Turn == 4 * Quarter              \* 2 ^ G_PHASE_BITS
Phase == 0 .. Turn - 1

ASSUME WaveAssumption ==
  /\ {LutDepth, StepWidth, Half} \subseteq Nat \ {0}
  /\ Lut \in [0 .. LutDepth - 1 -> 0 .. Half - 1]

VARIABLES
  rst,
  csr,         \* input: enable, conv_enable, freq, phase_ofs, amp
  phase_acc,
  raw, quad_d, \* the pair read from the table, and its quadrants
  out,         \* the pair on samples_out
  pipe_valid   \* <<pipe_valid(0), pipe_valid(1)>>

nco_inputs == <<rst, csr>>
nco_registers == <<phase_acc, raw, quad_d, out, pipe_valid>>
nco_vars == <<nco_inputs, nco_registers>>

wrap(phase) == phase % Turn

\* The phases of s0 and s1.
phases == << wrap(phase_acc + csr.phase_ofs),
             wrap(phase_acc + csr.phase_ofs + csr.freq) >>

get_quadrant(phase) == phase \div Quarter

\* Mutant of get_lut_addr: the mirrored quadrant is one off.
TwosComplement(phase) ==
  LET addr == (phase \div StepWidth) % LutDepth IN
    IF get_quadrant(phase) % 2 = 1 THEN (LutDepth - addr) % LutDepth ELSE addr

\* `not addr' in the mirrored quadrants.
get_lut_addr(phase) ==
  LET addr == (phase \div StepWidth) % LutDepth IN
    IF get_quadrant(phase) % 2 = 1 THEN LutDepth - 1 - addr ELSE addr

apply_quadrant_sign(raw_val, quad) == IF quad >= 2 THEN -raw_val ELSE raw_val

\* Bits 2*SampleBits-2 down to SampleBits-1 of the product, as a signed number.
scaled(val, amp) ==
  LET quotient == (val * amp) \div Half IN ((quotient + Half) % (2 * Half)) - Half
-----------------------------------------------------------------------------
NcoInit ==
  /\ phase_acc = 0
  /\ raw = <<0, 0>> /\ quad_d = <<0, 0>> /\ out = <<0, 0>>
  /\ pipe_valid = <<FALSE, FALSE>>

p_phase_acc ==
  IF rst \/ ~csr.enable
  THEN phase_acc' = 0 /\ pipe_valid' = <<FALSE, FALSE>>
  ELSE /\ phase_acc' = wrap(phase_acc + 2 * csr.freq)
       /\ pipe_valid' = <<TRUE, pipe_valid[1]>>

p_lut_read ==
  /\ raw' = [s \in 1 .. 2 |-> Lut[get_lut_addr(phases[s])]]
  /\ quad_d' = [s \in 1 .. 2 |-> get_quadrant(phases[s])]

p_output ==
  out' = IF rst \/ ~csr.conv_enable THEN <<0, 0>>
         ELSE [s \in 1 .. 2 |-> scaled(apply_quadrant_sign(raw[s], quad_d[s]), csr.amp)]

\* One edge of the link clock.
NcoClock == p_phase_acc /\ p_lut_read /\ p_output

samples_valid == pipe_valid[2] /\ csr.enable
=============================================================================
