------------------------------ MODULE SineRef ------------------------------
(***************************************************************************)
(* What SineWaveGen is to play, stated without its accumulator, its table  *)
(* address or its pipeline: a wave of 4 * LutDepth steps, built from its   *)
(* first quarter by the symmetries of the sine, read at evenly spaced      *)
(* phases.                                                                 *)
(***************************************************************************)
EXTENDS SineWaveGen

Wave(step) ==
  LET Hump(s) == IF s < LutDepth THEN Lut[s] ELSE Lut[2 * LutDepth - 1 - s] IN
    IF step < 2 * LutDepth THEN Hump(step) ELSE -Hump(step - 2 * LutDepth)

StepOf(phase) == phase \div StepWidth

\* Sample k of the tone, counted from the phase offset.
Sample(k) ==
  (Wave(StepOf(wrap(csr.phase_ofs + k * csr.freq))) * csr.amp) \div Half

Pair(k) ==
  IF csr.conv_enable THEN << Sample(k), Sample(k + 1) >> ELSE << 0, 0 >>
=============================================================================
