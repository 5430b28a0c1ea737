----------------------------- MODULE MCToneWave -----------------------------
(* Phases of 4 bits, a table of two entries and samples of 4 bits: the
   entries are the sines of pi/8 and 3*pi/8, of full scale 7.              *)
EXTENDS ToneWave

MCLut == [i \in 0 .. 1 |-> IF i = 0 THEN 2 ELSE 6]
=============================================================================
