------------------------------ MODULE ToneWave ------------------------------
(***************************************************************************)
(* SineWaveGen on its own, in the link clock.  Its settings change only    *)
(* while enable is low (CsrCdc, ToneFrozen); enable and reset come and go  *)
(* at any edge.                                                            *)
(***************************************************************************)
EXTENDS SineRef

CONSTANTS Freq, Offset, Amp  \* the settings that are tried

ASSUME SettingsAssumption ==
  Freq \subseteq Phase /\ Offset \subseteq Phase /\ Amp \subseteq 0 .. 2 * Half - 1

VARIABLE sent  \* history: samples sent since the tone was last off, wrapped

vars == <<nco_vars, sent>>

Init ==
  /\ NcoInit
  /\ rst = TRUE
  /\ csr \in [enable : {FALSE}, conv_enable : BOOLEAN, freq : Freq,
              phase_ofs : Offset, amp : Amp]
  /\ sent = 0

Settings(c) == [c EXCEPT !.enable = FALSE]

\* What p_cdc_sine may have put in its registers at the same edge: enable
\* either way; one other setting at a time, and only where enable is cleared.
NextCsr ==
  { [csr EXCEPT !.enable = e] : e \in BOOLEAN }
    \cup { [Settings(csr) EXCEPT !.conv_enable = c] : c \in BOOLEAN }
    \cup { [Settings(csr) EXCEPT !.freq = f] : f \in Freq }
    \cup { [Settings(csr) EXCEPT !.phase_ofs = o] : o \in Offset }
    \cup { [Settings(csr) EXCEPT !.amp = a] : a \in Amp }

ClockEdge ==
  /\ NcoClock
  /\ sent' = IF rst \/ ~samples_valid THEN 0 ELSE wrap(sent + 2)
  /\ rst' \in BOOLEAN
  /\ csr' \in NextCsr

Next == ClockEdge

Spec == Init /\ [][Next]_vars
-----------------------------------------------------------------------------
\* A valid pair is the next pair of the tone, counted from the phase offset at
\* the sample that was first valid: the flag and the samples take the same
\* number of clocks, nothing is left over from the last time the tone was on,
\* no sample is skipped or repeated between the pairs, and up to an amplitude
\* of Half (0x8000) the product does not wrap.  A converter that is off sends
\* zeros meanwhile.
ValidIsTone == samples_valid /\ csr.amp <= Half => out = Pair(sent)
=============================================================================
