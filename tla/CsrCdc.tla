------------------------------- MODULE CsrCdc -------------------------------
(***************************************************************************)
(* p_cdc_sine (ip/dac_controller_0/src/dac_controller_0.vhd): how the tone *)
(* that software writes into the register bank reaches the tone generator  *)
(* in the link clock domain.  Only the enable bit is synchronised; the     *)
(* configuration is sampled directly while the synchronised enable is low. *)
(*                                                                         *)
(* A sample of a field that has changed since the last link edge may be    *)
(* any value, each bit being caught before or after the change.  Control   *)
(* is the field (conv_enable) that shares a register with the enable bit,  *)
(* Value[f] what the field f can hold.                                     *)
(*                                                                         *)
(* Gap is the number of link edges between two register writes: AxiToAvmm  *)
(* takes at least three control clocks per write.                          *)
(***************************************************************************)
EXTENDS TxlinkReset, Naturals

CONSTANTS Field, Control, Value, Default, Gap

Config == {c \in [Field -> UNION {Value[f] : f \in Field}] :
             \A f \in Field : c[f] \in Value[f]}

ASSUME CdcAssumption ==
  Control \in Field /\ Default \in Config /\ Gap \in Nat \ {0, 1}

VARIABLES
  bank_enable, bank,                    \* sine_csr of the register bank
  settled,                              \* bank at the last link edge
  since,                                \* link edges since the last write
  sine_enable_meta, sine_enable_sync,
  tone_enable, tone,                    \* sine_csr_txclk
  asked                                 \* history: the tones enabled so far

software == <<bank_enable, bank, asked>>
registers == <<sine_enable_meta, sine_enable_sync, tone_enable, tone>>
vars == <<software, settled, since, registers, resets>>

Init ==
  /\ InReset
  /\ bank_enable = FALSE /\ bank = Default /\ settled = Default
  /\ since = Gap
  /\ sine_enable_meta = FALSE /\ sine_enable_sync = FALSE
  /\ tone_enable = FALSE /\ tone = Default
  /\ asked = {}
-----------------------------------------------------------------------------
\* What an edge can sample of the configuration.
Caught == {c \in Config : \A f \in Field : bank[f] = settled[f] => c[f] = bank[f]}

\* Mutants of LinkRegisters: a synchroniser of one stage; an enable that
\* overtakes the synchroniser.
OneStage ==
  /\ sine_enable_meta' = bank_enable
  /\ sine_enable_sync' = bank_enable
  /\ IF sine_enable_sync THEN UNCHANGED tone ELSE tone' \in Caught
  /\ tone_enable' = sine_enable_sync

EarlyEnable ==
  /\ sine_enable_meta' = bank_enable
  /\ sine_enable_sync' = sine_enable_meta
  /\ IF sine_enable_sync THEN UNCHANGED tone ELSE tone' \in Caught
  /\ tone_enable' = bank_enable

LinkRegisters ==
  /\ sine_enable_meta' = bank_enable
  /\ sine_enable_sync' = sine_enable_meta
  /\ IF sine_enable_sync THEN UNCHANGED tone ELSE tone' \in Caught
  /\ tone_enable' = sine_enable_sync

LinkReset ==
  /\ sine_enable_meta' = FALSE /\ sine_enable_sync' = FALSE
  /\ tone_enable' = FALSE /\ tone' = Default

LinkEdge ==
  /\ IF txlink_rst THEN LinkReset ELSE LinkRegisters
  /\ ResetSync
  /\ settled' = bank
  /\ since' = IF since = Gap THEN Gap ELSE since + 1
  /\ UNCHANGED software
-----------------------------------------------------------------------------
(* The register bank, written by software one register at a time.          *)

MayWrite == ~reset_sink_reset /\ since = Gap

WriteField(f, v) ==
  /\ MayWrite /\ f # Control
  /\ bank' = [bank EXCEPT ![f] = v]
  /\ since' = 0
  /\ UNCHANGED <<bank_enable, settled, registers, resets, asked>>

\* SINE_CTRL: bit 0 and bits 4:1 change together.
WriteControl(enable, v) ==
  /\ MayWrite
  /\ bank_enable' = enable
  /\ bank' = [bank EXCEPT ![Control] = v]
  /\ asked' = IF enable THEN asked \cup {bank'} ELSE asked
  /\ since' = 0
  /\ UNCHANGED <<settled, registers, resets>>

AssertReset ==
  /\ AssertSink
  /\ UNCHANGED <<software, settled, since, registers>>

BankReset ==
  /\ reset_sink_reset
  /\ bank_enable' = FALSE /\ bank' = Default
  /\ UNCHANGED <<asked, settled, since, registers, resets>>

\* The bridge is in the same reset, so the first write comes no sooner than
\* the next one would.
ReleaseReset ==
  /\ ReleaseSink(~bank_enable /\ bank = Default /\ settled = Default)
  /\ since' = 0
  /\ UNCHANGED <<software, settled, registers>>

Hardware == LinkEdge \/ AssertReset \/ BankReset \/ ReleaseReset

\* The discipline of doc/potential_issues.md (ISSUE-008): the configuration
\* is only written while SINE_CTRL(0) is low.
Disciplined ==
  \/ \E f \in Field : \E v \in Value[f] : ~bank_enable /\ WriteField(f, v)
  \/ \E v \in Value[Control] : ~bank_enable /\ WriteControl(TRUE, v)
  \/ \E v \in Value[Control] : WriteControl(FALSE, v)

Next == Hardware \/ Disciplined

Spec == Init /\ [][Next]_vars

\* The bank takes any write: software without the discipline.
AnyWrite ==
  \/ \E f \in Field : \E v \in Value[f] : WriteField(f, v)
  \/ \E enable \in BOOLEAN : \E v \in Value[Control] : WriteControl(enable, v)

FreeNext == Hardware \/ AnyWrite

FreeSpec == Init /\ [][FreeNext]_vars

\* The link clock runs; software owes nothing.
FairSpec == Spec /\ WF_vars(LinkEdge)
-----------------------------------------------------------------------------
\* The generator is never on with a tone nobody enabled: not with a torn
\* word, not with two halves of two settings, not with the bits of SINE_CTRL
\* from different writes.  (A reset that comes between an enable and its
\* arrival clears the bank under the sampling; the tone it tears is on for
\* one clock, with the generator already in reset.)
ToneIsWhole == tone_enable /\ ~txlink_rst => tone \in asked

\* Nothing about the tone moves while it is being generated.
ToneFrozen == [][tone_enable /\ tone_enable' => tone' = tone]_vars

\* A tone that software has enabled and leaves alone is the one generated in
\* the end, whatever was generated before and however short a time it was
\* switched off.
ToneTakesEffect ==
  \A c \in Config :
    <>[](bank_enable /\ bank = c /\ ~reset_sink_reset /\ ~txlink_rst)
      => <>[](tone_enable /\ tone = c)
=============================================================================
