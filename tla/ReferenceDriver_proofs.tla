----------------------- MODULE ReferenceDriver_proofs -----------------------
(***************************************************************************)
(* Tone settings arrive whole in CsrCdc, for every set of fields and       *)
(* values and every distance of two link edges or more between writes, and *)
(* whatever software writes: the discipline that p_cdc_sine asks of it is  *)
(* not needed for this, only the distance is.  So it holds for the shipped *)
(* tool as well, which keeps no discipline.  The reference driver keeps    *)
(* it, for every list of settings and every point at which a reset or      *)
(* other software comes in between.                                        *)
(***************************************************************************)
EXTENDS ReferenceDriver, SequenceTheorems, TLAPS

CONSTANT AllOn  \* of the shipped tool

Tool == INSTANCE ToneTool

-----------------------------------------------------------------------------
(* The crossing.                                                           *)

TypeOK ==
  /\ bank_enable \in BOOLEAN /\ bank \in Config /\ settled \in Config
  /\ since \in 0 .. Gap
  /\ sine_enable_meta \in BOOLEAN /\ sine_enable_sync \in BOOLEAN
  /\ tone_enable \in BOOLEAN /\ tone \in Config
  /\ reset_sink_reset \in BOOLEAN /\ txlink_rst_meta \in BOOLEAN /\ txlink_rst \in BOOLEAN

\* A reset on its way out: the link side lags behind, and no write comes yet.
ResetInv ==
  /\ ~reset_sink_reset /\ txlink_rst_meta => txlink_rst /\ since = 0
  /\ ~reset_sink_reset /\ txlink_rst => since <= 1 /\ ~bank_enable

\* The enable on its way to the link clock: until it is through, no write
\* comes, and what it was written with stands still to be sampled.  A reset
\* may tear it, but then it arrives together with the reset.
PipeInv ==
  /\ ~reset_sink_reset /\ ~txlink_rst =>
       /\ bank_enable /\ ~sine_enable_meta => since = 0 /\ bank \in asked
       /\ sine_enable_meta /\ ~sine_enable_sync =>
            since <= 1 /\ settled = bank /\ bank \in asked
  /\ sine_enable_sync /\ ~txlink_rst => tone \in asked \/ txlink_rst_meta
  /\ tone_enable /\ ~txlink_rst => tone \in asked

IInv == TypeOK /\ ResetInv /\ PipeInv

\* An edge samples what is written if that has not changed since the last.
LEMMA CaughtSettled ==
  ASSUME bank \in Config, settled = bank
  PROVE  Caught = {bank}
<1>1. \A c \in Caught : c = bank
  BY DEF Caught, Config
<1>2. bank \in Caught
  BY DEF Caught
<1>3. QED
  BY <1>1, <1>2

LEMMA WholeInit == Init => IInv
<1> USE CdcAssumption
<1>1. ASSUME Init PROVE TypeOK
  <2>1. Gap \in 0 .. Gap
    OBVIOUS
  <2>2. QED
    BY <1>1, <2>1, Zenon DEF Init, InReset, TypeOK
<1>2. ASSUME Init PROVE ResetInv /\ PipeInv
  BY <1>2 DEF Init, InReset, ResetInv, PipeInv
<1>3. QED
  BY <1>1, <1>2 DEF IInv

LEMMA TypeStep == TypeOK /\ [FreeNext]_vars => TypeOK'
<1> SUFFICES ASSUME TypeOK, [FreeNext]_vars PROVE TypeOK'
  OBVIOUS
<1> USE CdcAssumption
<1>1. CASE LinkEdge
  <2>1. tone' \in Config
    BY <1>1 DEF LinkEdge, LinkReset, LinkRegisters, Caught, TypeOK
  <2>2. /\ bank_enable' \in BOOLEAN /\ bank' \in Config /\ settled' \in Config
        /\ since' \in 0 .. Gap
    BY <1>1 DEF LinkEdge, software, TypeOK
  <2>3. /\ sine_enable_meta' \in BOOLEAN /\ sine_enable_sync' \in BOOLEAN
        /\ tone_enable' \in BOOLEAN
    BY <1>1, Zenon DEF LinkEdge, LinkReset, LinkRegisters, TypeOK
  <2>4. /\ reset_sink_reset' \in BOOLEAN /\ txlink_rst_meta' \in BOOLEAN
        /\ txlink_rst' \in BOOLEAN
    BY <1>1, Zenon DEF LinkEdge, ResetSync, TypeOK
  <2>5. QED
    BY <2>1, <2>2, <2>3, <2>4 DEF TypeOK
<1>2. ASSUME NEW f \in Field, NEW v \in Value[f], WriteField(f, v) PROVE TypeOK'
  <2>1. bank' \in Config
    BY <1>2 DEF WriteField, TypeOK, Config
  <2>2. since' \in 0 .. Gap
    BY <1>2 DEF WriteField
  <2>3. QED
    BY <1>2, <2>1, <2>2 DEF WriteField, registers, resets, TypeOK
<1>3. ASSUME NEW enable \in BOOLEAN, NEW v \in Value[Control], WriteControl(enable, v)
      PROVE TypeOK'
  <2>1. bank' \in Config
    BY <1>3 DEF WriteControl, TypeOK, Config
  <2>2. since' \in 0 .. Gap /\ bank_enable' \in BOOLEAN
    BY <1>3 DEF WriteControl
  <2>3. QED
    BY <1>3, <2>1, <2>2 DEF WriteControl, registers, resets, TypeOK
<1>4. CASE AssertReset
  BY <1>4 DEF AssertReset, AssertSink, software, registers, TypeOK
<1>5. CASE BankReset
  BY <1>5 DEF BankReset, registers, resets, TypeOK
<1>6. CASE ReleaseReset
  <2>1. 0 \in 0 .. Gap
    OBVIOUS
  <2>2. QED
    BY <1>6, <2>1, Zenon DEF ReleaseReset, ReleaseSink, software, registers, TypeOK
<1>7. CASE UNCHANGED vars
  BY <1>7 DEF vars, software, registers, resets, TypeOK
<1>8. QED
  BY <1>1, <1>2, <1>3, <1>4, <1>5, <1>6, <1>7 DEF FreeNext, Hardware, AnyWrite

LEMMA ResetStep == IInv /\ [FreeNext]_vars => ResetInv'
<1> SUFFICES ASSUME TypeOK, ResetInv, [FreeNext]_vars PROVE ResetInv'
  BY DEF IInv
<1> USE CdcAssumption
<1>1. CASE LinkEdge
  <2>1. /\ UNCHANGED <<reset_sink_reset, bank_enable>>
        /\ txlink_rst_meta' = reset_sink_reset /\ txlink_rst' = txlink_rst_meta
    BY <1>1 DEF LinkEdge, ResetSync, software
  <2>2. since' = IF since = Gap THEN Gap ELSE since + 1
    BY <1>1 DEF LinkEdge
  <2>3. QED
    BY <2>1, <2>2 DEF ResetInv, TypeOK
<1>2. CASE AnyWrite
  <2>1. ~reset_sink_reset /\ since = Gap
    BY <1>2 DEF AnyWrite, WriteField, WriteControl, MayWrite
  <2>2. ~txlink_rst_meta /\ ~txlink_rst
    BY <2>1 DEF ResetInv, TypeOK
  <2>3. UNCHANGED resets
    BY <1>2 DEF AnyWrite, WriteField, WriteControl
  <2>4. QED
    BY <2>2, <2>3 DEF ResetInv, resets
<1>3. CASE AssertReset
  BY <1>3 DEF AssertReset, AssertSink, ResetInv
<1>4. CASE BankReset
  BY <1>4 DEF BankReset, resets, ResetInv
<1>5. CASE ReleaseReset
  BY <1>5 DEF ReleaseReset, ReleaseSink, software, ResetInv
<1>6. CASE UNCHANGED vars
  BY <1>6 DEF vars, software, resets, ResetInv
<1>7. QED
  BY <1>1, <1>2, <1>3, <1>4, <1>5, <1>6 DEF FreeNext, Hardware

LEMMA PipeStep == IInv /\ [FreeNext]_vars => PipeInv'
<1> SUFFICES ASSUME TypeOK, ResetInv, PipeInv, [FreeNext]_vars PROVE PipeInv'
  BY DEF IInv
<1> USE CdcAssumption
<1>1. CASE LinkEdge
  <2>1. /\ UNCHANGED <<reset_sink_reset, bank_enable, bank, asked>>
        /\ txlink_rst_meta' = reset_sink_reset /\ txlink_rst' = txlink_rst_meta
        /\ settled' = bank
    BY <1>1 DEF LinkEdge, ResetSync, software
  <2>2. since' = IF since = Gap THEN Gap ELSE since + 1
    BY <1>1 DEF LinkEdge
  <2>3. CASE txlink_rst
    <3>1. ~sine_enable_meta' /\ ~sine_enable_sync' /\ ~tone_enable'
      BY <1>1, <2>3 DEF LinkEdge, LinkReset
    <3>2. ~reset_sink_reset' => ~bank_enable'
      BY <2>1, <2>3 DEF ResetInv
    <3>3. QED
      BY <2>1, <3>1, <3>2 DEF PipeInv
  <2>4. CASE ~txlink_rst
    <3>1. /\ sine_enable_meta' = bank_enable /\ sine_enable_sync' = sine_enable_meta
          /\ tone_enable' = sine_enable_sync
          /\ sine_enable_sync => tone' = tone
          /\ ~sine_enable_sync => tone' \in Caught
      BY <1>1, <2>4 DEF LinkEdge, LinkRegisters
    <3>2. sine_enable_meta /\ ~sine_enable_sync /\ ~reset_sink_reset => tone' \in asked
      BY <2>4, <3>1, CaughtSettled DEF PipeInv, TypeOK
    <3>4. ~reset_sink_reset' /\ bank_enable' /\ ~sine_enable_meta' => since' = 0
      BY <2>1, <3>1
    <3>5. ~reset_sink_reset' /\ sine_enable_meta' /\ ~sine_enable_sync' => since' <= 1
      BY <2>1, <2>2, <2>4, <3>1 DEF PipeInv
    <3>6. ~reset_sink_reset' /\ sine_enable_meta' /\ ~sine_enable_sync' =>
            settled' = bank' /\ bank' \in asked'
      BY <2>1, <2>4, <3>1 DEF PipeInv
    <3>7. sine_enable_sync' /\ ~txlink_rst' => tone' \in asked' \/ txlink_rst_meta'
      BY <2>1, <2>4, <3>1, <3>2 DEF PipeInv
    <3>8. tone_enable' /\ ~txlink_rst' => tone' \in asked'
      BY <2>1, <2>4, <3>1 DEF PipeInv
    <3>9. QED
      BY <3>1, <2>1, <3>4, <3>5, <3>6, <3>7, <3>8 DEF PipeInv
  <2>5. QED
    BY <2>3, <2>4
<1>2. CASE AnyWrite
  <2>1. ~reset_sink_reset /\ since = Gap
    BY <1>2 DEF AnyWrite, WriteField, WriteControl, MayWrite
  <2>2. ~txlink_rst_meta /\ ~txlink_rst
    BY <2>1 DEF ResetInv, TypeOK
  <2>3. ~(sine_enable_meta /\ ~sine_enable_sync)
    BY <2>1, <2>2 DEF PipeInv, TypeOK
  <2>4. UNCHANGED resets /\ UNCHANGED registers /\ since' = 0
    BY <1>2 DEF AnyWrite, WriteField, WriteControl
  <2>5. asked \subseteq asked' /\ (bank_enable' /\ ~sine_enable_meta => bank' \in asked')
    <3>1. bank_enable => sine_enable_meta
      BY <2>1, <2>2 DEF PipeInv
    <3>2. QED
      BY <1>2, <3>1 DEF AnyWrite, WriteField, WriteControl
  <2>6. QED
    BY <2>2, <2>3, <2>4, <2>5 DEF PipeInv, resets, registers
<1>3. CASE AssertReset
  BY <1>3 DEF AssertReset, AssertSink, software, registers, PipeInv
<1>4. CASE BankReset
  BY <1>4 DEF BankReset, registers, resets, PipeInv
<1>5. CASE ReleaseReset
  BY <1>5 DEF ReleaseReset, ReleaseSink, software, registers, PipeInv
<1>6. CASE UNCHANGED vars
  BY <1>6 DEF vars, software, registers, resets, PipeInv
<1>7. QED
  BY <1>1, <1>2, <1>3, <1>4, <1>5, <1>6 DEF FreeNext, Hardware

\* The invariant of the crossing, under any writes of software.
THEOREM ToneInvariant == FreeSpec => []IInv
<1>1. IInv /\ [FreeNext]_vars => IInv'
  BY TypeStep, ResetStep, PipeStep DEF IInv
<1>2. QED
  BY WholeInit, <1>1, PTL DEF FreeSpec

\* The generator is never on with settings that nobody enabled, whatever the
\* software writes and whatever it is interrupted by: until an enable is
\* through, no write comes, and then nothing is sampled.
THEOREM FreeToneWhole == FreeSpec => []ToneIsWhole
<1>1. IInv => ToneIsWhole
  BY DEF IInv, PipeInv, ToneIsWhole
<1>2. QED
  BY ToneInvariant, <1>1, PTL

\* Nothing about the tone moves while it is being generated: the edge after
\* which the generator is still on is one that saw the synchronised enable
\* up, and samples nothing.
THEOREM FreeToneStands == FreeSpec => ToneFrozen
<1>1. [FreeNext]_vars => [tone_enable /\ tone_enable' => tone' = tone]_vars
  <2> SUFFICES ASSUME [FreeNext]_vars, tone_enable, tone_enable' PROVE tone' = tone
    BY Zenon
  <2>1. CASE LinkEdge
    BY <2>1 DEF LinkEdge, LinkReset, LinkRegisters
  <2>2. CASE AssertReset \/ BankReset \/ ReleaseReset \/ UNCHANGED vars
    BY <2>2 DEF AssertReset, BankReset, ReleaseReset, vars, registers
  <2>3. CASE AnyWrite
    BY <2>3 DEF AnyWrite, WriteField, WriteControl, registers
  <2>4. QED
    BY <2>1, <2>2, <2>3 DEF FreeNext, Hardware
<1>2. QED
  BY <1>1, PTL DEF FreeSpec, ToneFrozen

LEMMA NextIsFree == [Next]_vars => [FreeNext]_vars
  BY DEF Next, FreeNext, Disciplined, AnyWrite

\* No tone that nobody enabled, for the software that keeps the discipline.
THEOREM ToneWhole == Spec => []ToneIsWhole
  BY NextIsFree, FreeToneWhole, PTL DEF Spec, FreeSpec

\* And for it, nothing about a tone moves while it is generated.
THEOREM ToneStands == Spec => ToneFrozen
  BY NextIsFree, FreeToneStands, PTL DEF Spec, FreeSpec

-----------------------------------------------------------------------------
(* How long settings take.                                                 *)

\* Three link edges after its last write, what software has asked for is what
\* is generated, unless a reset is about: software that waits that long does
\* not have to look.  (In the end: ToneTakesEffect.)  since counts to Gap, so
\* this speaks of Gap >= 3; the board has more, see README.md.
InForce ==
  ~reset_sink_reset /\ ~txlink_rst /\ since >= 3 =>
    IF bank_enable THEN tone_enable /\ tone = bank ELSE ~tone_enable

\* How far the last write has come, by the edges since.  An enable finds the
\* synchroniser empty, for it was written with the enable low, two edges after
\* the write before: so the settings are sampled once they stand.
ForceInv ==
  ~reset_sink_reset /\ ~txlink_rst =>
    /\ since = 0 /\ bank_enable => ~sine_enable_meta /\ ~sine_enable_sync
    /\ since >= 1 => settled = bank /\ (sine_enable_meta <=> bank_enable)
    /\ since = 1 /\ bank_enable => ~sine_enable_sync
    /\ since >= 2 =>
         (sine_enable_sync <=> bank_enable) /\ (bank_enable => tone = bank)
    /\ since >= 3 => (tone_enable <=> bank_enable)

LEMMA ForceStep == IInv /\ ForceInv /\ [Next]_vars => ForceInv'
<1> SUFFICES ASSUME TypeOK, ResetInv, ForceInv, [Next]_vars PROVE ForceInv'
  BY DEF IInv
<1> USE CdcAssumption
<1>1. CASE LinkEdge
  <2>1. /\ UNCHANGED <<reset_sink_reset, bank_enable, bank>>
        /\ txlink_rst_meta' = reset_sink_reset /\ txlink_rst' = txlink_rst_meta
        /\ settled' = bank
    BY <1>1 DEF LinkEdge, ResetSync, software
  <2>2. /\ since \in Nat /\ Gap \in Nat /\ Gap >= 2
        /\ since' = IF since = Gap THEN Gap ELSE since + 1
    BY <1>1 DEF LinkEdge, TypeOK
  <2>3. CASE txlink_rst
    <3>1. ~sine_enable_meta' /\ ~sine_enable_sync' /\ ~tone_enable'
      BY <1>1, <2>3 DEF LinkEdge, LinkReset
    <3>2. ~reset_sink_reset' => ~bank_enable'
      BY <2>1, <2>3 DEF ResetInv
    <3>3. QED
      BY <2>1, <3>1, <3>2 DEF ForceInv
  <2>4. CASE ~txlink_rst /\ ~reset_sink_reset
    <3>1. /\ sine_enable_meta' = bank_enable /\ sine_enable_sync' = sine_enable_meta
          /\ tone_enable' = sine_enable_sync
          /\ sine_enable_sync => tone' = tone
          /\ ~sine_enable_sync => tone' \in Caught
      BY <1>1, <2>4 DEF LinkEdge, LinkRegisters
    <3>2. since' >= 1 /\ (since' = 1 => since = 0) /\ (since' >= 2 => since >= 1)
          /\ (since' >= 3 => since >= 2)
      BY <2>2
    <3>3. since' >= 2 /\ bank_enable => tone' = bank
      <4> SUFFICES ASSUME since >= 1, bank_enable PROVE tone' = bank
        BY <3>2
      <4>1. CASE ~sine_enable_sync
        <5>1. settled = bank
          BY <2>4 DEF ForceInv
        <5>2. Caught = {bank}
          BY <5>1, CaughtSettled DEF TypeOK
        <5>3. QED
          BY <3>1, <4>1, <5>2
      <4>2. CASE sine_enable_sync
        <5>1. since >= 2
          BY <2>2, <2>4, <4>2 DEF ForceInv
        <5>2. QED
          BY <2>4, <3>1, <4>2, <5>1 DEF ForceInv
      <4>3. QED
        BY <4>1, <4>2
    <3>4. since' = 1 /\ bank_enable' => ~sine_enable_sync'
      BY <2>1, <2>4, <3>1, <3>2 DEF ForceInv
    <3>5. since' >= 2 => (sine_enable_sync' <=> bank_enable')
      BY <2>1, <2>4, <3>1, <3>2 DEF ForceInv
    <3>6. since' >= 3 => (tone_enable' <=> bank_enable')
      BY <2>1, <2>4, <3>1, <3>2 DEF ForceInv
    <3>7. since' # 0 /\ (sine_enable_meta' <=> bank_enable')
      BY <2>1, <2>2, <3>1
    <3>8. QED
      BY <2>1, <3>3, <3>4, <3>5, <3>6, <3>7 DEF ForceInv
  <2>5. QED
    BY <2>1, <2>3, <2>4 DEF ForceInv
<1>2. CASE Disciplined
  <2>1. ~reset_sink_reset /\ since = Gap /\ since' = 0
    BY <1>2 DEF Disciplined, WriteField, WriteControl, MayWrite
  <2>2. UNCHANGED registers
    BY <1>2 DEF Disciplined, WriteField, WriteControl
  <2>3. bank_enable' => ~bank_enable
    BY <1>2 DEF Disciplined, WriteField, WriteControl
  <2>4. Gap \in Nat /\ Gap >= 2
    OBVIOUS
  <2>5. ~txlink_rst
    BY <2>1, <2>4 DEF ResetInv
  <2>6. bank_enable' => ~sine_enable_meta' /\ ~sine_enable_sync'
    BY <2>1, <2>2, <2>3, <2>4, <2>5 DEF ForceInv, registers
  <2>7. QED
    BY <2>1, <2>6 DEF ForceInv
<1>3. CASE AssertReset
  BY <1>3 DEF AssertReset, AssertSink, ForceInv
<1>4. CASE BankReset
  BY <1>4 DEF BankReset, resets, ForceInv
<1>5. CASE ReleaseReset
  BY <1>5 DEF ReleaseReset, ReleaseSink, ForceInv
<1>6. CASE UNCHANGED vars
  BY <1>6 DEF vars, software, registers, resets, ForceInv
<1>7. QED
  BY <1>1, <1>2, <1>3, <1>4, <1>5, <1>6 DEF Next, Hardware

\* Three edges after its last write, what disciplined software has asked for
\* is generated: two for the synchroniser of the enable, one for the output.
THEOREM ToneInForce == Spec => []InForce
<1>1. Spec => []IInv
  BY NextIsFree, ToneInvariant, PTL DEF Spec, FreeSpec
<1>2. Init => ForceInv
  BY DEF Init, InReset, ForceInv
<1>3. IInv /\ ForceInv => InForce
  BY CdcAssumption DEF IInv, TypeOK, ForceInv, InForce
<1>4. QED
  BY <1>1, <1>2, <1>3, ForceStep, PTL DEF Spec

-----------------------------------------------------------------------------
(* The shipped tool.                                                       *)

\* The parts of CsrCdc mean the same in the tool.
LEMMA SameStates == (Tool!Init <=> Init) /\ Tool!vars = vars
<1>1. Tool!resets = resets /\ Tool!registers = registers /\ Tool!software = software
  BY DEF Tool!resets, resets, Tool!registers, registers, Tool!software, software
<1>2. QED
  BY <1>1 DEF Tool!Init, Init, Tool!InReset, InReset, Tool!vars, vars

LEMMA SameWrites ==
  /\ \A f, v : Tool!WriteField(f, v) <=> WriteField(f, v)
  /\ \A v : Tool!WriteControl(TRUE, v) <=> WriteControl(TRUE, v)
<1>1. Tool!MayWrite <=> MayWrite
  BY DEF Tool!MayWrite, MayWrite
<1>2. QED
  BY <1>1 DEF Tool!WriteField, WriteField, Tool!WriteControl, WriteControl,
              Tool!resets, resets, Tool!registers, registers

LEMMA SameHardware == Tool!Hardware <=> Hardware
<1>1. Tool!Caught = Caught
  BY DEF Tool!Caught, Caught, Tool!Config, Config
<1>2. Tool!LinkEdge <=> LinkEdge
  BY <1>1, Zenon DEF Tool!LinkEdge, LinkEdge, Tool!LinkReset, LinkReset, Tool!LinkRegisters,
              LinkRegisters, Tool!ResetSync, ResetSync, Tool!software, software
<1>3. (Tool!AssertReset <=> AssertReset) /\ (Tool!BankReset <=> BankReset)
  BY Zenon DEF Tool!AssertReset, AssertReset, Tool!AssertSink, AssertSink, Tool!BankReset, BankReset,
         Tool!software, software, Tool!registers, registers, Tool!resets, resets
<1>4. Tool!ReleaseReset <=> ReleaseReset
  BY Zenon DEF Tool!ReleaseReset, ReleaseReset, Tool!ReleaseSink, ReleaseSink,
         Tool!software, software, Tool!registers, registers
<1>5. QED
  BY <1>2, <1>3, <1>4 DEF Tool!Hardware, Hardware

LEMMA ToolIsFree ==
  ASSUME AllOn \in Value[Control], [Tool!ToolNext]_(Tool!tool_vars)
  PROVE  [FreeNext]_vars
<1>1. CASE \E f \in Field : \E v \in Value[f] : Tool!WriteTone(f, v)
  BY <1>1, SameWrites DEF Tool!WriteTone, FreeNext, AnyWrite
<1>2. CASE Tool!EnableTone
  BY <1>2, SameWrites DEF Tool!EnableTone, FreeNext, AnyWrite
<1>3. CASE Tool!Command \/ UNCHANGED Tool!tool_vars
  <2>1. UNCHANGED Tool!vars
    BY <1>3 DEF Tool!Command, Tool!tool_vars
  <2>2. Tool!vars' = vars'
    BY DEF Tool!vars, vars, Tool!resets, resets, Tool!registers, registers,
           Tool!software, software
  <2>3. UNCHANGED vars
    BY <2>1, <2>2, SameStates
  <2>4. QED
    BY <2>3
<1>4. CASE Tool!Hardware /\ UNCHANGED todo
  BY <1>4, SameHardware DEF FreeNext
<1>5. QED
  BY <1>1, <1>2, <1>3, <1>4 DEF Tool!ToolNext

\* dac_subsys_set_nco_tone writes settings with the enable up, which the
\* header of p_cdc_sine forbids: they do not take effect (RetuneTakesEffect
\* is violated), but they never tear the tone, nor move it while it plays.
THEOREM ToolToneWhole ==
  AllOn \in Value[Control] => (Tool!ToolSpec => []ToneIsWhole /\ ToneFrozen)
<1> SUFFICES ASSUME AllOn \in Value[Control]
             PROVE  Tool!ToolSpec => []ToneIsWhole /\ ToneFrozen
  OBVIOUS
<1>1. [Tool!ToolNext]_(Tool!tool_vars) => [FreeNext]_vars
  BY ToolIsFree
<1>2. Tool!ToolInit => Init
  BY SameStates DEF Tool!ToolInit
<1>3. Tool!ToolSpec => FreeSpec
  BY <1>1, <1>2, PTL DEF Tool!ToolSpec, FreeSpec
<1>4. QED
  BY <1>3, FreeToneWhole, FreeToneStands

-----------------------------------------------------------------------------
(* The driver.                                                             *)

Writes ==
  {w \in [field : Field, value : UNION {Value[f] : f \in Field}, enable : BOOLEAN] :
     w.value \in Value[w.field]}

\* Only the last write of a call enables, and it writes SINE_CTRL.
EnablesLast(s) == \A i \in 1 .. Len(s) : s[i].enable => s[i].field = Control /\ i = Len(s)

SwitchesOff(w) == w.field = Control /\ ~w.enable

\* What is still to be written is legal now: the tone is off, or the next
\* write switches it off.
CallInv ==
  /\ todo \in Seq(Writes)
  /\ EnablesLast(todo)
  /\ todo # <<>> => SwitchesOff(todo[1]) \/ ~bank_enable

LEMMA WriteTypes ==
  /\ \A f \in Field : \A v \in Value[f] : Set(f, v) \in Writes
  /\ \A e \in BOOLEAN : \A v \in Value[Control] : Ctrl(e, v) \in Writes
<1>1. ASSUME NEW f \in Field, NEW v \in Value[f], NEW e \in BOOLEAN
      PROVE  [field |-> f, value |-> v, enable |-> e] \in Writes
  BY DEF Writes
<1>2. QED
  BY <1>1, CdcAssumption DEF Set, Ctrl

LEMMA SettingsWritten ==
  ASSUME NEW freq \in Value[Frequency]
  PROVE  /\ WriteSettings(freq) \in Seq(Writes)
         /\ \A i \in 1 .. Len(WriteSettings(freq)) : ~WriteSettings(freq)[i].enable
<1> DEFINE n == Len(Settings)
<1>1. n \in Nat /\ DOMAIN Settings = 1 .. n /\ \A i \in 1 .. n : Settings[i] \in Field
  BY DriverAssumption, LenProperties, ElementOfSeq
<1>2. ASSUME NEW i \in 1 .. n
      PROVE  WriteSettings(freq)[i] \in Writes /\ ~WriteSettings(freq)[i].enable
  <2> DEFINE v == IF Settings[i] = Frequency THEN freq ELSE Standard[Settings[i]]
  <2>1. v \in Value[Settings[i]]
    BY <1>1, DriverAssumption DEF Config
  <2>2. WriteSettings(freq)[i] = Set(Settings[i], v)
    BY <1>1 DEF WriteSettings
  <2>3. ~Set(Settings[i], v).enable
    BY DEF Set
  <2>4. QED
    BY <1>1, <2>1, <2>2, <2>3, WriteTypes
<1>3. WriteSettings(freq) \in [1 .. n -> Writes]
  <2>1. WriteSettings(freq) = [i \in 1 .. n |-> WriteSettings(freq)[i]]
    BY <1>1 DEF WriteSettings
  <2>2. QED
    BY <1>2, <2>1
<1>4. WriteSettings(freq) \in Seq(Writes) /\ Len(WriteSettings(freq)) = n
  <2>1. WriteSettings(freq) \in Seq(Writes)
    BY <1>1, <1>3, SeqDef, Zenon
  <2>2. QED
    BY <1>1, <1>3, <2>1, LenProperties
<1>5. QED
  BY <1>2, <1>4

LEMMA Framed ==
  ASSUME NEW S, NEW a \in S, NEW mid \in Seq(S), NEW b \in S, NEW s, s = <<a>> \o mid \o <<b>>
  PROVE  /\ s \in Seq(S) /\ Len(mid) \in Nat /\ Len(s) = Len(mid) + 2
         /\ s[1] = a /\ s[Len(mid) + 2] = b
         /\ \A i \in 2 .. Len(mid) + 1 : s[i] = mid[i - 1]
<1>1. <<a>> \in Seq(S) /\ <<b>> \in Seq(S) /\ Len(<<a>>) = 1 /\ Len(<<b>>) = 1 /\ Len(mid) \in Nat
  BY LenProperties
<1>2. PICK t : t = <<a>> \o mid
  OBVIOUS
<1>3. /\ t \in Seq(S) /\ Len(t) = 1 + Len(mid)
      /\ \A i \in 1 .. 1 + Len(mid) : t[i] = IF i <= 1 THEN <<a>>[i] ELSE mid[i - 1]
  BY <1>1, <1>2, ConcatProperties
<1>4. /\ s \in Seq(S) /\ Len(s) = Len(t) + 1
      /\ \A i \in 1 .. Len(t) + 1 : s[i] = IF i <= Len(t) THEN t[i] ELSE <<b>>[i - Len(t)]
  <2>1. s = t \o <<b>>
    BY <1>2
  <2>2. QED
    BY <1>1, <1>3, <2>1, ConcatProperties
<1>5. QED
  BY <1>1, <1>3, <1>4

LEMMA NcoWritesOrderly ==
  ASSUME NEW freq \in Value[Frequency]
  PROVE  /\ NcoWrites(freq) \in Seq(Writes)
         /\ EnablesLast(NcoWrites(freq))
         /\ SwitchesOff(NcoWrites(freq)[1])
<1>1. PICK off : off = Ctrl(FALSE, 0)
  OBVIOUS
<1>2. PICK on : on = Ctrl(TRUE, AllConverters)
  OBVIOUS
<1>3. PICK mid : mid = WriteSettings(freq)
  OBVIOUS
<1>4. off \in Writes /\ on \in Writes
  BY <1>1, <1>2, WriteTypes, DriverAssumption
<1>5. mid \in Seq(Writes) /\ \A i \in 1 .. Len(mid) : ~mid[i].enable
  BY <1>3, SettingsWritten
<1>6. SwitchesOff(off) /\ on.field = Control
  BY <1>1, <1>2 DEF Ctrl, SwitchesOff
<1>7. PICK s : s = NcoWrites(freq)
  OBVIOUS
<1>8. s = <<off>> \o mid \o <<on>>
  BY <1>1, <1>2, <1>3, <1>7 DEF NcoWrites
<1>9. /\ s \in Seq(Writes) /\ Len(mid) \in Nat /\ Len(s) = Len(mid) + 2
      /\ s[1] = off /\ s[Len(mid) + 2] = on
      /\ \A i \in 2 .. Len(mid) + 1 : s[i] = mid[i - 1]
  BY <1>4, <1>5, <1>8, Framed
<1>10. ASSUME NEW i \in 1 .. Len(s), s[i].enable
       PROVE  s[i].field = Control /\ i = Len(s)
  <2>1. CASE i = 1
    BY <1>6, <1>9, <1>10, <2>1 DEF SwitchesOff
  <2>2. CASE i \in 2 .. Len(mid) + 1
    <3>1. s[i] = mid[i - 1] /\ i - 1 \in 1 .. Len(mid)
      BY <1>9, <2>2
    <3>2. QED
      BY <1>5, <1>10, <3>1
  <2>3. CASE i = Len(mid) + 2
    BY <1>6, <1>9, <2>3
  <2>4. QED
    BY <1>9, <2>1, <2>2, <2>3
<1>11. QED
  BY <1>6, <1>7, <1>9, <1>10 DEF EnablesLast

LEMMA DriverStarts == DriverInit => Init /\ CallInv
<1>1. ASSUME DriverInit PROVE CallInv
  BY <1>1, EmptySeq DEF DriverInit, CallInv, EnablesLast
<1>2. QED
  BY <1>1 DEF DriverInit

\* Every access of the driver is one the discipline allows.
LEMMA WriteDisciplined ==
  ASSUME CallInv, FPGA_REG_WRITE
  PROVE  /\ Disciplined
         /\ bank_enable' => bank_enable \/ todo[1].enable
         /\ SwitchesOff(todo[1]) => ~bank_enable'
<1>1. PICK w : w = todo[1]
  OBVIOUS
<1>2. w \in Writes /\ w = Head(todo) /\ (SwitchesOff(w) \/ ~bank_enable)
  BY <1>1, ElementOfSeq, EmptySeq DEF CallInv, FPGA_REG_WRITE
<1>3. w.field \in Field /\ w.value \in Value[w.field] /\ w.enable \in BOOLEAN
  BY <1>2 DEF Writes
<1>4. CASE w.field = Control
  <2>1. WriteControl(w.enable, w.value)
    BY <1>2, <1>4 DEF FPGA_REG_WRITE
  <2>2. bank_enable' = w.enable
    BY <2>1 DEF WriteControl
  <2>3. CASE w.enable = TRUE
    <3>1. ~bank_enable
      BY <1>2, <2>3 DEF SwitchesOff
    <3>2. QED
      BY <1>1, <1>3, <1>4, <2>1, <2>3, <3>1 DEF Disciplined, SwitchesOff
  <2>4. CASE w.enable = FALSE
    BY <1>1, <1>3, <1>4, <2>1, <2>2, <2>4 DEF Disciplined
  <2>5. QED
    BY <1>3, <2>3, <2>4
<1>5. CASE w.field # Control
  <2>1. WriteField(w.field, w.value) /\ ~bank_enable
    BY <1>2, <1>5 DEF FPGA_REG_WRITE, SwitchesOff
  <2>2. bank_enable' = bank_enable
    BY <2>1 DEF WriteField
  <2>3. QED
    BY <1>1, <1>3, <1>5, <2>1, <2>2 DEF Disciplined, SwitchesOff
<1>6. QED
  BY <1>4, <1>5

LEMMA WriteKeepsCall ==
  ASSUME CallInv, FPGA_REG_WRITE
  PROVE  CallInv'
<1>1. /\ todo # <<>> /\ todo' = Tail(todo)
      /\ Tail(todo) \in Seq(Writes) /\ Len(Tail(todo)) = Len(todo) - 1
      /\ Len(todo) \in Nat \ {0}
      /\ \A i \in 1 .. Len(Tail(todo)) : Tail(todo)[i] = todo[i + 1]
  BY HeadTailProperties, EmptySeq DEF CallInv, FPGA_REG_WRITE
<1> DEFINE n == Len(todo)
<1>1a. \A i \in 1 .. n : todo[i].enable => todo[i].field = Control /\ i = n
  BY Zenon DEF CallInv, EnablesLast
<1>2. EnablesLast(todo')
  <2>1. ASSUME NEW i \in 1 .. Len(todo'), todo'[i].enable
        PROVE  todo'[i].field = Control /\ i = Len(todo')
    <3>1. i + 1 \in 1 .. n /\ todo'[i] = todo[i + 1]
      BY <1>1
    <3>2. PICK k \in 1 .. n : k = i + 1
      BY <3>1
    <3>3. todo[k].enable
      BY <2>1, <3>1, <3>2, Zenon
    <3>4. todo[k].field = Control /\ k = n
      BY <1>1a, <3>3, Zenon
    <3>5. todo'[i].field = Control
      BY <3>1, <3>2, <3>4, Zenon
    <3>6. Len(todo') = n - 1 /\ n \in Nat
      BY <1>1
    <3>7. i = Len(todo')
      <4>1. k = n
        BY <3>4
      <4>2. QED
        BY <3>2, <3>6, <4>1
    <3>8. QED
      BY <3>5, <3>7
  <2>2. QED
    BY <2>1, Zenon DEF EnablesLast
<1>3. ASSUME todo' # <<>> PROVE ~bank_enable'
  <2>1. Len(todo) # 1
    BY <1>1, <1>3, EmptySeq
  <2>2. ~todo[1].enable
    <3>1. 1 \in 1 .. n /\ 1 # n
      BY <1>1, <2>1
    <3>2. QED
      BY <1>1a, <3>1, Zenon
  <2>3. SwitchesOff(todo[1]) \/ ~bank_enable
    BY <1>1 DEF CallInv
  <2>4. QED
    BY <2>2, <2>3, WriteDisciplined
<1>4. QED
  BY <1>1, <1>2, <1>3 DEF CallInv

LEMMA CallStep ==
  ASSUME TypeOK, CallInv, [DriverNext]_driver_vars
  PROVE  CallInv' /\ [Next]_vars
<1>1. CASE ad9176_nco_enable
  <2>1. PICK freq \in Value[Frequency] :
          todo' = NcoWrites(freq) /\ UNCHANGED vars
    BY <1>1 DEF ad9176_nco_enable, Call
  <2>2. QED
    BY <2>1, NcoWritesOrderly DEF CallInv
<1>2. CASE ad9176_nco_disable
  <2>1. PICK w : w = Ctrl(FALSE, bank[Control])
    OBVIOUS
  <2>2. w \in Writes /\ SwitchesOff(w) /\ ~w.enable
    BY <2>1, WriteTypes, CdcAssumption DEF TypeOK, Config, SwitchesOff, Ctrl
  <2>3. todo' = <<w>> /\ UNCHANGED vars
    BY <1>2, <2>1 DEF ad9176_nco_disable, Call
  <2>4. QED
    BY <2>2, <2>3 DEF CallInv, EnablesLast
<1>3. CASE FPGA_REG_WRITE
  BY <1>3, WriteKeepsCall, WriteDisciplined DEF Next
<1>4. CASE OtherSoftware
  BY <1>4 DEF OtherSoftware, CallInv, Next
<1>5. CASE Elsewhere
  <2>1. UNCHANGED todo /\ Hardware
    BY <1>5 DEF Elsewhere
  <2>2. ~bank_enable => ~bank_enable'
    BY <2>1 DEF Hardware, LinkEdge, AssertReset, BankReset, ReleaseReset, software
  <2>3. QED
    BY <2>1, <2>2 DEF CallInv, Next
<1>6. CASE UNCHANGED driver_vars
  BY <1>6 DEF driver_vars, calls, vars, software, CallInv
<1>7. QED
  BY <1>1, <1>2, <1>3, <1>4, <1>5, <1>6 DEF DriverNext

\* The reference driver is an instance of the software that CsrCdc allows: a
\* call interrupted by a reset at any point goes on within the discipline.
THEOREM DriverDisciplined == DriverSpec => Spec
<1>1. TypeOK /\ [Next]_vars => TypeOK'
  BY TypeStep, NextIsFree
<1>2. Init => TypeOK
  BY WholeInit DEF IInv
<1>3. TypeOK /\ CallInv /\ [DriverNext]_driver_vars => CallInv' /\ [Next]_vars
  BY CallStep
<1>4. QED
  BY <1>1, <1>2, <1>3, DriverStarts, PTL DEF DriverSpec, Spec

\* So the tones it plays are the ones it was asked for, whole.
THEOREM DriverToneWhole == DriverSpec => []ToneIsWhole
BY DriverDisciplined, ToneWhole, PTL

\* And none moves while it is played, whenever a call, a reset or other
\* software comes in between.
THEOREM DriverToneStands == DriverSpec => ToneFrozen
BY DriverDisciplined, ToneStands

\* And three link edges after a call the tone is as the call asked.
THEOREM DriverToneInForce == DriverSpec => []InForce
BY DriverDisciplined, ToneInForce
=============================================================================
