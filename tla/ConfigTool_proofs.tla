-------------------------- MODULE ConfigTool_proofs --------------------------
(***************************************************************************)
(* Proofs about ConfigTool, for every PollLimit and every set of command   *)
(* lines: a transfer takes up its own answer (AnswerIsOwn), success means  *)
(* a configured converter (SuccessMeansConfigured), no settings go to a    *)
(* card that has not identified itself (NeverBlind), and options are read  *)
(* for what they mean (ParsedAsGiven).                                     *)
(*                                                                         *)
(* The first part follows the word of the transfer in hand through the SPI *)
(* master: behind a word of an earlier run, being shifted, or shifted with *)
(* its answer on top.  The second ties what the card has been told to the  *)
(* step of the bring-up.  The last one is an induction over the pairs of   *)
(* words that the loop in main has read.                                   *)
(***************************************************************************)
EXTENDS ConfigTool, WellFoundedInduction, TLAPS

Behind == shifting # NoWord /\ holding = Step
InFlight == holding = NoWord /\ shifting = Step
Answered == tmt /\ rxdata.reg = Step.reg

\* The word in hand, and the order of the two places for words.
OwnInv ==
  /\ shifting = NoWord => holding = NoWord
  /\ sent => pc # 0 /\ SpiStep /\ (Behind \/ InFlight \/ Answered)

\* A word of a transfer is not the absence of one.
LEMMA SpiWord == SpiStep => Step # NoWord
  BY DEF SpiStep, NoWord

LEMMA OwnInit == Init => OwnInv
  BY DEF Init, CardInit, OwnInv

\* What the transfer does keeps its word in sight.
LEMMA SendOwn ==
  ASSUME OwnInv, pc # 0, Send
  PROVE  OwnInv'
PROOF
<1>1. CASE ~trdy
  <2>1. UNCHANGED <<shifting, holding, rxdata>>
    BY <1>1 DEF Send, spi_master
  <2>2. ~sent' 
    BY <1>1 DEF Send, PollAgain, SpiTimeout, Continue, Fail
  <2> QED BY <2>1, <2>2 DEF OwnInv
<1>2. CASE trdy
  <2>1. TxData(Step) /\ SpiStep /\ UNCHANGED <<pc, job>>
    BY <1>2 DEF Send
  <2>2. Step' = Step
    BY <2>1 DEF Step, Program, peek, poke
  <2>3. CASE shifting = NoWord
    <3>1. shifting' = Step /\ holding' = NoWord
      BY <2>1, <2>3 DEF TxData, OwnInv
    <3> QED BY <3>1, <2>1, <2>2, <1>2, SpiWord DEF OwnInv, InFlight, SpiStep
  <2>4. CASE shifting # NoWord
    <3>1. shifting' = shifting /\ holding' = Step
      BY <2>1, <2>4, <1>2 DEF TxData
    <3> QED BY <3>1, <2>1, <2>2, <2>4 DEF OwnInv, Behind, SpiStep
  <2> QED BY <2>3, <2>4
<1> QED BY <1>1, <1>2

LEMMA ReceiveOwn ==
  ASSUME OwnInv, pc # 0, Receive
  PROVE  OwnInv'
PROOF
<1>1. UNCHANGED <<shifting, holding, rxdata>>
  BY DEF Receive, card_vars, spi_master
<1>2. ~sent' \/ UNCHANGED <<sent, pc, job>>
  BY DEF Receive, PollAgain, SpiTimeout, Continue, Fail
<1>3. CASE ~sent'
  BY <1>1, <1>3 DEF OwnInv
<1>4. CASE UNCHANGED <<sent, pc, job>>
  <2>1. Step' = Step
    BY <1>4 DEF Step, Program, peek, poke
  <2> QED BY <1>1, <1>4, <2>1 DEF OwnInv, Behind, InFlight, Answered, tmt, SpiStep
<1> QED BY <1>2, <1>3, <1>4

\* The steps that are no transfer.
LEMMA OtherOwn ==
  ASSUME OwnInv, pc # 0,
         \/ WaitStep \/ CsrStep \/ CompareStep
         \/ DivideStep \/ PokeStep \/ LookStep
  PROVE  OwnInv'
PROOF
<1>1. UNCHANGED <<shifting, holding, rxdata>>
  BY DEF WaitStep, CsrStep, CompareStep, DivideStep, PokeStep, LookStep,
         card_vars, spi_master
<1>2. ~sent
  BY DEF OwnInv, SpiStep, WaitStep, CsrStep, CompareStep, DivideStep,
         PokeStep, LookStep
<1>3. ~sent'
  <2>1. CASE WaitStep
    BY <1>2, <2>1 DEF WaitStep, PollAgain, Continue, Fail
  <2>2. CASE CsrStep \/ CompareStep
    BY <2>2 DEF CsrStep, CompareStep, Continue, Fail
  <2>3. CASE DivideStep \/ PokeStep \/ LookStep
    BY <2>3 DEF DivideStep, PokeStep, LookStep, Continue, Crash
  <2> QED BY <2>1, <2>2, <2>3
<1> QED BY <1>1, <1>3 DEF OwnInv

\* A word that has gone out leaves its answer on top.
LEMMA ShiftOwn ==
  ASSUME OwnInv, Shifted, UNCHANGED <<pc, sent, job>>
  PROVE  OwnInv'
PROOF
<1>1. /\ shifting # NoWord /\ shifting' = holding /\ holding' = NoWord
      /\ rxdata'.reg = shifting.reg
  BY DEF Shifted
<1>2. Step' = Step
  BY DEF Step, Program, peek, poke
<1>3. ASSUME sent PROVE pc' # 0 /\ SpiStep' /\ (Behind \/ InFlight \/ Answered)'
  <2>1. pc # 0 /\ SpiStep /\ (Behind \/ InFlight)
    BY <1>1, <1>3 DEF OwnInv, Answered, tmt
  <2>2. CASE Behind
    BY <1>1, <1>2, <2>1, <2>2 DEF Behind, InFlight, SpiStep
  <2>3. CASE InFlight
    BY <1>1, <1>2, <2>1, <2>3 DEF InFlight, Answered, tmt, SpiStep
  <2> QED BY <2>1, <2>2, <2>3
<1> QED BY <1>1, <1>3 DEF OwnInv

LEMMA HardwareOwn ==
  ASSUME OwnInv, Hardware
  PROVE  OwnInv'
PROOF
<1>1. UNCHANGED <<pc, sent, job>>
  BY DEF Hardware, process
<1>2. CASE Shifted
  BY <1>1, <1>2, ShiftOwn
<1>3. CASE UNCHANGED spi_master
  <2>1. Step' = Step
    BY <1>1 DEF Step, Program, peek, poke
  <2> QED BY <1>1, <1>3, <2>1
    DEF spi_master, OwnInv, Behind, InFlight, Answered, tmt, SpiStep
<1> QED BY <1>2, <1>3 DEF Hardware, card_vars

LEMMA OwnNext == OwnInv /\ [Next]_vars => OwnInv'
PROOF
<1> SUFFICES ASSUME OwnInv, [Next]_vars PROVE OwnInv'
  OBVIOUS
<1>1. CASE Work
  BY <1>1, SendOwn, ReceiveOwn, OtherOwn DEF Work, Run
<1>2. CASE Start \/ Kill
  <2>1. UNCHANGED spi_master /\ ~sent'
    BY <1>2 DEF Start, Kill, Crash, card_vars, OwnInv
  <2> QED BY <2>1 DEF OwnInv, spi_master
<1>3. CASE Hardware
  BY <1>3, HardwareOwn
<1>4. CASE UNCHANGED vars
  <2>1. UNCHANGED <<pc, sent, job, shifting, holding, rxdata>>
    BY <1>4 DEF vars, process, card_vars, spi_master
  <2>2. Step' = Step
    BY <2>1 DEF Step, Program, peek, poke
  <2> QED BY <2>1, <2>2 DEF OwnInv, Behind, InFlight, Answered, tmt, SpiStep
<1> QED BY <1>1, <1>2, <1>3, <1>4 DEF Next

LEMMA OwnCorrect == Spec => []OwnInv
  BY OwnInit, OwnNext, PTL DEF Spec

\* A transfer takes up the answer to its own word: once both places for words
\* are empty, the word of the transfer is the one that was answered last.
THEOREM AnswerCorrect == Spec => AnswerIsOwn
PROOF
<1>1. OwnInv /\ [Next]_vars =>
        [(pc # 0 /\ Receive /\ Finished) => rxdata.reg = Step.reg]_vars
  <2> SUFFICES ASSUME OwnInv, pc # 0, Receive, Finished
               PROVE  rxdata.reg = Step.reg
    OBVIOUS
  <2>1. SpiStep /\ (Behind \/ InFlight \/ Answered)
    BY DEF Receive, OwnInv
  <2> QED BY <2>1, SpiWord DEF Finished, tmt, Behind, InFlight, Answered
<1> QED BY <1>1, OwnCorrect, PTL DEF Spec, AnswerIsOwn
-----------------------------------------------------------------------------
(* The bring-up.  Its invariant ties what the converter has been told to    *)
(* the step the process is at, or to the fact that it is on nobody's way.   *)

Sequence == ad9176_bringup_full

\* Where the sequence stands at.
First == 4      \* the soft reset, the first transfer
Compare == 10
Locked == 20    \* the wait for the lock, the last step that leaves none in the SPI master
LastStep == 25
SettingSteps == {11, 13, 14, 15, 16, 17, 18}

IsSetting(word) == word.op = "write" /\ word.reg # "SPI_INTFCONFA"

\* The settings among the first n steps.
SettingsOf(n) ==
  {<<Sequence[i].reg, Sequence[i].val>> : i \in {j \in SettingSteps : j <= n}}

TypeInv ==
  /\ chip = [sdo |-> chip.sdo, settings |-> chip.settings, fresh |-> chip.fresh]
  /\ chip.sdo \in BOOLEAN /\ chip.fresh \in BOOLEAN
  /\ csr = [r \in CsrRegister |-> csr[r]]
  /\ swapped \in BOOLEAN /\ up \in BOOLEAN

\* Which step of which command the process can be at.
JobInv ==
  /\ job.cmd \in {"none", "bringup", "tone", "status", "peek", "poke"}
  /\ job.cmd = "none" <=> pc = 0
  /\ job.cmd = "bringup" => pc \in 1 .. LastStep + 1
  /\ job.cmd = "tone" => pc \in 1 .. 3
  /\ job.cmd \in {"status", "peek", "poke"} => pc = 1
  /\ pc # 0 => result = "none"

\* No word in the SPI master can change the converter.
Quiet == shifting.op # "write" /\ holding.op # "write"

\* Words that earlier runs have left are out before the first answer of this
\* one, and settings are only sent into an empty master.
WordInv ==
  /\ ~IsSetting(holding)
  /\ sent => job.cmd = "bringup"
  /\ sent /\ tmt /\ ~swapped => rxdata.from \in {card, "none"}
  /\ job.cmd = "bringup" /\ pc \in First + 1 .. Locked + 1 =>
       holding = NoWord /\ (shifting # NoWord => sent)
  /\ job.cmd = "bringup" /\ pc > Locked + 1 => Quiet

\* The steps whose words, if any, are out.
Done == IF sent /\ tmt THEN pc ELSE pc - 1

ChipInv ==
  job.cmd = "bringup" /\ ~swapped =>
    /\ card # "none" /\ Done >= First =>
         /\ chip.fresh
         /\ chip.sdo <=> Done >= First + 2
         /\ chip.settings = SettingsOf(Done)
    /\ "PRODIDL" \in ids => card = "ad9176"
    /\ pc > Compare => card = "ad9176"

CsrInv ==
  job.cmd = "bringup" =>
    /\ pc > 2 => csr["spi_en"] = 1
    /\ pc > 3 => csr["pe_ctrl"] = 1
    /\ pc \in {24, 25} => csr["SINE_CTRL"] = 31

\* A card that is no AD9176 has no settings of this run, and what may come to
\* it from an earlier one comes before the reset of this one.
BlindInv ==
  ~swapped /\ card # "ad9176" =>
    /\ chip.fresh => chip.settings = {}
    /\ IsSetting(shifting) => ~chip.fresh

UpInv ==
  up =>
    /\ job.cmd \notin {"bringup", "poke"}
    /\ Quiet
    /\ ~swapped => /\ card = "ad9176" /\ chip.fresh /\ chip.sdo
                   /\ chip.settings = Settings
    /\ csr["spi_en"] = 1 /\ csr["pe_ctrl"] = 1
    /\ csr["SINE_CTRL"] = 31 /\ csr["tx_en"] = 3

BringInv == TypeInv /\ JobInv /\ WordInv /\ ChipInv /\ CsrInv /\ BlindInv /\ UpInv
-----------------------------------------------------------------------------
(* The list of steps.                                                      *)

LEMMA SequenceSteps ==
  /\ Len(Sequence) = LastStep
  /\ Sequence[1] = Wait("fmc_ready")
  /\ Sequence[2] = ad9176_csr_write("spi_en", 1)
  /\ Sequence[3] = ad9176_csr_write("pe_ctrl", 1)
  /\ Sequence[4] = ad9176_reg_write("SPI_INTFCONFA", 129)
  /\ Sequence[5] = ad9176_reg_write("SPI_INTFCONFA", 0)
  /\ Sequence[6] = ad9176_reg_write("SPI_INTFCONFA", 24)
  /\ Sequence[7] = ad9176_reg_read("CHIPTYPE")
  /\ Sequence[8] = ad9176_reg_read("PRODIDL")
  /\ Sequence[9] = ad9176_reg_read("PRODIDH")
  /\ Sequence[10] = Do("compare")
  /\ Sequence[11] = ad9176_reg_write("DACPLL_CTRL", 1)
  /\ Sequence[12] = ad9176_reg_read("DACPLL_STATUS")
  /\ Sequence[13] = ad9176_reg_write("INTERP_CTRL", 4)
  /\ Sequence[14] = ad9176_reg_write("JESD_L_CTRL", 3)
  /\ Sequence[15] = ad9176_reg_write("JESD_K_CTRL", 31)
  /\ Sequence[16] = ad9176_reg_write("JESD_M_CTRL", 3)
  /\ Sequence[17] = ad9176_reg_write("JESD_MISC_CTRL", 160)
  /\ Sequence[18] = ad9176_reg_write("LINK_CTRL0", 1)
  /\ Sequence[19] = ad9176_csr_write("JESD_SYNC_CTRL", 0)
  /\ Sequence[20] = Wait("link_locked")
  /\ Sequence[21] = Glance("LINK_STATUS")
  /\ Sequence[22] = Do("divide")
  /\ Sequence[23] = ad9176_csr_write("SINE_CTRL", 31)
  /\ Sequence[24] = ad9176_csr_write("JESD_TX_SRC_SEL", 0)
  /\ Sequence[25] = ad9176_csr_write("tx_en", 3)
BY DEF Sequence, LastStep, ad9176_bringup_full, ad9176_reset, ad9176_verify_id,
       ad9176_configure_pll_interp, ad9176_configure_jesd_params,
       ad9176_enable_link, dac_subsys_release_sync, dac_subsys_wait_link_lock,
       dac_subsys_set_nco_tone

\* What the settings amount to, before, during and after they are written.
LEMMA SettingsGrow ==
  /\ \A n \in 0 .. Compare : SettingsOf(n) = {}
  /\ \A n \in SettingSteps :
       SettingsOf(n) = SettingsOf(n - 1) \union {<<Sequence[n].reg, Sequence[n].val>>}
  /\ \A n \in (1 .. LastStep + 1) \ SettingSteps : SettingsOf(n) = SettingsOf(n - 1)
  /\ \A n \in 18 .. LastStep + 1 : SettingsOf(n) = Settings
PROOF
<1>1. \A n \in 0 .. Compare : SettingsOf(n) = {}
  BY DEF SettingsOf, SettingSteps, Compare
<1>2. ASSUME NEW n \in SettingSteps
      PROVE  SettingsOf(n) = SettingsOf(n - 1) \union {<<Sequence[n].reg, Sequence[n].val>>}
  <2>1. {j \in SettingSteps : j <= n} = {j \in SettingSteps : j <= n - 1} \union {n}
    BY DEF SettingSteps
  <2> QED BY <2>1, Zenon DEF SettingsOf
<1>3. ASSUME NEW n \in (1 .. LastStep + 1) \ SettingSteps
      PROVE  SettingsOf(n) = SettingsOf(n - 1)
  <2>1. {j \in SettingSteps : j <= n} = {j \in SettingSteps : j <= n - 1}
    BY DEF SettingSteps, LastStep
  <2> QED BY <2>1, Zenon DEF SettingsOf
<1>4. ASSUME NEW n \in 18 .. LastStep + 1 PROVE SettingsOf(n) = Settings
  <2>1. {j \in SettingSteps : j <= n} = {11, 13, 14, 15, 16, 17, 18}
    BY DEF SettingSteps, LastStep
  <2>2. SettingsOf(n) = {<<Sequence[i].reg, Sequence[i].val>> : i \in {11, 13, 14, 15, 16, 17, 18}}
    BY <2>1, Zenon DEF SettingsOf
  <2>3. /\ <<Sequence[11].reg, Sequence[11].val>> = <<"DACPLL_CTRL", 1>>
        /\ <<Sequence[13].reg, Sequence[13].val>> = <<"INTERP_CTRL", 4>>
        /\ <<Sequence[14].reg, Sequence[14].val>> = <<"JESD_L_CTRL", 3>>
        /\ <<Sequence[15].reg, Sequence[15].val>> = <<"JESD_K_CTRL", 31>>
        /\ <<Sequence[16].reg, Sequence[16].val>> = <<"JESD_M_CTRL", 3>>
        /\ <<Sequence[17].reg, Sequence[17].val>> = <<"JESD_MISC_CTRL", 160>>
        /\ <<Sequence[18].reg, Sequence[18].val>> = <<"LINK_CTRL0", 1>>
    BY SequenceSteps DEF ad9176_reg_write
  <2> QED BY <2>2, <2>3 DEF Settings
<1> QED BY <1>1, <1>2, <1>3, <1>4

\* What kind of step there is where in the sequence.
LEMMA BringSteps ==
  ASSUME job.cmd = "bringup", pc \in 1 .. LastStep + 1
  PROVE  /\ Report = LastStep + 1 /\ Len(Program) = LastStep
         /\ pc \in 1 .. LastStep => Step = Sequence[pc]
         /\ pc = LastStep + 1 => Step = Glance("LINK_STATUS")
PROOF
<1>1. Report = LastStep + 1
  BY SequenceSteps DEF Report, Sequence
<1>2. Program = Sequence
  BY DEF Program, Sequence
<1> QED BY <1>1, <1>2, SequenceSteps DEF Step, LastStep

LEMMA StepKinds ==
  ASSUME job.cmd = "bringup", pc \in 1 .. LastStep + 1
  PROVE  /\ Step.op = "wait" => \/ pc = 1 /\ Step.reg = "fmc_ready"
                                \/ pc = Locked /\ Step.reg = "link_locked"
         /\ Step.op = "csr" => \/ pc = 2 /\ Step.reg = "spi_en" /\ Step.val = 1
                               \/ pc = 3 /\ Step.reg = "pe_ctrl" /\ Step.val = 1
                               \/ pc = 19 /\ Step.reg = "JESD_SYNC_CTRL"
                               \/ pc = 23 /\ Step.reg = "SINE_CTRL" /\ Step.val = 31
                               \/ pc = 24 /\ Step.reg = "JESD_TX_SRC_SEL"
                               \/ pc = 25 /\ Step.reg = "tx_en" /\ Step.val = 3
         /\ Step.op = "compare" <=> pc = Compare
         /\ pc \in {2, 3, 23, 25} => Step.op = "csr"
         /\ Step.op = "divide" => pc = 22
         /\ Step.op \notin {"poke", "look", "fault"}
         /\ SpiStep => pc \in (First .. 9) \union (11 .. 18) \union {21, LastStep + 1}
         /\ Step.op = "glance" <=> pc \in {21, LastStep + 1}
         /\ Step.reg = "PRODIDL" => pc = 8
         /\ Step.op = "write" <=> pc \in {4, 5, 6} \union SettingSteps
         /\ IsSetting(Step) <=> pc \in SettingSteps
         /\ pc \in {4, 5, 6} =>
              Step.reg = "SPI_INTFCONFA" /\ Step.val = (IF pc = 4 THEN 129 ELSE IF pc = 5 THEN 0 ELSE 24)
PROOF
<1> USE DEF ad9176_reg_write, ad9176_reg_read, Glance, ad9176_csr_write, Wait, Do,
            SpiStep, IsSetting, SettingSteps, First, Compare, Locked, LastStep
<1>1. CASE pc \in 1 .. 10
  BY <1>1, BringSteps, SequenceSteps
<1>2. CASE pc \in 11 .. 18
  BY <1>2, BringSteps, SequenceSteps
<1>3. CASE pc \in 19 .. 26
  BY <1>3, BringSteps, SequenceSteps
<1> QED BY <1>1, <1>2, <1>3

\* The other commands send no word and wait for nothing.
LEMMA OtherSteps ==
  ASSUME JobInv, pc # 0, job.cmd # "bringup"
  PROVE  /\ pc # Report /\ ~SpiStep /\ Step.op \notin {"wait", "compare"}
         /\ Step.op = "csr" => /\ job.cmd = "tone"
                               /\ \/ Step.reg = "SINE_CTRL" /\ Step.val = 31
                                  \/ Step.reg = "JESD_TX_SRC_SEL"
         /\ Step.op = "poke" => job.cmd = "poke"
         /\ Len(Program) = IF job.cmd = "tone" THEN 3 ELSE 1
PROOF
<1>1. Report = 26
  BY SequenceSteps DEF Report, Sequence, LastStep
<1> USE DEF JobInv
<1>2. pc # Report /\ Step = Program[pc]
  BY <1>1 DEF Step
<1> USE DEF SpiStep, Do, Look, ad9176_csr_write
<1>3. CASE job.cmd = "tone"
  BY <1>2, <1>3 DEF Program, dac_subsys_set_nco_tone
<1>4. CASE job.cmd = "status"
  BY <1>2, <1>4 DEF Program, cmd_status
<1>5. CASE job.cmd = "peek"
  BY <1>2, <1>5 DEF Program, peek
<1>6. CASE job.cmd = "poke"
  BY <1>2, <1>6 DEF Program, poke
<1> QED BY <1>3, <1>4, <1>5, <1>6
-----------------------------------------------------------------------------
(* What a step does to the process.                                        *)

Stays == UNCHANGED <<job, pc, result>>
Goes == pc < Len(Program) /\ pc' = pc + 1 /\ ~sent' /\ UNCHANGED <<job, result>>
GivesUpLink == pc = Locked /\ job.cmd = "bringup" /\ pc' = LastStep + 1 /\ ~sent' /\ UNCHANGED <<job, result>>
Ends == /\ pc' = 0 /\ job' = NoJob /\ ~sent'
        /\ result' = "ok" => pc = Len(Program) /\ pc # Report

LEMMA Lengths ==
  ASSUME JobInv, pc # 0
  PROVE  /\ pc \in Nat /\ Len(Program) \in Nat
         /\ job.cmd = "bringup" => Len(Program) = LastStep /\ Report = LastStep + 1
         /\ job.cmd = "tone" => Len(Program) = 3 /\ pc # Report
         /\ job.cmd \notin {"bringup", "tone"} => Len(Program) = 1 /\ pc # Report
         /\ pc <= Len(Program) \/ pc = Report
PROOF
<1>1. CASE job.cmd = "bringup"
  <2>1. pc \in 1 .. LastStep + 1
    BY <1>1 DEF JobInv
  <2>2. Report = LastStep + 1 /\ Len(Program) = LastStep
    BY <1>1, <2>1, BringSteps
  <2> QED BY <1>1, <2>1, <2>2 DEF LastStep
<1>2. CASE job.cmd # "bringup"
  <2>1. pc # Report /\ Len(Program) = IF job.cmd = "tone" THEN 3 ELSE 1
    BY <1>2, OtherSteps
  <2>2. pc \in IF job.cmd = "tone" THEN 1 .. 3 ELSE {1}
    BY <1>2 DEF JobInv
  <2> QED BY <1>2, <2>1, <2>2
<1> QED BY <1>1, <1>2

LEMMA ContinueMoves ==
  ASSUME JobInv, pc # 0, Continue
  PROVE  Goes \/ Ends
PROOF
<1>1. pc \in Nat /\ Len(Program) \in Nat /\ (pc <= Len(Program) \/ pc = Report)
  BY Lengths
<1>2. CASE pc = Report /\ Return("failed")
  BY <1>2 DEF Continue, Return, Ends
<1>3. CASE pc = Len(Program) /\ Return("ok") /\ pc # Report
  BY <1>3 DEF Continue, Return, Ends
<1>4. pc = Report => pc # Len(Program)
  <2>1. CASE job.cmd = "bringup"
    <3>1. Len(Program) = 25 /\ Report = 26
      BY <2>1, Lengths DEF LastStep
    <3> QED BY <3>1
  <2>2. CASE job.cmd # "bringup"
    BY <2>2, OtherSteps
  <2> QED BY <2>1, <2>2
<1>5. CASE pc \notin {Report, Len(Program)} /\ pc' = pc + 1 /\ UNCHANGED <<job, result>>
  BY <1>1, <1>5 DEF Continue, Goes
<1> QED BY <1>2, <1>3, <1>4, <1>5 DEF Continue

LEMMA PollMoves ==
  ASSUME NEW TimedOut \in BOOLEAN, PollAgain(TimedOut)
  PROVE  (Stays /\ sent' = sent) \/ TimedOut
BY DEF PollAgain, Stays

LEMMA RunMoves ==
  ASSUME JobInv, pc # 0, Run
  PROVE  Stays \/ Goes \/ GivesUpLink \/ Ends
PROOF
<1>1. Fail \/ Crash => Ends
  BY DEF Fail, Crash, Return, Ends
<1>2. CASE WaitStep
  <2>1. Step.op = "wait" /\ job.cmd = "bringup" /\ pc \in 1 .. LastStep + 1
    BY <1>2, OtherSteps DEF WaitStep, JobInv
  <2>2. Step.reg = "fmc_ready" \/ (Step.reg = "link_locked" /\ pc = Locked)
    BY <2>1, StepKinds
  <2>3. CASE Step.reg = "fmc_ready"
    BY <1>1, <1>2, <2>3, ContinueMoves DEF WaitStep, PollAgain, Stays
  <2>4. CASE Step.reg = "link_locked" /\ pc = Locked
    BY <1>2, <2>1, <2>4, BringSteps, ContinueMoves DEF WaitStep, PollAgain, Stays, GivesUpLink
  <2> QED BY <2>2, <2>3, <2>4
<1>3. CASE CsrStep \/ DivideStep \/ PokeStep \/ LookStep \/ CompareStep
  BY <1>1, <1>3, ContinueMoves DEF CsrStep, DivideStep, PokeStep, LookStep, CompareStep
<1>4. CASE Send
  BY <1>1, <1>4, ContinueMoves DEF Send, PollAgain, SpiTimeout, Stays
<1>5. CASE Receive
  BY <1>1, <1>5, ContinueMoves DEF Receive, PollAgain, SpiTimeout, Stays
<1> QED BY <1>2, <1>3, <1>4, <1>5 DEF Run

LEMMA JobStep ==
  ASSUME JobInv, pc # 0, Run
  PROVE  JobInv'
PROOF
<1>1. CASE Stays
  BY <1>1 DEF Stays, JobInv
<1>2. CASE Goes
  <2>1. /\ pc < Len(Program) /\ pc' = pc + 1 /\ pc \in Nat
        /\ job' = job /\ result' = result
    BY <1>2, Lengths DEF Goes
  <2>2. job.cmd = "bringup" => pc + 1 \in 1 .. LastStep + 1
    <3> SUFFICES ASSUME job.cmd = "bringup" PROVE pc + 1 \in 1 .. LastStep + 1
      OBVIOUS
    <3>1. Len(Program) = LastStep
      BY Lengths
    <3> QED BY <2>1, <3>1 DEF LastStep
  <2>3. job.cmd = "tone" => pc + 1 \in 1 .. 3
    <3> SUFFICES ASSUME job.cmd = "tone" PROVE pc + 1 \in 1 .. 3
      OBVIOUS
    <3>1. Len(Program) = 3
      BY Lengths
    <3> QED BY <2>1, <3>1
  <2>4. job.cmd \in {"bringup", "tone"}
    <3> SUFFICES ASSUME job.cmd \notin {"bringup", "tone"} PROVE FALSE
      OBVIOUS
    <3>1. Len(Program) = 1
      BY Lengths
    <3> QED BY <2>1, <3>1 DEF JobInv
  <2> QED BY <2>1, <2>2, <2>3, <2>4 DEF JobInv
<1>3. CASE GivesUpLink
  BY <1>3 DEF GivesUpLink, JobInv, LastStep
<1>4. CASE Ends
  BY <1>4 DEF Ends, NoJob, JobInv
<1> QED BY <1>1, <1>2, <1>3, <1>4, RunMoves
-----------------------------------------------------------------------------
(* A step of the program.                                                  *)

LEMMA WorkLeaves ==
  ASSUME Run
  PROVE  /\ card' = card /\ chip' = chip /\ rxdata' = rxdata
         /\ ~Send => UNCHANGED <<shifting, holding>>
         /\ ~CsrStep /\ ~PokeStep => csr' = csr
         /\ ~Receive => ids' \subseteq ids
PROOF
<1> USE DEF card_vars, spi_master
<1>1. CASE WaitStep \/ CompareStep \/ DivideStep \/ LookStep
  BY <1>1 DEF WaitStep, CompareStep, DivideStep, LookStep
<1>2. CASE CsrStep \/ PokeStep
  BY <1>2 DEF CsrStep, PokeStep
<1>3. CASE Send
  BY <1>3 DEF Send, TxData
<1>4. CASE Receive
  BY <1>4 DEF Receive
<1> QED BY <1>1, <1>2, <1>3, <1>4 DEF Run

\* The commands without a transfer.
LEMMA OtherWork ==
  ASSUME OwnInv, BringInv, pc # 0, Work, job.cmd # "bringup"
  PROVE  BringInv'
PROOF
<1>1. Run /\ up' = up /\ swapped' = swapped
  BY DEF Work, BringInv, TypeInv
<1>2. JobInv'
  BY <1>1, JobStep DEF BringInv
<1>3. ~sent /\ ~SpiStep /\ Step.op \notin {"wait", "compare"}
  BY OtherSteps DEF BringInv, WordInv
<1>4. CsrStep \/ DivideStep \/ PokeStep \/ LookStep
  BY <1>1, <1>3 DEF Run, WaitStep, CompareStep, Send, Receive
<1>5. /\ UNCHANGED <<card, chip, rxdata, shifting, holding>>
      /\ ~sent'
  <2>1. ~Send
    BY <1>3 DEF Send
  <2>2. ~sent'
    BY <1>4 DEF CsrStep, DivideStep, PokeStep, LookStep, Continue, Crash
  <2> QED BY <1>1, <2>1, <2>2, WorkLeaves
<1>6. job'.cmd # "bringup" /\ (up => job'.cmd # "poke")
  BY <1>1, RunMoves DEF Stays, Goes, GivesUpLink, Ends, NoJob, BringInv, UpInv
<1>7. /\ csr' = [r \in CsrRegister |-> csr'[r]]
      /\ up => /\ csr'["spi_en"] = csr["spi_en"] /\ csr'["pe_ctrl"] = csr["pe_ctrl"]
               /\ csr'["SINE_CTRL"] \in {csr["SINE_CTRL"], 31} /\ csr'["tx_en"] = csr["tx_en"]
  <2>0. csr = [r \in CsrRegister |-> csr[r]]
    BY DEF BringInv, TypeInv
  <2>1. CASE CsrStep
    <3>1. PICK reg, val : reg = Step.reg /\ val = Step.val
      OBVIOUS
    <3>2. csr' = [csr EXCEPT ![reg] = val]
      BY <2>1, <3>1 DEF CsrStep
    <3>3. (reg = "SINE_CTRL" /\ val = 31) \/ reg = "JESD_TX_SRC_SEL"
      BY <2>1, <3>1, OtherSteps DEF CsrStep, BringInv
    <3> QED BY <2>0, <3>2, <3>3 DEF CsrRegister
  <2>2. CASE PokeStep
    <3>1. ~up
      BY <2>2, OtherSteps DEF PokeStep, BringInv, UpInv
    <3>2. PICK reg, val : csr' = csr \/ csr' = [csr EXCEPT ![reg] = val]
      BY <2>2 DEF PokeStep
    <3> QED BY <2>0, <3>1, <3>2
  <2>3. CASE DivideStep \/ LookStep
    <3>1. csr' = csr
      BY <2>3 DEF DivideStep, LookStep, card_vars
    <3> QED BY <2>0, <3>1
  <2> QED BY <1>4, <2>1, <2>2, <2>3
<1>8. TypeInv'
  BY <1>1, <1>5, <1>7 DEF BringInv, TypeInv
<1>9. WordInv'
  BY <1>1, <1>5, <1>6 DEF BringInv, WordInv, IsSetting
<1>10. ChipInv' /\ CsrInv'
  BY <1>6 DEF ChipInv, CsrInv
<1>11. BlindInv'
  BY <1>1, <1>5 DEF BringInv, BlindInv, IsSetting
<1>12. UpInv'
  <2> SUFFICES ASSUME up PROVE UpInv'
    BY <1>1 DEF UpInv
  <2>1. /\ Quiet
        /\ ~swapped => /\ card = "ad9176" /\ chip.fresh /\ chip.sdo
                       /\ chip.settings = Settings
        /\ csr["spi_en"] = 1 /\ csr["pe_ctrl"] = 1
        /\ csr["SINE_CTRL"] = 31 /\ csr["tx_en"] = 3
    BY DEF BringInv, UpInv
  <2>2. Quiet' /\ Settings' = Settings
    BY <1>5, <2>1 DEF Quiet, Settings
  <2> QED BY <1>1, <1>5, <1>6, <1>7, <2>1, <2>2 DEF UpInv
<1> QED BY <1>2, <1>8, <1>9, <1>10, <1>11, <1>12 DEF BringInv

\* The bring-up: what is done where, and with which word under way.
Transfers == (First .. 9) \union (11 .. 18) \union {21, LastStep + 1}

LEMMA BringKinds ==
  ASSUME OwnInv, BringInv, pc # 0, Run, job.cmd = "bringup"
  PROVE  /\ pc \in 1 .. LastStep + 1
         /\ \/ WaitStep /\ pc \in {1, Locked} /\ ~sent
            \/ CsrStep /\ pc \in {2, 3, 19, 23, 24, 25} /\ ~sent
            \/ CompareStep /\ pc = Compare /\ ~sent
            \/ DivideStep /\ pc = 22 /\ ~sent
            \/ Send /\ pc \in Transfers /\ ~sent
            \/ Receive /\ pc \in Transfers /\ sent
PROOF
<1>1. pc \in 1 .. LastStep + 1
  BY DEF BringInv, JobInv
<1>2. sent => SpiStep
  BY DEF OwnInv
<1>3. CASE WaitStep \/ CsrStep
  BY <1>1, <1>2, <1>3, StepKinds DEF WaitStep, CsrStep, SpiStep
<1>4. CASE CompareStep \/ DivideStep \/ PokeStep \/ LookStep
  BY <1>1, <1>2, <1>4, StepKinds DEF CompareStep, DivideStep, PokeStep, LookStep, SpiStep
<1>5. CASE Send \/ Receive
  BY <1>1, <1>5, StepKinds DEF Send, Receive, Transfers
<1> QED BY <1>3, <1>4, <1>5, <1>1 DEF Run

LEMMA SendMoves ==
  ASSUME OwnInv, BringInv, pc # 0, Send, job.cmd = "bringup"
  PROVE  \/ /\ Stays /\ sent' /\ trdy
            /\ IF shifting = NoWord THEN shifting' = Step /\ holding' = holding
                                    ELSE shifting' = shifting /\ holding' = Step
         \/ Stays /\ sent' = sent /\ UNCHANGED <<shifting, holding>>
         \/ /\ Goes \/ Ends
            /\ ~trdy /\ UNCHANGED <<shifting, holding>>
            /\ Goes => pc = 21
PROOF
<1>1. pc \in 1 .. LastStep + 1 /\ JobInv
  BY DEF BringInv, JobInv
<1>2. CASE trdy
  <2>1. TxData(Step) /\ sent' = TRUE /\ UNCHANGED <<job, pc, result>>
    BY <1>2 DEF Send
  <2> QED BY <1>2, <2>1 DEF TxData, Stays
<1>3. CASE ~trdy
  <2>1. PollAgain(SpiTimeout) /\ UNCHANGED <<shifting, holding>> /\ SpiStep
    BY <1>3 DEF Send, spi_master
  <2>2. CASE SpiTimeout
    <3>1. CASE Step.op = "glance"
      <4>1. pc \in {21, LastStep + 1}
        BY <1>1, <3>1, StepKinds
      <4>2. Goes \/ Ends
        BY <1>1, <2>2, <3>1, ContinueMoves DEF SpiTimeout
      <4>3. Goes => pc = 21
        <5>1. Len(Program) = LastStep
          BY <1>1, BringSteps
        <5> QED BY <4>1, <5>1 DEF Goes, LastStep
      <4> QED BY <1>3, <2>1, <4>2, <4>3
    <3>2. CASE Step.op # "glance"
      <4>1. Ends
        BY <2>2, <3>2 DEF SpiTimeout, Fail, Return, Ends
      <4>2. ~Goes
        BY <1>1, <4>1 DEF Ends, Goes, LastStep
      <4> QED BY <1>3, <2>1, <4>1, <4>2
    <3> QED BY <3>1, <3>2
  <2>3. CASE ~SpiTimeout
    BY <2>1, <2>3 DEF PollAgain, Stays
  <2> QED BY <2>2, <2>3
<1> QED BY <1>2, <1>3

LEMMA ReceiveMoves ==
  ASSUME OwnInv, BringInv, pc # 0, Receive, job.cmd = "bringup"
  PROVE  /\ UNCHANGED <<shifting, holding>>
         /\ \/ Stays /\ sent' = sent /\ ids' \subseteq ids /\ ~tmt
            \/ tmt /\ (Goes \/ Ends)
            \/ ~tmt /\ (Goes \/ Ends) /\ ids' = ids /\ (Goes => pc = 21)
PROOF
<1>1. pc \in 1 .. LastStep + 1 /\ JobInv
  BY DEF BringInv, JobInv
<1>2. UNCHANGED <<shifting, holding>> /\ SpiStep
  BY DEF Receive, card_vars, spi_master
<1>3. CASE tmt
  <2>1. Continue
    BY <1>3 DEF Receive, Finished
  <2> QED BY <1>1, <1>2, <1>3, <2>1, ContinueMoves
<1>4. CASE ~tmt
  <2>1. PollAgain(SpiTimeout) /\ ids' = ids
    BY <1>4 DEF Receive, Finished
  <2>2. CASE SpiTimeout
    <3>1. CASE Step.op = "glance"
      <4>1. pc \in {21, LastStep + 1}
        BY <1>1, <3>1, StepKinds
      <4>2. Goes \/ Ends
        BY <1>1, <2>2, <3>1, ContinueMoves DEF SpiTimeout
      <4>3. Goes => pc = 21
        <5>1. Len(Program) = LastStep
          BY <1>1, BringSteps
        <5> QED BY <4>1, <5>1 DEF Goes, LastStep
      <4> QED BY <1>2, <1>4, <2>1, <4>2, <4>3
    <3>2. CASE Step.op # "glance"
      <4>1. Ends
        BY <2>2, <3>2 DEF SpiTimeout, Fail, Return, Ends
      <4>2. ~Goes
        BY <1>1, <4>1 DEF Ends, Goes, LastStep
      <4> QED BY <1>2, <1>4, <2>1, <4>1, <4>2
    <3> QED BY <3>1, <3>2
  <2>3. CASE ~SpiTimeout
    BY <1>2, <1>4, <2>1, <2>3 DEF PollAgain, Stays
  <2> QED BY <2>2, <2>3
<1> QED BY <1>3, <1>4

\* The steps that are no transfer.
LEMMA QuietMoves ==
  ASSUME OwnInv, BringInv, pc # 0, Run, job.cmd = "bringup", ~Send, ~Receive
  PROVE  /\ UNCHANGED <<shifting, holding>> /\ ~sent /\ ~sent'
         /\ pc \in {1, 2, 3, Compare, 19, Locked, 22, 23, 24, 25}
         /\ pc = Compare => CompareStep
         /\ pc \in {2, 3, 19, 23, 24, 25} => CsrStep /\ ~Stays
         /\ Stays \/ Goes \/ Ends \/ (GivesUpLink /\ WaitStep)
PROOF
<1>1. /\ pc \in {1, 2, 3, Compare, 19, Locked, 22, 23, 24, 25} /\ ~sent
      /\ pc = Compare => CompareStep
      /\ pc \in {2, 3, 19, 23, 24, 25} => CsrStep
      /\ pc \in {1, Locked} => WaitStep
      /\ pc = 22 => DivideStep
  BY BringKinds DEF Compare, Locked
<1>2. UNCHANGED <<shifting, holding>> /\ JobInv
  BY WorkLeaves DEF BringInv
<1>3. ~sent'
  <2>1. CASE WaitStep
    BY <1>1, <2>1 DEF WaitStep, PollAgain, Continue, Fail
  <2>2. CASE CsrStep \/ CompareStep \/ DivideStep
    BY <2>2 DEF CsrStep, CompareStep, DivideStep, Continue, Fail, Crash
  <2> QED BY <1>1, <2>1, <2>2
<1>4. CsrStep => ~Stays
  <2> SUFFICES ASSUME CsrStep PROVE ~Stays
    OBVIOUS
  <2>1. Goes \/ Ends
    BY <1>2, ContinueMoves DEF CsrStep
  <2> QED BY <1>1, <2>1 DEF Goes, Ends, Stays, Compare, Locked
<1>5. GivesUpLink => WaitStep
  BY <1>1 DEF GivesUpLink, Locked
<1>6. Stays \/ Goes \/ GivesUpLink \/ Ends
  BY <1>2, RunMoves
<1> QED BY <1>1, <1>2, <1>3, <1>4, <1>5, <1>6

\* Whatever step it is, it can be told by how it moves the process.
LEMMA BringMoves ==
  ASSUME OwnInv, BringInv, pc # 0, Work, job.cmd = "bringup"
  PROVE  /\ pc \in 1 .. LastStep + 1 /\ result = "none" /\ ~up /\ JobInv'
         /\ Stays => job'.cmd = "bringup" /\ pc' = pc
         /\ Goes => job'.cmd = "bringup" /\ pc' = pc + 1 /\ pc <= 25 /\ ~sent'
         /\ GivesUpLink => job'.cmd = "bringup" /\ pc = Locked /\ pc' = 26 /\ ~sent'
         /\ Ends => job'.cmd = "none" /\ pc' = 0 /\ ~sent'
         /\ Stays \/ Goes \/ GivesUpLink \/ Ends
         /\ UNCHANGED <<card, chip, rxdata, swapped>>
         /\ up' <=> result' = "ok"
PROOF
<1>1. pc \in 1 .. LastStep + 1 /\ result = "none" /\ ~up /\ JobInv
  BY DEF BringInv, JobInv, UpInv
<1>2. JobInv' /\ (Stays \/ Goes \/ GivesUpLink \/ Ends)
  BY <1>1, JobStep, RunMoves DEF Work
<1>3. UNCHANGED <<card, chip, rxdata, swapped>>
  BY WorkLeaves DEF Work
<1>4. up' <=> result' = "ok"
  BY <1>1 DEF Work
<1>5. Goes => pc <= 25
  <2>1. Len(Program) = LastStep
    BY <1>1, BringSteps
  <2> QED BY <1>1, <2>1 DEF Goes, LastStep
<1> QED BY <1>1, <1>2, <1>3, <1>4, <1>5 DEF Stays, Goes, GivesUpLink, Ends, NoJob, LastStep

LEMMA WorkWord ==
  ASSUME OwnInv, BringInv, pc # 0, Work, job.cmd = "bringup"
  PROVE  WordInv'
PROOF
<1> USE DEF First, Locked, LastStep
<1>0. /\ pc \in 1 .. 26
      /\ ~IsSetting(holding)
      /\ sent /\ tmt /\ ~swapped => rxdata.from \in {card, "none"}
      /\ pc \in 5 .. 21 => holding = NoWord /\ (shifting # NoWord => sent)
      /\ pc > 21 => Quiet
      /\ shifting = NoWord => holding = NoWord
  BY DEF BringInv, WordInv, JobInv, OwnInv
<1>1. /\ Stays => job'.cmd = "bringup" /\ pc' = pc
      /\ Goes => job'.cmd = "bringup" /\ pc' = pc + 1 /\ ~sent'
      /\ GivesUpLink => job'.cmd = "bringup" /\ pc = 20 /\ pc' = 26 /\ ~sent'
      /\ Ends => job'.cmd = "none" /\ pc' = 0 /\ ~sent'
      /\ UNCHANGED <<card, rxdata, swapped>>
  BY BringMoves
<1>2. IsSetting(NoWord) = FALSE /\ NoWord.op # "write"
  BY DEF IsSetting, NoWord
<1>3. CASE Send
  <2>1. ~sent /\ SpiStep
    BY <1>3 DEF Send
  <2>2. ASSUME Stays, sent', trdy,
               IF shifting = NoWord THEN shifting' = Step /\ holding' = holding
                                    ELSE shifting' = shifting /\ holding' = Step
        PROVE  WordInv'
    <3>1. Step # NoWord /\ ~tmt'
      BY <2>1, <2>2, SpiWord DEF tmt
    <3>2. IsSetting(Step) => pc \in 5 .. 21
      BY <1>0, StepKinds DEF SettingSteps
    <3>3. ~IsSetting(holding')
      BY <1>0, <2>1, <2>2, <3>2
    <3>4. pc \in 5 .. 21 => holding' = NoWord
      BY <1>0, <2>1, <2>2
    <3>5. pc > 21 => Step.op # "write"
      BY <1>0, StepKinds DEF SettingSteps
    <3>6. pc > 21 => Quiet'
      BY <1>0, <2>2, <3>5 DEF Quiet
    <3> QED BY <1>1, <2>2, <3>1, <3>3, <3>4, <3>6 DEF WordInv
  <2>3. ASSUME Stays, ~sent', UNCHANGED <<shifting, holding>>
        PROVE  WordInv'
    BY <1>0, <1>1, <2>1, <2>3 DEF WordInv, Quiet, IsSetting
  <2>4. ASSUME Goes, pc = 21, ~trdy, UNCHANGED <<shifting, holding>>
        PROVE  WordInv'
    BY <1>0, <2>4 DEF trdy
  <2>5. ASSUME Ends, UNCHANGED <<shifting, holding>>
        PROVE  WordInv'
    BY <1>0, <1>1, <2>5 DEF WordInv, IsSetting
  <2> QED BY <1>3, <2>1, <2>2, <2>3, <2>4, <2>5, SendMoves
<1>4. CASE Receive
  <2>1. sent /\ UNCHANGED <<shifting, holding>> /\ SpiStep
    BY <1>4, ReceiveMoves, BringKinds DEF Work, Receive
  <2>2. ASSUME Stays, sent' = sent, ~tmt
        PROVE  WordInv'
    BY <1>0, <1>1, <2>1, <2>2 DEF WordInv, Quiet, IsSetting, tmt
  <2>3. ASSUME tmt, Goes
        PROVE  WordInv'
    <3>1. shifting' = NoWord /\ holding' = NoWord
      BY <2>1, <2>3 DEF tmt
    <3> QED BY <1>1, <1>2, <2>3, <3>1 DEF WordInv, Quiet
  <2>4. ASSUME Goes, pc = 21
        PROVE  WordInv'
    <3>1. shifting = Step \/ shifting = NoWord
      BY <1>0, <2>1, <2>4, SpiWord DEF OwnInv, Behind, InFlight, Answered, tmt
    <3>2. Step.op # "write"
      BY <1>0, <2>4, StepKinds DEF SettingSteps
    <3>3. Quiet' /\ ~IsSetting(holding')
      BY <1>0, <1>2, <2>1, <2>4, <3>1, <3>2 DEF Quiet
    <3> QED BY <1>1, <2>4, <3>3 DEF WordInv
  <2>5. ASSUME Ends
        PROVE  WordInv'
    BY <1>0, <1>1, <2>1, <2>5 DEF WordInv, IsSetting
  <2> QED BY <1>4, <2>1, <2>2, <2>3, <2>4, <2>5, ReceiveMoves
<1>5. CASE ~Send /\ ~Receive
  <2>1. /\ UNCHANGED <<shifting, holding>> /\ ~sent /\ ~sent'
        /\ pc \in {1, 2, 3, 10, 19, 20, 22, 23, 24, 25}
        /\ Stays \/ Goes \/ Ends \/ GivesUpLink
    BY <1>5, QuietMoves DEF Work, Compare
  <2>2. ~IsSetting(holding')
    BY <1>0, <2>1 DEF IsSetting
  <2>3. CASE Stays
    BY <1>0, <1>1, <2>1, <2>2, <2>3 DEF WordInv, Quiet
  <2>4. CASE Goes
    BY <1>0, <1>1, <2>1, <2>2, <2>4 DEF WordInv, Quiet
  <2>5. CASE GivesUpLink
    BY <1>0, <1>1, <1>2, <2>1, <2>2, <2>5 DEF WordInv, Quiet
  <2>6. CASE Ends
    BY <1>1, <2>1, <2>2, <2>6 DEF WordInv
  <2> QED BY <2>1, <2>3, <2>4, <2>5, <2>6
<1> QED BY <1>3, <1>4, <1>5

\* How the count of steps whose words are out moves: by a step that has no
\* word, or with the words all out.
LEMMA DoneMoves ==
  ASSUME OwnInv, BringInv, pc # 0, Work, job.cmd = "bringup", job'.cmd = "bringup"
  PROVE  /\ Done \in 0 .. 26
         /\ \/ Done' = Done
            \/ Done' \in 0 .. First - 1
            \/ Done \in 9 .. 26 /\ Done' = Done + 1 /\ Done' \in (1 .. 26) \ SettingSteps
            \/ Done \in 18 .. 26 /\ Done' \in 18 .. 26
PROOF
<1> USE DEF First, Locked, LastStep, SettingSteps
<1>0. /\ pc \in 1 .. 26
      /\ Stays => pc' = pc
      /\ Goes => pc' = pc + 1 /\ ~sent' /\ pc <= 25
      /\ Stays \/ Goes \/ GivesUpLink
      /\ GivesUpLink => pc = 20 /\ pc' = 26 /\ ~sent'
      /\ ~Ends
  BY BringMoves
<1>1. Done \in 0 .. 26
  BY <1>0 DEF Done
<1>2. CASE Stays
  <2>1. (sent /\ tmt)' <=> (sent /\ tmt)
    <3>1. CASE Send
      <4>1. ~sent /\ SpiStep
        BY <3>1, BringKinds DEF Work, Send
      <4>2. ~sent' \/ ~tmt'
        BY <3>1, <4>1, <1>0, SendMoves, SpiWord DEF tmt
      <4> QED BY <4>1, <4>2
    <3>2. CASE Receive
      <4>1. UNCHANGED <<shifting, holding>>
        BY <3>2, ReceiveMoves
      <4>2. ~Goes
        BY <1>0, <1>2
      <4>3. sent' = sent
        BY <1>0, <3>2, <4>2, ReceiveMoves
      <4> QED BY <4>1, <4>3 DEF tmt
    <3>3. CASE ~Send /\ ~Receive
      BY <3>3, QuietMoves DEF Work
    <3> QED BY <3>1, <3>2, <3>3
  <2>2. Done' = Done
    BY <1>0, <1>2, <2>1 DEF Done
  <2> QED BY <1>1, <2>2
<1>3. CASE Goes
  <2>0. ~Stays
    BY <1>0, <1>3
  <2>1. Done' = pc
    BY <1>0, <1>3 DEF Done
  <2>2. CASE Send
    <3>1. pc = 21 /\ ~sent
      BY <1>0, <1>3, <2>0, <2>2, SendMoves DEF Send
    <3> QED BY <1>1, <2>1, <3>1 DEF Done
  <2>3. CASE Receive
    <3>1. sent /\ (tmt \/ pc = 21)
      BY <1>0, <1>3, <2>0, <2>3, ReceiveMoves DEF Receive
    <3> QED BY <1>0, <1>1, <2>1, <3>1 DEF Done
  <2>4. CASE ~Send /\ ~Receive
    <3>1. ~sent /\ pc \in {1, 2, 3, 10, 19, 20, 22, 23, 24, 25}
      BY <2>4, QuietMoves DEF Work, Compare
    <3>2. Done = pc - 1
      BY <3>1 DEF Done
    <3> QED BY <1>1, <2>1, <3>1, <3>2
  <2> QED BY <2>2, <2>3, <2>4
<1>4. CASE GivesUpLink
  <2>1. Done' = 25
    BY <1>0, <1>4 DEF Done
  <2>2. Done \in {19, 20}
    BY <1>0, <1>4 DEF Done
  <2> QED BY <1>1, <2>1, <2>2
<1> QED BY <1>0, <1>2, <1>3, <1>4

\* What is read of a register of the card that is still there.
LEMMA Identified ==
  ASSUME OwnInv, BringInv, pc # 0, Receive, Finished, ~swapped,
         "PRODIDL" \in ids' \ ids
  PROVE  card = "ad9176"
PROOF
<1>1. Expected(rxdata) /\ Step.reg = "PRODIDL" /\ sent /\ tmt
  BY DEF Receive, Finished
<1>2. rxdata.reg = Step.reg
  BY <1>1, SpiWord DEF OwnInv, Behind, InFlight, Answered, tmt, SpiStep, NoWord
<1>3. rxdata.from \in {card, "none"}
  BY <1>1 DEF BringInv, WordInv
<1> QED BY <1>1, <1>2, <1>3 DEF Expected

LEMMA WorkChip ==
  ASSUME OwnInv, BringInv, pc # 0, Work, job.cmd = "bringup"
  PROVE  ChipInv'
PROOF
<1> USE DEF First, Locked, LastStep, Compare
<1> SUFFICES ASSUME job'.cmd = "bringup", ~swapped'
             PROVE  /\ card' # "none" /\ Done' >= First =>
                         /\ chip'.fresh
                         /\ chip'.sdo <=> Done' >= First + 2
                         /\ chip'.settings = SettingsOf(Done')
                    /\ "PRODIDL" \in ids' => card' = "ad9176"
                    /\ pc' > Compare => card' = "ad9176"
  BY DEF ChipInv, SettingsOf, Sequence, ad9176_bringup_full
<1>0. /\ pc \in 1 .. 26 /\ ~swapped
      /\ Stays => pc' = pc
      /\ Goes => pc' = pc + 1
      /\ Stays \/ Goes \/ GivesUpLink
      /\ GivesUpLink => pc = 20
      /\ ~Ends
      /\ UNCHANGED <<card, chip>>
  BY BringMoves
<1>1. /\ card # "none" /\ Done >= First =>
           /\ chip.fresh
           /\ chip.sdo <=> Done >= First + 2
           /\ chip.settings = SettingsOf(Done)
      /\ "PRODIDL" \in ids => card = "ad9176"
      /\ pc > Compare => card = "ad9176"
  BY <1>0 DEF BringInv, ChipInv
<1>2. ASSUME card' # "none", Done' >= First
      PROVE  /\ chip'.fresh
             /\ chip'.sdo <=> Done' >= First + 2
             /\ chip'.settings = SettingsOf(Done')
  <2>1. Done \in 0 .. 26
    BY DoneMoves
  <2>2. CASE Done' = Done
    BY <1>0, <1>1, <1>2, <2>2
  <2>3. CASE Done \in 9 .. 26 /\ Done' = Done + 1 /\ Done' \in (1 .. 26) \ SettingSteps
    <3>1. SettingsOf(Done') = SettingsOf(Done)
      <4>1. Done = Done' - 1
        BY <2>3
      <4> QED BY <2>3, <4>1, SettingsGrow
    <3> QED BY <1>0, <1>1, <1>2, <2>3, <3>1
  <2>4. CASE Done \in 18 .. 26 /\ Done' \in 18 .. 26
    <3>1. SettingsOf(Done') = SettingsOf(Done)
      BY <2>4, SettingsGrow
    <3> QED BY <1>0, <1>1, <1>2, <2>4, <3>1
  <2>5. CASE Done' \in 0 .. First - 1
    BY <1>2, <2>5
  <2> QED BY <2>2, <2>3, <2>4, <2>5, DoneMoves
<1>3. ASSUME "PRODIDL" \in ids' PROVE card' = "ad9176"
  <2>1. CASE "PRODIDL" \in ids
    BY <1>0, <1>1, <2>1
  <2>2. CASE "PRODIDL" \notin ids
    <3>1. Receive
      BY <1>3, <2>2, WorkLeaves DEF Work
    <3>2. Finished
      BY <1>3, <2>2, <3>1 DEF Receive
    <3> QED BY <1>0, <1>3, <2>2, <3>1, <3>2, Identified
  <2> QED BY <2>1, <2>2
<1>4. ASSUME pc' > Compare PROVE card' = "ad9176"
  <2>1. CASE pc > Compare
    BY <1>0, <1>1, <2>1
  <2>2. CASE pc = Compare /\ Goes
    <3>1. ~Send /\ ~Receive
      BY <2>2, <1>0, StepKinds DEF Send, Receive, SpiStep
    <3>2. CompareStep
      BY <2>2, <3>1, QuietMoves DEF Work
    <3>3. verified
      BY <1>0, <3>2 DEF CompareStep, Fail, Return, Ends
    <3> QED BY <1>0, <1>1, <3>3 DEF verified, IdRegisters
  <2> QED BY <1>0, <1>4, <2>1, <2>2
<1> QED BY <1>2, <1>3, <1>4

\* What a step of the bring-up writes into the FPGA.
LEMMA BringWrites ==
  ASSUME OwnInv, BringInv, pc # 0, Work, job.cmd = "bringup"
  PROVE  /\ csr' = [r \in CsrRegister |-> csr'[r]]
         /\ Stays => csr' = csr
         /\ ~Stays => csr'["spi_en"] = (IF pc = 2 THEN 1 ELSE csr["spi_en"])
         /\ ~Stays => csr'["pe_ctrl"] = (IF pc = 3 THEN 1 ELSE csr["pe_ctrl"])
         /\ ~Stays => csr'["SINE_CTRL"] = (IF pc = 23 THEN 31 ELSE csr["SINE_CTRL"])
         /\ ~Stays => csr'["tx_en"] = (IF pc = 25 THEN 3 ELSE csr["tx_en"])
PROOF
<1>0. csr = [r \in CsrRegister |-> csr[r]] /\ pc \in 1 .. LastStep + 1
  BY DEF BringInv, TypeInv, JobInv
<1>1. CASE CsrStep
  <2>1. PICK reg, val : reg = Step.reg /\ val = Step.val
    OBVIOUS
  <2>2. csr' = [csr EXCEPT ![reg] = val]
    BY <1>1, <2>1 DEF CsrStep
  <2>3. \/ pc = 2 /\ reg = "spi_en" /\ val = 1
        \/ pc = 3 /\ reg = "pe_ctrl" /\ val = 1
        \/ pc = 19 /\ reg = "JESD_SYNC_CTRL"
        \/ pc = 23 /\ reg = "SINE_CTRL" /\ val = 31
        \/ pc = 24 /\ reg = "JESD_TX_SRC_SEL"
        \/ pc = 25 /\ reg = "tx_en" /\ val = 3
    BY <1>0, <1>1, <2>1, StepKinds DEF CsrStep
  <2>4. ~Stays
    <3>1. ~Send /\ ~Receive
      BY <1>1 DEF CsrStep, Send, Receive, SpiStep
    <3> QED BY <2>3, <3>1, QuietMoves DEF Work
  <2>5. /\ csr' = [r \in CsrRegister |-> csr'[r]]
        /\ \A r \in CsrRegister : csr'[r] = IF r = reg THEN val ELSE csr[r]
    BY <1>0, <2>2
  <2>6. {"spi_en", "pe_ctrl", "SINE_CTRL", "tx_en"} \subseteq CsrRegister
    BY DEF CsrRegister
  <2>7. /\ csr'["spi_en"] = (IF pc = 2 THEN 1 ELSE csr["spi_en"])
        /\ csr'["pe_ctrl"] = (IF pc = 3 THEN 1 ELSE csr["pe_ctrl"])
        /\ csr'["SINE_CTRL"] = (IF pc = 23 THEN 31 ELSE csr["SINE_CTRL"])
        /\ csr'["tx_en"] = (IF pc = 25 THEN 3 ELSE csr["tx_en"])
    BY <2>3, <2>5, <2>6
  <2> QED BY <2>4, <2>5, <2>7
<1>2. CASE ~CsrStep
  <2>1. ~PokeStep
    BY <1>0, StepKinds DEF PokeStep
  <2>2. csr' = csr
    BY <1>2, <2>1, WorkLeaves DEF Work
  <2>3. pc \notin {2, 3, 23, 25}
    <3>1. pc \in {2, 3, 23, 25} => Step.op = "csr"
      BY <1>0, StepKinds
    <3>2. Step.op = "csr" => CsrStep
      BY DEF Work, Run, WaitStep, CompareStep, Send, Receive, DivideStep, PokeStep,
             LookStep, SpiStep
    <3> QED BY <1>2, <3>1, <3>2
  <2> QED BY <1>0, <2>2, <2>3
<1> QED BY <1>1, <1>2

LEMMA BringWork ==
  ASSUME OwnInv, BringInv, pc # 0, Work, job.cmd = "bringup"
  PROVE  BringInv'
PROOF
<1>0. /\ pc \in 1 .. 26 /\ result = "none" /\ ~up
      /\ Stays => pc' = pc
      /\ Goes => pc' = pc + 1
      /\ GivesUpLink => pc' = 26
      /\ Ends => job'.cmd = "none"
      /\ Stays \/ Goes \/ GivesUpLink \/ Ends
      /\ UNCHANGED <<card, chip, rxdata, swapped>>
      /\ up' <=> result' = "ok"
      /\ JobInv'
  BY BringMoves DEF LastStep
<1>1. TypeInv'
  <2>1. csr' = [r \in CsrRegister |-> csr'[r]]
    BY BringWrites
  <2>2. up' \in BOOLEAN
    BY DEF Work, BringInv, TypeInv
  <2> QED BY <1>0, <2>1, <2>2 DEF BringInv, TypeInv
<1>2. WordInv' /\ ChipInv'
  BY WorkWord, WorkChip
<1>3. CsrInv'
  <2> SUFFICES ASSUME job'.cmd = "bringup"
               PROVE  /\ pc' > 2 => csr'["spi_en"] = 1
                      /\ pc' > 3 => csr'["pe_ctrl"] = 1
                      /\ pc' \in {24, 25} => csr'["SINE_CTRL"] = 31
    BY DEF CsrInv
  <2>1. /\ pc > 2 => csr["spi_en"] = 1
        /\ pc > 3 => csr["pe_ctrl"] = 1
        /\ pc \in {24, 25} => csr["SINE_CTRL"] = 31
    BY DEF BringInv, CsrInv
  <2>2. CASE Stays
    BY <1>0, <2>1, <2>2, BringWrites
  <2>3. CASE Goes
    <3>1. ~Stays
      BY <1>0, <2>3
    <3> QED BY <1>0, <2>1, <2>3, <3>1, BringWrites
  <2>4. CASE GivesUpLink
    <3>1. pc = 20 /\ pc' = 26 /\ ~Stays
      BY <1>0, <2>4 DEF GivesUpLink, Locked
    <3> QED BY <2>1, <3>1, BringWrites
  <2> QED BY <1>0, <2>2, <2>3, <2>4
<1>4. BlindInv'
  <2> SUFFICES ASSUME ~swapped, card # "ad9176", IsSetting(shifting'), chip.fresh
               PROVE  FALSE
    BY <1>0 DEF BringInv, BlindInv, IsSetting
  <2>1. ~IsSetting(shifting)
    BY DEF BringInv, BlindInv
  <2>2. Send
    <3>1. ~Send => shifting' = shifting
      BY WorkLeaves DEF Work
    <3> QED BY <2>1, <3>1
  <2>3. shifting' = shifting \/ shifting' = Step
    BY <2>2, SendMoves
  <2>4. pc > Compare
    BY <1>0, <2>1, <2>3, StepKinds DEF SettingSteps, Compare, LastStep
  <2> QED BY <2>4 DEF BringInv, ChipInv
<1>5. UpInv'
  <2> SUFFICES ASSUME result' = "ok" PROVE UpInv'
    BY <1>0 DEF UpInv
  <2>1. Ends /\ pc = 25
    <3>1. Ends
      BY <1>0 DEF Stays, Goes, GivesUpLink
    <3>2. Len(Program) = 25
      BY <1>0, BringSteps DEF LastStep
    <3> QED BY <3>1, <3>2 DEF Ends
  <2>2. ~Send /\ ~Receive /\ Step.op = "csr"
    BY <1>0, <2>1, StepKinds DEF Send, Receive, SpiStep, LastStep
  <2>3. UNCHANGED <<shifting, holding>> /\ ~sent /\ ~Stays
    BY <2>1, <2>2, QuietMoves DEF Work
  <2>4. Quiet'
    <3>1. Quiet
      BY <2>1 DEF BringInv, WordInv, Locked
    <3> QED BY <2>3, <3>1 DEF Quiet
  <2>5. /\ csr'["spi_en"] = 1 /\ csr'["pe_ctrl"] = 1
        /\ csr'["SINE_CTRL"] = 31 /\ csr'["tx_en"] = 3
    BY <2>1, <2>3, BringWrites DEF BringInv, CsrInv
  <2>6. ASSUME ~swapped
        PROVE  card = "ad9176" /\ chip.fresh /\ chip.sdo /\ chip.settings = Settings
    <3>1. Done = 24
      BY <2>1, <2>3 DEF Done
    <3>2. card = "ad9176"
      BY <2>1, <2>6 DEF BringInv, ChipInv, Compare
    <3>3. chip.fresh /\ chip.sdo /\ chip.settings = SettingsOf(24)
      BY <2>6, <3>1, <3>2 DEF BringInv, ChipInv, First
    <3>4. SettingsOf(24) = Settings
      BY SettingsGrow DEF LastStep
    <3> QED BY <3>2, <3>3, <3>4
  <2>7. job'.cmd \notin {"bringup", "poke"}
    BY <1>0, <2>1
  <2>8. Settings' = Settings
    BY DEF Settings
  <2> QED BY <1>0, <2>4, <2>5, <2>6, <2>7, <2>8 DEF UpInv
<1> QED BY <1>0, <1>1, <1>2, <1>3, <1>4, <1>5 DEF BringInv
-----------------------------------------------------------------------------
(* A word goes out.                                                        *)

LEMMA ToldTypes ==
  ASSUME TypeInv, NEW word
  PROVE  LET c == Told(word)
         IN  /\ c = [sdo |-> c.sdo, settings |-> c.settings, fresh |-> c.fresh]
             /\ c.sdo \in BOOLEAN /\ c.fresh \in BOOLEAN
PROOF
<1>1. /\ chip = [sdo |-> chip.sdo, settings |-> chip.settings, fresh |-> chip.fresh]
      /\ chip.sdo \in BOOLEAN /\ chip.fresh \in BOOLEAN
  BY DEF TypeInv
<1>2. CASE Told(word) = chip
  BY <1>1, <1>2
<1>3. CASE Told(word) = [sdo |-> FALSE, settings |-> {}, fresh |-> TRUE]
  BY <1>3
<1>4. CASE Told(word) = [chip EXCEPT !.sdo = word.val = 24]
  BY <1>1, <1>4
<1>5. CASE Told(word) = [chip EXCEPT !.settings = @ \union {<<word.reg, word.val>>}]
  BY <1>1, <1>5
<1> QED BY <1>2, <1>3, <1>4, <1>5 DEF Told

\* What the converter makes of a word.
LEMMA ToldOf ==
  ASSUME TypeInv, NEW word, NEW c, c = Told(word)
  PROVE  /\ word.op # "write" => c = chip
         /\ Connected /\ word.op = "write" /\ word.reg = "SPI_INTFCONFA" /\ word.val = 129 =>
              ~c.sdo /\ c.settings = {} /\ c.fresh
         /\ Connected /\ word.op = "write" /\ word.reg = "SPI_INTFCONFA" /\ word.val # 129 =>
              c.sdo = (word.val = 24) /\ c.settings = chip.settings /\ c.fresh = chip.fresh
         /\ Connected /\ IsSetting(word) =>
              /\ c.sdo = chip.sdo /\ c.fresh = chip.fresh
              /\ c.settings = chip.settings \union {<<word.reg, word.val>>}
         /\ ~Connected => c = chip
PROOF
<1>1. chip = [sdo |-> chip.sdo, settings |-> chip.settings, fresh |-> chip.fresh]
  BY DEF TypeInv
<1>2. word.op # "write" \/ ~Connected => c = chip
  BY DEF Told
<1>3. ASSUME Connected, word.op = "write", word.reg = "SPI_INTFCONFA", word.val = 129
      PROVE  ~c.sdo /\ c.settings = {} /\ c.fresh
  <2>1. c = [sdo |-> FALSE, settings |-> {}, fresh |-> TRUE]
    BY <1>3 DEF Told
  <2> QED BY <2>1
<1>4. ASSUME Connected, word.op = "write", word.reg = "SPI_INTFCONFA", word.val # 129
      PROVE  c.sdo = (word.val = 24) /\ c.settings = chip.settings /\ c.fresh = chip.fresh
  <2>1. c = [chip EXCEPT !.sdo = word.val = 24]
    BY <1>4 DEF Told
  <2> QED BY <1>1, <2>1
<1>5. ASSUME Connected, IsSetting(word)
      PROVE  /\ c.sdo = chip.sdo /\ c.fresh = chip.fresh
             /\ c.settings = chip.settings \union {<<word.reg, word.val>>}
  <2>1. c = [chip EXCEPT !.settings = @ \union {<<word.reg, word.val>>}]
    BY <1>5 DEF Told, IsSetting
  <2> QED BY <1>1, <2>1
<1> QED BY <1>2, <1>3, <1>4, <1>5

\* The converter keeps up with the sequence.
LEMMA ShiftChip ==
  ASSUME OwnInv, BringInv, Shifted, UNCHANGED <<job, pc, sent, ids, swapped>>
  PROVE  ChipInv'
PROOF
<1> USE DEF First, Locked, LastStep
<1> SUFFICES ASSUME job.cmd = "bringup", ~swapped, card # "none", Done' >= First
             PROVE  /\ chip'.fresh
                    /\ chip'.sdo <=> Done' >= First + 2
                    /\ chip'.settings = SettingsOf(Done')
  <2>1. UNCHANGED card
    BY DEF Shifted
  <2> QED BY <2>1 DEF ChipInv, BringInv, SettingsOf, Sequence, ad9176_bringup_full
<1>1. pc \in 1 .. 26 /\ chip' = Told(shifting) /\ shifting # NoWord
  BY DEF BringInv, JobInv, Shifted
<1>2. Done = pc - 1 /\ Done' \in {pc - 1, pc} /\ (Done' = pc => sent /\ shifting' = NoWord)
  BY <1>1 DEF Done, tmt
<1>3. pc >= First
  BY <1>1, <1>2
<1>4. Connected
  BY <1>3, <1>1 DEF Connected, BringInv, CsrInv
<1>5. Done >= First => /\ chip.fresh
                       /\ chip.sdo <=> Done >= First + 2
                       /\ chip.settings = SettingsOf(Done)
  BY DEF BringInv, ChipInv
<1>6. CASE pc <= Locked + 1
  <2>1. sent /\ shifting = Step /\ Done' = pc
    <3>1. CASE pc = First
      <4>1. Done' = pc /\ sent
        BY <1>2, <3>1
      <4>2. holding = NoWord
        BY <1>2, <4>1 DEF Shifted
      <4>3. SpiStep /\ (Behind \/ InFlight \/ Answered)
        BY <4>1 DEF OwnInv
      <4> QED BY <1>1, <4>1, <4>2, <4>3, SpiWord DEF Behind, InFlight, Answered, tmt
    <3>2. CASE pc # First
      <4>1. holding = NoWord /\ sent
        BY <1>1, <1>3, <1>6, <3>2 DEF BringInv, WordInv
      <4>2. SpiStep /\ (Behind \/ InFlight \/ Answered)
        BY <4>1 DEF OwnInv
      <4>3. shifting' = NoWord /\ holding' = NoWord
        BY <4>1 DEF Shifted
      <4> QED BY <1>1, <4>1, <4>2, <4>3, SpiWord DEF Behind, InFlight, Answered, tmt, Done
    <3> QED BY <3>1, <3>2
  <2>2. TypeInv
    BY DEF BringInv
  <2>3. CASE pc \in {4, 5, 6}
    <3>1. /\ Step.op = "write" /\ Step.reg = "SPI_INTFCONFA"
          /\ Step.val = IF pc = 4 THEN 129 ELSE IF pc = 5 THEN 0 ELSE 24
      BY <1>1, <2>3, StepKinds
    <3>2. SettingsOf(pc) = {} /\ SettingsOf(pc - 1) = {}
      BY <2>3, SettingsGrow DEF Compare
    <3>3. CASE pc = 4
      BY <1>1, <1>4, <2>1, <2>2, <3>1, <3>2, <3>3, ToldOf
    <3>4. CASE pc \in {5, 6}
      <4>1. chip.fresh /\ chip.settings = {}
        BY <1>2, <1>5, <3>2, <3>4
      <4>2. /\ chip'.sdo = (Step.val = 24)
            /\ chip'.settings = chip.settings /\ chip'.fresh = chip.fresh
        <5>1. Step.val # 129
          BY <3>1, <3>4
        <5> QED BY <1>1, <1>4, <2>1, <2>2, <3>1, <5>1, ToldOf
      <4> QED BY <2>1, <3>1, <3>2, <3>4, <4>1, <4>2
    <3> QED BY <2>3, <3>3, <3>4
  <2>4. CASE pc \in SettingSteps
    <3>1. IsSetting(Step)
      BY <1>1, <2>4, StepKinds
    <3>2. /\ chip'.sdo = chip.sdo /\ chip'.fresh = chip.fresh
          /\ chip'.settings = chip.settings \union {<<Step.reg, Step.val>>}
      BY <1>1, <1>4, <2>1, <2>2, <3>1, ToldOf
    <3>3. SettingsOf(pc) = SettingsOf(pc - 1) \union {<<Step.reg, Step.val>>}
      <4>1. Step = Sequence[pc]
        BY <1>1, <2>4, BringSteps DEF SettingSteps
      <4> QED BY <2>4, <4>1, SettingsGrow
    <3>4. pc \in 11 .. 18
      BY <2>4 DEF SettingSteps
    <3> QED BY <1>2, <1>5, <2>1, <3>2, <3>3, <3>4
  <2>5. CASE pc \notin {4, 5, 6} \union SettingSteps
    <3>1. Step.op # "write"
      BY <1>1, <2>5, StepKinds
    <3>2. chip' = chip
      BY <1>1, <2>1, <2>2, <3>1, ToldOf
    <3>3. pc >= 7
      BY <1>1, <1>3, <2>5
    <3>4. SettingsOf(pc) = SettingsOf(pc - 1)
      BY <1>1, <2>5, SettingsGrow
    <3> QED BY <1>2, <1>5, <2>1, <3>2, <3>3, <3>4
  <2> QED BY <2>3, <2>4, <2>5
<1>7. CASE pc > Locked + 1
  <2>1. shifting.op # "write"
    BY <1>7 DEF BringInv, WordInv, Quiet
  <2>2. chip' = chip
    BY <1>1, <2>1, ToldOf DEF BringInv
  <2>3. SettingsOf(pc) = Settings /\ SettingsOf(pc - 1) = Settings
    BY <1>1, <1>7, SettingsGrow
  <2> QED BY <1>1, <1>2, <1>5, <1>7, <2>2, <2>3
<1> QED BY <1>1, <1>6, <1>7

LEMMA ShiftBring ==
  ASSUME OwnInv, BringInv, Shifted, UNCHANGED <<process, swapped, up>>
  PROVE  BringInv'
PROOF
<1>1. /\ chip' = Told(shifting) /\ shifting' = holding /\ holding' = NoWord
      /\ shifting # NoWord
      /\ UNCHANGED <<card, csr, job, pc, sent, ids, result, swapped, up>>
      /\ rxdata'.from \in {card, "none"}
  BY DEF Shifted, process
<1>2. TypeInv /\ ~IsSetting(holding)
  BY DEF BringInv, WordInv
<1>3. TypeInv'
  BY <1>1, <1>2, ToldTypes DEF TypeInv
<1>4. JobInv'
  BY <1>1 DEF BringInv, JobInv
<1>5. WordInv'
  <2>1. ~IsSetting(holding') /\ holding'.op # "write"
    BY <1>1 DEF IsSetting, NoWord
  <2>2. Quiet => Quiet'
    BY <1>1, <2>1 DEF Quiet
  <2>3. /\ sent => job.cmd = "bringup"
        /\ job.cmd = "bringup" /\ pc \in First + 1 .. Locked + 1 => holding = NoWord
        /\ job.cmd = "bringup" /\ pc > Locked + 1 => Quiet
    BY DEF BringInv, WordInv
  <2> QED BY <1>1, <2>1, <2>2, <2>3 DEF WordInv, First, Locked
<1>6. ChipInv'
  BY <1>1, ShiftChip
<1>7. CsrInv'
  BY <1>1 DEF BringInv, CsrInv
<1>8. BlindInv'
  <2> SUFFICES ASSUME ~swapped, card # "ad9176", chip'.fresh
               PROVE  chip'.settings = {} /\ ~IsSetting(shifting')
    BY <1>1 DEF BlindInv, IsSetting
  <2>1. /\ chip.fresh => chip.settings = {}
        /\ IsSetting(shifting) => ~chip.fresh
    BY DEF BringInv, BlindInv
  <2>2. chip'.settings = {}
    <3>1. CASE IsSetting(shifting)
      BY <1>1, <1>2, <2>1, <3>1, ToldOf
    <3>2. CASE ~IsSetting(shifting)
      BY <1>1, <1>2, <2>1, <3>2, ToldOf DEF IsSetting
    <3> QED BY <3>1, <3>2
  <2> QED BY <1>1, <1>2, <2>2
<1>9. UpInv'
  <2> SUFFICES ASSUME up PROVE UpInv'
    BY <1>1 DEF UpInv
  <2>1. Quiet
    BY DEF BringInv, UpInv
  <2>2. chip' = chip
    BY <1>1, <1>2, <2>1, ToldOf DEF Quiet
  <2>3. Quiet'
    BY <1>1, <2>1 DEF Quiet, NoWord
  <2> QED BY <1>1, <2>2, <2>3 DEF BringInv, UpInv, Settings
<1> QED BY <1>3, <1>4, <1>5, <1>6, <1>7, <1>8, <1>9 DEF BringInv
-----------------------------------------------------------------------------
(* Everything else that can happen.                                        *)

LEMMA BringStutter ==
  ASSUME BringInv, UNCHANGED <<shifting, holding, rxdata, card, chip, csr, job, pc, sent>>,
         UNCHANGED <<ids, result, swapped, up>>
  PROVE  BringInv'
PROOF
<1>1. TypeInv' /\ JobInv' /\ CsrInv'
  BY DEF BringInv, TypeInv, JobInv, CsrInv
<1>2. WordInv'
  BY DEF BringInv, WordInv, Quiet, IsSetting, tmt
<1>3. ChipInv'
  <2>1. Done' = Done
    BY DEF Done, tmt
  <2> QED BY <2>1 DEF BringInv, ChipInv, SettingsOf, Sequence, ad9176_bringup_full
<1>4. BlindInv' /\ UpInv'
  BY DEF BringInv, BlindInv, UpInv, Quiet, IsSetting, Settings
<1> QED BY <1>1, <1>2, <1>3, <1>4 DEF BringInv

LEMMA HardwareBring ==
  ASSUME OwnInv, BringInv, Hardware
  PROVE  BringInv'
PROOF
<1>1. UNCHANGED <<process, up>>
  BY DEF Hardware
<1>2. CASE Shifted /\ UNCHANGED <<polled, swapped>>
  BY <1>1, <1>2, ShiftBring
<1>3. CASE /\ Pull \/ \E kind \in Kind : Plug(kind)
           /\ swapped' = TRUE /\ UNCHANGED <<spi_master, csr>>
  <2>1. chip' = PowerUp \/ chip' = chip
    BY <1>3 DEF Pull, Plug
  <2>2. UNCHANGED <<shifting, holding, rxdata, job, pc, sent, result, csr, up>>
    BY <1>1, <1>3 DEF spi_master, process
  <2>3. TypeInv'
    <3>1. /\ chip' = [sdo |-> chip'.sdo, settings |-> chip'.settings, fresh |-> chip'.fresh]
          /\ chip'.sdo \in BOOLEAN /\ chip'.fresh \in BOOLEAN
      <4>1. CASE chip' = PowerUp
        BY <4>1 DEF PowerUp
      <4>2. CASE chip' = chip
        BY <4>2 DEF BringInv, TypeInv
      <4> QED BY <2>1, <4>1, <4>2
    <3> QED BY <1>3, <2>2, <3>1 DEF BringInv, TypeInv
  <2>4. JobInv' /\ CsrInv'
    BY <2>2 DEF BringInv, JobInv, CsrInv
  <2>5. WordInv'
    BY <1>3, <2>2 DEF BringInv, WordInv, Quiet, IsSetting
  <2>6. ChipInv' /\ BlindInv'
    BY <1>3 DEF ChipInv, BlindInv
  <2>7. UpInv'
    BY <1>3, <2>2 DEF BringInv, UpInv, Quiet
  <2> QED BY <2>3, <2>4, <2>5, <2>6, <2>7 DEF BringInv
<1>4. CASE UNCHANGED <<card_vars, swapped>>
  BY <1>1, <1>4, BringStutter DEF card_vars, spi_master, process
<1> QED BY <1>2, <1>3, <1>4 DEF Hardware

\* The job of a command line that is not refused.
LEMMA JobsKnown ==
  ASSUME NEW argv \in Line, Begin(argv)
  PROVE  job'.cmd \in {"bringup", "tone", "status", "peek", "poke"}
PROOF
<1>1. job' = Dispatch(argv) /\ Dispatch(argv) # Refused
  BY DEF Begin, JobOf
<1>3. CASE argv[1] = "status"
  BY <1>1, <1>3 DEF Dispatch, Job
<1>4. CASE argv[1] \in {"bringup", "tone"}
  BY <1>1, <1>4 DEF Dispatch, Job
<1>5. CASE argv[1] = "peek"
  BY <1>1, <1>5 DEF Dispatch, Job
<1>6. CASE argv[1] = "poke"
  BY <1>1, <1>6 DEF Dispatch, Job
<1>7. CASE argv[1] \notin {"status", "bringup", "tone", "peek", "poke"}
  BY <1>1, <1>7 DEF Dispatch
<1> QED BY <1>3, <1>4, <1>5, <1>6, <1>7

LEMMA StartBring ==
  ASSUME OwnInv, BringInv, Start
  PROVE  BringInv'
PROOF
<1>1. /\ pc = 0 /\ job.cmd = "none" /\ ~sent /\ ~sent'
      /\ UNCHANGED <<shifting, holding, rxdata, card, csr>>
  BY DEF Start, spi_master, BringInv, JobInv, WordInv
<1>2. PICK argv \in Line : Begin(argv) \/ GiveUp(argv)
  BY DEF Start
<1>3. /\ chip = [sdo |-> chip.sdo, settings |-> chip.settings, fresh |-> chip.fresh]
      /\ chip.sdo \in BOOLEAN /\ chip.fresh \in BOOLEAN
      /\ csr = [r \in CsrRegister |-> csr[r]]
      /\ swapped \in BOOLEAN /\ up \in BOOLEAN
  BY DEF BringInv, TypeInv
<1>4. CASE GiveUp(argv)
  <2>1. UNCHANGED <<job, pc, ids, chip, swapped, up>>
    BY <1>4 DEF GiveUp, history
  <2>2. TypeInv' /\ JobInv' /\ ChipInv' /\ CsrInv'
    BY <1>1, <1>3, <2>1 DEF TypeInv, JobInv, ChipInv, CsrInv
  <2>3. WordInv' /\ BlindInv' /\ UpInv'
    BY <1>1, <2>1 DEF BringInv, WordInv, BlindInv, UpInv, Quiet, IsSetting, Settings
  <2> QED BY <2>2, <2>3 DEF BringInv
<1>5. CASE Begin(argv)
  <2>1. /\ job'.cmd \in {"bringup", "tone", "status", "peek", "poke"}
        /\ pc' = 1 /\ ids' = {} /\ result' = "none"
        /\ up' = (up /\ job'.cmd \notin {"bringup", "poke"})
    BY <1>5, JobsKnown DEF Begin
  <2>2. JobInv' /\ CsrInv'
    BY <2>1 DEF JobInv, CsrInv, LastStep
  <2>3. WordInv'
    BY <1>1, <2>1 DEF BringInv, WordInv, IsSetting, First, Locked
  <2>4. ChipInv'
    <3>1. Done' = 0
      BY <1>1, <2>1 DEF Done
    <3> QED BY <2>1, <3>1 DEF ChipInv, First, Compare
  <2>5. CASE job'.cmd = "bringup"
    <3>1. swapped' = FALSE /\ chip' = [chip EXCEPT !.fresh = FALSE] /\ up' = FALSE
      BY <1>5, <2>1, <2>5 DEF Begin
    <3>2. TypeInv' /\ ~chip'.fresh
      BY <1>1, <1>3, <3>1 DEF TypeInv
    <3>3. BlindInv' /\ UpInv'
      BY <3>1, <3>2 DEF BlindInv, UpInv
    <3> QED BY <2>2, <2>3, <2>4, <3>2, <3>3 DEF BringInv
  <2>6. CASE job'.cmd # "bringup"
    <3>1. UNCHANGED <<swapped, chip>>
      BY <1>5, <2>6 DEF Begin
    <3>2. TypeInv'
      BY <1>1, <1>3, <2>1, <3>1 DEF TypeInv
    <3>3. BlindInv'
      BY <1>1, <3>1 DEF BringInv, BlindInv, IsSetting
    <3>4. UpInv'
      BY <1>1, <2>1, <3>1 DEF BringInv, UpInv, Quiet, Settings
    <3> QED BY <2>2, <2>3, <2>4, <3>2, <3>3, <3>4 DEF BringInv
  <2> QED BY <2>5, <2>6
<1> QED BY <1>2, <1>4, <1>5

LEMMA KillBring ==
  ASSUME OwnInv, BringInv, Kill
  PROVE  BringInv'
PROOF
<1>1. /\ job'.cmd = "none" /\ pc' = 0 /\ ~sent'
      /\ UNCHANGED <<shifting, holding, rxdata, card, chip, csr, swapped, up>>
  BY DEF Kill, Crash, Return, NoJob, card_vars, spi_master, history
<1>2. JobInv' /\ ChipInv' /\ CsrInv'
  BY <1>1 DEF JobInv, ChipInv, CsrInv
<1>3. TypeInv' /\ WordInv' /\ BlindInv' /\ UpInv'
  BY <1>1 DEF BringInv, TypeInv, WordInv, BlindInv, UpInv, Quiet, IsSetting, Settings
<1> QED BY <1>2, <1>3 DEF BringInv

LEMMA BringNext == OwnInv /\ BringInv /\ [Next]_vars => BringInv'
PROOF
<1> SUFFICES ASSUME OwnInv, BringInv, [Next]_vars PROVE BringInv'
  OBVIOUS
<1>1. CASE Work
  <2>1. pc # 0
    BY <1>1 DEF Work, Run
  <2> QED BY <1>1, <2>1, OtherWork, BringWork
<1>2. CASE Start
  BY <1>2, StartBring
<1>3. CASE Kill
  BY <1>3, KillBring
<1>4. CASE Hardware
  BY <1>4, HardwareBring
<1>5. CASE UNCHANGED vars
  BY <1>5, BringStutter DEF vars, history, card_vars, spi_master, process
<1> QED BY <1>1, <1>2, <1>3, <1>4, <1>5 DEF Next

LEMMA BringInitial == Init => BringInv
PROOF
<1> SUFFICES ASSUME Init PROVE BringInv
  OBVIOUS
<1>1. /\ shifting = NoWord /\ holding = NoWord /\ chip = PowerUp
      /\ csr = [reg \in CsrRegister |-> 0]
      /\ job.cmd = "none" /\ pc = 0 /\ sent = FALSE
      /\ swapped = FALSE /\ up = FALSE
  BY DEF Init, CardInit, NoJob
<1>2. TypeInv /\ ~chip.fresh
  BY <1>1 DEF TypeInv, PowerUp
<1>3. JobInv /\ WordInv /\ ChipInv /\ CsrInv
  BY <1>1 DEF JobInv, WordInv, ChipInv, CsrInv, IsSetting, NoWord
<1>4. BlindInv /\ UpInv
  BY <1>1, <1>2 DEF BlindInv, UpInv
<1> QED BY <1>2, <1>3, <1>4 DEF BringInv

LEMMA BringCorrect == Spec => []BringInv
  BY OwnCorrect, BringInitial, BringNext, PTL DEF Spec

\* A bring-up that reports success has left an AD9176 reset and completely
\* configured with its outputs on, and nothing but a poke or a change of the
\* card takes it back: for every number of polls and all command lines.
THEOREM SuccessCorrect == Spec => []SuccessMeansConfigured
PROOF
<1>1. BringInv => SuccessMeansConfigured
  BY DEF BringInv, UpInv, SuccessMeansConfigured
<1> QED BY BringCorrect, <1>1, PTL

\* No card gets settings from a bring-up it has not identified itself to as
\* an AD9176, whatever earlier runs have left under way.
THEOREM BlindCorrect == Spec => []NeverBlind
PROOF
<1>1. BringInv => NeverBlind
  BY DEF BringInv, BlindInv, NeverBlind
<1> QED BY BringCorrect, <1>1, PTL

-----------------------------------------------------------------------------
(* How long a run can take.                                                *)

PollInv ==
  /\ polls \in 0 .. PollLimit - 1
  /\ pc = 0 => ~sent /\ polls = 0

\* The accesses a run has left at most: PollLimit for either half of every
\* step that is not over.
Halves == 2 * (LastStep + 1 - pc) + (IF sent THEN 0 ELSE 1)
Left == Halves * PollLimit + (PollLimit - polls)

LEMMA FewerLeft ==
  ASSUME NEW p \in Nat \ {0}, NEW h \in Nat, NEW k \in Nat, k < h,
         NEW q \in 1 .. p, NEW r \in 1 .. p
  PROVE  k * p + r < h * p + q
<1> DEFINE d == h - 1 - k
           a == k * p
           b == d * p
<1>1. d \in Nat /\ h = k + d + 1
  OBVIOUS
<1>2. a \in Nat /\ b \in Nat
  BY <1>1
<1>3. h * p = a + b + p
  BY <1>1
<1> HIDE DEF a, b, d
<1>4. a + r < a + b + p + q
  BY <1>2
<1> QED BY <1>3, <1>4 DEF a

LEMMA AllLeft ==
  ASSUME NEW p \in Nat \ {0}, NEW h \in 0 .. 51, NEW q \in 1 .. p
  PROVE  h * p + q \in 1 .. 52 * p
<1> DEFINE a == h * p
           b == (51 - h) * p
<1>1. a \in Nat /\ b \in Nat /\ 52 * p = a + b + p
  OBVIOUS
<1> HIDE DEF a, b
<1>2. a + q \in 1 .. a + b + p
  BY <1>1
<1> QED BY <1>1, <1>2 DEF a

\* What a step does to the counter of its polls.
LEMMA RunPolls ==
  ASSUME JobInv, PollInv, pc # 0, Run
  PROVE  \/ Stays /\ sent' = sent /\ polls' = polls + 1 /\ polls + 1 < PollLimit
         \/ Stays /\ ~sent /\ sent' /\ polls' = 0
         \/ (Goes \/ GivesUpLink \/ Ends) /\ polls' = 0 /\ ~sent'
PROOF
<1>1. Fail \/ Crash => Ends /\ polls' = 0 /\ ~sent'
  BY DEF Fail, Crash, Return, Ends
<1>2. Continue => (Goes \/ Ends) /\ polls' = 0 /\ ~sent'
  BY ContinueMoves DEF Continue
<1>3. CASE WaitStep
  <2>1. Step.op = "wait" /\ job.cmd = "bringup" /\ pc \in 1 .. LastStep + 1
    BY <1>3, OtherSteps DEF WaitStep, JobInv
  <2>2. Step.reg = "fmc_ready" \/ (Step.reg = "link_locked" /\ pc = Locked)
    BY <2>1, StepKinds
  <2>3. CASE Step.reg = "fmc_ready"
    BY <1>1, <1>2, <1>3, <2>3 DEF WaitStep, PollAgain, Stays
  <2>4. CASE Step.reg = "link_locked" /\ pc = Locked
    BY <1>2, <1>3, <2>1, <2>4, BringSteps DEF WaitStep, PollAgain, Stays, GivesUpLink
  <2> QED BY <2>2, <2>3, <2>4
<1>4. CASE CsrStep \/ DivideStep \/ PokeStep \/ LookStep \/ CompareStep
  BY <1>1, <1>2, <1>4 DEF CsrStep, DivideStep, PokeStep, LookStep, CompareStep
<1>5. CASE Send
  BY <1>1, <1>2, <1>5 DEF Send, PollAgain, SpiTimeout, Stays
<1>6. CASE Receive
  BY <1>1, <1>2, <1>6 DEF Receive, PollAgain, SpiTimeout, Stays
<1> QED BY <1>3, <1>4, <1>5, <1>6 DEF Run

LEMMA HalvesOf ==
  ASSUME NEW n \in 1 .. 26, NEW b
  PROVE  LET h == 2 * (26 - n) + (IF b THEN 0 ELSE 1)
         IN  h \in 0 .. 51 /\ h >= 2 * (26 - n)
  OBVIOUS

LEMMA PatienceOf ==
  ASSUME NEW p \in Nat \ {0}, NEW q \in 0 .. p - 1
  PROVE  p - q \in 1 .. p
  OBVIOUS

LEMMA PollTypes ==
  ASSUME JobInv, PollInv, pc # 0
  PROVE  /\ pc \in 1 .. LastStep + 1
         /\ Halves \in 0 .. 51 /\ PollLimit - polls \in 1 .. PollLimit
<1>1. pc \in 1 .. 26
  BY DEF JobInv, LastStep
<1> QED BY <1>1, PollLimitAssumption DEF Halves, PollInv, LastStep

LEMMA RunShrinks ==
  ASSUME JobInv, JobInv', PollInv, pc # 0, Run
  PROVE  PollInv' /\ (pc' = 0 \/ Left' < Left)
PROOF
<1>1. PollInv'
  <2>1. 0 \in 0 .. PollLimit - 1
    BY PollLimitAssumption
  <2>2. polls' \in 0 .. PollLimit - 1
    BY <2>1, RunPolls, PollLimitAssumption DEF PollInv
  <2>3. pc' = 0 => Ends /\ polls' = 0 /\ ~sent'
    <3>1. pc \in 1 .. 26
      BY DEF JobInv, LastStep
    <3>2. Stays \/ Goes \/ GivesUpLink => pc' # 0
      BY <3>1 DEF Stays, Goes, GivesUpLink, LastStep
    <3> QED BY <3>2, RunPolls
  <2> QED BY <2>2, <2>3 DEF PollInv
<1>2. ASSUME pc' # 0 PROVE Left' < Left
  <2>1. Halves \in 0 .. 51 /\ PollLimit - polls \in 1 .. PollLimit /\ pc \in 1 .. 26
    BY PollTypes DEF LastStep
  <2>2. Halves' \in 0 .. 51 /\ (PollLimit - polls)' \in 1 .. PollLimit /\ pc' \in 1 .. 26
    <3>1. JobInv' /\ PollInv' /\ pc' # 0 => pc' \in 1 .. 26
      BY DEF JobInv, LastStep
    <3>2. pc' \in 1 .. 26 /\ polls' \in 0 .. PollLimit - 1
      BY <1>1, <1>2, <3>1 DEF PollInv
    <3>3. Halves' \in 0 .. 51
      <4>1. PICK n \in 1 .. 26 : n = pc'
        BY <3>2
      <4>2. Halves' = 2 * (26 - n) \/ Halves' = 2 * (26 - n) + 1
        BY <4>1 DEF Halves, LastStep
      <4>3. {2 * (26 - n), 2 * (26 - n) + 1} \subseteq 0 .. 51
        OBVIOUS
      <4> QED BY <4>2, <4>3
    <3>4. PollLimit - polls' \in 1 .. PollLimit
      BY <3>2, PatienceOf, PollLimitAssumption
    <3> QED BY <3>2, <3>3, <3>4
  <2>3. CASE Stays /\ sent' = sent /\ polls' = polls + 1
    <3>1. Halves' = Halves /\ polls' = polls + 1
      BY <2>3 DEF Halves, Stays
    <3>2. PICK h : h = Halves * PollLimit
      OBVIOUS
    <3>3. h \in Nat /\ Left = h + (PollLimit - polls) /\ Left' = h + (PollLimit - (polls + 1))
      BY <2>1, <3>1, <3>2, PollLimitAssumption DEF Left
    <3>4. polls \in Nat /\ PollLimit \in Nat
      BY PollLimitAssumption DEF PollInv
    <3> QED BY <3>3, <3>4
  <2>4. CASE Halves' < Halves
    <3>1. PICK h, k, q, r : /\ h = Halves /\ k = Halves'
                            /\ q = PollLimit - polls /\ r = PollLimit - polls'
      OBVIOUS
    <3>2. k * PollLimit + r < h * PollLimit + q
      BY <2>1, <2>2, <2>4, <3>1, FewerLeft, PollLimitAssumption
    <3> QED BY <3>1, <3>2 DEF Left
  <2>5. CASE Stays /\ ~sent /\ sent'
    <3>1. Halves' < Halves
      BY <2>1, <2>5 DEF Halves, Stays, LastStep
    <3> QED BY <2>4, <3>1
  <2>6. CASE (Goes \/ GivesUpLink) /\ ~sent'
    <3>1. pc' > pc
      BY <2>1, <2>6 DEF Goes, GivesUpLink, Locked, LastStep
    <3>2. Halves' < Halves
      <4>1. PICK m \in 1 .. 26, n \in 1 .. 26, h \in 0 .. 51 : m = pc /\ n = pc' /\ h = Halves
        BY <2>1, <2>2
      <4>2. h >= 2 * (26 - m)
        BY <4>1, HalvesOf DEF Halves, LastStep
      <4>3. Halves' = 2 * (26 - n) + 1
        BY <2>6, <4>1 DEF Halves, LastStep
      <4>4. 2 * (26 - n) + 1 < h
        <5>1. n > m
          BY <3>1, <4>1
        <5>2. 2 * (26 - n) + 1 < 2 * (26 - m)
          BY <5>1
        <5> QED BY <4>2, <5>2
      <4> QED BY <4>1, <4>3, <4>4
    <3> QED BY <2>4, <3>2
  <2>7. CASE Ends
    BY <1>2, <2>7 DEF Ends
  <2> QED BY <2>3, <2>5, <2>6, <2>7, RunPolls
<1> QED BY <1>1, <1>2

LEMMA PollNext == BringInv /\ BringInv' /\ PollInv /\ [Next]_vars => PollInv'
PROOF
<1> SUFFICES ASSUME JobInv, JobInv', PollInv, [Next]_vars PROVE PollInv'
  BY DEF BringInv
<1>0. 0 \in 0 .. PollLimit - 1
  BY PollLimitAssumption
<1>1. CASE Work
  BY <1>1, RunShrinks DEF Work, Run
<1>2. CASE Start
  BY <1>2 DEF Start, PollInv
<1>3. CASE Kill
  BY <1>0, <1>3 DEF Kill, Crash, PollInv
<1>4. CASE Hardware \/ UNCHANGED vars
  <2>1. UNCHANGED <<pc, sent, polls>>
    BY <1>4 DEF Hardware, vars, process
  <2> QED BY <2>1 DEF PollInv
<1> QED BY <1>1, <1>2, <1>3, <1>4 DEF Next

\* No command makes more than 52 * PollLimit accesses, whatever the hardware
\* does meanwhile: each access ends it or leaves it fewer.  (That it goes on
\* making them is RunEnds.)
RunBound ==
  /\ [](pc # 0 => Left \in 1 .. 52 * PollLimit)
  /\ [][Work => pc' = 0 \/ Left' < Left]_vars

\* The steps of a bring-up, their halves and the polls of each bound every run.
THEOREM RunsBounded == Spec => RunBound
PROOF
<1>1. Init => PollInv
  BY PollLimitAssumption DEF Init, PollInv
<1>2. BringInv /\ PollInv => (pc # 0 => Left \in 1 .. 52 * PollLimit)
  <2> SUFFICES ASSUME BringInv, PollInv, pc # 0 PROVE Left \in 1 .. 52 * PollLimit
    OBVIOUS
  <2>1. Halves \in 0 .. 51 /\ PollLimit - polls \in 1 .. PollLimit
    BY PollTypes DEF BringInv
  <2>2. PICK h, q : h = Halves /\ q = PollLimit - polls
    OBVIOUS
  <2>3. h * PollLimit + q \in 1 .. 52 * PollLimit
    BY <2>1, <2>2, AllLeft, PollLimitAssumption
  <2> QED BY <2>2, <2>3 DEF Left
<1>3. BringInv /\ BringInv' /\ PollInv /\ [Next]_vars =>
        [Work => pc' = 0 \/ Left' < Left]_vars
  BY RunShrinks DEF Work, Run, BringInv
<1> QED BY BringCorrect, PollNext, <1>1, <1>2, <1>3, PTL DEF Spec, RunBound

-----------------------------------------------------------------------------
(* The reading of the options.                                             *)

LEMMA Induction ==
  ASSUME NEW T \in SUBSET Nat, 0 \in T, \A n \in T : n + 1 \in T
  PROVE  T = Nat
<1> DEFINE R == OpToRel(<, Nat)
<1>1. \A x, y \in Nat : <<x, y>> \in R <=> x < y
  BY DEF OpToRel
<1>2. IsWellFoundedOn(R, Nat)
  BY NatLessThanWellFounded
<1> HIDE DEF R
<1>3. SUFFICES ASSUME Nat \ T # {} PROVE FALSE
  OBVIOUS
<1>4. PICK x \in Nat \ T : \A y \in Nat \ T : ~ (<<y, x>> \in R)
  BY <1>2, <1>3, WFMin
<1>5. x - 1 \in Nat /\ x - 1 < x /\ x = (x - 1) + 1
  BY <1>4
<1> QED BY <1>4, <1>5, <1>1

Opts == [ok : BOOLEAN, tone : Int, fs : Int]

LEMMA NumberRead ==
  ASSUME NEW s
  PROVE  /\ parse_u32(s) \in Int
         /\ parse_u32(s) # NaN <=> s \in DOMAIN Number
         /\ s \in DOMAIN Number => parse_u32(s) = Number[s] % WordRange
<1>1. CASE s \in DOMAIN Number
  <2>1. Number[s] \in Nat /\ WordRange \in Nat \ {0}
    BY <1>1, CommandLineAssumption
  <2> DEFINE v == Number[s]
  <2>2. v \in Nat
    BY <2>1
  <2> HIDE DEF v
  <2>3. v % WordRange \in Nat
    BY <2>1, <2>2
  <2>4. Number[s] % WordRange \in Int /\ Number[s] % WordRange # NaN
    BY <2>3 DEF v, NaN
  <2> QED BY <1>1, <2>4 DEF parse_u32
<1>2. CASE s \notin DOMAIN Number
  BY <1>2 DEF parse_u32, NaN
<1> QED BY <1>1, <1>2

\* One turn of the loop.
LEMMA TurnTaken ==
  ASSUME NEW opts \in Opts, NEW option, NEW value \in Int
  PROVE  /\ Take(opts, option, value) \in Opts
         /\ value # NaN /\ option = "--freq" =>
              Take(opts, option, value) = [opts EXCEPT !.tone = value]
         /\ value # NaN /\ option = "--fs" =>
              Take(opts, option, value) = [opts EXCEPT !.fs = value]
         /\ ~ (value # NaN /\ option \in {"--freq", "--fs"}) =>
              Take(opts, option, value) = [opts EXCEPT !.ok = FALSE]
<1>1. CASE value # NaN /\ option = "--freq"
  <2>1. Take(opts, option, value) = [opts EXCEPT !.tone = value]
    BY <1>1 DEF Take
  <2> QED BY <1>1, <2>1 DEF Opts
<1>2. CASE value # NaN /\ option = "--fs"
  <2>1. Take(opts, option, value) = [opts EXCEPT !.fs = value]
    BY <1>2 DEF Take
  <2> QED BY <1>2, <2>1 DEF Opts
<1>3. CASE ~ (value # NaN /\ option \in {"--freq", "--fs"})
  <2>1. Take(opts, option, value) = [opts EXCEPT !.ok = FALSE]
    BY <1>3 DEF Take
  <2>2. [opts EXCEPT !.ok = FALSE] \in Opts
    BY DEF Opts
  <2> QED BY <1>3, <2>1, <2>2
<1> QED BY <1>1, <1>2, <1>3

\* f is the way the loop goes over argv.
Turns(argv, f) ==
  f = [k \in 0 .. Pairs(argv) |->
         IF k = 0 THEN Defaults
         ELSE Take(f[k - 1], argv[2 * k], parse_u32(argv[2 * k + 1]))]

LEMMA LoopRuns ==
  ASSUME NEW argv, Pairs(argv) \in Nat
  PROVE  \E f : Turns(argv, f) /\ Options(argv) = f[Pairs(argv)]
<1> DEFINE T(o, k) == Take(o, argv[2 * k], parse_u32(argv[2 * k + 1]))
           Good(n, g) == g = [k \in 0 .. n |-> IF k = 0 THEN Defaults ELSE T(g[k - 1], k)]
           Built == {n \in Nat : \E g : Good(n, g)}
<1> HIDE DEF T
<1>1. 0 \in Built
  <2>1. Good(0, [k \in 0 .. 0 |-> Defaults])
    OBVIOUS
  <2> QED BY <2>1
<1>2. ASSUME NEW n \in Built PROVE n + 1 \in Built
  <2>1. PICK g : Good(n, g)
    OBVIOUS
  <2>2. PICK h : h = [k \in 0 .. n + 1 |-> IF k <= n THEN g[k] ELSE T(g[n], n + 1)]
    OBVIOUS
  <2>3. \A k \in 0 .. n : h[k] = g[k] /\ g[k] = IF k = 0 THEN Defaults ELSE T(g[k - 1], k)
    BY <2>1, <2>2
  <2>4. ASSUME NEW k \in 0 .. n + 1 PROVE h[k] = IF k = 0 THEN Defaults ELSE T(h[k - 1], k)
    <3>1. CASE k = 0
      BY <2>3, <3>1
    <3>2. CASE k \in 1 .. n
      <4>1. k \in 0 .. n /\ k - 1 \in 0 .. n /\ k # 0
        BY <3>2
      <4>2. h[k] = g[k] /\ h[k - 1] = g[k - 1] /\ g[k] = T(g[k - 1], k)
        BY <2>3, <4>1
      <4> QED BY <4>1, <4>2
    <3>3. CASE k = n + 1
      <4>1. h[k] = T(g[n], n + 1) /\ k # 0 /\ k - 1 = n
        BY <2>2, <3>3
      <4>2. h[n] = g[n]
        BY <2>3
      <4> QED BY <3>3, <4>1, <4>2
    <3> QED BY <3>1, <3>2, <3>3
  <2>5. h = [k \in 0 .. n + 1 |-> h[k]]
    BY <2>2
  <2>6. Good(n + 1, h)
    BY <2>4, <2>5
  <2> HIDE DEF Good
  <2> QED BY <2>6
<1>3. Built = Nat
  <2>0. Built \subseteq Nat
    OBVIOUS
  <2> HIDE DEF Built
  <2> QED BY <1>1, <1>2, <2>0, Induction
<1>4. \E g : Good(Pairs(argv), g)
  BY <1>3
<1>5. \E f : Turns(argv, f)
  BY <1>4 DEF Turns, T
<1>6. Turns(argv, CHOOSE f : Turns(argv, f))
  BY <1>5
<1>7. Options(argv) = (CHOOSE f : Turns(argv, f))[Pairs(argv)]
  BY DEF Options, Turns
<1> QED BY <1>6, <1>7

Option(argv, j) == argv[2 * j]
Value(argv, j) == parse_u32(argv[2 * j + 1])

\* The pairs up to the k-th are options with numbers.
Sound(argv, k) ==
  \A j \in 1 .. k : Option(argv, j) \in {"--freq", "--fs"} /\ Value(argv, j) # NaN

\* v is the value the first k pairs give to an option.
GivenBy(argv, k, option, default, v) ==
  \/ v = default /\ \A j \in 1 .. k : Option(argv, j) # option
  \/ \E j \in 1 .. k : /\ Option(argv, j) = option /\ v = Value(argv, j)
                       /\ \A i \in j + 1 .. k : Option(argv, i) # option

\* What has been read after k pairs.
ReadSoFar(argv, k, opts) ==
  /\ opts \in Opts
  /\ opts.ok <=> Sound(argv, k)
  /\ opts.ok => /\ GivenBy(argv, k, "--freq", DEFAULT_TONE_HZ, opts.tone)
                /\ GivenBy(argv, k, "--fs", DEFAULT_FS_HZ, opts.fs)

\* The next pair is of another option.
LEMMA OtherGiven ==
  ASSUME NEW argv, NEW k \in Nat, NEW option, NEW default, NEW v,
         GivenBy(argv, k, option, default, v), Option(argv, k + 1) # option
  PROVE  GivenBy(argv, k + 1, option, default, v)
<1>1. CASE v = default /\ \A j \in 1 .. k : Option(argv, j) # option
  <2>1. \A j \in 1 .. k + 1 : Option(argv, j) # option
    <3>1. \A j \in 1 .. k + 1 : j \in 1 .. k \/ j = k + 1
      OBVIOUS
    <3> QED BY <1>1, <3>1
  <2> QED BY <1>1, <2>1 DEF GivenBy
<1>2. CASE \E j \in 1 .. k : /\ Option(argv, j) = option /\ v = Value(argv, j)
                             /\ \A i \in j + 1 .. k : Option(argv, i) # option
  <2>1. PICK j \in 1 .. k : /\ Option(argv, j) = option /\ v = Value(argv, j)
                            /\ \A i \in j + 1 .. k : Option(argv, i) # option
    BY <1>2
  <2>2. \A i \in j + 1 .. k + 1 : i \in j + 1 .. k \/ i = k + 1
    OBVIOUS
  <2>3. \A i \in j + 1 .. k + 1 : Option(argv, i) # option
    BY <2>1, <2>2
  <2>4. j \in 1 .. k + 1
    OBVIOUS
  <2> QED BY <2>1, <2>3, <2>4 DEF GivenBy
<1> QED BY <1>1, <1>2 DEF GivenBy

\* The next pair is of this option.
LEMMA LastGiven ==
  ASSUME NEW argv, NEW k \in Nat, NEW option, NEW default, Option(argv, k + 1) = option
  PROVE  GivenBy(argv, k + 1, option, default, Value(argv, k + 1))
<1>1. k + 1 \in 1 .. k + 1 /\ \A i \in (k + 1) + 1 .. k + 1 : FALSE
  OBVIOUS
<1> QED BY <1>1 DEF GivenBy

LEMMA StepSound ==
  ASSUME NEW argv, NEW k \in Nat
  PROVE  Sound(argv, k + 1) <=>
           Sound(argv, k) /\ Option(argv, k + 1) \in {"--freq", "--fs"} /\ Value(argv, k + 1) # NaN
<1>1. \A j \in 1 .. k + 1 : j \in 1 .. k \/ j = k + 1
  OBVIOUS
<1>2. (\A j \in 1 .. k : j \in 1 .. k + 1) /\ k + 1 \in 1 .. k + 1
  OBVIOUS
<1> QED BY <1>1, <1>2 DEF Sound

LEMMA TurnRead ==
  ASSUME NEW argv, NEW k \in Nat, NEW opts, ReadSoFar(argv, k, opts)
  PROVE  ReadSoFar(argv, k + 1, Take(opts, Option(argv, k + 1), Value(argv, k + 1)))
<1> DEFINE o == Option(argv, k + 1)
           v == Value(argv, k + 1)
           next == Take(opts, o, v)
<1>1. v \in Int /\ opts \in Opts
  BY NumberRead DEF Value, ReadSoFar
<1>2. /\ next \in Opts
      /\ v # NaN /\ o = "--freq" => next = [opts EXCEPT !.tone = v]
      /\ v # NaN /\ o = "--fs" => next = [opts EXCEPT !.fs = v]
      /\ ~ (v # NaN /\ o \in {"--freq", "--fs"}) => next = [opts EXCEPT !.ok = FALSE]
  <2> HIDE DEF o, v
  <2> QED BY <1>1, TurnTaken
<1>3. Sound(argv, k + 1) <=> Sound(argv, k) /\ o \in {"--freq", "--fs"} /\ v # NaN
  BY StepSound
<1>4. o # "--freq" /\ opts.ok => GivenBy(argv, k + 1, "--freq", DEFAULT_TONE_HZ, opts.tone)
  BY OtherGiven DEF ReadSoFar
<1>5. o # "--fs" /\ opts.ok => GivenBy(argv, k + 1, "--fs", DEFAULT_FS_HZ, opts.fs)
  BY OtherGiven DEF ReadSoFar
<1>6. o = "--freq" => GivenBy(argv, k + 1, "--freq", DEFAULT_TONE_HZ, v)
  BY LastGiven
<1>7. o = "--fs" => GivenBy(argv, k + 1, "--fs", DEFAULT_FS_HZ, v)
  BY LastGiven
<1>8. opts.ok <=> Sound(argv, k)
  BY DEF ReadSoFar
<1> SUFFICES ReadSoFar(argv, k + 1, next)
  OBVIOUS
<1> HIDE DEF o, v, next
<1>9. CASE v # NaN /\ o = "--freq"
  <2>1. next = [opts EXCEPT !.tone = v]
    BY <1>2, <1>9
  <2>2. next.tone = v /\ next.fs = opts.fs /\ next.ok = opts.ok
    BY <1>1, <2>1 DEF Opts
  <2>3. o # "--fs"
    BY <1>9
  <2> QED BY <1>2, <1>3, <1>5, <1>6, <1>8, <1>9, <2>2, <2>3 DEF ReadSoFar
<1>10. CASE v # NaN /\ o = "--fs"
  <2>1. next = [opts EXCEPT !.fs = v]
    BY <1>2, <1>10
  <2>2. next.tone = opts.tone /\ next.fs = v /\ next.ok = opts.ok
    BY <1>1, <2>1 DEF Opts
  <2>3. o # "--freq"
    BY <1>10
  <2> QED BY <1>2, <1>3, <1>4, <1>7, <1>8, <1>10, <2>2, <2>3 DEF ReadSoFar
<1>11. CASE ~ (v # NaN /\ o \in {"--freq", "--fs"})
  <2>1. next = [opts EXCEPT !.ok = FALSE]
    BY <1>2, <1>11
  <2>2. ~next.ok
    BY <1>1, <2>1 DEF Opts
  <2> QED BY <1>2, <1>3, <1>11, <2>2 DEF ReadSoFar
<1> QED BY <1>9, <1>10, <1>11

LEMMA LoopRead ==
  ASSUME NEW argv, Pairs(argv) \in Nat
  PROVE  ReadSoFar(argv, Pairs(argv), Options(argv))
<1>1. PICK f : Turns(argv, f) /\ Options(argv) = f[Pairs(argv)]
  BY LoopRuns
<1> DEFINE n == Pairs(argv)
           T == {k \in Nat : k <= n => ReadSoFar(argv, k, f[k])}
<1>2. 0 \in T
  <2>1. f[0] = Defaults
    BY <1>1 DEF Turns
  <2>2. Defaults \in Opts /\ Defaults.ok = TRUE /\ Defaults.tone = DEFAULT_TONE_HZ /\ Defaults.fs = DEFAULT_FS_HZ
    BY CommandLineAssumption DEF Defaults, Opts
  <2>3. \A j \in 1 .. 0 : FALSE
    OBVIOUS
  <2>4. ReadSoFar(argv, 0, Defaults)
    BY <2>2, <2>3 DEF ReadSoFar, Sound, GivenBy
  <2> QED BY <2>1, <2>4
<1>3. ASSUME NEW k \in T PROVE k + 1 \in T
  <2> SUFFICES ASSUME k + 1 <= n PROVE ReadSoFar(argv, k + 1, f[k + 1])
    OBVIOUS
  <2>1. k \in Nat /\ ReadSoFar(argv, k, f[k])
    OBVIOUS
  <2>2. k + 1 \in 0 .. Pairs(argv) /\ k + 1 # 0 /\ k + 1 - 1 = k
    OBVIOUS
  <2> DEFINE i == k + 1
  <2>3. f[i] = Take(f[i - 1], argv[2 * i], parse_u32(argv[2 * i + 1]))
    <3> HIDE DEF i, T
    <3>1. i \in 0 .. Pairs(argv) /\ i # 0
      BY <2>2 DEF i
    <3> QED BY <1>1, <3>1 DEF Turns
  <2>4. f[k + 1] = Take(f[k], Option(argv, k + 1), Value(argv, k + 1))
    BY <2>2, <2>3 DEF Option, Value
  <2> HIDE DEF T, i
  <2> QED BY <2>1, <2>4, TurnRead
<1>4. n \in T
  <2>0. T \subseteq Nat
    OBVIOUS
  <2> HIDE DEF T
  <2>1. T = Nat
    BY <1>2, <1>3, <2>0, Induction
  <2> QED BY <2>1
<1> QED BY <1>1, <1>4

LEMMA Positions ==
  ASSUME NEW argv, Len(argv) \in Nat \ {0}
  PROVE  /\ Pairs(argv) \in Nat
         /\ \A j \in 1 .. Pairs(argv) : 2 * j \in OptionAt(argv)
         /\ \A i \in OptionAt(argv) : \E j \in 1 .. Pairs(argv) : i = 2 * j
<1> DEFINE n == Len(argv) - 1
<1>1. n \in Nat /\ Pairs(argv) = n \div 2 /\ OptionAt(argv) = {i \in 2 .. n : i % 2 = 0}
  BY DEF Pairs, OptionAt
<1> HIDE DEF n
<1>2. n \div 2 \in Nat
  BY <1>1
<1>3. \A j \in 1 .. n \div 2 : 2 * j \in {i \in 2 .. n : i % 2 = 0}
  BY <1>1
<1>4. ASSUME NEW i \in 2 .. n, i % 2 = 0 PROVE \E j \in 1 .. n \div 2 : i = 2 * j
  <2>1. i \div 2 \in 1 .. n \div 2 /\ i = 2 * (i \div 2)
    BY <1>1, <1>4
  <2> QED BY <2>1
<1> QED BY <1>1, <1>2, <1>3, <1>4

\* The value that stands last is the value that Given finds.
LEMMA GivenFound ==
  ASSUME NEW argv, Len(argv) \in Nat \ {0}, NEW option, NEW default, NEW v,
         Sound(argv, Pairs(argv)), GivenBy(argv, Pairs(argv), option, default, v)
  PROVE  Given(argv, option, default) = v
<1> DEFINE at == {i \in OptionAt(argv) : argv[i] = option}
           last == CHOOSE i \in at : \A j \in at : j <= i
<1>1. /\ Pairs(argv) \in Nat
      /\ \A j \in 1 .. Pairs(argv) : 2 * j \in OptionAt(argv)
      /\ \A i \in OptionAt(argv) : \E j \in 1 .. Pairs(argv) : i = 2 * j
  BY Positions
<1>2. CASE v = default /\ \A j \in 1 .. Pairs(argv) : Option(argv, j) # option
  <2>1. at = {}
    BY <1>1, <1>2 DEF Option
  <2> QED BY <1>2, <2>1 DEF Given
<1>3. CASE \E j \in 1 .. Pairs(argv) : /\ Option(argv, j) = option /\ v = Value(argv, j)
                                       /\ \A i \in j + 1 .. Pairs(argv) : Option(argv, i) # option
  <2>1. PICK j \in 1 .. Pairs(argv) :
               /\ Option(argv, j) = option /\ v = Value(argv, j)
               /\ \A i \in j + 1 .. Pairs(argv) : Option(argv, i) # option
    BY <1>3
  <2>2. 2 * j \in at
    BY <1>1, <2>1 DEF Option
  <2>3. ASSUME NEW i \in at PROVE i \in Nat /\ i <= 2 * j
    <3>1. PICK k \in 1 .. Pairs(argv) : i = 2 * k
      BY <1>1
    <3>2. Option(argv, k) = option
      BY <3>1 DEF Option
    <3>3. k <= j
      <4>1. k > j => k \in j + 1 .. Pairs(argv)
        BY <1>1
      <4> QED BY <1>1, <2>1, <3>2, <4>1
    <3> QED BY <1>1, <3>1, <3>3
  <2>4. last = 2 * j
    <3>1. last \in at /\ \A i \in at : i <= last
      <4> HIDE DEF at
      <4> QED BY <2>2, <2>3
    <3>2. last \in Nat /\ last <= 2 * j /\ 2 * j <= last
      <4> HIDE DEF at, last
      <4> QED BY <2>2, <2>3, <3>1
    <3> HIDE DEF last
    <3> QED BY <1>1, <3>2
  <2>5. Given(argv, option, default) = Number[argv[last + 1]] % WordRange
    <3>1. at # {}
      BY <2>2
    <3> QED BY <3>1 DEF Given
  <2>6. Value(argv, j) = Number[argv[2 * j + 1]] % WordRange
    <3>1. parse_u32(argv[2 * j + 1]) # NaN
      BY <2>1 DEF Sound, Value
    <3> QED BY <3>1, NumberRead DEF Value
  <2> HIDE DEF last
  <2> QED BY <2>1, <2>4, <2>5, <2>6
<1> QED BY <1>2, <1>3 DEF GivenBy

LEMMA ToneRead ==
  ASSUME NEW argv, Len(argv) \in Nat \ {0}, argv[1] \in {"bringup", "tone"}
  PROVE  Dispatch(argv) = ToneAsked(argv)
<1> DEFINE opts == Options(argv)
           n == Pairs(argv)
<1>1. n \in Nat /\ ReadSoFar(argv, n, opts)
  BY Positions, LoopRead
<1>2. Dispatch(argv) = IF opts.ok THEN Job(argv[1], <<opts.tone, opts.fs>>) ELSE Refused
  BY DEF Dispatch
<1>3. (\A i \in OptionAt(argv) : argv[i] \in {"--freq", "--fs"} /\ argv[i + 1] \in DOMAIN Number)
        <=> Sound(argv, n)
  <2>1. /\ \A j \in 1 .. n : 2 * j \in OptionAt(argv)
        /\ \A i \in OptionAt(argv) : \E j \in 1 .. n : i = 2 * j
    BY Positions
  <2>2. \A s : parse_u32(s) # NaN <=> s \in DOMAIN Number
    BY NumberRead
  <2> HIDE DEF n
  <2> QED BY <2>1, <2>2 DEF Sound, Option, Value
<1>4. CASE ~Sound(argv, n)
  BY <1>1, <1>2, <1>3, <1>4 DEF ToneAsked, ReadSoFar
<1>5. CASE Sound(argv, n)
  <2>1. /\ opts.ok
        /\ GivenBy(argv, n, "--freq", DEFAULT_TONE_HZ, opts.tone)
        /\ GivenBy(argv, n, "--fs", DEFAULT_FS_HZ, opts.fs)
    BY <1>1, <1>5 DEF ReadSoFar
  <2>2. Given(argv, "--freq", DEFAULT_TONE_HZ) = opts.tone
    BY <1>5, <2>1, GivenFound
  <2>3. Given(argv, "--fs", DEFAULT_FS_HZ) = opts.fs
    BY <1>5, <2>1, GivenFound
  <2> HIDE DEF opts, n
  <2> QED BY <1>2, <1>3, <1>5, <2>1, <2>2, <2>3 DEF ToneAsked
<1> QED BY <1>4, <1>5

(* ParsedAsGiven: whatever words follow a tone command, however many, it does
   what its options say: the last value given for an option counts, the
   default stands if there is none, and a wrong word refuses the command.  *)
THEOREM ParsedCorrect == Spec => []ParsedAsGiven
<1>1. ReadAsMeant
  <2> SUFFICES ASSUME NEW cmd \in {"bringup", "tone"}, NEW n \in 0 .. MaxWords,
                      NEW words \in [1 .. n -> OptionWord]
               PROVE  Dispatch(<<cmd>> \o words) = ToneAsked(<<cmd>> \o words)
    BY DEF ReadAsMeant
  <2>1. n \in Nat
    BY CommandLineAssumption
  <2>2. words \in Seq(OptionWord) /\ Len(words) = n
    BY <2>1
  <2>3. Len(<<cmd>> \o words) = n + 1 /\ (<<cmd>> \o words)[1] = cmd
    BY <2>1, <2>2
  <2> DEFINE argv == <<cmd>> \o words
  <2>4. Len(argv) \in Nat \ {0} /\ argv[1] \in {"bringup", "tone"}
    BY <2>1, <2>3
  <2> HIDE DEF argv
  <2>5. Dispatch(argv) = ToneAsked(argv)
    BY <2>4, ToneRead
  <2> QED BY <2>5 DEF argv
<1>2. ParsedAsGiven
  BY <1>1 DEF ParsedAsGiven
<1> QED BY <1>2, PTL
=============================================================================
