------------------------------ MODULE Bringup ------------------------------
(***************************************************************************)
(* The commands of ad9176-config (software/ad9176_config) as lists of      *)
(* their accesses, ad9176_bringup_full foremost, and the process that      *)
(* works such a list off.  An SPI transfer comes in the two halves that    *)
(* spi_xfer24 gives it; it can time out, and the card can be pulled under  *)
(* it.  Delays are left out, and so are the settings of the tone (ToneTool  *)
(* has them).  ConfigTool says how processes begin.                        *)
(***************************************************************************)
EXTENDS FmcCard, Integers

CONSTANTS
  PollLimit,            \* polls of a status bit before giving up
  RegisterAt            \* offset -> the member of CsrRegister there

ASSUME PollLimitAssumption == PollLimit \in Nat \ {0}

VARIABLES
  job,                                \* command and arguments
  pc, sent, polls, ids, result,       \* the process; pc = 0 when there is none
  fmc_ready, link_locked              \* the bits it polls

process == <<job, pc, sent, polls, ids, result>>
polled == <<fmc_ready, link_locked>>
-----------------------------------------------------------------------------
ad9176_reg_write(reg, val) == [op |-> "write", reg |-> reg, val |-> val]
ad9176_reg_read(reg) == [op |-> "read", reg |-> reg, val |-> 0]
Glance(reg) == [op |-> "glance", reg |-> reg, val |-> 0]   \* result ignored
ad9176_csr_write(reg, val) == [op |-> "csr", reg |-> reg, val |-> val]
Wait(bit) == [op |-> "wait", reg |-> bit, val |-> 0]
Look == [op |-> "look", reg |-> "any", val |-> 0]          \* read and printed
Do(op) == [op |-> op, reg |-> "any", val |-> 0]

\* Mutants of ad9176_reset: no reset at all; SDO not turned on.
NoReset == <<ad9176_reg_write("SPI_INTFCONFA", 24)>>

ResetOnly ==
  <<ad9176_reg_write("SPI_INTFCONFA", 129), ad9176_reg_write("SPI_INTFCONFA", 0)>>

ad9176_reset ==
  <<ad9176_reg_write("SPI_INTFCONFA", 129),       \* SOFT_RESET, same address
    ad9176_reg_write("SPI_INTFCONFA", 0),
    ad9176_reg_write("SPI_INTFCONFA", 24)>>

IdRegisters == {"CHIPTYPE", "PRODIDL", "PRODIDH"}

ad9176_verify_id ==
  <<ad9176_reg_read("CHIPTYPE"), ad9176_reg_read("PRODIDL"),
    ad9176_reg_read("PRODIDH"), Do("compare")>>

ad9176_configure_pll_interp ==
  <<ad9176_reg_write("DACPLL_CTRL", 1), ad9176_reg_read("DACPLL_STATUS"),
    ad9176_reg_write("INTERP_CTRL", 4)>>

ad9176_configure_jesd_params ==
  <<ad9176_reg_write("JESD_L_CTRL", 3), ad9176_reg_write("JESD_K_CTRL", 31),
    ad9176_reg_write("JESD_M_CTRL", 3), ad9176_reg_write("JESD_MISC_CTRL", 160)>>

ad9176_enable_link == <<ad9176_reg_write("LINK_CTRL0", 1)>>

\* The mode and the source it writes are the ones after reset.
dac_subsys_release_sync == <<ad9176_csr_write("JESD_SYNC_CTRL", 0)>>

dac_subsys_wait_link_lock == <<Wait("link_locked"), Glance("LINK_STATUS")>>

dac_subsys_set_nco_tone ==
  <<Do("divide"), ad9176_csr_write("SINE_CTRL", 31),
    ad9176_csr_write("JESD_TX_SRC_SEL", 0)>>

ad9176_bringup_full ==
  <<Wait("fmc_ready"), ad9176_csr_write("spi_en", 1),
    ad9176_csr_write("pe_ctrl", 1)>>
  \o ad9176_reset \o ad9176_verify_id
  \o ad9176_configure_pll_interp \o ad9176_configure_jesd_params
  \o ad9176_enable_link \o dac_subsys_release_sync
  \o dac_subsys_wait_link_lock \o dac_subsys_set_nco_tone
  \o <<ad9176_csr_write("tx_en", 3)>>

\* Its four reads, which have no effect and are only printed.
cmd_status == <<Look>>

\* The window is device memory, which takes no access across words.
peek == IF job.args[1] % 4 = 0 THEN <<Look>> ELSE <<Do("fault")>>
poke == IF job.args[1] % 4 = 0 THEN <<Do("poke")>> ELSE <<Do("fault")>>

NoJob == [cmd |-> "none", args |-> <<>>]

Program ==
  CASE job.cmd = "bringup" -> ad9176_bringup_full
    [] job.cmd = "tone" -> dac_subsys_set_nco_tone
    [] job.cmd = "status" -> cmd_status
    [] job.cmd = "peek" -> peek
    [] job.cmd = "poke" -> poke

\* Behind the last step of the bring-up is the look at the converter that a
\* timeout of the link takes before it reports.
Report == Len(ad9176_bringup_full) + 1
Step == IF pc = Report THEN Glance("LINK_STATUS") ELSE Program[pc]
-----------------------------------------------------------------------------
\* main closes the device and the process is gone.
Return(rc) == pc' = 0 /\ result' = rc /\ job' = NoJob

Continue ==
  /\ sent' = FALSE /\ polls' = 0
  /\ \/ pc = Report /\ Return("failed")
     \/ pc = Len(Program) /\ Return("ok")
     \/ pc \notin {Report, Len(Program)} /\ pc' = pc + 1
        /\ UNCHANGED <<job, result>>

Fail == sent' = FALSE /\ polls' = 0 /\ Return("failed")

\* A signal ends the process.
Crash == sent' = FALSE /\ polls' = 0 /\ Return("killed")

\* Mutant of PollAgain: a loop that does not count.
PollForever(TimedOut) ==
  \/ polls + 1 < PollLimit /\ UNCHANGED <<job, pc, sent, polls, result>>
  \/ polls + 1 = PollLimit /\ TimedOut

\* One more look at a bit that is not set, or the end of the patience.
PollAgain(TimedOut) ==
  \/ /\ polls + 1 < PollLimit
     /\ polls' = polls + 1
     /\ UNCHANGED <<job, pc, sent, result>>
  \/ polls + 1 = PollLimit /\ TimedOut

\* ad9176_wait_fmc_ready and the loop of dac_subsys_wait_link_lock.
WaitStep ==
  /\ Step.op = "wait"
  /\ LET up == IF Step.reg = "fmc_ready" THEN fmc_ready ELSE link_locked
         Late == IF Step.reg = "fmc_ready" THEN Fail
                 ELSE /\ sent' = FALSE /\ polls' = 0
                      /\ pc' = Report /\ UNCHANGED <<job, result>>
     IN  \/ up /\ Continue
         \/ ~up /\ PollAgain(Late)
  /\ UNCHANGED <<card_vars, ids>>

CsrStep ==
  /\ Step.op = "csr"
  /\ csr' = [csr EXCEPT ![Step.reg] = Step.val]
  /\ Continue
  /\ UNCHANGED <<spi_master, card, chip, ids>>

\* The frequency word is a quotient; its registers are left out.  A sample
\* rate of 0 is undefined: some machines stop the process, the processor of
\* the board answers 0.
DivideStep ==
  /\ Step.op = "divide"
  /\ \/ Continue
     \/ job.args[2] = 0 /\ Crash
  /\ UNCHANGED <<card_vars, ids>>

PokeStep ==
  /\ Step.op = "poke"
  /\ LET offset == job.args[1]
     IN  csr' = IF offset \in DOMAIN RegisterAt
                THEN [csr EXCEPT ![RegisterAt[offset]] = job.args[2]] ELSE csr
  /\ Continue
  /\ UNCHANGED <<spi_master, card, chip, ids>>

LookStep ==
  /\ \/ Step.op = "look" /\ Continue
     \/ Step.op = "fault" /\ Crash
  /\ UNCHANGED <<card_vars, ids>>

\* Mutant of verified: a check of the type alone.
TypeOnly == "CHIPTYPE" \in ids

verified == ids = IdRegisters

CompareStep ==
  /\ Step.op = "compare"
  /\ IF verified THEN Continue ELSE Fail
  /\ ids' = {}                         \* they are locals of ad9176_verify_id
  /\ UNCHANGED card_vars

SpiStep == Step.op \in {"write", "read", "glance"}

\* A timeout of either wait; dac_subsys_wait_link_lock does not look at it.
SpiTimeout == IF Step.op = "glance" THEN Continue ELSE Fail

\* spi_wait_trdy and the write of TXDATA.
Send ==
  /\ SpiStep /\ ~sent
  /\ \/ /\ trdy
        /\ TxData(Step)
        /\ sent' = TRUE /\ polls' = 0
        /\ UNCHANGED <<job, pc, result>>
     \/ ~trdy /\ PollAgain(SpiTimeout) /\ UNCHANGED spi_master
  /\ UNCHANGED <<card, chip, csr, ids>>

\* What the id registers of the card hold, compared with what is expected.
Expected(answer) ==
  \/ answer.from = "ad9176"
  \/ answer.from = "sibling" /\ answer.reg \in {"CHIPTYPE", "PRODIDH"}

\* Mutant of Finished: a wait for the wrong bit.
RoomAgain == trdy

Finished == tmt

\* spi_wait_tmt and the read of RXDATA.
Receive ==
  /\ SpiStep /\ sent
  /\ \/ /\ Finished
        /\ Continue
        /\ ids' = IF Step.reg \in IdRegisters /\ Expected(rxdata)
                  THEN ids \union {Step.reg} ELSE ids
     \/ ~Finished /\ PollAgain(SpiTimeout) /\ UNCHANGED ids
  /\ UNCHANGED <<card_vars>>

Run ==
  /\ pc # 0
  /\ \/ WaitStep \/ CsrStep \/ CompareStep \/ Send \/ Receive
     \/ DivideStep \/ PokeStep \/ LookStep
  /\ UNCHANGED polled
=============================================================================
