------------------------------ MODULE FmcCard ------------------------------
(***************************************************************************)
(* What ad9176-config reaches over SPI: the Avalon SPI master, with a word *)
(* being shifted and room for one more behind it, and the card in the FMC  *)
(* slot with its converter.  Both are outside the repository; this is what *)
(* software/ad9176_config (ad9176_fmc_ebz.c, ad9176_init.c) relies on.     *)
(***************************************************************************)
EXTENDS Sequences

VARIABLES
  shifting, holding,                    \* the words in the SPI master
  rxdata,                               \* answer to the last word shifted
  card,                                 \* the kind in the slot, or "none"
  chip,                                 \* what its converter has been told
  csr                                   \* registers of the FPGA; the buffer
                                        \* between master and card is spi_en

spi_master == <<shifting, holding, rxdata>>
card_vars == <<spi_master, card, chip, csr>>

NoWord == [op |-> "none", reg |-> "none", val |-> 0]

\* "sibling" is a converter of the same type with another product number.
Kind == {"ad9176", "sibling"}

\* Power-up: three-wire SPI, so nothing comes back, and no settings.
PowerUp == [sdo |-> FALSE, settings |-> {}, fresh |-> FALSE]

CsrRegister == {"spi_en", "pe_ctrl", "tx_en", "JESD_SYNC_CTRL", "SINE_CTRL",
                "JESD_TX_SRC_SEL"}

CardInit ==
  /\ shifting = NoWord /\ holding = NoWord
  /\ rxdata = [reg |-> "none", from |-> "none"]
  /\ card \in Kind \union {"none"} /\ chip = PowerUp
  /\ csr = [reg \in CsrRegister |-> 0]
-----------------------------------------------------------------------------
\* SPI_STATUS_TRDY and SPI_STATUS_TMT.
trdy == holding = NoWord
tmt == shifting = NoWord /\ holding = NoWord

\* A write of TXDATA; without room the word is lost.
TxData(word) ==
  /\ IF shifting = NoWord THEN shifting' = word /\ UNCHANGED holding
     ELSE /\ holding' = IF trdy THEN word ELSE holding
          /\ UNCHANGED shifting
  /\ UNCHANGED rxdata

Connected == card # "none" /\ csr["spi_en"] = 1

\* Register 0x000 holds the soft reset and the bits that turn on SDO.
Told(word) ==
  IF word.op # "write" \/ ~Connected THEN chip
  ELSE IF word.reg # "SPI_INTFCONFA"
       THEN [chip EXCEPT !.settings = @ \union {<<word.reg, word.val>>}]
  ELSE IF word.val = 129 THEN [sdo |-> FALSE, settings |-> {}, fresh |-> TRUE]
  ELSE [chip EXCEPT !.sdo = word.val = 24]

\* A word has gone out and its answer has come in over the one before.
Shifted ==
  /\ shifting # NoWord
  /\ shifting' = holding /\ holding' = NoWord
  /\ chip' = Told(shifting)
  /\ rxdata' = [reg |-> shifting.reg,
                from |-> IF Connected /\ chip.sdo THEN card ELSE "none"]
  /\ UNCHANGED <<card, csr>>

\* A card that is pulled takes its settings along.  None is plugged in while
\* a word is shifted, which takes a microsecond.
Pull == card # "none" /\ card' = "none" /\ chip' = PowerUp

Plug(kind) == card = "none" /\ tmt /\ card' = kind /\ UNCHANGED chip
=============================================================================
