------------------------------ MODULE RegBank ------------------------------
(***************************************************************************)
(* RegBank (ip/dac_controller_0/src/reg_bank.vhd): the CSR registers.  The *)
(* registers are grouped by what an access does to them: WriteReg is kept  *)
(* as written (scratch, control, tone and PIO registers), ClearReg is      *)
(* JESD_SYNC_ERR, whose writes become a pulse of one clock, StatusReg only *)
(* reads back, and OtherReg stands for the addresses with no register.     *)
(***************************************************************************)
CONSTANTS
  Value, Zero, WriteReg, ClearReg, StatusReg, OtherReg,
  ResetValue  \* of each register of WriteReg: zero, but full scale amplitude

ASSUME BankAssumption == Zero \in Value /\ ResetValue \in [WriteReg -> Value]

Reg == WriteReg \cup ClearReg \cup StatusReg \cup OtherReg

VARIABLES
  regs,
  jesd_sync_err_clr,  \* the bits being cleared
  status              \* input: what the hardware presents

bank_registers == <<regs, jesd_sync_err_clr>>

BankInit ==
  /\ regs = ResetValue
  /\ jesd_sync_err_clr = Zero
  /\ status \in [ClearReg \cup StatusReg -> Value]

BankReset ==
  /\ regs' = ResetValue
  /\ jesd_sync_err_clr' = Zero

\* Mutant of BankEdge: decodes the address without avmm_write.
UngatedEdge(avmm_write, addr, writedata) ==
  /\ regs' = IF addr \in WriteReg
             THEN [regs EXCEPT ![addr] = writedata] ELSE regs
  /\ jesd_sync_err_clr' = IF avmm_write /\ addr \in ClearReg
                          THEN writedata ELSE Zero

\* p_write: the pulse is dropped by default and raised only by a write of the
\* clear register; a write to any other address has no effect.
BankEdge(avmm_write, addr, writedata) ==
  /\ regs' = IF avmm_write /\ addr \in WriteReg
             THEN [regs EXCEPT ![addr] = writedata] ELSE regs
  /\ jesd_sync_err_clr' = IF avmm_write /\ addr \in ClearReg
                          THEN writedata ELSE Zero

\* p_read, combinational: it answers in the clock that asks.
avmm_readdata(addr) ==
  IF addr \in WriteReg THEN regs[addr]
  ELSE IF addr \in OtherReg THEN Zero ELSE status[addr]
=============================================================================
