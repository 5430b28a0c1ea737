----------------------------- MODULE MCCsrPort -----------------------------
(* An amplitude register, whose reset value is not zero, and the register  *)
(* that is cleared by writing and reads the hardware's status back.        *)
EXTENDS CsrPort

CONSTANTS amp, err
MCWriteReg == {amp}
MCClearReg == {err}
MCResetValue == [r \in MCWriteReg |-> 1]
=============================================================================
