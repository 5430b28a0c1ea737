------------------------------ MODULE MCTxPath ------------------------------
(* Links 0 and 1 of the one AD9176, and one link of the group without a DAC.
   Phases of 3 bits and a table of two entries: a tone of eight samples, in
   which every pair is different.                                          *)
EXTENDS TxPath

MCLink == 0 .. 2
MCGroup == 0 .. 1
MCGroupOf == [l \in MCLink |-> l \div 2]
MCFed == 0 .. 1
MCLut == [i \in 0 .. 1 |-> IF i = 0 THEN 1 ELSE 3]
MCTone == [enable |-> FALSE, conv_enable |-> TRUE, freq |-> 1,
           phase_ofs |-> 2, amp |-> 4]

ToolSpec == PathInit /\ [][PathNext /\ ToneAfterLock(0)]_all_vars
=============================================================================
