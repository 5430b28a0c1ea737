----------------------------- MODULE MCJesdSync -----------------------------
(* The dual-DAC build: links 0 and 1 feed the first AD9176, 2 and 3 the
   second.                                                                 *)
EXTENDS JesdSync

MCLink == 0 .. 3
MCGroup == 0 .. 1
MCGroupOf == [l \in MCLink |-> l \div 2]
=============================================================================
