---------------------------- MODULE MCToneTool ----------------------------
(* As MCCsrCdc, with the tool for software. *)
EXTENDS ToneTool

MCField == {"freq", "conv_enable"}
MCValue == [f \in MCField |-> {0, 1}]
MCDefault == [f \in MCField |-> 0]
=============================================================================
