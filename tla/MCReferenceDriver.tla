------------------------- MODULE MCReferenceDriver -------------------------
(* A frequency that takes three values, with a register of its own, and the
   bits that share a register with the enable. *)
EXTENDS ReferenceDriver

MCField == {"freq", "conv_enable"}
MCValue == [f \in MCField |-> IF f = "freq" THEN {0, 1, 2} ELSE {0, 3}]
MCDefault == [f \in MCField |-> 0]
MCSettings == <<"freq">>
=============================================================================
