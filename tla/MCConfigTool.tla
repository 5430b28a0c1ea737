---------------------------- MODULE MCConfigTool ----------------------------
(* Numbers of three bits, 13 being written with one too many. *)
EXTENDS ConfigTool, TLC

MCNumber == "0" :> 0 @@ "2" :> 2 @@ "13" :> 13 @@ "4" :> 4 @@ "6" :> 6
MCRegisterAt == 0 :> "spi_en" @@ 4 :> "tx_en"

MCOptionWord == {"--freq", "--fs", "0", "13", "fast"}

\* Every command, accepted and refused, with a division by 0 and an offset
\* that is not of a word among the accepted.
MCLine ==
  {<<>>, <<"--help">>, <<"status">>, <<"bringup">>, <<"bringup", "--freq", "fast">>,
   <<"tone", "--fs", "0">>, <<"peek", "2">>, <<"poke", "0", "0">>}
=============================================================================
