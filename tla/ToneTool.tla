------------------------------ MODULE ToneTool ------------------------------
(***************************************************************************)
(* dac_subsys_set_nco_tone (software/ad9176_config/ad9176_init.c) driving  *)
(* the registers of CsrCdc: `ad9176-config bringup' and, any number of     *)
(* times, `ad9176-config tone'.  It writes the configuration and then      *)
(* SINE_CTRL with the enable bit and every converter on.                   *)
(***************************************************************************)
EXTENDS CsrCdc

CONSTANT AllOn  \* the conv_enable bits of 0x1F

VARIABLE todo   \* the fields the running command has not written yet

tool_vars == <<vars, todo>>

ToolInit == Init /\ todo = Field

\* Frequencies, phases, amplitudes.  Only the frequency is the user's choice;
\* the other fields are given a value here as well.
WriteTone(f, v) ==
  /\ f \in todo
  /\ WriteField(f, v)
  /\ todo' = todo \ {f}

EnableTone ==
  /\ todo = {Control}
  /\ WriteControl(TRUE, AllOn)
  /\ todo' = {}

Command ==
  /\ todo = {}
  /\ todo' = Field
  /\ UNCHANGED vars

ToolNext ==
  \/ \E f \in Field : \E v \in Value[f] : WriteTone(f, v)
  \/ EnableTone \/ Command
  \/ Hardware /\ UNCHANGED todo

ToolSpec == ToolInit /\ [][ToolNext]_tool_vars

\* The link clock runs, and a command that was started is carried through.
ToolFairSpec ==
  /\ ToolSpec
  /\ WF_tool_vars(LinkEdge /\ UNCHANGED todo)
  /\ WF_tool_vars(EnableTone \/ \E f \in Field : \E v \in Value[f] : WriteTone(f, v))

\* What README.md ("re-tune live") and ad9176_config.c say of the command
\* `tone': once it is done the generator plays what it wrote.
RetuneTakesEffect ==
  \A c \in Config :
    <>[](todo = {} /\ bank_enable /\ bank = c /\ ~reset_sink_reset /\ ~txlink_rst)
      => <>[](tone_enable /\ tone = c)
=============================================================================
