-------------------------- MODULE ReferenceDriver --------------------------
(***************************************************************************)
(* ad9176_nco_enable and ad9176_nco_disable of the reference driver        *)
(* (software/ad9176_config/reference/ad9176_fmc_ebz.c) driving the         *)
(* registers of CsrCdc, one register access at a time, between other       *)
(* software that keeps the discipline of CsrCdc.                           *)
(*                                                                         *)
(* Settings are the registers a call writes, in its order; all but         *)
(* Frequency get the values of Standard (phase 0, full scale).  The write  *)
(* of the source select that comes first is left out: it is no tone        *)
(* setting.                                                                *)
(***************************************************************************)
EXTENDS CsrCdc, Sequences

CONSTANTS Frequency, Settings, Standard, AllConverters

ASSUME DriverAssumption ==
  /\ Frequency \in Field \ {Control}
  /\ Settings \in Seq(Field \ {Control})
  /\ Standard \in Config
  /\ {0, AllConverters} \subseteq Value[Control]

VARIABLES
  todo,  \* the writes the running call has still to make
  last,  \* history: the last call, <<>> if other software has written since
  clean  \* history: no reset since that request was made

calls == <<todo, last, clean>>
driver_vars == <<vars, calls>>

nco_enable(freq) == <<"nco_enable", freq>>
nco_disable == <<"nco_disable">>

DriverInit == Init /\ todo = <<>> /\ last = <<>> /\ clean = TRUE
-----------------------------------------------------------------------------
Set(f, v) == [field |-> f, value |-> v, enable |-> FALSE]
Ctrl(enable, v) == [field |-> Control, value |-> v, enable |-> enable]

WriteSettings(freq) ==
  [i \in DOMAIN Settings |->
     Set(Settings[i], IF Settings[i] = Frequency THEN freq ELSE Standard[Settings[i]])]

\* Mutant of NcoWrites: the tone is not switched off first.
Retune(freq) == WriteSettings(freq) \o <<Ctrl(TRUE, AllConverters)>>

NcoWrites(freq) ==
  <<Ctrl(FALSE, 0)>> \o WriteSettings(freq) \o <<Ctrl(TRUE, AllConverters)>>

Call(request, writes) ==
  /\ todo = <<>>
  /\ todo' = writes /\ last' = request /\ clean' = ~reset_sink_reset
  /\ UNCHANGED vars

ad9176_nco_enable == \E freq \in Value[Frequency] :
                       Call(nco_enable(freq), NcoWrites(freq))

\* The value of SINE_CTRL is read now and written back later.
ad9176_nco_disable == Call(nco_disable, <<Ctrl(FALSE, bank[Control])>>)

FPGA_REG_WRITE ==
  /\ todo # <<>>
  /\ LET w == Head(todo) IN
       \/ w.field = Control /\ WriteControl(w.enable, w.value)
       \/ w.field # Control /\ WriteField(w.field, w.value)
  /\ todo' = Tail(todo)
  /\ UNCHANGED <<last, clean>>

OtherSoftware ==
  /\ todo = <<>> /\ Disciplined
  /\ last' = <<>>
  /\ UNCHANGED <<todo, clean>>

Elsewhere ==
  /\ Hardware
  /\ clean' = (clean /\ ~reset_sink_reset')
  /\ UNCHANGED <<todo, last>>

DriverNext ==
  \/ ad9176_nco_enable \/ ad9176_nco_disable \/ FPGA_REG_WRITE
  \/ OtherSoftware
  \/ Elsewhere

\* The link clock runs; software owes nothing.
DriverSpec ==
  /\ DriverInit
  /\ [][DriverNext]_driver_vars
  /\ WF_driver_vars(LinkEdge /\ Elsewhere)
-----------------------------------------------------------------------------
\* The tone of the last ad9176_nco_enable is the one played in the end, from
\* whatever was played before and whatever reset hit earlier calls; after
\* ad9176_nco_disable there is none.  (The shipped tool, in ToneTool, lacks
\* the write that makes this so.)
PlaysAsAsked ==
  /\ \A freq \in Value[Frequency] :
       <>[](todo = <<>> /\ last = nco_enable(freq) /\ clean /\ ~txlink_rst)
         => <>[](/\ tone_enable
                 /\ tone = [f \in Field |-> IF f = Frequency THEN freq
                                            ELSE IF f = Control THEN AllConverters
                                            ELSE Standard[f]])
  /\ <>[](todo = <<>> /\ last = nco_disable) => <>[](~tone_enable)
=============================================================================
