----------------------------- MODULE AxiToAvmm -----------------------------
(***************************************************************************)
(* AxiToAvmm (ip/dac_controller_0/src/axi_to_avmm.vhd): the AXI4 slave     *)
(* that turns one access at a time into an Avalon-MM access.  A clock edge *)
(* out of reset is one of the branches of p_fsm.                           *)
(*                                                                         *)
(* The Avalon slave never asks to wait (reg_bank.vhd:227), so S_WRITE and  *)
(* S_READ last one clock.  wstrb, awlen, arlen and wlast are inputs the    *)
(* entity does not look at; the modules that use this one say what is on   *)
(* the channels.                                                           *)
(***************************************************************************)
VARIABLES
  state, awready, wready, arready, bvalid, rvalid,
  avmm_read, avmm_write, addr_r, wdata_r, rdata_r, id_r

control == <<state, awready, wready, arready, bvalid, rvalid,
             avmm_read, avmm_write>>
bridge_vars == <<control, addr_r, wdata_r, rdata_r, id_r>>

BridgeState == {"IDLE", "WRITE", "WRITE_RESP", "READ", "READ_RESP"}

\* The reset value of the address, data and id registers is never looked at.
BridgeInit(nothing) ==
  /\ state = "IDLE"
  /\ awready = FALSE /\ wready = FALSE /\ arready = FALSE
  /\ bvalid = FALSE /\ rvalid = FALSE
  /\ avmm_read = FALSE /\ avmm_write = FALSE
  /\ addr_r = nothing /\ wdata_r = nothing /\ rdata_r = nothing /\ id_r = nothing

BridgeReset(nothing) ==
  /\ state' = "IDLE"
  /\ awready' = FALSE /\ wready' = FALSE /\ arready' = FALSE
  /\ bvalid' = FALSE /\ rvalid' = FALSE
  /\ avmm_read' = FALSE /\ avmm_write' = FALSE
  /\ addr_r' = nothing /\ wdata_r' = nothing /\ rdata_r' = nothing
  /\ id_r' = nothing

\* The ready outputs are pulses of one clock.
Ready(aw, ar) == awready' = aw /\ wready' = aw /\ arready' = ar

AcceptWrite(awvalid, wvalid, aw, wdata) ==
  /\ state = "IDLE" /\ awvalid /\ wvalid
  /\ Ready(TRUE, FALSE)
  /\ addr_r' = aw.addr /\ wdata_r' = wdata /\ id_r' = aw.id
  /\ avmm_write' = TRUE
  /\ state' = "WRITE"
  /\ UNCHANGED <<bvalid, rvalid, avmm_read, rdata_r>>

\* Mutant of AcceptRead: answers with the id of the last write.
AcceptReadOldId(awvalid, wvalid, arvalid, ar) ==
  /\ state = "IDLE" /\ ~(awvalid /\ wvalid) /\ arvalid
  /\ Ready(FALSE, TRUE)
  /\ addr_r' = ar.addr
  /\ avmm_read' = TRUE
  /\ state' = "READ"
  /\ UNCHANGED <<bvalid, rvalid, avmm_write, wdata_r, rdata_r, id_r>>

\* A write that is complete on its channels goes first.
AcceptRead(awvalid, wvalid, arvalid, ar) ==
  /\ state = "IDLE" /\ ~(awvalid /\ wvalid) /\ arvalid
  /\ Ready(FALSE, TRUE)
  /\ addr_r' = ar.addr /\ id_r' = ar.id
  /\ avmm_read' = TRUE
  /\ state' = "READ"
  /\ UNCHANGED <<bvalid, rvalid, avmm_write, wdata_r, rdata_r>>

Wait(awvalid, wvalid, arvalid, bready, rready) ==
  /\ \/ state = "IDLE" /\ ~(awvalid /\ wvalid) /\ ~arvalid
     \/ state = "WRITE_RESP" /\ ~bready
     \/ state = "READ_RESP" /\ ~rready
  /\ Ready(FALSE, FALSE)
  /\ UNCHANGED <<state, bvalid, rvalid, avmm_read, avmm_write,
                 addr_r, wdata_r, rdata_r, id_r>>

\* Mutant of WriteDone: the answer is not offered.
NoAnswer ==
  /\ state = "WRITE"
  /\ Ready(FALSE, FALSE)
  /\ avmm_write' = FALSE
  /\ state' = "WRITE_RESP"
  /\ UNCHANGED <<bvalid, rvalid, avmm_read, addr_r, wdata_r, rdata_r, id_r>>

WriteDone ==
  /\ state = "WRITE"
  /\ Ready(FALSE, FALSE)
  /\ avmm_write' = FALSE /\ bvalid' = TRUE
  /\ state' = "WRITE_RESP"
  /\ UNCHANGED <<rvalid, avmm_read, addr_r, wdata_r, rdata_r, id_r>>

WriteAcked(bready) ==
  /\ state = "WRITE_RESP" /\ bready
  /\ Ready(FALSE, FALSE)
  /\ bvalid' = FALSE
  /\ state' = "IDLE"
  /\ UNCHANGED <<rvalid, avmm_read, avmm_write, addr_r, wdata_r, rdata_r, id_r>>

ReadDone(readdata) ==
  /\ state = "READ"
  /\ Ready(FALSE, FALSE)
  /\ avmm_read' = FALSE /\ rdata_r' = readdata /\ rvalid' = TRUE
  /\ state' = "READ_RESP"
  /\ UNCHANGED <<bvalid, avmm_write, addr_r, wdata_r, id_r>>

ReadAcked(rready) ==
  /\ state = "READ_RESP" /\ rready
  /\ Ready(FALSE, FALSE)
  /\ rvalid' = FALSE
  /\ state' = "IDLE"
  /\ UNCHANGED <<bvalid, avmm_read, avmm_write, addr_r, wdata_r, rdata_r, id_r>>
=============================================================================
