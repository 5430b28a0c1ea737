------------------------------ MODULE CsrPort ------------------------------
(***************************************************************************)
(* The CSR port of dac_controller_0: an AXI master, AxiToAvmm and RegBank, *)
(* all on one clock.                                                       *)
(*                                                                         *)
(* The master is external (the HPS bridge and its interconnect).  It keeps *)
(* the AXI rules: a valid output stays up, with its payload, until an edge *)
(* at which the ready input is up as well.  It presents the address and    *)
(* the data of a write independently, in either order, may issue a write   *)
(* before the answer to the last one, and may read at the same time.  It   *)
(* makes single accesses only, no bursts.                                  *)
(***************************************************************************)
EXTENDS AxiToAvmm, RegBank, Naturals, Sequences

CONSTANTS
  Id,
  MaxWrites,  \* writes the master has outstanding at most
  NoRead, NotYet, Nothing

ASSUME PortAssumption ==
  /\ NotYet \notin Value
  /\ NoRead \notin [addr : Reg, id : Id]
  /\ NoRead \notin [addr : Reg, id : Id, value : Value \cup {NotYet}]

VARIABLES
  rst,
  writes,           \* the writes with no answer yet
  aw_sent, w_sent,  \* how many of their addresses and data the bridge has taken
  read,             \* the read with no answer yet, or NoRead
  awvalid, wvalid, arvalid

master == <<writes, aw_sent, w_sent, read, awvalid, wvalid, arvalid>>
vars == <<bridge_vars, bank_registers, status, rst, master>>

MasterIdle ==
  /\ writes = <<>> /\ aw_sent = 0 /\ w_sent = 0
  /\ read = NoRead
  /\ awvalid = FALSE /\ wvalid = FALSE /\ arvalid = FALSE

Init ==
  /\ BridgeInit(Nothing) /\ BankInit
  /\ rst = TRUE
  /\ MasterIdle
-----------------------------------------------------------------------------
(* Between the edges: the master and the hardware status.                  *)

IssueWrite(r, v, i) ==
  /\ Len(writes) < MaxWrites
  /\ ~rst
  /\ writes' = Append(writes, [addr |-> r, data |-> v, id |-> i])
  /\ UNCHANGED <<bridge_vars, bank_registers, status, rst, aw_sent, w_sent,
                 read, awvalid, wvalid, arvalid>>

PresentAddress ==
  /\ aw_sent < Len(writes) /\ ~awvalid
  /\ awvalid' = TRUE
  /\ UNCHANGED <<bridge_vars, bank_registers, status, rst, writes, aw_sent,
                 w_sent, read, wvalid, arvalid>>

PresentData ==
  /\ w_sent < Len(writes) /\ ~wvalid
  /\ wvalid' = TRUE
  /\ UNCHANGED <<bridge_vars, bank_registers, status, rst, writes, aw_sent,
                 w_sent, read, awvalid, arvalid>>

IssueRead(r, i) ==
  /\ read = NoRead /\ ~rst
  /\ read' = [addr |-> r, id |-> i]
  /\ arvalid' = TRUE
  /\ UNCHANGED <<bridge_vars, bank_registers, status, rst, writes, aw_sent,
                 w_sent, awvalid, wvalid>>

Hardware ==
  /\ status' \in [ClearReg \cup StatusReg -> Value]
  /\ UNCHANGED <<bridge_vars, bank_registers, rst, master>>

\* The reset may come with any edge (ResetEdge) and end before any other.
ReleaseReset ==
  /\ rst
  /\ rst' = FALSE
  /\ UNCHANGED <<bridge_vars, bank_registers, status, master>>
-----------------------------------------------------------------------------
(* An edge of the clock: the handshakes it completes, the bridge, the bank *)

Take(valid, ready) == valid /\ ready

MasterEdge(bready, rready) ==
  /\ LET answered == IF bvalid /\ bready THEN 1 ELSE 0
         taken(valid, ready) == IF Take(valid, ready) THEN 1 ELSE 0 IN
       /\ writes' = IF answered = 1 THEN Tail(writes) ELSE writes
       /\ aw_sent' = aw_sent + taken(awvalid, awready) - answered
       /\ w_sent' = w_sent + taken(wvalid, wready) - answered
  /\ read' = IF rvalid /\ rready THEN NoRead ELSE read
  /\ awvalid' = (awvalid /\ ~awready)
  /\ wvalid' = (wvalid /\ ~wready)
  /\ arvalid' = (arvalid /\ ~arready)

\* The payload of a channel matters only while its valid is up.
BridgeEdge(bready, rready) ==
  \/ /\ awvalid /\ wvalid
     /\ AcceptWrite(awvalid, wvalid, writes[aw_sent + 1], writes[w_sent + 1].data)
  \/ arvalid /\ AcceptRead(awvalid, wvalid, arvalid, read)
  \/ Wait(awvalid, wvalid, arvalid, bready, rready)
  \/ WriteDone
  \/ WriteAcked(bready)
  \/ ReadDone(avmm_readdata(addr_r))
  \/ ReadAcked(rready)

\* bready and rready are the master's, up or down at any edge.
ClockEdge(bready, rready) ==
  /\ ~rst
  /\ BridgeEdge(bready, rready)
  /\ BankEdge(avmm_write, addr_r, wdata_r)
  /\ MasterEdge(bready, rready)
  /\ UNCHANGED <<status, rst>>

Edge == \E bready, rready \in BOOLEAN : ClockEdge(bready, rready)

\* An edge that finds the reset asserted, in whatever state it strikes.  The
\* reset of the fabric also resets the HPS bridge that is the master.
ResetEdge ==
  /\ rst' = TRUE
  /\ BridgeReset(Nothing) /\ BankReset
  /\ writes' = <<>> /\ aw_sent' = 0 /\ w_sent' = 0
  /\ read' = NoRead
  /\ awvalid' = FALSE /\ wvalid' = FALSE /\ arvalid' = FALSE
  /\ UNCHANGED status

Issue ==
  \/ \E r \in Reg, v \in Value, i \in Id : IssueWrite(r, v, i)
  \/ \E r \in Reg, i \in Id : IssueRead(r, i)

Next ==
  \/ Edge \/ ResetEdge
  \/ Issue \/ PresentAddress \/ PresentData
  \/ Hardware \/ ReleaseReset

Spec == Init /\ [][Next]_vars

\* The clock runs, and the master presents what it has issued and comes to
\* take the answers.  Nothing makes it issue, or stop issuing, and no reset is
\* promised that could free a port which has got stuck.
FairSpec ==
  /\ Spec
  /\ WF_vars(Edge)
  /\ WF_vars(PresentAddress) /\ WF_vars(PresentData)
  /\ WF_vars(\/ bvalid /\ \E rready \in BOOLEAN : ClockEdge(TRUE, rready)
             \/ rvalid /\ \E bready \in BOOLEAN : ClockEdge(bready, TRUE))
-----------------------------------------------------------------------------
\* The port is the register file that RegFile describes, whichever way the
\* master times its channels.  A write is done once the bridge offers its
\* answer; a read has its value once the bridge offers it.
View(w, done) == [addr |-> w.addr, data |-> w.data, id |-> w.id, done |-> done]
WriteView == [n \in DOMAIN writes |-> View(writes[n], n = 1 /\ state = "WRITE_RESP")]
ReadView == IF read = NoRead THEN NoRead
            ELSE [addr |-> read.addr, id |-> read.id,
                  value |-> IF rvalid THEN rdata_r ELSE NotYet]

File == INSTANCE RegFile WITH
          clears <- jesd_sync_err_clr, writes <- WriteView, read <- ReadView
ImplementsRegFile == File!Spec

\* The answer the master takes is the answer to its oldest write, or to its
\* read: the id register is shared by both, and must still be the right one.
AnswersMatch ==
  /\ bvalid => writes # <<>> /\ aw_sent >= 1 /\ id_r = Head(writes).id
  /\ rvalid => read # NoRead /\ ~arvalid /\ id_r = read.id

\* Every write is answered.  So is every read, unless writes keep coming: the
\* bridge prefers a write whenever one is there.
AccessesAnswered ==
  /\ []<>(writes = <<>> \/ rst \/ bvalid) /\ []<>(~bvalid)
  /\ <>[](writes = <<>>) => []<>(read = NoRead \/ rst)
=============================================================================
