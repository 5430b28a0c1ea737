------------------------------ MODULE RegFile ------------------------------
(***************************************************************************)
(* What software may assume of the CSR port: registers that are read and   *)
(* written one access at a time.  Every write that was issued takes effect *)
(* exactly once, in the order of issue and with its own data, before it is *)
(* acknowledged; every read returns what the register held at one moment   *)
(* between its issue and its answer.                                       *)
(***************************************************************************)
EXTENDS Naturals, Sequences

CONSTANTS
  Value, Id,
  WriteReg,      \* the registers a write changes
  ClearReg,      \* the write-1-to-clear register
  StatusReg,     \* the registers whose value comes from the hardware
  OtherReg       \* the addresses that no register has

VARIABLES
  regs,     \* the value of each register of WriteReg
  status,   \* the value the hardware presents for each other register
  clears,   \* the bits the last step commands to clear
  writes,   \* issued and not yet acknowledged, each with a done flag
  read      \* the read that is not yet answered, or NoRead

CONSTANTS NoRead, NotYet, Zero, ResetValue

vars == <<regs, status, clears, writes, read>>

Reg == WriteReg \cup ClearReg \cup StatusReg \cup OtherReg

\* What a read of register r returns now.
Visible(r) == IF r \in WriteReg THEN regs[r]
              ELSE IF r \in OtherReg THEN Zero ELSE status[r]

Init ==
  /\ regs = ResetValue
  /\ status \in [ClearReg \cup StatusReg -> Value]
  /\ clears = Zero
  /\ writes = <<>>
  /\ read = NoRead

IssueWrite ==
  /\ \E r \in Reg, v \in Value, i \in Id :
       writes' = Append(writes, [addr |-> r, data |-> v, id |-> i, done |-> FALSE])
  /\ UNCHANGED <<regs, status, clears, read>>

DoWrite ==
  /\ writes # <<>> /\ ~Head(writes).done
  /\ writes' = [writes EXCEPT ![1].done = TRUE]
  /\ regs' = IF Head(writes).addr \in WriteReg
             THEN [regs EXCEPT ![Head(writes).addr] = Head(writes).data]
             ELSE regs
  /\ clears' = IF Head(writes).addr \in ClearReg
               THEN Head(writes).data ELSE Zero
  /\ UNCHANGED <<status, read>>

AckWrite ==
  /\ writes # <<>> /\ Head(writes).done
  /\ writes' = Tail(writes)
  /\ clears' = Zero
  /\ UNCHANGED <<regs, status, read>>

IssueRead ==
  /\ read = NoRead
  /\ \E r \in Reg, i \in Id : read' = [addr |-> r, id |-> i, value |-> NotYet]
  /\ UNCHANGED <<regs, status, clears, writes>>

DoRead ==
  /\ read # NoRead /\ read.value = NotYet
  /\ read' = [read EXCEPT !.value = Visible(read.addr)]
  /\ clears' = Zero
  /\ UNCHANGED <<regs, status, writes>>

AnswerRead ==
  /\ read # NoRead /\ read.value # NotYet
  /\ read' = NoRead
  /\ clears' = Zero
  /\ UNCHANGED <<regs, status, writes>>

Quiet == clears' = Zero /\ UNCHANGED <<regs, status, writes, read>>

Hardware ==
  /\ status' \in [ClearReg \cup StatusReg -> Value]
  /\ UNCHANGED <<regs, clears, writes, read>>

Reset ==
  /\ regs' = ResetValue
  /\ clears' = Zero /\ writes' = <<>> /\ read' = NoRead
  /\ UNCHANGED status

Next ==
  \/ IssueWrite \/ DoWrite \/ AckWrite
  \/ IssueRead \/ DoRead \/ AnswerRead
  \/ Quiet \/ Hardware \/ Reset

Spec == Init /\ [][Next]_vars
=============================================================================
