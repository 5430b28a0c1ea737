----------------------------- MODULE FifoQueue -----------------------------
(***************************************************************************)
(* What a dual-clock FIFO promises: a bounded queue.  What is read is what *)
(* was written, in order, once.  The writer may be refused although there  *)
(* is room and the reader although there is data - each side learns late   *)
(* of what the other did - but a refusal changes nothing.  A reset empties *)
(* the queue, and while it lasts the read port may show anything.          *)
(***************************************************************************)
EXTENDS Sequences, Naturals

CONSTANTS Data, Depth

VARIABLES
  queue,      \* written and not yet read
  out,        \* the data on the read port
  valid,      \* the read port holds a datum read by the last read edge
  resetting

vars == <<queue, out, valid, resetting>>

Init ==
  /\ queue = <<>>
  /\ valid = FALSE
  /\ resetting = TRUE

Put ==
  /\ ~resetting /\ Len(queue) < Depth
  /\ \E d \in Data : queue' = Append(queue, d)
  /\ UNCHANGED <<out, valid, resetting>>

Get ==
  /\ ~resetting /\ queue # <<>>
  /\ out' = Head(queue)
  /\ queue' = Tail(queue)
  /\ valid' = TRUE
  /\ UNCHANGED resetting

Idle ==
  /\ ~resetting /\ valid' = FALSE
  /\ UNCHANGED <<queue, out, resetting>>

Reset == resetting' = TRUE /\ queue' = <<>>

Restart ==
  /\ resetting /\ ~resetting'
  /\ queue' = <<>>
  /\ UNCHANGED <<out, valid>>

Next == Put \/ Get \/ Idle \/ Reset \/ Restart

Spec == Init /\ [][Next]_vars
=============================================================================
