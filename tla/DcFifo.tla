------------------------------- MODULE DcFifo -------------------------------
(***************************************************************************)
(* DcFifo (ip/dac_controller_0/src/dc_fifo.vhd): a FIFO between two clocks *)
(* that have no phase relation.  Each side keeps a binary and a Gray       *)
(* pointer and looks at the other side's Gray pointer through two          *)
(* flip-flops of its own clock.                                            *)
(*                                                                         *)
(* Edges of the two clocks interleave in any order.  A flip-flop that      *)
(* samples a pointer of the other side may do so while that pointer is     *)
(* changing: every bit that changed at the other side's last edge, if no   *)
(* edge of this side came in between, is caught before or after the change *)
(* independently of the other bits.  wr_gray_before and rd_gray_before     *)
(* hold the last value of a Gray pointer that has settled.                 *)
(***************************************************************************)
EXTENDS Naturals, Sequences

CONSTANTS
  AddrBits,  \* C_ADDR_W; the depth is 2 ^ AddrBits
  Data,
  NoData     \* what the memory holds before it is written

ASSUME AddrAssumption == AddrBits \in Nat \ {0}
ASSUME DataAssumption == NoData \notin Data

Pow2[n \in Nat] == IF n = 0 THEN 1 ELSE 2 * Pow2[n - 1]

Depth == Pow2[AddrBits]
Bit == 0 .. AddrBits           \* pointers have one bit more than addresses
Pointer == 0 .. 2 * Depth - 1
Gray == [Bit -> {0, 1}]

VARIABLES
  mem,
  wr_ptr_bin, wr_ptr_gray, wr_overflow,           \* write clock
  rd_ptr_gray_wr_meta, rd_ptr_gray_wr_sync,
  rd_ptr_bin, rd_ptr_gray, rd_valid, rd_data,     \* read clock
  wr_ptr_gray_rd_meta, wr_ptr_gray_rd_sync,
  wr_gray_before, rd_gray_before                  \* what is still changing

wr_side == <<mem, wr_ptr_bin, wr_ptr_gray, wr_overflow,
             rd_ptr_gray_wr_meta, rd_ptr_gray_wr_sync>>
rd_side == <<rd_ptr_bin, rd_ptr_gray, rd_valid, rd_data,
             wr_ptr_gray_rd_meta, wr_ptr_gray_rd_sync>>
fifo_vars == <<wr_side, rd_side, wr_gray_before, rd_gray_before>>

-----------------------------------------------------------------------------
BitOf(b, i) == (b \div Pow2[i]) % 2

\* Mutant of bin2gray: the pointer crosses in binary.
Uncoded(b) == [i \in Bit |-> BitOf(b, i)]

\* b xor (b >> 1), bit by bit; bit AddrBits + 1 of a pointer is 0.
bin2gray(b) == [i \in Bit |-> (BitOf(b, i) + BitOf(b, i + 1)) % 2]

\* Bit i of the result is the xor of the bits i and above of the code.
gray2bin(g) ==
  CHOOSE b \in Pointer :
    \A i \in Bit : BitOf(b, i) =
      IF i = AddrBits THEN g[i] ELSE (BitOf(b, i + 1) + g[i]) % 2

\* The values a flip-flop can catch while a pointer goes from a to b.
Caught(a, b) == {g \in Gray : \A i \in Bit : g[i] \in {a[i], b[i]}}

Zero == bin2gray(0)

\* Mutant of full_i: the test for binary pointers.
FullIfBinary ==
  /\ wr_ptr_gray[AddrBits] # rd_ptr_gray_wr_sync[AddrBits]
  /\ \A i \in 0 .. AddrBits - 1 : wr_ptr_gray[i] = rd_ptr_gray_wr_sync[i]

\* The two top bits differ and the others are equal.
full_i ==
  /\ wr_ptr_gray[AddrBits] # rd_ptr_gray_wr_sync[AddrBits]
  /\ wr_ptr_gray[AddrBits - 1] # rd_ptr_gray_wr_sync[AddrBits - 1]
  /\ \A i \in 0 .. AddrBits - 2 : wr_ptr_gray[i] = rd_ptr_gray_wr_sync[i]

empty_i == rd_ptr_gray = wr_ptr_gray_rd_sync

fill_level == (gray2bin(wr_ptr_gray_rd_sync) + 2 * Depth - rd_ptr_bin) % (2 * Depth)

Address(ptr) == ptr % Depth

NextPtr(ptr) == (ptr + 1) % (2 * Depth)
-----------------------------------------------------------------------------
FifoInit ==
  /\ mem = [a \in 0 .. Depth - 1 |-> NoData]
  /\ wr_ptr_bin = 0 /\ wr_ptr_gray = Zero /\ wr_overflow = FALSE
  /\ rd_ptr_bin = 0 /\ rd_ptr_gray = Zero /\ rd_valid = FALSE
  /\ rd_data = NoData
  /\ wr_ptr_gray_rd_meta = Zero /\ wr_ptr_gray_rd_sync = Zero
  /\ rd_ptr_gray_wr_meta = Zero /\ rd_ptr_gray_wr_sync = Zero
  /\ wr_gray_before = Zero /\ rd_gray_before = Zero

\* p_sync_rd2wr: the write side looks at the read pointer, which has settled
\* before its next edge.
SyncRd2Wr ==
  /\ rd_ptr_gray_wr_meta' \in Caught(rd_gray_before, rd_ptr_gray)
  /\ rd_ptr_gray_wr_sync' = rd_ptr_gray_wr_meta
  /\ rd_gray_before' = rd_ptr_gray

\* Mutant of SyncWr2Rd: the second flip-flop is not fed.
HalfSync ==
  /\ wr_ptr_gray_rd_meta' \in Caught(wr_gray_before, wr_ptr_gray)
  /\ wr_gray_before' = wr_ptr_gray
  /\ UNCHANGED wr_ptr_gray_rd_sync

SyncWr2Rd ==
  /\ wr_ptr_gray_rd_meta' \in Caught(wr_gray_before, wr_ptr_gray)
  /\ wr_ptr_gray_rd_sync' = wr_ptr_gray_rd_meta
  /\ wr_gray_before' = wr_ptr_gray

Write(d) ==
  /\ ~full_i
  /\ mem' = [mem EXCEPT ![Address(wr_ptr_bin)] = d]
  /\ wr_ptr_bin' = NextPtr(wr_ptr_bin)
  /\ wr_ptr_gray' = bin2gray(NextPtr(wr_ptr_bin))
  /\ wr_overflow' = FALSE

Overflow ==
  /\ full_i
  /\ wr_overflow' = TRUE
  /\ UNCHANGED <<mem, wr_ptr_bin, wr_ptr_gray>>

NoWrite ==
  /\ wr_overflow' = FALSE
  /\ UNCHANGED <<mem, wr_ptr_bin, wr_ptr_gray>>

\* An edge of wr_clk out of reset; wr_valid is high unless NoWrite.
WrEdge ==
  /\ (\E d \in Data : Write(d)) \/ Overflow \/ NoWrite
  /\ SyncRd2Wr
  /\ wr_gray_before' = wr_ptr_gray
  /\ UNCHANGED rd_side

WrResetEdge ==
  /\ wr_ptr_bin' = 0 /\ wr_ptr_gray' = Zero /\ wr_overflow' = FALSE
  /\ rd_ptr_gray_wr_meta' = Zero /\ rd_ptr_gray_wr_sync' = Zero
  /\ wr_gray_before' = wr_ptr_gray /\ rd_gray_before' = rd_ptr_gray
  /\ UNCHANGED <<mem, rd_side>>

Read ==
  /\ ~empty_i
  /\ rd_data' = mem[Address(rd_ptr_bin)]
  /\ rd_ptr_bin' = NextPtr(rd_ptr_bin)
  /\ rd_ptr_gray' = bin2gray(NextPtr(rd_ptr_bin))
  /\ rd_valid' = TRUE

\* rd_en is low, or there is nothing to read.
NoRead ==
  /\ rd_valid' = FALSE
  /\ UNCHANGED <<rd_data, rd_ptr_bin, rd_ptr_gray>>

RdEdge ==
  /\ Read \/ NoRead
  /\ SyncWr2Rd
  /\ rd_gray_before' = rd_ptr_gray
  /\ UNCHANGED wr_side

RdResetEdge ==
  /\ rd_ptr_bin' = 0 /\ rd_ptr_gray' = Zero /\ rd_valid' = FALSE
  /\ wr_ptr_gray_rd_meta' = Zero /\ wr_ptr_gray_rd_sync' = Zero
  /\ rd_gray_before' = rd_ptr_gray /\ wr_gray_before' = wr_ptr_gray
  /\ UNCHANGED <<rd_data, wr_side>>
=============================================================================
