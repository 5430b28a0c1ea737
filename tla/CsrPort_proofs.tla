--------------------------- MODULE CsrPort_proofs ---------------------------
(***************************************************************************)
(* The CSR port answers with the right id and implements the register file *)
(* of RegFile, for every set of registers, values and ids and any number   *)
(* of outstanding writes.                                                  *)
(***************************************************************************)
EXTENDS CsrPort, SequenceTheorems, TLAPS

WriteReq == [addr : Reg, data : Value, id : Id]
ReadReq == [addr : Reg, id : Id]
WriteItem == [addr : Reg, data : Value, id : Id, done : BOOLEAN]

TypeInv ==
  /\ state \in BridgeState
  /\ writes \in Seq(WriteReq)
  /\ read \in ReadReq \cup {NoRead}
  /\ regs \in [WriteReg -> Value]
  /\ status \in [ClearReg \cup StatusReg -> Value]

\* Every output of the bridge belongs to one of its states.
FlagInv ==
  /\ awready <=> state = "WRITE"
  /\ wready <=> state = "WRITE"
  /\ arready <=> state = "READ"
  /\ avmm_write <=> state = "WRITE"
  /\ bvalid <=> state = "WRITE_RESP"
  /\ rvalid <=> state = "READ_RESP"

\* Where the oldest write is: address and data are taken together, and not
\* before the answer to the last write is.
WriteInv ==
  /\ aw_sent = IF state = "WRITE_RESP" THEN 1 ELSE 0
  /\ w_sent = aw_sent
  /\ awvalid => aw_sent < Len(writes)
  /\ wvalid => w_sent < Len(writes)
  /\ state \in {"WRITE", "WRITE_RESP"} => writes # <<>> /\ id_r = writes[1].id
  /\ state = "WRITE" => /\ awvalid /\ wvalid
                        /\ addr_r = writes[1].addr /\ wdata_r = writes[1].data

ReadInv ==
  /\ arvalid => read # NoRead
  /\ state \in {"READ", "READ_RESP"} => read # NoRead /\ id_r = read.id
  /\ state = "READ" => arvalid /\ addr_r = read.addr
  /\ state = "READ_RESP" => ~arvalid /\ rdata_r \in Value

IInv == TypeInv /\ FlagInv /\ WriteInv /\ ReadInv
-----------------------------------------------------------------------------
(* The writes as RegFile sees them.                                        *)

Marked(s, d) == [n \in DOMAIN s |-> View(s[n], n = 1 /\ d)]

LEMMA ViewItem ==
  ASSUME NEW w \in WriteReq, NEW d \in BOOLEAN
  PROVE  View(w, d) \in WriteItem
  BY Zenon DEF View, WriteReq, WriteItem

LEMMA ViewDone ==
  ASSUME NEW w, NEW d, NEW e
  PROVE  [View(w, d) EXCEPT !.done = e] = View(w, e)
  BY DEF View

LEMMA MarkedSeq ==
  ASSUME NEW s \in Seq(WriteReq), NEW d \in BOOLEAN
  PROVE  /\ Marked(s, d) \in Seq(WriteItem)
         /\ Len(Marked(s, d)) = Len(s)
         /\ \A i \in 1 .. Len(s) : Marked(s, d)[i] = View(s[i], i = 1 /\ d)
PROOF
<1>1. DOMAIN s = 1 .. Len(s) /\ Len(s) \in Nat
  BY LenProperties
<1>2. \A i \in 1 .. Len(s) : View(s[i], i = 1 /\ d) \in WriteItem
  <2> SUFFICES ASSUME NEW i \in 1 .. Len(s) PROVE View(s[i], i = 1 /\ d) \in WriteItem
    OBVIOUS
  <2>1. s[i] \in WriteReq
    BY ElementOfSeq
  <2>2. (i = 1 /\ d) \in BOOLEAN
    OBVIOUS
  <2> QED BY <2>1, <2>2, ViewItem, Zenon
<1>3. Marked(s, d) \in [1 .. Len(s) -> WriteItem]
  BY <1>1, <1>2, Zenon DEF Marked
<1>4. Marked(s, d) \in Seq(WriteItem)
  BY <1>1, <1>3, SeqDef
<1>5. Len(Marked(s, d)) = Len(s)
  BY <1>1, <1>3, <1>4, LenProperties
<1>6. \A i \in 1 .. Len(s) : Marked(s, d)[i] = View(s[i], i = 1 /\ d)
  BY <1>1, Zenon DEF Marked
<1> QED BY <1>4, <1>5, <1>6

\* A write that is issued goes behind the others, not done.
LEMMA MarkedAppend ==
  ASSUME NEW s \in Seq(WriteReq), NEW w \in WriteReq, NEW d \in BOOLEAN,
         d => s # <<>>
  PROVE  Marked(Append(s, w), d) = Append(Marked(s, d), View(w, FALSE))
PROOF
<1> DEFINE t == Append(s, w)
           r == Marked(s, d)
           m == Append(r, View(w, FALSE))
<1>1. /\ t \in Seq(WriteReq) /\ Len(t) = Len(s) + 1 /\ Len(s) \in Nat
      /\ \A i \in 1 .. Len(s) : t[i] = s[i]
      /\ t[Len(s) + 1] = w
  BY AppendProperties, LenProperties
<1>2. /\ r \in Seq(WriteItem) /\ Len(r) = Len(s)
      /\ \A i \in 1 .. Len(s) : r[i] = View(s[i], i = 1 /\ d)
  BY MarkedSeq
<1> HIDE DEF r
<1>3. /\ Marked(t, d) \in Seq(WriteItem) /\ Len(Marked(t, d)) = Len(t)
      /\ \A i \in 1 .. Len(t) : Marked(t, d)[i] = View(t[i], i = 1 /\ d)
  BY <1>1, MarkedSeq
<1>4. View(w, FALSE) \in WriteItem
  BY ViewItem
<1>5. /\ m \in Seq(WriteItem) /\ Len(m) = Len(s) + 1
      /\ \A i \in 1 .. Len(s) : m[i] = r[i]
      /\ m[Len(s) + 1] = View(w, FALSE)
  <2> DEFINE v == View(w, FALSE)
  <2>1. v \in WriteItem
    BY <1>4
  <2> HIDE DEF v
  <2>2. /\ Append(r, v) \in Seq(WriteItem) /\ Len(Append(r, v)) = Len(r) + 1
        /\ \A i \in 1 .. Len(r) : Append(r, v)[i] = r[i]
        /\ Append(r, v)[Len(r) + 1] = v
    BY <1>2, <2>1, AppendProperties
  <2> QED BY <1>2, <2>2, Zenon DEF m, v
<1> HIDE DEF m, t
<1>6. \A i \in 1 .. Len(s) : Marked(t, d)[i] = m[i]
  <2> SUFFICES ASSUME NEW i \in 1 .. Len(s) PROVE Marked(t, d)[i] = m[i]
    OBVIOUS
  <2>1. i \in 1 .. Len(t)
    BY <1>1
  <2>2. Marked(t, d)[i] = View(s[i], i = 1 /\ d)
    BY <1>1, <1>3, <2>1, Zenon
  <2>3. m[i] = View(s[i], i = 1 /\ d)
    BY <1>2, <1>5, Zenon
  <2> QED BY <2>2, <2>3, Zenon
<1>7. Marked(t, d)[Len(s) + 1] = m[Len(s) + 1]
  <2>1. Len(s) + 1 \in 1 .. Len(t)
    BY <1>1
  <2>2. (Len(s) + 1 = 1 /\ d) = FALSE
    <3>1. s = <<>> => ~d
      OBVIOUS
    <3>2. Len(s) + 1 = 1 => s = <<>>
      BY EmptySeq
    <3> QED BY <3>1, <3>2
  <2>3. Marked(t, d)[Len(s) + 1] = View(w, Len(s) + 1 = 1 /\ d)
    BY <1>1, <1>3, <2>1, Zenon
  <2> QED BY <1>5, <2>2, <2>3, Zenon
<1>8. \A i \in 1 .. Len(s) + 1 : Marked(t, d)[i] = m[i]
  <2>1. 1 .. Len(s) + 1 = (1 .. Len(s)) \cup {Len(s) + 1}
    BY <1>1
  <2> QED BY <1>6, <1>7, <2>1, Zenon
<1>9. Marked(t, d) = m
  BY <1>1, <1>3, <1>5, <1>8, SeqEqual
<1> QED BY <1>9 DEF m, t, r

LEMMA MarkedTail ==
  ASSUME NEW s \in Seq(WriteReq), s # <<>>
  PROVE  Marked(Tail(s), FALSE) = Tail(Marked(s, TRUE))
PROOF
<1> DEFINE t == Tail(s)
           r == Marked(s, TRUE)
           m == Tail(r)
<1>1. /\ t \in Seq(WriteReq) /\ Len(t) = Len(s) - 1 /\ Len(s) \in Nat \ {0}
      /\ \A i \in 1 .. Len(t) : t[i] = s[i + 1]
  BY HeadTailProperties, EmptySeq
<1>2. /\ r \in Seq(WriteItem) /\ Len(r) = Len(s)
      /\ \A i \in 1 .. Len(s) : r[i] = View(s[i], i = 1 /\ TRUE)
  BY MarkedSeq
<1>3. /\ Marked(t, FALSE) \in Seq(WriteItem) /\ Len(Marked(t, FALSE)) = Len(t)
      /\ \A i \in 1 .. Len(t) : Marked(t, FALSE)[i] = View(t[i], i = 1 /\ FALSE)
  BY <1>1, MarkedSeq
<1> HIDE DEF r
<1>4. r # <<>>
  BY <1>1, <1>2, EmptySeq
<1>5. /\ m \in Seq(WriteItem) /\ Len(m) = Len(s) - 1
      /\ \A i \in 1 .. Len(m) : m[i] = r[i + 1]
  BY <1>2, <1>4, HeadTailProperties
<1> HIDE DEF t, m
<1>6. \A i \in 1 .. Len(t) : Marked(t, FALSE)[i] = m[i]
  <2> SUFFICES ASSUME NEW i \in 1 .. Len(t) PROVE Marked(t, FALSE)[i] = m[i]
    OBVIOUS
  <2>1. i + 1 \in 1 .. Len(s) /\ i \in 1 .. Len(m) /\ i + 1 # 1
    BY <1>1, <1>5
  <2>2. m[i] = View(s[i + 1], i + 1 = 1 /\ TRUE)
    BY <1>2, <1>5, <2>1, Zenon
  <2>3. Marked(t, FALSE)[i] = View(s[i + 1], i = 1 /\ FALSE)
    BY <1>1, <1>3, Zenon
  <2>4. (i + 1 = 1 /\ TRUE) = FALSE /\ (i = 1 /\ FALSE) = FALSE
    BY <2>1
  <2> QED BY <2>2, <2>3, <2>4, Zenon
<1>7. Marked(t, FALSE) = m
  BY <1>1, <1>3, <1>5, <1>6, SeqEqual
<1> QED BY <1>7 DEF t, m, r

LEMMA MarkedDone ==
  ASSUME NEW s \in Seq(WriteReq), s # <<>>
  PROVE  Marked(s, TRUE) = [Marked(s, FALSE) EXCEPT ![1].done = TRUE]
PROOF
<1> DEFINE m == Marked(s, FALSE)
           e == [m[1] EXCEPT !.done = TRUE]
<1>1. Len(s) \in Nat \ {0}
  BY EmptySeq
<1>2. /\ m \in Seq(WriteItem) /\ Len(m) = Len(s)
      /\ \A i \in 1 .. Len(s) : m[i] = View(s[i], i = 1 /\ FALSE)
  BY MarkedSeq
<1>3. /\ Marked(s, TRUE) \in Seq(WriteItem) /\ Len(Marked(s, TRUE)) = Len(s)
      /\ \A i \in 1 .. Len(s) : Marked(s, TRUE)[i] = View(s[i], i = 1 /\ TRUE)
  BY MarkedSeq
<1> HIDE DEF m
<1>4. s[1] \in WriteReq /\ 1 \in 1 .. Len(s)
  BY <1>1, ElementOfSeq
<1>5. m[1] = View(s[1], FALSE) /\ Marked(s, TRUE)[1] = View(s[1], TRUE)
  <2>1. (1 = 1 /\ FALSE) = FALSE /\ (1 = 1 /\ TRUE) = TRUE
    OBVIOUS
  <2> QED BY <1>2, <1>3, <1>4, <2>1, Zenon
<1>6. e = View(s[1], TRUE)
  <2>1. e = [View(s[1], FALSE) EXCEPT !.done = TRUE]
    BY <1>5, Zenon
  <2> QED BY <2>1, ViewDone, Zenon
<1>7. e \in WriteItem
  BY <1>4, <1>6, ViewItem
<1> HIDE DEF e
<1>8. /\ [m EXCEPT ![1] = e] \in Seq(WriteItem)
      /\ Len([m EXCEPT ![1] = e]) = Len(m)
      /\ \A j \in 1 .. Len(m) : [m EXCEPT ![1] = e][j] = IF j = 1 THEN e ELSE m[j]
  BY <1>2, <1>4, <1>7, ExceptSeq
<1>9. \A j \in 1 .. Len(s) : Marked(s, TRUE)[j] = [m EXCEPT ![1] = e][j]
  <2> SUFFICES ASSUME NEW j \in 1 .. Len(s)
               PROVE  Marked(s, TRUE)[j] = [m EXCEPT ![1] = e][j]
    OBVIOUS
  <2>1. CASE j = 1
    BY <1>2, <1>5, <1>6, <1>8, <2>1, Zenon
  <2>2. CASE j # 1
    <3>1. (j = 1 /\ FALSE) = FALSE /\ (j = 1 /\ TRUE) = FALSE
      BY <2>2
    <3> QED BY <1>2, <1>3, <1>8, <2>2, <3>1, Zenon
  <2> QED BY <2>1, <2>2
<1>10. Marked(s, TRUE) = [m EXCEPT ![1] = e]
  <2> DEFINE x == [m EXCEPT ![1] = e]
  <2>1. /\ x \in Seq(WriteItem) /\ Len(Marked(s, TRUE)) = Len(x)
        /\ \A j \in 1 .. Len(Marked(s, TRUE)) : Marked(s, TRUE)[j] = x[j]
    BY <1>2, <1>3, <1>8, <1>9, Zenon
  <2> HIDE DEF x
  <2>2. Marked(s, TRUE) = x
    BY <1>3, <2>1, SeqEqual
  <2> QED BY <2>2 DEF x
<1> QED BY <1>10, Zenon DEF m, e

LEMMA MarkedHead ==
  ASSUME NEW s \in Seq(WriteReq), s # <<>>, NEW d \in BOOLEAN
  PROVE  Marked(s, d) # <<>> /\ Head(Marked(s, d)) = View(s[1], d)
PROOF
<1> DEFINE m == Marked(s, d)
<1>1. Len(s) \in Nat \ {0} /\ 1 \in 1 .. Len(s)
  BY EmptySeq
<1>2. m \in Seq(WriteItem) /\ Len(m) = Len(s) /\ m[1] = View(s[1], 1 = 1 /\ d)
  BY <1>1, MarkedSeq
<1>3. (1 = 1 /\ d) = d
  OBVIOUS
<1>4. m[1] = View(s[1], d)
  BY <1>2, <1>3, Zenon
<1> HIDE DEF m
<1>5. m # <<>>
  BY <1>1, <1>2, EmptySeq
<1>6. Head(m) = m[1]
  BY <1>2, <1>5
<1> QED BY <1>4, <1>5, <1>6 DEF m

LEMMA MarkedEmpty ==
  ASSUME NEW d \in BOOLEAN
  PROVE  Marked(<<>>, d) = <<>>
PROOF
<1> DEFINE m == Marked(<<>>, d)
<1>1. m \in Seq(WriteItem) /\ Len(m) = 0
  BY MarkedSeq, EmptySeq
<1> HIDE DEF m
<1>2. m = <<>>
  BY <1>1, EmptySeq
<1> QED BY <1>2 DEF m

LEMMA AppendFirst ==
  ASSUME NEW s \in Seq(WriteReq), NEW w \in WriteReq
  PROVE  /\ Append(s, w) \in Seq(WriteReq) /\ Append(s, w) # <<>>
         /\ Len(Append(s, w)) = Len(s) + 1 /\ Len(s) \in Nat
         /\ s # <<>> => Append(s, w)[1] = s[1]
PROOF
<1>1. s # <<>> => 1 \in 1 .. Len(s)
  BY EmptySeq
<1> HIDE DEF WriteReq
<1> QED BY <1>1, AppendProperties, LenProperties
-----------------------------------------------------------------------------
(* The invariant.                                                          *)

LEMMA PortInitial == Init => IInv
PROOF
<1> SUFFICES ASSUME Init PROVE IInv
  OBVIOUS
<1>1. TypeInv
  BY BankAssumption, EmptySeq
  DEF Init, BridgeInit, BankInit, MasterIdle, TypeInv, BridgeState
<1>2. FlagInv /\ WriteInv /\ ReadInv
  BY EmptySeq DEF Init, BridgeInit, MasterIdle, FlagInv, WriteInv, ReadInv
<1> QED BY <1>1, <1>2 DEF IInv

\* What an edge does to the master, by the state of the bridge.
LEMMA MasterOwn ==
  ASSUME IInv, NEW b \in BOOLEAN, NEW r \in BOOLEAN, MasterEdge(b, r)
  PROVE  /\ writes' = IF state = "WRITE_RESP" /\ b THEN Tail(writes) ELSE writes
         /\ aw_sent' = IF state = "WRITE" THEN 1
                       ELSE IF state = "WRITE_RESP" /\ b THEN 0 ELSE aw_sent
         /\ w_sent' = aw_sent'
         /\ read' = IF state = "READ_RESP" /\ r THEN NoRead ELSE read
         /\ awvalid' <=> awvalid /\ state # "WRITE"
         /\ wvalid' <=> wvalid /\ state # "WRITE"
         /\ arvalid' <=> arvalid /\ state # "READ"
PROOF
<1>1. writes' = IF state = "WRITE_RESP" /\ b THEN Tail(writes) ELSE writes
  BY DEF MasterEdge, IInv, FlagInv
<1>2. /\ aw_sent' = IF state = "WRITE" THEN 1
                    ELSE IF state = "WRITE_RESP" /\ b THEN 0 ELSE aw_sent
      /\ w_sent' = aw_sent'
  <2>1. CASE state = "WRITE"
    BY <2>1 DEF MasterEdge, Take, IInv, FlagInv, WriteInv
  <2>2. CASE state # "WRITE"
    BY <2>2 DEF MasterEdge, Take, IInv, FlagInv, WriteInv
  <2> QED BY <2>1, <2>2
<1>3. read' = IF state = "READ_RESP" /\ r THEN NoRead ELSE read
  BY DEF MasterEdge, IInv, FlagInv
<1>4. /\ awvalid' <=> awvalid /\ state # "WRITE"
      /\ wvalid' <=> wvalid /\ state # "WRITE"
      /\ arvalid' <=> arvalid /\ state # "READ"
  BY DEF MasterEdge, IInv, FlagInv
<1> QED BY <1>1, <1>2, <1>3, <1>4

\* The oldest write is a write.
LEMMA FirstWrite ==
  ASSUME IInv, writes # <<>>
  PROVE  writes[1] \in WriteReq /\ Len(writes) \in Nat \ {0}
PROOF
<1>1. Len(writes) \in Nat \ {0} /\ 1 \in 1 .. Len(writes)
  BY EmptySeq DEF IInv, TypeInv
<1> QED BY <1>1, ElementOfSeq DEF IInv, TypeInv

LEMMA BankOwn ==
  ASSUME IInv, BankEdge(avmm_write, addr_r, wdata_r)
  PROVE  regs' \in [WriteReg -> Value]
PROOF
<1>1. state = "WRITE" => wdata_r \in Value
  BY FirstWrite DEF IInv, WriteInv, WriteReq
<1> QED BY <1>1 DEF BankEdge, IInv, TypeInv, FlagInv

LEMMA ReadOwn ==
  ASSUME IInv, state = "READ"
  PROVE  avmm_readdata(addr_r) \in Value
PROOF
<1>1. addr_r \in Reg
  BY DEF IInv, TypeInv, ReadInv, ReadReq
<1> QED BY <1>1, BankAssumption DEF avmm_readdata, Reg, IInv, TypeInv

LEMMA EdgeOwn ==
  ASSUME IInv, Edge
  PROVE  IInv'
PROOF
<1> PICK b \in BOOLEAN, r \in BOOLEAN : ClockEdge(b, r)
  BY DEF Edge
<1>1. BridgeEdge(b, r) /\ MasterEdge(b, r) /\ status' = status
      /\ BankEdge(avmm_write, addr_r, wdata_r)
  BY DEF ClockEdge
<1>2. regs' \in [WriteReg -> Value]
  BY <1>1, BankOwn
<1>3. /\ writes' = IF state = "WRITE_RESP" /\ b THEN Tail(writes) ELSE writes
      /\ aw_sent' = IF state = "WRITE" THEN 1
                    ELSE IF state = "WRITE_RESP" /\ b THEN 0 ELSE aw_sent
      /\ w_sent' = aw_sent'
      /\ read' = IF state = "READ_RESP" /\ r THEN NoRead ELSE read
      /\ awvalid' <=> awvalid /\ state # "WRITE"
      /\ wvalid' <=> wvalid /\ state # "WRITE"
      /\ arvalid' <=> arvalid /\ state # "READ"
  BY <1>1, MasterOwn
<1>4. Len(writes) \in Nat /\ (writes # <<>> => Len(writes) \in Nat \ {0})
  BY EmptySeq, LenProperties DEF IInv, TypeInv
<1>5. CASE awvalid /\ wvalid
           /\ AcceptWrite(awvalid, wvalid, writes[aw_sent + 1],
                          writes[w_sent + 1].data)
  <2>1. /\ state = "IDLE" /\ state' = "WRITE"
        /\ aw_sent = 0 /\ w_sent = 0 /\ Len(writes) > 0
    BY <1>4, <1>5 DEF AcceptWrite, IInv, WriteInv
  <2>2. writes # <<>>
    BY <2>1, EmptySeq
  <2>3. addr_r' = writes[1].addr /\ wdata_r' = writes[1].data /\ id_r' = writes[1].id
    BY <1>5, <2>1 DEF AcceptWrite
  <2>4. writes' = writes /\ read' = read /\ aw_sent' = 0 /\ w_sent' = 0
    BY <1>3, <2>1
  <2>5. FlagInv'
    BY <1>5, <2>1 DEF AcceptWrite, Ready, IInv, FlagInv
  <2>6. WriteInv'
    BY <1>3, <1>5, <2>1, <2>2, <2>3, <2>4 DEF WriteInv
  <2>7. ReadInv' /\ TypeInv'
    BY <1>1, <1>2, <1>3, <2>1, <2>4 DEF IInv, ReadInv, TypeInv, BridgeState
  <2> QED BY <2>5, <2>6, <2>7 DEF IInv
<1>6. CASE arvalid /\ AcceptRead(awvalid, wvalid, arvalid, read)
  <2>1. /\ state = "IDLE" /\ state' = "READ" /\ aw_sent = 0
        /\ addr_r' = read.addr /\ id_r' = read.id
    BY <1>6 DEF AcceptRead, IInv, WriteInv
  <2>2. writes' = writes /\ read' = read /\ aw_sent' = 0 /\ w_sent' = 0
    BY <1>3, <2>1
  <2>3. FlagInv'
    BY <1>6, <2>1 DEF AcceptRead, Ready, IInv, FlagInv
  <2>4. WriteInv'
    BY <1>3, <2>1, <2>2 DEF IInv, WriteInv
  <2>5. ReadInv' /\ TypeInv'
    BY <1>1, <1>2, <1>3, <1>6, <2>1, <2>2 DEF IInv, ReadInv, TypeInv, BridgeState
  <2> QED BY <2>3, <2>4, <2>5 DEF IInv
<1>7. CASE Wait(awvalid, wvalid, arvalid, b, r)
  <2>1. /\ state' = state /\ state \in {"IDLE", "WRITE_RESP", "READ_RESP"}
        /\ UNCHANGED <<addr_r, wdata_r, rdata_r, id_r>>
        /\ state = "WRITE_RESP" => ~b
        /\ state = "READ_RESP" => ~r
    BY <1>7 DEF Wait
  <2>2. writes' = writes /\ read' = read /\ aw_sent' = aw_sent /\ w_sent' = aw_sent
    BY <1>3, <2>1
  <2>3. FlagInv'
    BY <1>7, <2>1 DEF Wait, Ready, IInv, FlagInv
  <2>4. WriteInv'
    BY <1>3, <2>1, <2>2 DEF IInv, WriteInv
  <2>5. ReadInv' /\ TypeInv'
    BY <1>1, <1>2, <1>3, <2>1, <2>2 DEF IInv, ReadInv, TypeInv
  <2> QED BY <2>3, <2>4, <2>5 DEF IInv
<1>8. CASE WriteDone
  <2>1. /\ state = "WRITE" /\ state' = "WRITE_RESP" /\ id_r' = id_r
    BY <1>8 DEF WriteDone
  <2>2. writes' = writes /\ read' = read /\ aw_sent' = 1 /\ w_sent' = 1
    BY <1>3, <2>1
  <2>3. FlagInv'
    BY <1>8, <2>1 DEF WriteDone, Ready, IInv, FlagInv
  <2>4. WriteInv'
    BY <1>3, <2>1, <2>2 DEF IInv, WriteInv
  <2>5. ReadInv' /\ TypeInv'
    BY <1>1, <1>2, <1>3, <2>1, <2>2 DEF IInv, ReadInv, TypeInv, BridgeState
  <2> QED BY <2>3, <2>4, <2>5 DEF IInv
<1>9. CASE WriteAcked(b)
  <2>1. /\ state = "WRITE_RESP" /\ state' = "IDLE" /\ b /\ writes # <<>>
    BY <1>9 DEF WriteAcked, IInv, WriteInv
  <2>2. /\ writes' \in Seq(WriteReq) /\ Len(writes') = Len(writes) - 1
        /\ read' = read /\ aw_sent' = 0 /\ w_sent' = 0
    BY <1>3, <2>1, HeadTailProperties DEF IInv, TypeInv
  <2>3. FlagInv'
    BY <1>9, <2>1 DEF WriteAcked, Ready, IInv, FlagInv
  <2>4. WriteInv'
    BY <1>3, <1>4, <2>1, <2>2 DEF IInv, WriteInv
  <2>5. ReadInv' /\ TypeInv'
    BY <1>1, <1>2, <1>3, <2>1, <2>2 DEF IInv, ReadInv, TypeInv, BridgeState
  <2> QED BY <2>3, <2>4, <2>5 DEF IInv
<1>10. CASE ReadDone(avmm_readdata(addr_r))
  <2>1. /\ state = "READ" /\ state' = "READ_RESP" /\ id_r' = id_r
        /\ rdata_r' = avmm_readdata(addr_r)
    BY <1>10 DEF ReadDone
  <2>2. writes' = writes /\ read' = read /\ aw_sent' = aw_sent /\ w_sent' = aw_sent
    BY <1>3, <2>1
  <2>3. FlagInv'
    BY <1>10, <2>1 DEF ReadDone, Ready, IInv, FlagInv
  <2>4. WriteInv'
    BY <1>3, <2>1, <2>2 DEF IInv, WriteInv
  <2>5. rdata_r' \in Value
    BY <2>1, ReadOwn
  <2>6. ReadInv' /\ TypeInv'
    BY <1>1, <1>2, <1>3, <2>1, <2>2, <2>5 DEF IInv, ReadInv, TypeInv, BridgeState
  <2> QED BY <2>3, <2>4, <2>6 DEF IInv
<1>11. CASE ReadAcked(r)
  <2>1. /\ state = "READ_RESP" /\ state' = "IDLE" /\ r /\ aw_sent = 0 /\ ~arvalid
    BY <1>11 DEF ReadAcked, IInv, WriteInv, ReadInv
  <2>2. writes' = writes /\ read' = NoRead /\ aw_sent' = 0 /\ w_sent' = 0
    BY <1>3, <2>1
  <2>3. FlagInv'
    BY <1>11, <2>1 DEF ReadAcked, Ready, IInv, FlagInv
  <2>4. WriteInv'
    BY <1>3, <2>1, <2>2 DEF IInv, WriteInv
  <2>5. ReadInv' /\ TypeInv'
    BY <1>1, <1>2, <1>3, <2>1, <2>2 DEF IInv, ReadInv, TypeInv, BridgeState
  <2> QED BY <2>3, <2>4, <2>5 DEF IInv
<1> QED BY <1>1, <1>5, <1>6, <1>7, <1>8, <1>9, <1>10, <1>11 DEF BridgeEdge

\* Between the edges the master only issues and presents; a reset empties both.
LEMMA MasterActs ==
  ASSUME IInv, Issue \/ PresentAddress \/ PresentData
  PROVE  IInv'
PROOF
<1>1. UNCHANGED <<state, awready, wready, arready, bvalid, rvalid, avmm_write,
                  addr_r, wdata_r, rdata_r, id_r, regs, status, aw_sent, w_sent>>
  BY DEF Issue, IssueWrite, IssueRead, PresentAddress, PresentData,
         bridge_vars, control, bank_registers
<1>2. FlagInv'
  BY <1>1 DEF IInv, FlagInv
<1>3. CASE \E a \in Reg, v \in Value, i \in Id : IssueWrite(a, v, i)
  <2>1. PICK a \in Reg, v \in Value, i \in Id : IssueWrite(a, v, i)
    BY <1>3
  <2> DEFINE w == [addr |-> a, data |-> v, id |-> i]
  <2>2. writes' = Append(writes, w) /\ w \in WriteReq
        /\ UNCHANGED <<read, awvalid, wvalid, arvalid>>
    BY <2>1 DEF IssueWrite, WriteReq
  <2> HIDE DEF w
  <2>3. /\ writes' \in Seq(WriteReq) /\ writes' # <<>>
        /\ Len(writes') = Len(writes) + 1 /\ Len(writes) \in Nat
        /\ writes # <<>> => writes'[1] = writes[1]
    BY <2>2, AppendFirst DEF IInv, TypeInv
  <2>4. WriteInv'
    BY <1>1, <2>2, <2>3 DEF IInv, WriteInv
  <2>5. TypeInv' /\ ReadInv'
    BY <1>1, <2>2, <2>3 DEF IInv, TypeInv, ReadInv
  <2> QED BY <1>2, <2>4, <2>5 DEF IInv
<1>4. CASE \E a \in Reg, i \in Id : IssueRead(a, i)
  <2>1. /\ read = NoRead /\ read' \in ReadReq
        /\ UNCHANGED <<writes, awvalid, wvalid>>
    BY <1>4 DEF IssueRead, ReadReq
  <2>2. read' # NoRead
    BY <2>1, PortAssumption DEF ReadReq
  <2>3. TypeInv' /\ WriteInv' /\ ReadInv'
    BY <1>1, <2>1, <2>2 DEF IInv, TypeInv, WriteInv, ReadInv
  <2> QED BY <1>2, <2>3 DEF IInv
<1>5. CASE PresentAddress
  <2>1. aw_sent < Len(writes) /\ UNCHANGED <<writes, read, wvalid, arvalid>> /\ awvalid'
    BY <1>5 DEF PresentAddress
  <2> QED BY <1>1, <1>2, <2>1 DEF IInv, TypeInv, WriteInv, ReadInv
<1>6. CASE PresentData
  <2>1. w_sent < Len(writes) /\ UNCHANGED <<writes, read, awvalid, arvalid>> /\ wvalid'
    BY <1>6 DEF PresentData
  <2> QED BY <1>1, <1>2, <2>1 DEF IInv, TypeInv, WriteInv, ReadInv
<1> QED BY <1>3, <1>4, <1>5, <1>6 DEF Issue

LEMMA ResetOwn ==
  ASSUME IInv, ResetEdge
  PROVE  IInv'
PROOF
<1>1. TypeInv'
  BY BankAssumption, EmptySeq
  DEF ResetEdge, BridgeReset, BankReset, IInv, TypeInv, BridgeState
<1>2. FlagInv' /\ WriteInv' /\ ReadInv'
  BY EmptySeq DEF ResetEdge, BridgeReset, FlagInv, WriteInv, ReadInv
<1> QED BY <1>1, <1>2 DEF IInv

LEMMA PortStep == IInv /\ [Next]_vars => IInv'
PROOF
<1> SUFFICES ASSUME IInv, [Next]_vars PROVE IInv'
  OBVIOUS
<1>1. CASE Edge
  BY <1>1, EdgeOwn
<1>2. CASE ResetEdge
  BY <1>2, ResetOwn
<1>3. CASE Issue \/ PresentAddress \/ PresentData
  BY <1>3, MasterActs
<1>4. CASE Hardware \/ ReleaseReset \/ UNCHANGED vars
  <2>1. UNCHANGED <<state, awready, wready, arready, bvalid, rvalid, avmm_write,
                    addr_r, wdata_r, rdata_r, id_r, regs, writes, read,
                    aw_sent, w_sent, awvalid, wvalid, arvalid>>
    BY <1>4 DEF Hardware, ReleaseReset, vars, master, bridge_vars, control, bank_registers
  <2>2. status' \in [ClearReg \cup StatusReg -> Value]
    BY <1>4 DEF Hardware, ReleaseReset, vars, IInv, TypeInv
  <2> QED BY <2>1, <2>2 DEF IInv, TypeInv, FlagInv, WriteInv, ReadInv
<1> QED BY <1>1, <1>2, <1>3, <1>4 DEF Next

LEMMA PortCorrect == Spec => []IInv
  BY PortInitial, PortStep, PTL DEF Spec

\* The answer that is offered is the answer to the oldest write or to the
\* read, whatever order the channels come in and however many writes wait.
THEOREM AnswersCorrect == Spec => []AnswersMatch
PROOF
<1>1. IInv => AnswersMatch
  <2> SUFFICES ASSUME IInv PROVE AnswersMatch
    OBVIOUS
  <2>1. writes # <<>> => Head(writes) = writes[1]
    BY DEF IInv, TypeInv
  <2>2. bvalid => writes # <<>> /\ aw_sent >= 1 /\ id_r = Head(writes).id
    BY <2>1 DEF IInv, FlagInv, WriteInv
  <2>3. rvalid => read # NoRead /\ ~arvalid /\ id_r = read.id
    BY DEF IInv, FlagInv, ReadInv
  <2> QED BY <2>2, <2>3 DEF AnswersMatch
<1> QED BY <1>1, PortCorrect, PTL
-----------------------------------------------------------------------------
(* Every step of the port is a step of the register file or a stutter.     *)

LEMMA FileInitial == Init => File!Init
PROOF
<1> SUFFICES ASSUME Init PROVE File!Init
  OBVIOUS
<1>1. WriteView = <<>>
  <2>1. writes = <<>> /\ (state = "WRITE_RESP") = FALSE
    BY DEF Init, MasterIdle, BridgeInit
  <2>2. WriteView = Marked(<<>>, state = "WRITE_RESP")
    BY <2>1 DEF WriteView, Marked
  <2> QED BY <2>2, MarkedEmpty
<1>2. ReadView = NoRead
  BY DEF Init, MasterIdle, ReadView
<1> QED BY <1>1, <1>2 DEF Init, BankInit, File!Init

\* The view of the writes is their marked sequence, now and after a step.
LEMMA Views ==
  /\ WriteView = Marked(writes, state = "WRITE_RESP")
  /\ WriteView' = Marked(writes', state' = "WRITE_RESP")
  BY DEF WriteView, Marked

LEMMA ViewsKept ==
  ASSUME UNCHANGED writes, (state = "WRITE_RESP") = (state' = "WRITE_RESP")
  PROVE  UNCHANGED WriteView
  BY Views

LEMMA ReadKept ==
  ASSUME UNCHANGED read, ~rvalid, ~rvalid'
  PROVE  UNCHANGED ReadView
  BY DEF ReadView

LEMMA ReadSeen ==
  ASSUME IInv, read # NoRead
  PROVE  ReadView # NoRead
PROOF
<1>1. ReadView \in [addr : Reg, id : Id, value : Value \cup {NotYet}]
  BY DEF ReadView, IInv, TypeInv, ReadReq, FlagInv, ReadInv
<1> QED BY <1>1, PortAssumption

LEMMA EdgeRefined ==
  ASSUME IInv, Edge
  PROVE  File!Next
PROOF
<1> PICK b \in BOOLEAN, r \in BOOLEAN : ClockEdge(b, r)
  BY DEF Edge
<1>1. BridgeEdge(b, r) /\ MasterEdge(b, r) /\ status' = status
      /\ BankEdge(avmm_write, addr_r, wdata_r)
  BY DEF ClockEdge
<1>2. /\ writes' = IF state = "WRITE_RESP" /\ b THEN Tail(writes) ELSE writes
      /\ read' = IF state = "READ_RESP" /\ r THEN NoRead ELSE read
  BY <1>1, MasterOwn
<1>3. IInv'
  BY EdgeOwn DEF Edge
<1>4. state # "WRITE" => regs' = regs /\ jesd_sync_err_clr' = Zero
  BY <1>1 DEF BankEdge, IInv, FlagInv
<1>5. /\ rvalid <=> state = "READ_RESP"
      /\ rvalid' <=> state' = "READ_RESP"
  BY <1>3 DEF IInv, FlagInv
<1>6. CASE \/ awvalid /\ wvalid
              /\ AcceptWrite(awvalid, wvalid, writes[aw_sent + 1],
                             writes[w_sent + 1].data)
           \/ arvalid /\ AcceptRead(awvalid, wvalid, arvalid, read)
  <2>1. state = "IDLE" /\ state' \in {"WRITE", "READ"}
    BY <1>6 DEF AcceptWrite, AcceptRead
  <2>2. writes' = writes /\ read' = read /\ ~rvalid /\ ~rvalid'
    BY <1>2, <1>5, <2>1
  <2>3. (state = "WRITE_RESP") = (state' = "WRITE_RESP")
    BY <2>1
  <2>4. WriteView' = WriteView /\ ReadView' = ReadView
    BY <2>2, <2>3, ViewsKept, ReadKept
  <2> QED BY <1>1, <1>4, <2>1, <2>4 DEF File!Next, File!Quiet
<1>7. CASE Wait(awvalid, wvalid, arvalid, b, r)
  <2>1. /\ state' = state /\ state \in {"IDLE", "WRITE_RESP", "READ_RESP"}
        /\ rdata_r' = rdata_r
        /\ state = "WRITE_RESP" => ~b
        /\ state = "READ_RESP" => ~r
    BY <1>7 DEF Wait
  <2>2. writes' = writes /\ read' = read /\ (rvalid' <=> rvalid)
    BY <1>2, <1>5, <2>1
  <2>3. WriteView' = WriteView
    BY <2>1, <2>2, Views
  <2>4. ReadView' = ReadView
    BY <2>1, <2>2 DEF ReadView
  <2> QED BY <1>1, <1>4, <2>1, <2>3, <2>4 DEF File!Next, File!Quiet
<1>8. CASE WriteDone
  <2>1. state = "WRITE" /\ state' = "WRITE_RESP"
    BY <1>8 DEF WriteDone
  <2>2. /\ writes # <<>> /\ writes \in Seq(WriteReq) /\ avmm_write
        /\ addr_r = writes[1].addr /\ wdata_r = writes[1].data
    BY <2>1 DEF IInv, TypeInv, FlagInv, WriteInv
  <2>3. writes' = writes /\ read' = read /\ ~rvalid /\ ~rvalid'
    BY <1>2, <1>5, <2>1
  <2>4. (state = "WRITE_RESP") = FALSE /\ (state' = "WRITE_RESP") = TRUE
    BY <2>1
  <2>5. WriteView = Marked(writes, FALSE) /\ WriteView' = Marked(writes, TRUE)
    BY <2>3, <2>4, Views
  <2>6. WriteView' = [WriteView EXCEPT ![1].done = TRUE]
    BY <2>2, <2>5, MarkedDone
  <2>7. WriteView # <<>> /\ Head(WriteView) = View(writes[1], FALSE)
    BY <2>2, <2>5, MarkedHead
  <2>8. /\ Head(WriteView).addr = addr_r /\ Head(WriteView).data = wdata_r
        /\ ~Head(WriteView).done
    BY <2>2, <2>7 DEF View
  <2>9. ReadView' = ReadView
    BY <2>3, ReadKept
  <2>10. /\ regs' = IF addr_r \in WriteReg THEN [regs EXCEPT ![addr_r] = wdata_r] ELSE regs
         /\ jesd_sync_err_clr' = IF addr_r \in ClearReg THEN wdata_r ELSE Zero
    BY <1>1, <2>2 DEF BankEdge
  <2> QED BY <1>1, <2>6, <2>7, <2>8, <2>9, <2>10 DEF File!Next, File!DoWrite
<1>9. CASE WriteAcked(b)
  <2>1. /\ state = "WRITE_RESP" /\ state' = "IDLE" /\ b
        /\ writes # <<>> /\ writes \in Seq(WriteReq)
    BY <1>9 DEF WriteAcked, IInv, TypeInv, WriteInv
  <2>2. writes' = Tail(writes) /\ read' = read /\ ~rvalid /\ ~rvalid'
    BY <1>2, <1>5, <2>1
  <2>3. (state = "WRITE_RESP") = TRUE /\ (state' = "WRITE_RESP") = FALSE
    BY <2>1
  <2>4. WriteView = Marked(writes, TRUE) /\ WriteView' = Marked(Tail(writes), FALSE)
    BY <2>2, <2>3, Views
  <2>5. WriteView' = Tail(WriteView)
    BY <2>1, <2>4, MarkedTail
  <2>6. WriteView # <<>> /\ Head(WriteView) = View(writes[1], TRUE)
    BY <2>1, <2>4, MarkedHead
  <2>7. Head(WriteView).done
    BY <2>6 DEF View
  <2>8. ReadView' = ReadView
    BY <2>2, ReadKept
  <2> QED BY <1>1, <1>4, <2>1, <2>5, <2>6, <2>7, <2>8 DEF File!Next, File!AckWrite
<1>10. CASE ReadDone(avmm_readdata(addr_r))
  <2>1. /\ state = "READ" /\ state' = "READ_RESP"
        /\ rdata_r' = avmm_readdata(addr_r)
        /\ read # NoRead /\ addr_r = read.addr
    BY <1>10 DEF ReadDone, IInv, ReadInv
  <2>2. writes' = writes /\ read' = read /\ ~rvalid /\ rvalid'
    BY <1>2, <1>5, <2>1
  <2>3. (state = "WRITE_RESP") = (state' = "WRITE_RESP")
    BY <2>1
  <2>4. WriteView' = WriteView
    BY <2>2, <2>3, ViewsKept
  <2>5. /\ ReadView = [addr |-> read.addr, id |-> read.id, value |-> NotYet]
        /\ ReadView' = [addr |-> read.addr, id |-> read.id,
                        value |-> avmm_readdata(addr_r)]
    BY <2>1, <2>2 DEF ReadView
  <2>6. avmm_readdata(addr_r) = File!Visible(ReadView.addr)
    BY <2>1, <2>5 DEF avmm_readdata, File!Visible
  <2>7. ReadView' = [ReadView EXCEPT !.value = File!Visible(ReadView.addr)]
    BY <2>5, <2>6
  <2>8. ReadView # NoRead /\ ReadView.value = NotYet
    BY <2>1, <2>5, ReadSeen
  <2> QED BY <1>1, <1>4, <2>1, <2>4, <2>7, <2>8 DEF File!Next, File!DoRead
<1>11. CASE ReadAcked(r)
  <2>1. state = "READ_RESP" /\ state' = "IDLE" /\ r /\ read # NoRead /\ rdata_r \in Value
    BY <1>11 DEF ReadAcked, IInv, ReadInv
  <2>2. writes' = writes /\ read' = NoRead /\ rvalid
    BY <1>2, <1>5, <2>1
  <2>3. (state = "WRITE_RESP") = (state' = "WRITE_RESP")
    BY <2>1
  <2>4. WriteView' = WriteView
    BY <2>2, <2>3, ViewsKept
  <2>5. ReadView # NoRead /\ ReadView.value # NotYet /\ ReadView' = NoRead
    BY <2>1, <2>2, ReadSeen, PortAssumption DEF ReadView
  <2> QED BY <1>1, <1>4, <2>1, <2>4, <2>5 DEF File!Next, File!AnswerRead
<1> QED BY <1>1, <1>6, <1>7, <1>8, <1>9, <1>10, <1>11 DEF BridgeEdge

LEMMA IssueRefined ==
  ASSUME IInv, Issue
  PROVE  File!Next
PROOF
<1>1. UNCHANGED <<state, rvalid, rdata_r, regs, jesd_sync_err_clr, status>>
  BY DEF Issue, IssueWrite, IssueRead, bridge_vars, control, bank_registers
<1>2. CASE \E a \in Reg, v \in Value, i \in Id : IssueWrite(a, v, i)
  <2>1. PICK a \in Reg, v \in Value, i \in Id : IssueWrite(a, v, i)
    BY <1>2
  <2> DEFINE w == [addr |-> a, data |-> v, id |-> i]
             d == state = "WRITE_RESP"
  <2>2. writes' = Append(writes, w) /\ read' = read /\ w \in WriteReq
    BY <2>1 DEF IssueWrite, WriteReq
  <2>3. View(w, FALSE) = [addr |-> a, data |-> v, id |-> i, done |-> FALSE]
    BY DEF View
  <2>4. /\ d \in BOOLEAN /\ writes \in Seq(WriteReq)
        /\ d => writes # <<>>
    BY DEF IInv, TypeInv, WriteInv
  <2>5. WriteView = Marked(writes, d) /\ WriteView' = Marked(Append(writes, w), d)
    BY <1>1, <2>2, Views
  <2> HIDE DEF w, d
  <2>6. Marked(Append(writes, w), d) = Append(Marked(writes, d), View(w, FALSE))
    BY <2>2, <2>4, MarkedAppend
  <2>7. WriteView' = Append(WriteView, [addr |-> a, data |-> v, id |-> i, done |-> FALSE])
    BY <2>3, <2>5, <2>6
  <2>8. ReadView' = ReadView
    BY <1>1, <2>2 DEF ReadView
  <2>9. a \in File!Reg
    BY DEF Reg, File!Reg
  <2>10. File!IssueWrite
    BY <1>1, <2>7, <2>8, <2>9 DEF File!IssueWrite
  <2> QED BY <2>10 DEF File!Next
<1>3. CASE \E a \in Reg, i \in Id : IssueRead(a, i)
  <2>1. PICK a \in Reg, i \in Id : IssueRead(a, i)
    BY <1>3
  <2>2. /\ read = NoRead /\ read' = [addr |-> a, id |-> i] /\ writes' = writes
        /\ ~rvalid /\ ~rvalid'
    BY <1>1, <2>1 DEF IssueRead, IInv, FlagInv, ReadInv
  <2>3. read' # NoRead
    BY <2>2, PortAssumption
  <2>4. WriteView' = WriteView
    BY <1>1, <2>2, Views
  <2>5. ReadView = NoRead /\ ReadView' = [addr |-> a, id |-> i, value |-> NotYet]
    BY <2>2, <2>3 DEF ReadView
  <2>6. a \in File!Reg
    BY DEF Reg, File!Reg
  <2>7. File!IssueRead
    BY <1>1, <2>4, <2>5, <2>6 DEF File!IssueRead
  <2> QED BY <2>7 DEF File!Next
<1> QED BY <1>2, <1>3 DEF Issue

LEMMA ResetRefined ==
  ASSUME ResetEdge
  PROVE  File!Next
PROOF
<1>1. /\ writes' = <<>> /\ read' = NoRead /\ status' = status
      /\ regs' = ResetValue /\ jesd_sync_err_clr' = Zero
      /\ (state' = "WRITE_RESP") = FALSE
  BY DEF ResetEdge, BridgeReset, BankReset
<1>2. WriteView' = <<>>
  BY <1>1, Views, MarkedEmpty
<1>3. ReadView' = NoRead
  BY <1>1 DEF ReadView
<1> QED BY <1>1, <1>2, <1>3 DEF File!Next, File!Reset

LEMMA FileStep == IInv /\ [Next]_vars => [File!Next]_File!vars
PROOF
<1> SUFFICES ASSUME IInv, [Next]_vars PROVE [File!Next]_File!vars
  OBVIOUS
<1>1. CASE Edge
  BY <1>1, EdgeRefined
<1>2. CASE ResetEdge
  BY <1>2, ResetRefined
<1>3. CASE Issue
  BY <1>3, IssueRefined
<1>4. CASE Hardware \/ PresentAddress \/ PresentData \/ ReleaseReset \/ UNCHANGED vars
  <2>1. UNCHANGED <<state, rvalid, rdata_r, regs, jesd_sync_err_clr, writes, read>>
    BY <1>4 DEF Hardware, PresentAddress, PresentData, ReleaseReset,
                vars, master, bridge_vars, control, bank_registers
  <2>2. WriteView' = WriteView /\ ReadView' = ReadView
    BY <2>1, Views DEF ReadView
  <2>3. CASE Hardware
    BY <2>1, <2>2, <2>3 DEF Hardware, File!Next, File!Hardware
  <2>4. CASE PresentAddress \/ PresentData \/ ReleaseReset \/ UNCHANGED vars
    <3>1. status' = status
      BY <2>4 DEF PresentAddress, PresentData, ReleaseReset, vars
    <3> QED BY <2>1, <2>2, <3>1 DEF File!vars
  <2> QED BY <1>4, <2>3, <2>4
<1> QED BY <1>1, <1>2, <1>3, <1>4 DEF Next

\* The CSR port is the register file of RegFile, for every set of registers,
\* values and ids and any number of outstanding writes.
THEOREM PortRefined == Spec => ImplementsRegFile
  BY FileInitial, FileStep, PortCorrect, PTL DEF Spec, ImplementsRegFile, File!Spec
=============================================================================
