--------------------------- MODULE Terminal_proofs ---------------------------
(***************************************************************************)
(* Proofs about the two directions of the terminal, for every size of the  *)
(* buffers and any number of bytes.                                        *)
(*                                                                         *)
(* TxService: the frames of the toolbar stay whole and each byte of core 0 *)
(* is accounted for, for every set of frame lengths and a host that comes  *)
(* and goes.  RxPath: what core 0 reads is complete and in order as long   *)
(* as one writer fills the queue.                                          *)
(***************************************************************************)
EXTENDS TxService, RxPath, SequenceTheorems, TLAPS

-----------------------------------------------------------------------------
(* A byte on the wire, of either kind.                                     *)
Byte == ({"text"} \X Nat) \cup ({"frame"} \X Nat \X Nat)

(* The state machine and its frame: it is ready from the moment at which   *)
(* the machine waits for it until its last byte has been written.          *)
FrameInv ==
    /\ fifo \in Seq(Nat) /\ sent \in Nat
    /\ tx_state \in {"IDLE", "TOOLBAR_DELAY", "TOOLBAR_TX"}
    /\ tx_tb_buf_ready \in BOOLEAN /\ tx_tb_buf_cnt \in Nat /\ tx_tb_buf_index \in Nat
    /\ tx_state # "IDLE" => tx_tb_buf_ready /\ tx_tb_buf_cnt > 0
    /\ tx_tb_buf_ready => tx_tb_buf_cnt > 0
    /\ tx_state = "TOOLBAR_DELAY" => tx_tb_buf_index = 0
    /\ tx_state = "TOOLBAR_TX" => tx_tb_buf_index < tx_tb_buf_cnt

(* The last byte on the wire: the frame's, when one is being sent, and     *)
(* otherwise none that another byte of a frame has to follow.              *)
Open(b) == b[1] = "frame" /\ b[2] < b[3]

Sending == UsbEnabled /\ tx_state = "TOOLBAR_TX" /\ tx_tb_buf_index > 0

WireInv ==
    /\ usb \in Seq(Byte)
    /\ Sending => usb # <<>> /\ usb[Len(usb)] = <<"frame", tx_tb_buf_index, tx_tb_buf_cnt>>
    /\ ~Sending /\ usb # <<>> => ~Open(usb[Len(usb)])

Whole(s) ==
    \A i \in 1..Len(s) - 1 : Open(s[i]) => s[i + 1] = <<"frame", s[i][2] + 1, s[i][3]>>

IInv == FrameInv /\ WireInv /\ Whole(usb)

-----------------------------------------------------------------------------
LEMMA Constants ==
    /\ Chunk \in Nat \ {0} /\ UsbEnabled \in BOOLEAN
    /\ \A len \in FrameLens : len \in Nat /\ len > 0
  BY TxAssumption

LEMMA MinOfTwo ==
    ASSUME NEW a \in Int, NEW b \in Int
    PROVE  Min({a, b}) \in {a, b} /\ Min({a, b}) <= a /\ Min({a, b}) <= b
<1> DEFINE P(x) == \A y \in {a, b} : x <= y
<1>1. \E x \in {a, b} : P(x)
  <2>1. CASE a <= b
    BY <2>1
  <2>2. CASE b <= a
    BY <2>2
  <2> QED  BY <2>1, <2>2
<1>2. Min({a, b}) = CHOOSE x \in {a, b} : P(x)
  BY DEF Min
<1> HIDE DEF P
<1>3. Min({a, b}) \in {a, b} /\ P(Min({a, b}))
  BY <1>1, <1>2
<1> QED  BY <1>3 DEF P

(* Two pieces of output that fit together are whole.                       *)
LEMMA WholeTogether ==
    ASSUME NEW s \in Seq(Byte), NEW t \in Seq(Byte), Whole(s), Whole(t), t # <<>>,
           s # <<>> /\ Open(s[Len(s)]) =>
             t[1] = <<"frame", s[Len(s)][2] + 1, s[Len(s)][3]>>
    PROVE  /\ s \o t \in Seq(Byte) /\ Whole(s \o t)
           /\ s \o t # <<>> /\ (s \o t)[Len(s \o t)] = t[Len(t)]
<1> DEFINE u == s \o t  n == Len(s)  k == Len(t)
<1>1. n \in Nat /\ k \in Nat /\ k # 0
  BY EmptySeq
<1>2. /\ u \in Seq(Byte) /\ Len(u) = n + k
      /\ \A i \in 1..n : u[i] = s[i]
      /\ \A i \in 1..k : u[n + i] = t[i]
  BY <1>1, ConcatProperties
<1> HIDE DEF u
<1>3. u # <<>> /\ u[Len(u)] = t[k]
  <2>1. k \in 1..k /\ Len(u) # 0
    BY <1>1, <1>2
  <2> QED  BY <1>2, <2>1
<1>4. ASSUME NEW i \in 1..Len(u) - 1, Open(u[i])
      PROVE  u[i + 1] = <<"frame", u[i][2] + 1, u[i][3]>>
  <2>1. CASE i < n
    <3>1. i \in 1..n - 1 /\ i \in 1..n /\ i + 1 \in 1..n
      BY <1>1, <1>2, <2>1
    <3>2. u[i] = s[i] /\ u[i + 1] = s[i + 1]
      BY <1>2, <3>1
    <3> QED  BY <1>4, <3>1, <3>2 DEF Whole
  <2>2. CASE i = n
    <3>1. n \in 1..n /\ 1 \in 1..k /\ s # <<>>
      BY <1>1, <1>2, <2>2
    <3>2. u[n] = s[n] /\ u[n + 1] = t[1]
      BY <1>2, <3>1
    <3> QED  BY <1>4, <2>2, <3>1, <3>2
  <2>3. CASE i > n
    <3>1. i - n \in 1..k - 1 /\ i - n \in 1..k /\ (i - n) + 1 \in 1..k
      BY <1>1, <1>2, <2>3
    <3>2. i = n + (i - n) /\ i + 1 = n + ((i - n) + 1)
      BY <1>1, <1>2
    <3>3. /\ u[n + (i - n)] = t[i - n]
          /\ u[n + ((i - n) + 1)] = t[(i - n) + 1]
      BY <1>2, <3>1
    <3>4. u[i] = t[i - n] /\ u[i + 1] = t[(i - n) + 1]
      BY <3>2, <3>3
    <3> QED  BY <1>4, <3>1, <3>4 DEF Whole
  <2> QED  BY <1>1, <1>2, <2>1, <2>2, <2>3
<1> QED  BY <1>2, <1>3, <1>4 DEF Whole, u

-----------------------------------------------------------------------------
(* The steps that write.                                                   *)
LEMMA RegularOutput ==
    ASSUME IInv, SendRegular
    PROVE  IInv'
<1> DEFINE k == Min({Chunk, Len(fifo)})  bytes == [i \in 1..k |-> <<"text", fifo[i]>>]
<1>1. fifo \in Seq(Nat) /\ fifo # <<>> /\ Len(fifo) \in Nat /\ Len(fifo) # 0
  BY EmptySeq DEF IInv, FrameInv, SendRegular
<1>2. k \in Nat \ {0} /\ k <= Len(fifo)
  <2>1. Chunk \in Int /\ Len(fifo) \in Int /\ Chunk > 0 /\ Len(fifo) > 0
    BY <1>1, Constants
  <2>2. k \in {Chunk, Len(fifo)} /\ k <= Len(fifo)
    BY <2>1, MinOfTwo
  <2> QED  BY <1>1, <2>1, <2>2, Constants
<1>3. usb' = (IF UsbEnabled THEN usb \o bytes ELSE usb) /\ fifo' = SubSeq(fifo, k + 1, Len(fifo))
  BY DEF SendRegular, Write, Rest
<1> HIDE DEF k
<1>4. ASSUME NEW i \in 1..k PROVE <<"text", fifo[i]>> \in Byte
  BY <1>1, <1>2 DEF Byte
<1>5. bytes \in Seq(Byte) /\ Len(bytes) = k /\ \A i \in 1..k : bytes[i] = <<"text", fifo[i]>>
  BY <1>2, <1>4
<1> HIDE DEF bytes
<1>6. \A i \in 1..k : ~Open(bytes[i])
  BY <1>5 DEF Open
<1>7. Whole(bytes) /\ bytes # <<>> /\ ~Open(bytes[Len(bytes)])
  BY <1>2, <1>5, <1>6 DEF Whole
<1>8. tx_state = "IDLE" /\ UNCHANGED <<sent, tx_state, tb>>
  BY DEF SendRegular, core0, fsm
<1>9. FrameInv'
  <2>1. fifo' \in Seq(Nat)
    BY <1>1, <1>2, <1>3, SubSeqProperties
  <2> QED  BY <1>8, <2>1 DEF IInv, FrameInv, tb
<1>10. ~Sending /\ ~Sending'
  BY <1>8 DEF Sending
<1>11. CASE UsbEnabled
  <2>1. usb \o bytes \in Seq(Byte) /\ Whole(usb \o bytes)
        /\ (usb \o bytes)[Len(usb \o bytes)] = bytes[Len(bytes)]
    BY <1>5, <1>7, <1>10, WholeTogether DEF IInv, WireInv
  <2> QED  BY <1>3, <1>7, <1>9, <1>10, <1>11, <2>1 DEF IInv, WireInv
<1>12. CASE ~UsbEnabled
  BY <1>3, <1>9, <1>10, <1>12 DEF IInv, WireInv
<1> QED  BY <1>11, <1>12

LEMMA ToolbarOutput ==
    ASSUME IInv, SendToolbar
    PROVE  IInv'
<1> DEFINE index == tx_tb_buf_index  cnt == tx_tb_buf_cnt  k == Min({Chunk, cnt - index})
           bytes == [i \in 1..k |-> <<"frame", index + i, cnt>>]
<1>1. /\ tx_state = "TOOLBAR_TX" /\ index \in Nat /\ cnt \in Nat /\ index < cnt
      /\ UNCHANGED <<fifo, sent, tx_tb_buf_cnt>>
  BY DEF IInv, FrameInv, SendToolbar, core0
<1>2. k \in Nat \ {0} /\ index + k <= cnt
  <2> HIDE DEF index, cnt
  <2>1. Chunk \in Int /\ cnt - index \in Int /\ Chunk > 0 /\ cnt - index > 0
    BY <1>1, Constants
  <2>2. k \in {Chunk, cnt - index} /\ k <= cnt - index
    BY <2>1, MinOfTwo
  <2> HIDE DEF k
  <2> QED  BY <1>1, <2>1, <2>2, Constants
<1>3. /\ usb' = IF UsbEnabled THEN usb \o bytes ELSE usb
      /\ tx_tb_buf_index' = index + k
      /\ tx_state' = IF index + k >= cnt THEN "IDLE" ELSE "TOOLBAR_TX"
      /\ tx_tb_buf_ready' = (index + k < cnt)
  BY DEF SendToolbar, Write, AfterChunk
<1> HIDE DEF k, index, cnt
<1>4. ASSUME NEW i \in 1..k PROVE <<"frame", index + i, cnt>> \in Byte
  BY <1>1, <1>2 DEF Byte
<1>5. /\ bytes \in Seq(Byte) /\ Len(bytes) = k
      /\ \A i \in 1..k : bytes[i] = <<"frame", index + i, cnt>>
  BY <1>2, <1>4
<1> HIDE DEF bytes
<1>6. Whole(bytes)
  <2>1. ASSUME NEW i \in 1..k - 1
        PROVE  bytes[i + 1] = <<"frame", bytes[i][2] + 1, bytes[i][3]>>
    <3>1. i \in 1..k /\ i + 1 \in 1..k /\ index + (i + 1) = (index + i) + 1
      BY <1>1, <1>2
    <3>2. bytes[i] = <<"frame", index + i, cnt>> /\ bytes[i + 1] = <<"frame", index + (i + 1), cnt>>
      BY <1>5, <3>1
    <3> QED  BY <3>1, <3>2
  <2> QED  BY <1>5, <2>1 DEF Whole
<1>7. /\ bytes # <<>> /\ bytes[1] = <<"frame", index + 1, cnt>>
      /\ bytes[Len(bytes)] = <<"frame", index + k, cnt>>
  BY <1>2, <1>5
<1>8. FrameInv'
  <2>1. fifo' \in Seq(Nat) /\ sent' \in Nat /\ tx_tb_buf_cnt' = cnt /\ cnt > 0
    BY <1>1 DEF IInv, FrameInv, cnt, index
  <2>2. index + k \in Nat
    BY <1>1, <1>2
  <2>3. CASE index + k < cnt
    <3>1. tx_state' = "TOOLBAR_TX" /\ tx_tb_buf_ready' = TRUE
      <4>1. ~(index + k >= cnt)
        BY <1>1, <1>2, <2>3
      <4> QED  BY <1>3, <2>3, <4>1, Zenon
    <3> QED  BY <1>1, <1>3, <2>1, <2>2, <2>3, <3>1 DEF FrameInv
  <2>4. CASE index + k = cnt
    <3>1. tx_state' = "IDLE" /\ tx_tb_buf_ready' = FALSE
      <4>1. index + k >= cnt /\ ~(index + k < cnt)
        BY <1>1, <1>2, <2>4
      <4>2. (index + k < cnt) = FALSE
        BY <4>1
      <4> QED  BY <1>3, <4>1, <4>2, Zenon
    <3> QED  BY <1>1, <1>3, <2>1, <2>2, <3>1 DEF FrameInv
  <2> QED  BY <1>1, <1>2, <2>3, <2>4
<1>9. CASE UsbEnabled
  <2>1. usb # <<>> /\ Open(usb[Len(usb)]) =>
          bytes[1] = <<"frame", usb[Len(usb)][2] + 1, usb[Len(usb)][3]>>
    <3>1. CASE index > 0
      <4>1. usb[Len(usb)] = <<"frame", index, cnt>>
        BY <1>1, <1>9, <3>1 DEF IInv, WireInv, Sending, index, cnt
      <4> QED  BY <1>7, <4>1
    <3>2. CASE index = 0
      BY <3>2 DEF IInv, WireInv, Sending, index
    <3> QED  BY <1>1, <3>1, <3>2
  <2>2. usb' \in Seq(Byte) /\ Whole(usb') /\ usb' # <<>> /\ usb'[Len(usb')] = bytes[Len(bytes)]
    <3>1. /\ usb \o bytes \in Seq(Byte) /\ Whole(usb \o bytes) /\ usb \o bytes # <<>>
          /\ (usb \o bytes)[Len(usb \o bytes)] = bytes[Len(bytes)]
      BY <1>5, <1>6, <1>7, <2>1, WholeTogether DEF IInv, WireInv
    <3> QED  BY <1>3, <1>9, <3>1
  <2>3. CASE index + k < cnt
    <3>1. Sending' /\ usb'[Len(usb')] = <<"frame", tx_tb_buf_index', tx_tb_buf_cnt'>>
      BY <1>1, <1>2, <1>3, <1>7, <1>9, <2>2, <2>3 DEF Sending, cnt
    <3> QED  BY <1>8, <2>2, <3>1 DEF IInv, WireInv
  <2>4. CASE index + k = cnt
    <3>1. ~Sending' /\ ~Open(usb'[Len(usb')])
      BY <1>1, <1>2, <1>3, <1>7, <2>2, <2>4 DEF Sending, Open
    <3> QED  BY <1>8, <2>2, <3>1 DEF IInv, WireInv
  <2> QED  BY <1>1, <1>2, <2>3, <2>4
<1>10. CASE ~UsbEnabled
  BY <1>3, <1>8, <1>10 DEF IInv, WireInv, Sending
<1> QED  BY <1>9, <1>10

-----------------------------------------------------------------------------
LEMMA OtherSteps ==
    ASSUME IInv, UNCHANGED usb, FrameInv', Sending' = Sending,
           Sending => UNCHANGED <<tx_tb_buf_index, tx_tb_buf_cnt>>
    PROVE  IInv'
  BY DEF IInv, WireInv

LEMMA Steps == IInv /\ [Next]_vars => IInv'
<1> SUFFICES ASSUME IInv, [Next]_vars PROVE IInv'
  OBVIOUS
<1> USE Constants
<1>1. CASE SendRegular
  BY <1>1, RegularOutput
<1>2. CASE SendToolbar
  BY <1>2, ToolbarOutput
<1>3. CASE PutCall \/ PutDone \/ TryPut \/ DrainCall \/ DrainDone
  <2>1. UNCHANGED <<usb, tx_state, tb>>
    BY <1>3 DEF PutCall, PutDone, TryPut, DrainCall, DrainDone, wire, fsm
  <2>2. fifo' \in Seq(Nat) /\ sent' \in Nat
    <3>1. fifo \in Seq(Nat) /\ sent \in Nat
      BY DEF IInv, FrameInv
    <3>2. sent + 1 \in Nat /\ Append(fifo, sent + 1) \in Seq(Nat)
      BY <3>1
    <3>3. UNCHANGED <<fifo, sent>> \/ (fifo' = Append(fifo, sent + 1) /\ sent' = sent + 1)
      BY <1>3 DEF PutCall, PutDone, TryPut, DrainCall, DrainDone
    <3> QED  BY <3>1, <3>2, <3>3
  <2> QED  BY <2>1, <2>2, OtherSteps DEF IInv, FrameInv, Sending, tb
<1>4. CASE HostRead \/ HostSwitch \/ NothingToDo \/ UNCHANGED vars
  <2>1. UNCHANGED <<usb, fifo, sent, tx_state, tb>>
    BY <1>4 DEF HostRead, HostSwitch, NothingToDo, vars, wire, fsm, core0
  <2> QED  BY <2>1, OtherSteps DEF IInv, FrameInv, Sending, tb
<1>5. CASE TbStart
  BY <1>5, OtherSteps DEF TbStart, IInv, FrameInv, Sending, wire, fsm, core0
<1>6. CASE Flush
  <2>1. fifo' \in Seq(Nat) /\ UNCHANGED <<usb, sent, tx_state, tb>>
    BY <1>6, EmptySeq DEF Flush, wire, fsm, core0
  <2> QED  BY <2>1, OtherSteps DEF IInv, FrameInv, Sending, tb
<1>7. CASE ArmToolbar
  BY <1>7, OtherSteps DEF ArmToolbar, IInv, FrameInv, Sending, wire, core0
<1>8. CASE DelayInterrupted \/ DelayQuiet
  <2>1. /\ tx_state = "TOOLBAR_DELAY" /\ UNCHANGED <<usb, fifo, sent, tb>>
        /\ tx_state' \in {"IDLE", "TOOLBAR_DELAY", "TOOLBAR_TX"}
    BY <1>8 DEF DelayInterrupted, DelayQuiet, wire, core0
  <2> QED  BY <2>1, OtherSteps DEF IInv, FrameInv, Sending, tb
<1>9. CASE Forget
  <2>1. /\ tx_state # "TOOLBAR_TX" /\ fifo' = <<>> /\ sent' = 0 /\ usb' = <<>>
        /\ UNCHANGED <<tx_state, tx_tb_buf_ready, tx_tb_buf_cnt, tx_tb_buf_index>>
    BY <1>9 DEF Forget, fsm
  <2>2. fifo' \in Seq(Nat) /\ usb' \in Seq(Byte) /\ Len(usb') = 0
    BY <2>1, EmptySeq
  <2>3. FrameInv'
    BY <2>1, <2>2 DEF IInv, FrameInv
  <2>4. ~Sending' /\ Whole(usb')
    BY <2>1, <2>2 DEF Sending, Whole
  <2> QED  BY <2>1, <2>2, <2>3, <2>4 DEF IInv, WireInv
<1> QED
  BY <1>1, <1>2, <1>3, <1>4, <1>5, <1>6, <1>7, <1>8, <1>9 DEF Next, Core0, tx_fifo_service

LEMMA Initially == Init => IInv
<1> SUFFICES ASSUME Init PROVE IInv
  OBVIOUS
<1>1. usb = <<>> /\ Len(usb) = 0 /\ tx_state = "IDLE"
  BY EmptySeq DEF Init
<1>2. usb \in Seq(Byte) /\ fifo \in Seq(Nat)
  BY <1>1, EmptySeq DEF Init
<1>3. FrameInv
  BY <1>2 DEF Init, FrameInv
<1>4. ~Sending
  BY <1>1 DEF Sending
<1>5. WireInv
  BY <1>1, <1>2, <1>4 DEF WireInv
<1>6. Whole(usb)
  BY <1>1 DEF Whole
<1> QED  BY <1>3, <1>5, <1>6 DEF IInv

LEMMA WireIsInOrder == Spec => []IInv
  BY Initially, Steps, PTL DEF Spec

(* However long frames and pieces are and whenever core 0 writes: behind a *)
(* byte of a frame comes the next byte of that frame.                      *)
THEOREM FramesStayWhole == Spec => []FramesAreWhole
<1>1. IInv => FramesAreWhole
  BY DEF IInv, Whole, Open, FramesAreWhole
<1> QED  BY <1>1, WireIsInOrder, PTL

-----------------------------------------------------------------------------
(* The bytes of core 0.                                                    *)

(* What has left the queue, and how it is accounted for by output o.       *)
Gone == sent - Len(fifo)

Accounted(o, n, discarded) ==
    /\ Written(o) \cup discarded = 1..n /\ Written(o) \cap discarded = {}
    /\ \A i, j \in TextAt(o) : i < j => o[i][2] < o[j][2]

(* The queue holds the newest bytes; a put that waits has one to add.      *)
QueueInv ==
    /\ Gone \in Nat
    /\ \A i \in 1..Len(fifo) : fifo[i] = Gone + i
    /\ c0 = "put" => sent < MaxBytes

BytesInv ==
    /\ QueueInv
    /\ UsbEnabled => Accounted(usb, Gone, lost)
    /\ UartEnabled => Accounted(uart, Gone, lost)

-----------------------------------------------------------------------------
(* What is written behind an output, or discarded, stays accounted for.    *)
LEMMA Behind ==
    ASSUME NEW S, NEW o \in Seq(S), NEW t \in Seq(S)
    PROVE  /\ Len(o) \in Nat /\ Len(t) \in Nat /\ o \o t \in Seq(S)
           /\ Len(o \o t) = Len(o) + Len(t)
           /\ \A i \in 1..Len(o) : (o \o t)[i] = o[i]
           /\ \A i \in 1..Len(t) : (o \o t)[Len(o) + i] = t[i]
           /\ \A i \in 1..Len(o \o t) :
                  i \in 1..Len(o) \/ \E j \in 1..Len(t) : i = Len(o) + j
<1>1. /\ Len(o) \in Nat /\ Len(t) \in Nat /\ o \o t \in Seq(S)
      /\ Len(o \o t) = Len(o) + Len(t)
      /\ \A i \in 1..Len(o) : (o \o t)[i] = o[i]
      /\ \A i \in 1..Len(t) : (o \o t)[Len(o) + i] = t[i]
  BY ConcatProperties
<1>2. ASSUME NEW i \in 1..Len(o \o t), i \notin 1..Len(o)
      PROVE  \E j \in 1..Len(t) : i = Len(o) + j
  <2>1. i - Len(o) \in 1..Len(t) /\ i = Len(o) + (i - Len(o))
    BY <1>1, <1>2
  <2> QED  BY <2>1
<1> QED  BY <1>1, <1>2

LEMMA TextIsAccounted ==
    ASSUME NEW S, NEW o \in Seq(S), NEW t \in Seq(S), NEW n \in Nat, NEW discarded,
           \A i \in 1..Len(t) : t[i] = <<"text", n + i>>,
           Accounted(o, n, discarded)
    PROVE  Accounted(o \o t, n + Len(t), discarded)
<1> DEFINE u == o \o t  k == Len(t)
<1>1. /\ Len(o) \in Nat /\ k \in Nat /\ Len(u) = Len(o) + k
      /\ \A i \in 1..Len(o) : u[i] = o[i]
      /\ \A i \in 1..k : u[Len(o) + i] = <<"text", n + i>>
      /\ \A i \in 1..Len(u) : i \in 1..Len(o) \/ \E j \in 1..k : i = Len(o) + j
  BY Behind
<1> HIDE DEF u, k
<1>2. ASSUME NEW i \in TextAt(u)
      PROVE  \/ i \in TextAt(o) /\ u[i] = o[i]
             \/ \E j \in 1..k : i = Len(o) + j /\ u[i] = <<"text", n + j>>
  BY <1>1, <1>2 DEF TextAt
<1>3. ASSUME NEW i \in TextAt(o) PROVE i \in TextAt(u) /\ u[i] = o[i]
  BY <1>1, <1>3 DEF TextAt
<1>4. ASSUME NEW j \in 1..k
      PROVE  Len(o) + j \in TextAt(u) /\ u[Len(o) + j][2] = n + j
  <2>1. Len(o) + j \in 1..Len(u) /\ u[Len(o) + j] = <<"text", n + j>>
    BY <1>1, <1>4
  <2> QED  BY <2>1 DEF TextAt
<1>5. Written(u) = Written(o) \cup (n + 1)..(n + k)
  <2>1. ASSUME NEW x \in Written(u) PROVE x \in Written(o) \cup (n + 1)..(n + k)
    <3>1. PICK i \in TextAt(u) : x = u[i][2]
      BY <2>1 DEF Written
    <3>2. CASE i \in TextAt(o) /\ u[i] = o[i]
      BY <3>1, <3>2 DEF Written
    <3>3. CASE \E j \in 1..k : i = Len(o) + j /\ u[i] = <<"text", n + j>>
      BY <1>1, <3>1, <3>3
    <3> QED  BY <1>2, <3>1, <3>2, <3>3
  <2>2. ASSUME NEW x \in Written(o) PROVE x \in Written(u)
    BY <1>3, <2>2 DEF Written
  <2>3. ASSUME NEW x \in (n + 1)..(n + k) PROVE x \in Written(u)
    <3>1. x - n \in 1..k /\ n + (x - n) = x
      BY <1>1, <2>3
    <3> QED  BY <1>4, <3>1 DEF Written
  <2> QED  BY <2>1, <2>2, <2>3
<1>6. Written(u) \cup discarded = 1..(n + k) /\ Written(u) \cap discarded = {}
  <2>1. /\ Written(o) \cup discarded = 1..n /\ Written(o) \cap discarded = {}
    BY DEF Accounted
  <2>2. 1..(n + k) = (1..n) \cup ((n + 1)..(n + k)) /\ (1..n) \cap ((n + 1)..(n + k)) = {}
    BY <1>1
  <2> QED  BY <1>5, <2>1, <2>2
<1>7. ASSUME NEW i \in TextAt(u), NEW j \in TextAt(u), i < j
      PROVE  u[i][2] < u[j][2]
  <2>1. \A m \in TextAt(o) : m \in 1..Len(o) /\ o[m][2] \in 1..n
    BY DEF Accounted, Written, TextAt
  <2>2. CASE i \in TextAt(o) /\ u[i] = o[i] /\ j \in TextAt(o) /\ u[j] = o[j]
    BY <1>7, <2>2 DEF Accounted
  <2>3. CASE i \in TextAt(o) /\ u[i] = o[i] /\ j \notin TextAt(o)
    <3>1. PICK b \in 1..k : u[j] = <<"text", n + b>>
      BY <1>2, <2>3
    <3> QED  BY <1>1, <2>1, <2>3, <3>1
  <2>4. CASE i \notin TextAt(o)
    <3>1. PICK a \in 1..k : i = Len(o) + a /\ u[i] = <<"text", n + a>>
      BY <1>2, <2>4
    <3>2. j \notin TextAt(o)
      BY <1>1, <1>7, <2>1, <3>1
    <3>3. PICK b \in 1..k : j = Len(o) + b /\ u[j] = <<"text", n + b>>
      BY <1>2, <3>2
    <3> QED  BY <1>1, <1>7, <3>1, <3>3
  <2> QED  BY <1>3, <2>2, <2>3, <2>4
<1> QED  BY <1>6, <1>7 DEF Accounted, u, k

LEMMA FrameIsNoText ==
    ASSUME NEW S, NEW o \in Seq(S), NEW t \in Seq(S), NEW n, NEW discarded,
           \A i \in 1..Len(t) : t[i][1] # "text",
           Accounted(o, n, discarded)
    PROVE  Accounted(o \o t, n, discarded)
<1> DEFINE u == o \o t
<1>1. /\ Len(o) \in Nat /\ Len(t) \in Nat /\ Len(u) = Len(o) + Len(t)
      /\ \A i \in 1..Len(o) : u[i] = o[i]
      /\ \A i \in 1..Len(t) : u[Len(o) + i] = t[i]
      /\ \A i \in 1..Len(u) : i \in 1..Len(o) \/ \E j \in 1..Len(t) : i = Len(o) + j
  BY Behind
<1> HIDE DEF u
<1>2. ASSUME NEW i \in TextAt(u) PROVE i \in TextAt(o)
  <2>1. i \in 1..Len(u) /\ u[i][1] = "text"
    BY <1>2 DEF TextAt
  <2>2. i \in 1..Len(o) \/ \E j \in 1..Len(t) : i = Len(o) + j
    BY <1>1, <2>1, Zenon
  <2>3. ASSUME NEW j \in 1..Len(t), i = Len(o) + j PROVE FALSE
    <3>1. u[i] = t[j] /\ t[j][1] # "text"
      BY <1>1, <2>3, Zenon
    <3> QED  BY <2>1, <3>1
  <2>4. i \in 1..Len(o)
    BY <2>2, <2>3
  <2> QED  BY <1>1, <2>1, <2>4 DEF TextAt
<1>3. ASSUME NEW i \in TextAt(o) PROVE i \in TextAt(u) /\ u[i] = o[i]
  BY <1>1, <1>3 DEF TextAt
<1>4. TextAt(u) = TextAt(o)
  BY <1>2, <1>3
<1>5. Written(u) = Written(o)
  BY <1>3, <1>4 DEF Written
<1>6. Accounted(u, n, discarded)
  BY <1>3, <1>4, <1>5 DEF Accounted
<1> QED  BY <1>6 DEF u

LEMMA DiscardedIsAccounted ==
    ASSUME NEW o, NEW n \in Nat, NEW k \in Nat, NEW discarded,
           Accounted(o, n, discarded)
    PROVE  Accounted(o, n + k, discarded \cup (n + 1)..(n + k))
<1>1. 1..(n + k) = (1..n) \cup ((n + 1)..(n + k)) /\ (1..n) \cap ((n + 1)..(n + k)) = {}
  OBVIOUS
<1> QED  BY <1>1 DEF Accounted

-----------------------------------------------------------------------------
TxInv == IInv /\ TypeOK /\ BytesInv

Wire == TextByte \cup FrameByte

LEMMA ElementIn ==
    ASSUME NEW S, NEW s \in Seq(S)
    PROVE  /\ Len(s) \in Nat /\ DOMAIN s = 1..Len(s)
           /\ \A i \in 1..Len(s) : s[i] \in S
  OBVIOUS

(* What SendRegular takes and writes.                                      *)
Taken == Min({Chunk, Len(fifo)})
Piece == [i \in 1..Taken |-> <<"text", fifo[i]>>]

LEMMA RegularBytes ==
    ASSUME TxInv, SendRegular
    PROVE  /\ Taken \in 1..Len(fifo) /\ Taken <= Chunk
           /\ Piece \in Seq(Wire) /\ Len(Piece) = Taken
           /\ \A i \in 1..Taken : Piece[i] = <<"text", Gone + i>>
           /\ fifo' \in Seq(1..MaxBytes) /\ Len(fifo') = Len(fifo) - Taken
           /\ \A i \in 1..Len(fifo') : fifo'[i] = fifo[Taken + i]
           /\ usb' = (IF UsbEnabled THEN usb \o Piece ELSE usb)
           /\ uart' = (IF UartEnabled THEN uart \o Piece ELSE uart)
           /\ cdc' = (IF UsbEnabled THEN cdc + Taken ELSE cdc)
<1>1. fifo \in Seq(1..MaxBytes) /\ Len(fifo) \in Nat /\ Len(fifo) # 0
  BY EmptySeq DEF TxInv, TypeOK, SendRegular
<1>2. Taken \in 1..Len(fifo) /\ Taken <= Chunk
  <2>1. Chunk \in Int /\ Len(fifo) \in Int /\ Chunk > 0 /\ Len(fifo) > 0
    BY <1>1, Constants
  <2>2. Taken \in {Chunk, Len(fifo)} /\ Taken <= Chunk /\ Taken <= Len(fifo)
    BY <2>1, MinOfTwo DEF Taken
  <2> QED  BY <2>1, <2>2
<1>3. /\ fifo' = SubSeq(fifo, Taken + 1, Len(fifo))
      /\ usb' = (IF UsbEnabled THEN usb \o Piece ELSE usb)
      /\ uart' = (IF UartEnabled THEN uart \o Piece ELSE uart)
      /\ cdc' = (IF UsbEnabled THEN cdc + Len(Piece) ELSE cdc)
  BY DEF SendRegular, Write, Rest, Taken, Piece
<1>4. Taken \in Nat
  BY <1>1, <1>2
<1>5. ASSUME NEW i \in 1..Taken
      PROVE  <<"text", fifo[i]>> \in Wire /\ fifo[i] = Gone + i
  <2>1. i \in 1..Len(fifo)
    BY <1>1, <1>2
  <2>2. fifo[i] = Gone + i
    BY <2>1 DEF TxInv, BytesInv, QueueInv
  <2>3. fifo[i] \in 1..MaxBytes
    BY <1>1, <2>1, ElementIn
  <2> QED  BY <2>2, <2>3 DEF Wire, TextByte
<1>6. /\ Piece \in Seq(Wire) /\ Len(Piece) = Taken
      /\ \A i \in 1..Taken : Piece[i] = <<"text", Gone + i>>
  BY <1>4, <1>5 DEF Piece
<1>7. /\ fifo' \in Seq(1..MaxBytes) /\ Len(fifo') = Len(fifo) - Taken
      /\ \A i \in 1..Len(fifo') : fifo'[i] = fifo[Taken + i]
  <2>1. /\ \A i \in (Taken + 1)..Len(fifo) : fifo[i] \in 1..MaxBytes
        /\ Taken + 1 \in Int /\ Len(fifo) \in Int
        /\ Len(fifo) - (Taken + 1) + 1 = Len(fifo) - Taken
    <3>1. \A i \in 1..Len(fifo) : fifo[i] \in 1..MaxBytes
      BY <1>1, ElementIn
    <3>2. \A i \in (Taken + 1)..Len(fifo) : i \in 1..Len(fifo)
      BY <1>1, <1>4
    <3> QED  BY <1>1, <1>4, <3>1, <3>2
  <2>2. /\ fifo' \in Seq(1..MaxBytes) /\ Len(fifo') = Len(fifo) - Taken
        /\ \A i \in 1..(Len(fifo) - Taken) : fifo'[i] = fifo[(Taken + 1) + i - 1]
    <3>1. /\ fifo' \in Seq(1..MaxBytes)
          /\ Len(fifo') = IF Taken + 1 <= Len(fifo) THEN Len(fifo) - (Taken + 1) + 1 ELSE 0
          /\ \A i \in 1..(Len(fifo) - (Taken + 1) + 1) : fifo'[i] = fifo[(Taken + 1) + i - 1]
      BY <1>3, <2>1, SubSeqProperties
    <3>2. Taken + 1 <= Len(fifo) \/ Len(fifo) - Taken = 0
      BY <1>1, <1>2, <1>4
    <3> QED  BY <1>1, <1>4, <2>1, <3>1, <3>2
  <2>3. \A i \in 1..(Len(fifo) - Taken) : (Taken + 1) + i - 1 = Taken + i
    BY <1>1, <1>4
  <2> QED  BY <2>2, <2>3
<1> QED  BY <1>2, <1>3, <1>6, <1>7

(* What SendToolbar writes.                                                *)
FrameTaken == Min({Chunk, tx_tb_buf_cnt - tx_tb_buf_index})
FramePiece ==
    [i \in 1..FrameTaken |-> <<"frame", tx_tb_buf_index + i, tx_tb_buf_cnt>>]

LEMMA ToolbarBytes ==
    ASSUME TxInv, SendToolbar
    PROVE  /\ FrameTaken \in 1..Chunk /\ Len(FramePiece) = FrameTaken
           /\ FramePiece \in Seq(Wire)
           /\ \A i \in 1..FrameTaken : FramePiece[i][1] # "text"
           /\ tx_tb_buf_index' \in Nat /\ tx_tb_buf_index' <= tx_tb_buf_cnt
           /\ tx_tb_buf_cnt \in FrameLens
           /\ usb' = (IF UsbEnabled THEN usb \o FramePiece ELSE usb)
           /\ uart' = (IF UartEnabled THEN uart \o FramePiece ELSE uart)
           /\ cdc' = (IF UsbEnabled THEN cdc + FrameTaken ELSE cdc)
<1> DEFINE index == tx_tb_buf_index  cnt == tx_tb_buf_cnt  k == FrameTaken
<1>1. index \in Nat /\ cnt \in Nat /\ index < cnt /\ cnt \in FrameLens
  BY DEF TxInv, IInv, FrameInv, TypeOK, SendToolbar
<1>2. /\ usb' = (IF UsbEnabled THEN usb \o FramePiece ELSE usb)
      /\ uart' = (IF UartEnabled THEN uart \o FramePiece ELSE uart)
      /\ cdc' = (IF UsbEnabled THEN cdc + Len(FramePiece) ELSE cdc)
      /\ tx_tb_buf_index' = index + k
  BY DEF SendToolbar, Write, FrameTaken, FramePiece
<1>3. k \in 1..Chunk /\ index + k <= cnt /\ k \in Nat
  <2> HIDE DEF index, cnt
  <2>1. Chunk \in Int /\ cnt - index \in Int /\ Chunk > 0 /\ cnt - index > 0
    BY <1>1, Constants
  <2>2. k \in {Chunk, cnt - index} /\ k <= Chunk /\ k <= cnt - index
    BY <2>1, MinOfTwo DEF FrameTaken, cnt, index
  <2> HIDE DEF k
  <2> QED  BY <1>1, <2>1, <2>2
<1>4. ASSUME NEW i \in 1..k PROVE <<"frame", index + i, cnt>> \in Wire
  <2>1. index + i \in Nat
    BY <1>1, <1>3
  <2> QED  BY <1>1, <2>1 DEF Wire, FrameByte
<1>5. /\ FramePiece \in Seq(Wire) /\ Len(FramePiece) = k
      /\ \A i \in 1..k : FramePiece[i] = <<"frame", index + i, cnt>>
  BY <1>3, <1>4 DEF FramePiece
<1>6. \A i \in 1..k : FramePiece[i][1] # "text"
  BY <1>5
<1>7. index + k \in Nat
  BY <1>1, <1>3
<1> QED  BY <1>1, <1>2, <1>3, <1>5, <1>6, <1>7

-----------------------------------------------------------------------------
LEMMA TypeStep ==
    ASSUME TxInv, Next
    PROVE  TypeOK'
<1> USE DEF TxInv, TypeOK, core0, fsm, tb, host, wire
<1>1. CASE PutCall \/ DrainCall \/ DrainDone
  BY <1>1 DEF PutCall, DrainCall, DrainDone
<1>2. CASE PutDone \/ TryPut
  <2>1. sent \in Nat /\ MaxBytes \in Nat /\ QMax \in Nat
    BY TxAssumption
  <2>2. CASE UNCHANGED <<sent, fifo>>
    BY <1>2, <2>2 DEF PutDone, TryPut
  <2>3. CASE fifo' = Append(fifo, sent + 1) /\ sent' = sent + 1 /\ Len(fifo) < QMax
    <3>1. sent < MaxBytes
      BY <1>2 DEF PutDone, TryPut, BytesInv, QueueInv
    <3>2. sent + 1 \in 1..MaxBytes
      BY <2>1, <3>1
    <3>3. fifo' \in Seq(1..MaxBytes) /\ Len(fifo') = Len(fifo) + 1 /\ Len(fifo) \in Nat
      BY <2>3, <3>2, AppendProperties
    <3>4. Len(fifo') <= QMax /\ sent' \in 0..MaxBytes
      BY <2>1, <2>3, <3>2, <3>3
    <3> QED  BY <1>2, <3>3, <3>4 DEF PutDone, TryPut
  <2> QED  BY <1>2, <2>2, <2>3 DEF PutDone, TryPut
<1>3. CASE HostRead \/ HostSwitch \/ NothingToDo
  <2>1. UNCHANGED <<core0, fifo, fsm, tb, wire, lost>>
    BY <1>3 DEF HostRead, HostSwitch, NothingToDo, vars
  <2>2. connected' \in BOOLEAN
    BY <1>3 DEF HostRead, HostSwitch, NothingToDo, vars
  <2>3. cdc' \in 0..CdcSize
    BY <1>3, TxAssumption DEF HostRead, HostSwitch, NothingToDo, vars
  <2> QED  BY <2>1, <2>2, <2>3
<1>4. CASE TbStart
  <2>1. UNCHANGED <<c0, sent, fifo, fsm, tx_tb_buf_index, host, wire, lost>>
    BY <1>4 DEF TbStart
  <2>2. tx_tb_buf_cnt' \in FrameLens /\ tx_tb_buf_ready' = TRUE
    BY <1>4 DEF TbStart
  <2>3. frames' \in 0..MaxFrames
    BY <1>4, TxAssumption DEF TbStart
  <2> QED  BY <2>1, <2>2, <2>3
<1>5. CASE Flush
  <2>1. fifo' \in Seq(1..MaxBytes) /\ Len(fifo') = 0
    BY <1>5, EmptySeq DEF Flush
  <2>2. Range(fifo) \subseteq 1..MaxBytes
    <3>1. DOMAIN fifo = 1..Len(fifo) /\ \A i \in 1..Len(fifo) : fifo[i] \in 1..MaxBytes
      BY ElementIn
    <3> QED  BY <3>1 DEF Range
  <2>3. lost' \subseteq 1..MaxBytes
    <3>1. lost' = lost \cup Range(fifo) /\ lost \subseteq 1..MaxBytes
      BY <1>5 DEF Flush
    <3> QED  BY <2>2, <3>1, Zenon
  <2>5. Len(fifo') <= QMax
    BY <2>1, TxAssumption
  <2>4. UNCHANGED <<c0, sent, tx_state, delay_count, tb, host, wire>>
    BY <1>5 DEF Flush
  <2> QED  BY <2>1, <2>3, <2>4, <2>5
<1>6. CASE ArmToolbar \/ DelayInterrupted \/ DelayQuiet
  <2>1. UNCHANGED <<c0, sent, fifo, tx_tb_buf_ready, tx_tb_buf_cnt, frames, host, wire, lost>>
    BY <1>6 DEF ArmToolbar, DelayInterrupted, DelayQuiet
  <2>2. /\ tx_state' \in {"IDLE", "TOOLBAR_DELAY", "TOOLBAR_TX"} /\ delay_count' \in 0..2
        /\ tx_tb_buf_index' \in {0, tx_tb_buf_index}
    BY <1>6 DEF ArmToolbar, DelayInterrupted, DelayQuiet
  <2>3. tx_tb_buf_index' \in Nat /\ \E len \in FrameLens \cup {0} : tx_tb_buf_index' <= len
    <3>1. CASE tx_tb_buf_index' = tx_tb_buf_index
      BY <3>1
    <3>2. CASE tx_tb_buf_index' = 0
      BY <3>2
    <3> QED  BY <2>2, <3>1, <3>2
  <2> QED  BY <2>1, <2>2, <2>3
<1>7. CASE SendRegular
  <2>1. Piece \in Seq(Wire) /\ usb \in Seq(Wire) /\ uart \in Seq(Wire)
    BY <1>7, RegularBytes DEF Wire
  <2>2. usb \o Piece \in Seq(Wire) /\ uart \o Piece \in Seq(Wire)
    BY <2>1, ConcatProperties
  <2>3. usb' \in Seq(Wire) /\ uart' \in Seq(Wire)
    BY <1>7, <2>1, <2>2, RegularBytes
  <2>4. cdc' \in 0..CdcSize /\ Len(fifo') <= QMax
    <3>1. Len(fifo) \in Nat /\ QMax \in Nat /\ Chunk \in Nat /\ CdcSize \in Nat
      BY TxAssumption
    <3>2. /\ Taken \in 1..Len(fifo) /\ Taken <= Chunk /\ Len(fifo') = Len(fifo) - Taken
          /\ cdc' = (IF UsbEnabled THEN cdc + Taken ELSE cdc)
      BY <1>7, RegularBytes
    <3>3. cdc \in 0..CdcSize /\ (UsbEnabled => CdcSize - cdc >= Chunk) /\ Len(fifo) <= QMax
      BY <1>7 DEF SendRegular, Ready
    <3> QED  BY <3>1, <3>2, <3>3
  <2>5. fifo' \in Seq(1..MaxBytes)
    BY <1>7, RegularBytes
  <2>6. UNCHANGED <<c0, sent, tx_state, delay_count, tb, connected, lost>>
    BY <1>7 DEF SendRegular, Write
  <2> QED  BY <2>3, <2>4, <2>5, <2>6 DEF Wire
<1>8. CASE SendToolbar
  <2>1. FramePiece \in Seq(Wire) /\ usb \in Seq(Wire) /\ uart \in Seq(Wire)
    BY <1>8, ToolbarBytes DEF Wire
  <2>2. usb \o FramePiece \in Seq(Wire) /\ uart \o FramePiece \in Seq(Wire)
    BY <2>1, ConcatProperties
  <2>3. usb' \in Seq(Wire) /\ uart' \in Seq(Wire)
    BY <1>8, <2>1, <2>2, ToolbarBytes
  <2>4. cdc' \in 0..CdcSize
    <3>1. Chunk \in Nat /\ CdcSize \in Nat
      BY TxAssumption
    <3>2. FrameTaken \in 1..Chunk /\ cdc' = (IF UsbEnabled THEN cdc + FrameTaken ELSE cdc)
      BY <1>8, ToolbarBytes
    <3>3. cdc \in 0..CdcSize /\ (UsbEnabled => CdcSize - cdc >= Chunk)
      BY <1>8 DEF SendToolbar, Ready
    <3> QED  BY <3>1, <3>2, <3>3
  <2>5. /\ tx_state' \in {"IDLE", "TOOLBAR_TX"} /\ tx_tb_buf_ready' \in BOOLEAN
        /\ UNCHANGED <<connected, delay_count, tx_tb_buf_cnt, frames, c0, sent, fifo, lost>>
    BY <1>8 DEF SendToolbar, Write, AfterChunk
  <2>6. tx_tb_buf_index' \in Nat /\ \E len \in FrameLens \cup {0} : tx_tb_buf_index' <= len
    BY <1>8, ToolbarBytes
  <2> QED  BY <2>3, <2>4, <2>5, <2>6 DEF Wire
<1>9. CASE Forget
  <2>1. /\ fifo' = <<>> /\ sent' = 0 /\ frames' = 0 /\ usb' = <<>> /\ uart' = <<>> /\ lost' = {}
        /\ UNCHANGED <<c0, fifo, tx_state, delay_count, connected, cdc>>
        /\ UNCHANGED <<tx_tb_buf_ready, tx_tb_buf_cnt, tx_tb_buf_index>>
    BY <1>9 DEF Forget
  <2>2. sent' \in 0..MaxBytes /\ frames' \in 0..MaxFrames
    BY <2>1, TxAssumption
  <2>3. /\ usb' \in Seq(TextByte \cup FrameByte) /\ uart' \in Seq(TextByte \cup FrameByte)
        /\ lost' \subseteq 1..MaxBytes
    BY <2>1, EmptySeq
  <2> QED  BY <2>1, <2>2, <2>3
<1> QED
  BY <1>1, <1>2, <1>3, <1>4, <1>5, <1>6, <1>7, <1>8, <1>9 DEF Next, Core0, tx_fifo_service

-----------------------------------------------------------------------------
(* What is in the queue are the bytes that have not left it.               *)
LEMMA QueueNumbers ==
    ASSUME TxInv
    PROVE  /\ sent \in Nat /\ Gone \in Nat /\ Len(fifo) \in Nat /\ Gone + Len(fifo) = sent
           /\ fifo \in Seq(1..MaxBytes) /\ \A i \in 1..Len(fifo) : fifo[i] = Gone + i
           /\ Range(fifo) = (Gone + 1)..sent
<1>1. sent \in Nat
  BY TxAssumption DEF TxInv, TypeOK
<1>2. fifo \in Seq(1..MaxBytes) /\ Len(fifo) \in Nat
  BY DEF TxInv, TypeOK
<1>3. Gone \in Nat /\ \A i \in 1..Len(fifo) : fifo[i] = Gone + i
  BY DEF TxInv, BytesInv, QueueInv
<1>4. Gone + Len(fifo) = sent
  BY <1>1, <1>2, <1>3 DEF Gone
<1>5. Range(fifo) = {fifo[i] : i \in 1..Len(fifo)}
  BY <1>2, RangeEquality
<1>6. ASSUME NEW x \in (Gone + 1)..sent PROVE x \in Range(fifo)
  <2>1. x - Gone \in 1..Len(fifo) /\ Gone + (x - Gone) = x
    BY <1>2, <1>3, <1>4
  <2> QED  BY <1>3, <1>5, <2>1
<1>7. ASSUME NEW x \in Range(fifo) PROVE x \in (Gone + 1)..sent
  <2>1. PICK i \in 1..Len(fifo) : x = fifo[i]
    BY <1>5
  <2> QED  BY <1>2, <1>3, <1>4, <2>1
<1> QED  BY <1>1, <1>2, <1>3, <1>4, <1>6, <1>7

LEMMA BytesSteps ==
    ASSUME TxInv, Next
    PROVE  BytesInv'
<1>1. /\ sent \in Nat /\ Gone \in Nat /\ Len(fifo) \in Nat /\ Gone + Len(fifo) = sent
      /\ fifo \in Seq(1..MaxBytes) /\ \A i \in 1..Len(fifo) : fifo[i] = Gone + i
      /\ Range(fifo) = (Gone + 1)..sent
      /\ usb \in Seq(Wire) /\ uart \in Seq(Wire)
  BY QueueNumbers DEF TxInv, TypeOK, Wire
<1>2. /\ UsbEnabled => Accounted(usb, Gone, lost)
      /\ UartEnabled => Accounted(uart, Gone, lost)
      /\ c0 = "put" => sent < MaxBytes
  BY DEF TxInv, BytesInv, QueueInv
<1>3. CASE UNCHANGED <<sent, fifo, wire, lost>> /\ (c0' = "put" => sent < MaxBytes)
  <2>1. Gone' = Gone /\ UNCHANGED <<sent, fifo, usb, uart, lost>>
    BY <1>3 DEF Gone, wire
  <2> QED  BY <1>1, <1>2, <1>3, <2>1 DEF BytesInv, QueueInv, Accounted
<1>4. CASE /\ fifo' = Append(fifo, sent + 1) /\ sent' = sent + 1
           /\ UNCHANGED <<wire, lost>> /\ c0' = "idle"
  <2>1. Len(fifo') = Len(fifo) + 1 /\ fifo'[Len(fifo) + 1] = sent + 1
        /\ \A i \in 1..Len(fifo) : fifo'[i] = fifo[i]
    BY <1>1, <1>4
  <2>2. Gone' = Gone
    BY <1>1, <1>4, <2>1 DEF Gone
  <2>3. \A i \in 1..Len(fifo') : fifo'[i] = Gone + i
    <3>1. ASSUME NEW i \in 1..(Len(fifo) + 1) PROVE fifo'[i] = Gone + i
      <4>1. CASE i \in 1..Len(fifo)
        BY <1>1, <2>1, <4>1
      <4>2. CASE i = Len(fifo) + 1
        BY <1>1, <2>1, <4>2
      <4> QED  BY <1>1, <4>1, <4>2
    <3> QED  BY <2>1, <3>1
  <2> QED  BY <1>1, <1>2, <1>4, <2>2, <2>3 DEF BytesInv, QueueInv, Accounted, wire
<1>5. CASE Flush
  <2>1. fifo' = <<>> /\ Len(fifo') = 0 /\ UNCHANGED <<c0, sent, usb, uart>>
        /\ lost' = lost \cup Range(fifo)
    BY <1>5 DEF Flush, core0, wire
  <2>2. Gone' = Gone + Len(fifo)
    BY <1>1, <2>1 DEF Gone
  <2>3. Range(fifo) = (Gone + 1)..(Gone + Len(fifo))
    BY <1>1
  <2>4. /\ UsbEnabled => Accounted(usb, Gone', lost')
        /\ UartEnabled => Accounted(uart, Gone', lost')
    BY <1>1, <1>2, <2>1, <2>2, <2>3, DiscardedIsAccounted
  <2> QED  BY <1>1, <1>2, <2>1, <2>2, <2>4 DEF BytesInv, QueueInv, Accounted
<1>6. CASE SendRegular
  <2>1. UNCHANGED <<c0, sent, lost>>
    BY <1>6 DEF SendRegular, core0
  <2>2. /\ Taken \in Nat /\ Taken \in 1..Len(fifo) /\ Len(fifo') = Len(fifo) - Taken
        /\ Piece \in Seq(Wire) /\ Len(Piece) = Taken
        /\ \A i \in 1..Len(Piece) : Piece[i] = <<"text", Gone + i>>
        /\ \A i \in 1..Len(fifo') : fifo'[i] = fifo[Taken + i]
        /\ usb' = (IF UsbEnabled THEN usb \o Piece ELSE usb)
        /\ uart' = (IF UartEnabled THEN uart \o Piece ELSE uart)
    <3>1. /\ Taken \in 1..Len(fifo) /\ Piece \in Seq(Wire) /\ Len(Piece) = Taken
          /\ \A i \in 1..Taken : Piece[i] = <<"text", Gone + i>>
          /\ Len(fifo') = Len(fifo) - Taken
          /\ \A i \in 1..Len(fifo') : fifo'[i] = fifo[Taken + i]
          /\ usb' = (IF UsbEnabled THEN usb \o Piece ELSE usb)
          /\ uart' = (IF UartEnabled THEN uart \o Piece ELSE uart)
      BY <1>6, RegularBytes
    <3>2. Taken \in Nat
      BY <1>1, <3>1
    <3> QED  BY <3>1, <3>2, Zenon
  <2>3. Gone' = Gone + Taken
    BY <1>1, <2>1, <2>2 DEF Gone
  <2>4. \A i \in 1..Len(fifo') : fifo'[i] = Gone' + i
    <3>1. \A i \in 1..Len(fifo') : Taken + i \in 1..Len(fifo) /\ Gone + (Taken + i) = Gone' + i
      BY <1>1, <2>2, <2>3
    <3> QED  BY <1>1, <2>2, <3>1
  <2>5. UsbEnabled => Accounted(usb', Gone', lost')
    BY <1>1, <1>2, <2>1, <2>2, <2>3, TextIsAccounted
  <2>6. UartEnabled => Accounted(uart', Gone', lost')
    BY <1>1, <1>2, <2>1, <2>2, <2>3, TextIsAccounted
  <2>7. QueueInv'
    <3>1. Gone' \in Nat
      BY <1>1, <2>2, <2>3
    <3> QED  BY <1>2, <2>1, <2>4, <3>1 DEF QueueInv
  <2> QED  BY <2>5, <2>6, <2>7 DEF BytesInv, Accounted
<1>7. CASE SendToolbar
  <2>1. Gone' = Gone /\ UNCHANGED <<c0, sent, fifo, lost>>
    BY <1>7 DEF SendToolbar, core0, Gone
  <2>2. /\ FramePiece \in Seq(Wire) /\ \A i \in 1..Len(FramePiece) : FramePiece[i][1] # "text"
        /\ usb' = (IF UsbEnabled THEN usb \o FramePiece ELSE usb)
        /\ uart' = (IF UartEnabled THEN uart \o FramePiece ELSE uart)
    BY <1>7, ToolbarBytes
  <2>3. UsbEnabled => Accounted(usb', Gone', lost')
    BY <1>1, <1>2, <2>1, <2>2, FrameIsNoText
  <2>4. UartEnabled => Accounted(uart', Gone', lost')
    BY <1>1, <1>2, <2>1, <2>2, FrameIsNoText
  <2> QED  BY <1>1, <1>2, <2>1, <2>3, <2>4 DEF BytesInv, QueueInv, Accounted
<1>8. CASE PutCall \/ DrainCall \/ DrainDone
  BY <1>3, <1>8 DEF PutCall, DrainCall, DrainDone
<1>9. CASE PutDone \/ TryPut
  BY <1>2, <1>3, <1>4, <1>9 DEF PutDone, TryPut
<1>10. CASE HostRead \/ HostSwitch \/ NothingToDo \/ TbStart
  BY <1>2, <1>3, <1>10 DEF HostRead, HostSwitch, NothingToDo, TbStart, vars, core0
<1>11. CASE ArmToolbar \/ DelayInterrupted \/ DelayQuiet
  BY <1>2, <1>3, <1>11 DEF ArmToolbar, DelayInterrupted, DelayQuiet, core0
<1>12. CASE Forget
  <2>1. /\ fifo' = <<>> /\ sent' = 0 /\ usb' = <<>> /\ uart' = <<>> /\ lost' = {}
        /\ fifo = <<>> /\ c0' = c0
    BY <1>12 DEF Forget
  <2>2. Len(fifo') = 0 /\ Len(usb') = 0 /\ Len(uart') = 0
    BY <2>1
  <2>3. Gone' = 0
    <3>1. sent' = 0 /\ Len(fifo') = 0
      BY <2>1, <2>2
    <3> QED  BY <3>1 DEF Gone
  <2>4. /\ TextAt(usb') = {} /\ Written(usb') = {}
        /\ TextAt(uart') = {} /\ Written(uart') = {}
    BY <2>2 DEF TextAt, Written
  <2>5. Accounted(usb', 0, {}) /\ Accounted(uart', 0, {})
    BY <2>4 DEF Accounted
  <2>6. c0' = "put" => sent' < MaxBytes
    BY <1>1, <1>2, <2>1, TxAssumption
  <2>7. QueueInv'
    BY <2>2, <2>3, <2>6 DEF QueueInv
  <2> QED  BY <2>1, <2>3, <2>5, <2>7 DEF BytesInv, Accounted, TextAt, Written
<1> QED
  BY <1>5, <1>6, <1>7, <1>8, <1>9, <1>10, <1>11, <1>12 DEF Next, Core0, tx_fifo_service

LEMMA BytesInitially == Init => TypeOK /\ BytesInv
<1> SUFFICES ASSUME Init PROVE TypeOK /\ BytesInv
  OBVIOUS
<1>1. fifo = <<>> /\ usb = <<>> /\ uart = <<>> /\ lost = {} /\ sent = 0 /\ c0 = "idle"
  BY DEF Init
<1>2. \A S : <<>> \in Seq(S)
  BY EmptySeq
<1>3. Len(fifo) = 0 /\ Len(usb) = 0 /\ Len(uart) = 0
  BY <1>1
<1>4. TypeOK
  <2>1. connected \in BOOLEAN
    BY Constants DEF Init
  <2>2. Len(fifo) <= QMax /\ cdc \in 0..CdcSize /\ sent \in 0..MaxBytes /\ frames \in 0..MaxFrames
    BY <1>3, TxAssumption DEF Init
  <2>3. \E len \in FrameLens \cup {0} : tx_tb_buf_index <= len
    BY DEF Init
  <2>4. /\ usb \in Seq(TextByte \cup FrameByte) /\ uart \in Seq(TextByte \cup FrameByte)
        /\ fifo \in Seq(1..MaxBytes)
    BY <1>1, <1>2
  <2>5. /\ c0 = "idle" /\ tx_state = "IDLE" /\ delay_count = 0 /\ tx_tb_buf_ready = FALSE
        /\ tx_tb_buf_cnt = 0 /\ tx_tb_buf_index = 0
    BY DEF Init
  <2>6. lost \subseteq 1..MaxBytes
    BY <1>1
  <2>7. delay_count \in 0..2
    BY <2>5
  <2>8. tx_tb_buf_ready \in BOOLEAN
    BY <2>5
  <2>9. tx_tb_buf_cnt \in FrameLens \cup {0} /\ tx_tb_buf_index \in Nat
    BY <2>5
  <2>10. c0 \in {"idle", "put", "drain"} /\ tx_state \in {"IDLE", "TOOLBAR_DELAY", "TOOLBAR_TX"}
    BY <2>5
  <2> QED  BY <2>1, <2>2, <2>3, <2>4, <2>6, <2>7, <2>8, <2>9, <2>10 DEF TypeOK
<1>5. Gone = 0
  <2>1. sent = 0
    BY <1>1
  <2> QED  BY <1>3, <2>1 DEF Gone
<1>6. TextAt(usb) = {} /\ TextAt(uart) = {}
  BY <1>3 DEF TextAt
<1>7. Accounted(usb, 0, lost) /\ Accounted(uart, 0, lost)
  BY <1>1, <1>6 DEF Accounted, Written
<1> QED  BY <1>1, <1>3, <1>4, <1>5, <1>7 DEF BytesInv, QueueInv

LEMMA TxInductive == Spec => []TxInv
<1>1. Init => TxInv
  BY Initially, BytesInitially DEF TxInv
<1>2. TxInv /\ [Next]_vars => TxInv'
  <2> SUFFICES ASSUME TxInv, [Next]_vars PROVE TxInv'
    OBVIOUS
  <2>1. CASE Next
    BY <2>1, Steps, TypeStep, BytesSteps DEF TxInv
  <2>2. CASE UNCHANGED vars
    <3>1. UNCHANGED <<c0, sent, fifo, tx_state, delay_count, tb, connected, cdc, usb, uart, lost>>
      BY <2>2 DEF vars, core0, fsm, host, wire
    <3>2. TypeOK'
      BY <3>1 DEF TxInv, TypeOK, tb
    <3>3. BytesInv'
      BY <3>1 DEF TxInv, BytesInv, QueueInv, Gone, Accounted
    <3> QED  BY <2>2, <3>2, <3>3, Steps DEF TxInv
  <2> QED  BY <2>1, <2>2
<1> QED  BY <1>1, <1>2, PTL DEF Spec

(* Queue, state machine, frame and outputs keep their type; among it: the  *)
(* queue never holds more than it has room for, and nothing is written     *)
(* past the transmit FIFO of the USB driver.                               *)
THEOREM TxTypeCorrect == Spec => []TypeOK
<1>1. TxInv => TypeOK
  BY DEF TxInv
<1> QED  BY <1>1, TxInductive, PTL

(* Each byte that core 0 has put is queued, discarded, or written once to  *)
(* every output, in the order in which core 0 put them.                    *)
THEOREM BytesAreAccountedFor == Spec => []NoByteVanishes
<1>1. TxInv => NoByteVanishes
  <2> SUFFICES ASSUME TxInv, NEW o \in Outputs
               PROVE  /\ Written(o) \cup Range(fifo) \cup lost = 1..sent
                      /\ Written(o) \cap (Range(fifo) \cup lost) = {} /\ Range(fifo) \cap lost = {}
                      /\ \A i, j \in TextAt(o) : i < j => o[i][2] < o[j][2]
                      /\ \A i, j \in 1..Len(fifo) : i < j => fifo[i] < fifo[j]
    BY DEF NoByteVanishes
  <2>1. Accounted(o, Gone, lost)
    BY DEF Outputs, TxInv, BytesInv
  <2>2. /\ sent \in Nat /\ Gone \in Nat /\ Gone <= sent /\ Range(fifo) = (Gone + 1)..sent
        /\ Len(fifo) \in Nat /\ \A i \in 1..Len(fifo) : fifo[i] = Gone + i
    BY QueueNumbers
  <2>3. 1..sent = (1..Gone) \cup ((Gone + 1)..sent) /\ (1..Gone) \cap ((Gone + 1)..sent) = {}
    BY <2>2
  <2>4. /\ Written(o) \cup Range(fifo) \cup lost = 1..sent
        /\ Written(o) \cap (Range(fifo) \cup lost) = {} /\ Range(fifo) \cap lost = {}
    BY <2>1, <2>2, <2>3 DEF Accounted
  <2>5. \A i, j \in TextAt(o) : i < j => o[i][2] < o[j][2]
    BY <2>1 DEF Accounted
  <2>6. \A i, j \in 1..Len(fifo) : i < j => fifo[i] < fifo[j]
    BY <2>2
  <2> QED  BY <2>4, <2>5, <2>6
<1> QED  BY <1>1, TxInductive, PTL

-----------------------------------------------------------------------------
(* The bytes of the terminal's input.                                      *)

(* Either the receive interrupt or the main loop of core 1 fills the queue:*)
(* the two at once are what the run of RxUartLoss is about.                *)
OneWriter == "uart" \notin inputs \/ inputs \subseteq {"uart"}

Place    == 0..Capacity - 1
Incoming == Source \X Nat
Adding   == pc \in {"test", "store", "publish"}

(* How many bytes of s the main loop holds between driver and queue, and   *)
(* the number of the last byte of s that has been queued (or, of the UART, *)
(* dropped).                                                               *)
InHand(s) == (IF Adding /\ arg[1] = s THEN 1 ELSE 0)
             + (IF s = "usb" THEN Len(batch) ELSE IF pushback = NoByte THEN 0 ELSE 1)

Queued == [s \in Source |-> IF s = "uart" THEN produced[s]
                                          ELSE produced[s] - held[s] - InHand(s)]

(* What core 0 has read, and behind it what it would read.                 *)
Stream == [i \in 1..Len(out) + Level |->
              IF i <= Len(out) THEN out[i] ELSE buf[Masked(tail + (i - Len(out) - 1))]]

(* The first k elements of f are what the sources have fed, up to the      *)
(* numbers in up: each source's bytes in order, and USB's and RTT's all.   *)
Fed(f, k, up) ==
    /\ \A i \in 1..k : f[i] \in Incoming /\ f[i][2] \in 1..up[f[i][1]]
    /\ \A i, j \in 1..k : i < j /\ f[i][1] = f[j][1] => f[i][2] < f[j][2]
    /\ \A s \in {"usb", "rtt"} : \A m \in 1..up[s] : \E i \in 1..k : f[i] = <<s, m>>

RxTyped ==
    /\ inputs \subseteq Source
    /\ produced \in [Source -> Nat] /\ held \in [Source -> Nat]
    /\ \A s \in Source : produced[s] <= MaxInput
    /\ head \in Place /\ tail \in Place /\ buf \in [Place -> Incoming \cup {NoByte}]
    /\ out \in Seq(Incoming) /\ batch \in Seq(Incoming)
    /\ pc \in {"loop", "usb", "rtt", "test", "store", "publish"}
    /\ Queued \in [Source -> Nat]

(* What the main loop has in hand are the next bytes of their source, and  *)
(* it has read no more from USB than the queue has room for.               *)
HandInv ==
    /\ Adding => arg \in {<<s, Queued[s] + 1>> : s \in {"usb", "rtt"}}
    /\ \A i \in 1..Len(batch) :
           batch[i] = <<"usb", produced["usb"] - held["usb"] - Len(batch) + i>>
    /\ batch # <<>> => pc = "usb" \/ (Adding /\ arg[1] = "usb")
    /\ pushback # NoByte => /\ pushback = <<"rtt", Queued["rtt"] + 1>>
                            /\ ~(Adding /\ arg[1] = "rtt")
    /\ pc \in {"store", "publish"} => h = head /\ Masked(head + 1) # tail
    /\ pc = "publish" => buf[head] = arg
    /\ pc = "usb" => Len(batch) <= Free
    /\ Adding /\ arg[1] = "usb" => Len(batch) + 1 <= Free

(* Where the interrupt writes, the loop has nothing to write.              *)
UartInv ==
    "uart" \in inputs => /\ pc \in {"loop", "rtt"} /\ batch = <<>> /\ pushback = NoByte
                         /\ held["usb"] = 0 /\ held["rtt"] = 0

RxInv == RxTyped /\ HandInv /\ UartInv /\ Fed(Stream, Len(out) + Level, Queued)

-----------------------------------------------------------------------------
(* The ring.                                                               *)
LEMMA ReducedLinearly ==
    \A x \in 0..2 * Capacity - 1 : Masked(x) = IF x < Capacity THEN x ELSE x - Capacity
<1>1. \A x \in 0..2 * Capacity - 1 : x % Capacity = IF x < Capacity THEN x ELSE x - Capacity
  BY RxAssumption, SMTT(20)
<1> QED  BY <1>1 DEF Masked

LEMMA PlaceAfter ==
    \A a \in Place : \A k \in 0..Capacity :
        /\ Masked(a + k) = IF a + k < Capacity THEN a + k ELSE a + k - Capacity
        /\ Masked(a + k) \in Place
  BY RxAssumption, ReducedLinearly DEF Place

LEMMA Distance ==
    \A a, b \in Place : /\ Masked(a - b + Capacity) = IF a >= b THEN a - b ELSE a - b + Capacity
                        /\ Masked(a - b + Capacity) \in Place
<1>1. \A a, b \in Place : a - b + Capacity \in 0..2 * Capacity - 1
  BY RxAssumption DEF Place
<1> QED  BY <1>1, RxAssumption, ReducedLinearly DEF Place

(* Unless the distance is the greatest there is, there is room.            *)
LEMMA RoomAfter ==
    \A a, b \in Place : Masked(a - b + Capacity) < Capacity - 1 => Masked(a + 1) # b
<1> SUFFICES ASSUME NEW a \in Place, NEW b \in Place, Masked(a + 1) = b
             PROVE  Masked(a - b + Capacity) = Capacity - 1
  BY RxAssumption
<1>1. Masked(a + 1) = IF a + 1 < Capacity THEN a + 1 ELSE a + 1 - Capacity
  BY RxAssumption, PlaceAfter
<1>2. Masked(a - b + Capacity) = IF a >= b THEN a - b ELSE a - b + Capacity
  BY Distance
<1> QED  BY <1>1, <1>2, RxAssumption DEF Place

(* A byte behind the newest one makes the stream one longer.               *)
LEMMA StreamGrows ==
    ASSUME RxTyped, Masked(head + 1) # tail, head' = Masked(head + 1), UNCHANGED <<tail, out>>,
           \A p \in Place \ {head} : buf'[p] = buf[p]
    PROVE  /\ Level \in Nat /\ Len(out) \in Nat /\ Level' = Level + 1
           /\ \A i \in 1..Len(out) + Level : Stream'[i] = Stream[i]
           /\ Stream'[Len(out) + Level + 1] = buf'[head]
<1>1. head \in Place /\ tail \in Place /\ Len(out) \in Nat
  BY DEF RxTyped
<1>2. /\ head' = (IF head + 1 < Capacity THEN head + 1 ELSE head + 1 - Capacity)
      /\ head' \in Place /\ head' # tail
  BY <1>1, RxAssumption, PlaceAfter
<1>3. Level = (IF head >= tail THEN head - tail ELSE head - tail + Capacity) /\ Level \in Place
  BY <1>1, Distance DEF Level
<1>4. Level' = (IF head' >= tail THEN head' - tail ELSE head' - tail + Capacity)
  BY <1>1, <1>2, Distance DEF Level
<1>5. Level' = Level + 1 /\ Level \in Nat
  BY <1>1, <1>2, <1>3, <1>4, RxAssumption DEF Place
<1>6. ASSUME NEW k \in 0..Level
      PROVE  /\ Masked(tail + k) \in Place
             /\ k < Level => Masked(tail + k) # head
             /\ k = Level => Masked(tail + k) = head
  <2>0. k \in 0..Capacity
    BY <1>3, RxAssumption DEF Place
  <2>1. /\ Masked(tail + k) = (IF tail + k < Capacity THEN tail + k ELSE tail + k - Capacity)
        /\ Masked(tail + k) \in Place
    BY <1>1, <2>0, PlaceAfter
  <2> QED  BY <2>1, <1>1, <1>3, RxAssumption DEF Place
<1> DEFINE n == Len(out) + Level
<1>7. ASSUME NEW i \in 1..n + 1
      PROVE  Stream'[i] = IF i <= Len(out) THEN out[i] ELSE buf'[Masked(tail + (i - Len(out) - 1))]
  BY <1>1, <1>5 DEF Stream
<1>8. ASSUME NEW i \in 1..n
      PROVE  Stream[i] = IF i <= Len(out) THEN out[i] ELSE buf[Masked(tail + (i - Len(out) - 1))]
  BY <1>1, <1>5 DEF Stream
<1>9. ASSUME NEW i \in 1..n PROVE Stream'[i] = Stream[i]
  <2>1. i \in 1..n + 1
    BY <1>1, <1>5
  <2>2. CASE i <= Len(out)
    BY <1>7, <1>8, <2>1, <2>2
  <2>3. CASE ~(i <= Len(out))
    <3>1. i - Len(out) - 1 \in 0..Level /\ i - Len(out) - 1 < Level
      BY <1>1, <1>5, <2>3
    <3>2. Masked(tail + (i - Len(out) - 1)) \in Place \ {head}
      BY <1>6, <3>1
    <3> QED  BY <1>7, <1>8, <2>1, <2>3, <3>2
  <2> QED  BY <2>2, <2>3
<1>10. Stream'[n + 1] = buf'[head]
  <2>1. n + 1 \in 1..n + 1 /\ ~(n + 1 <= Len(out)) /\ (n + 1) - Len(out) - 1 = Level
        /\ Level \in 0..Level
    BY <1>1, <1>5
  <2> QED  BY <1>6, <1>7, <2>1
<1> QED  BY <1>1, <1>5, <1>9, <1>10

(* Reading moves a byte from the queue to what core 0 has read.            *)
LEMMA StreamRead ==
    ASSUME RxTyped, TryGet
    PROVE  /\ Level' = Level - 1 /\ Level \in Nat /\ Len(out') + Level' = Len(out) + Level
           /\ \A i \in 1..Len(out) + Level : Stream'[i] = Stream[i]
           /\ tail' \in Place
<1>1. /\ head \in Place /\ tail \in Place /\ Len(out) \in Nat /\ out \in Seq(Incoming)
      /\ tail # head /\ UNCHANGED <<head, buf>>
      /\ out' = Append(out, buf[tail]) /\ tail' = Masked(tail + 1)
  BY DEF RxTyped, TryGet
<1>2. /\ tail' = (IF tail + 1 < Capacity THEN tail + 1 ELSE tail + 1 - Capacity)
      /\ tail' \in Place
  BY <1>1, RxAssumption, PlaceAfter
<1>3. Level = (IF head >= tail THEN head - tail ELSE head - tail + Capacity) /\ Level \in Place
  BY <1>1, Distance DEF Level
<1>4. Level' = (IF head >= tail' THEN head - tail' ELSE head - tail' + Capacity)
  BY <1>1, <1>2, Distance DEF Level
<1>5. Level' = Level - 1 /\ Level \in Nat /\ Level > 0
  BY <1>1, <1>2, <1>3, <1>4, RxAssumption DEF Place
<1>6. Len(out') = Len(out) + 1 /\ out'[Len(out) + 1] = buf[tail]
      /\ \A i \in 1..Len(out) : out'[i] = out[i]
  BY <1>1
<1>7. ASSUME NEW k \in 1..Level
      PROVE  Masked(tail' + (k - 1)) = Masked(tail + k)
  <2>0. k \in 0..Capacity
    BY <1>3, RxAssumption DEF Place
  <2>1. Masked(tail + k) = IF tail + k < Capacity THEN tail + k ELSE tail + k - Capacity
    BY <1>1, <2>0, PlaceAfter
  <2>2. k - 1 \in 0..Capacity
    BY <1>5, <2>0, RxAssumption
  <2>3. Masked(tail' + (k - 1))
          = IF tail' + (k - 1) < Capacity THEN tail' + (k - 1) ELSE tail' + (k - 1) - Capacity
    BY <1>2, <2>2, PlaceAfter
  <2>4. k \in Nat /\ k < Capacity /\ tail \in Nat /\ tail < Capacity
    BY <1>1, <1>3, RxAssumption DEF Place
  <2> QED  BY <1>2, <2>1, <2>3, <2>4, RxAssumption
<1>8. Masked(tail + 0) = tail
  BY <1>1, RxAssumption, ReducedLinearly DEF Place
<1> DEFINE n == Len(out) + Level
<1>9. Len(out') + Level' = n
  BY <1>1, <1>5, <1>6
<1>10. ASSUME NEW i \in 1..n PROVE Stream'[i] = Stream[i]
  <2>1. Stream[i] = IF i <= Len(out) THEN out[i] ELSE buf[Masked(tail + (i - Len(out) - 1))]
    BY DEF Stream
  <2>2. Stream'[i]
          = IF i <= Len(out') THEN out'[i] ELSE buf[Masked(tail' + (i - Len(out') - 1))]
    BY <1>1, <1>9 DEF Stream
  <2>3. CASE i <= Len(out)
    <3>1. i <= Len(out') /\ i \in 1..Len(out)
      BY <1>1, <1>6, <2>3
    <3> QED  BY <1>6, <2>1, <2>2, <2>3, <3>1
  <2>4. CASE i = Len(out) + 1
    <3>1. i <= Len(out') /\ ~(i <= Len(out)) /\ i - Len(out) - 1 = 0
      BY <1>1, <1>6, <2>4
    <3> QED  BY <1>6, <1>8, <2>1, <2>2, <2>4, <3>1
  <2>5. CASE i > Len(out) + 1
    <3>1. ~(i <= Len(out')) /\ ~(i <= Len(out))
          /\ i - Len(out) - 1 \in 1..Level
          /\ i - Len(out') - 1 = (i - Len(out) - 1) - 1
      BY <1>1, <1>5, <1>6, <2>5
    <3> QED  BY <1>7, <2>1, <2>2, <3>1
  <2> QED  BY <1>1, <1>5, <2>3, <2>4, <2>5
<1> QED  BY <1>2, <1>5, <1>9, <1>10

(* The place at head is outside what the queue holds.                      *)
LEMMA StreamStored ==
    ASSUME RxTyped, UNCHANGED <<head, tail, out>>,
           \A p \in Place \ {head} : buf'[p] = buf[p]
    PROVE  /\ Level' = Level /\ Level \in Nat
           /\ \A i \in 1..Len(out) + Level : Stream'[i] = Stream[i]
<1>1. head \in Place /\ tail \in Place /\ Len(out) \in Nat
  BY DEF RxTyped
<1>2. Level' = Level
  BY DEF Level
<1>3. Level = (IF head >= tail THEN head - tail ELSE head - tail + Capacity) /\ Level \in Place
      /\ Level \in Nat
  BY <1>1, Distance DEF Level, Place
<1>4. ASSUME NEW k \in 0..Level - 1 PROVE Masked(tail + k) \in Place \ {head}
  <2>0. k \in 0..Capacity
    BY <1>3, RxAssumption DEF Place
  <2>1. /\ Masked(tail + k) = (IF tail + k < Capacity THEN tail + k ELSE tail + k - Capacity)
        /\ Masked(tail + k) \in Place
    BY <1>1, <2>0, PlaceAfter
  <2> QED  BY <2>1, <1>1, <1>3, RxAssumption DEF Place
<1>5. ASSUME NEW i \in 1..Len(out) + Level PROVE Stream'[i] = Stream[i]
  <2>1. Stream[i] = IF i <= Len(out) THEN out[i] ELSE buf[Masked(tail + (i - Len(out) - 1))]
    BY DEF Stream
  <2>2. Stream'[i] = IF i <= Len(out) THEN out[i] ELSE buf'[Masked(tail + (i - Len(out) - 1))]
    BY <1>2 DEF Stream
  <2>3. CASE ~(i <= Len(out))
    <3>1. i - Len(out) - 1 \in 0..Level - 1
      BY <1>1, <1>3, <2>3
    <3> QED  BY <1>4, <2>1, <2>2, <3>1
  <2> QED  BY <2>1, <2>2, <2>3
<1> QED  BY <1>2, <1>3, <1>5

-----------------------------------------------------------------------------
(* What was fed stays fed; the next byte of a source may follow, and a     *)
(* byte of the UART may be missing.                                        *)
LEMMA FedAgain ==
    ASSUME NEW f, NEW g, NEW k \in Nat, NEW up, Fed(f, k, up), \A i \in 1..k : g[i] = f[i]
    PROVE  Fed(g, k, up)
  BY DEF Fed

LEMMA FedMore ==
    ASSUME NEW f, NEW g, NEW k \in Nat, NEW up \in [Source -> Nat], NEW s \in Source,
           Fed(f, k, up), \A i \in 1..k : g[i] = f[i], g[k + 1] = <<s, up[s] + 1>>
    PROVE  Fed(g, k + 1, [up EXCEPT ![s] = @ + 1])
<1> DEFINE v == [up EXCEPT ![s] = @ + 1]
<1>1. /\ v[s] = up[s] + 1
      /\ \A r \in Source : up[r] \in Nat /\ v[r] \in Nat /\ up[r] <= v[r]
      /\ \A r \in Source \ {s} : v[r] = up[r]
  OBVIOUS
<1> HIDE DEF v
<1>2. \A i \in 1..k + 1 : i = k + 1 \/ i \in 1..k
  OBVIOUS
<1>3. ASSUME NEW i \in 1..k
      PROVE  /\ g[i] \in Incoming /\ g[i][1] \in Source /\ g[i][2] \in Nat
             /\ 1 <= g[i][2] /\ g[i][2] <= up[g[i][1]]
  <2>1. f[i] \in Incoming /\ f[i][2] \in 1..up[f[i][1]]
    BY DEF Fed
  <2>2. f[i][1] \in Source /\ f[i][2] \in Nat
    BY <2>1 DEF Incoming
  <2> QED  BY <1>1, <2>1, <2>2
<1>4. g[k + 1] \in Incoming /\ g[k + 1][1] = s /\ g[k + 1][2] = up[s] + 1
  BY <1>1 DEF Incoming
<1>5. ASSUME NEW i \in 1..k + 1 PROVE g[i] \in Incoming /\ g[i][2] \in 1..v[g[i][1]]
  <2>1. CASE i \in 1..k
    <3>1. g[i][1] \in Source /\ up[g[i][1]] <= v[g[i][1]] /\ v[g[i][1]] \in Nat
          /\ up[g[i][1]] \in Nat
      BY <1>1, <1>3, <2>1
    <3> QED  BY <1>3, <2>1, <3>1
  <2>2. CASE i = k + 1
    BY <1>1, <1>4, <2>2
  <2> QED  BY <1>2, <2>1, <2>2
<1>6. ASSUME NEW i \in 1..k + 1, NEW j \in 1..k + 1, i < j, g[i][1] = g[j][1]
      PROVE  g[i][2] < g[j][2]
  <2>1. i \in 1..k
    BY <1>6
  <2>2. CASE j \in 1..k
    BY <1>6, <2>1, <2>2 DEF Fed
  <2>3. CASE j = k + 1
    <3>1. g[i][1] = s /\ g[i][2] \in Nat /\ g[i][2] <= up[s] /\ up[s] \in Nat
      BY <1>1, <1>3, <1>4, <1>6, <2>1, <2>3
    <3> QED  BY <1>4, <2>3, <3>1
  <2> QED  BY <1>2, <2>2, <2>3
<1>7. ASSUME NEW r \in {"usb", "rtt"}, NEW m \in 1..v[r]
      PROVE  \E i \in 1..k + 1 : g[i] = <<r, m>>
  <2>0. r \in Source /\ 1..k \subseteq 1..k + 1 /\ k + 1 \in 1..k + 1
    BY DEF Source
  <2>1. CASE m \in 1..up[r]
    <3>1. PICK i \in 1..k : f[i] = <<r, m>>
      BY <2>1 DEF Fed
    <3> QED  BY <2>0, <3>1
  <2>2. CASE m \notin 1..up[r]
    <3>1. r = s /\ m = up[s] + 1
      <4>1. CASE r = s
        BY <1>1, <2>2, <4>1
      <4>2. CASE r # s
        BY <1>1, <2>0, <2>2, <4>2
      <4> QED  BY <4>1, <4>2
    <3> QED  BY <2>0, <3>1
  <2> QED  BY <2>1, <2>2
<1>8. Fed(g, k + 1, v)
  BY <1>5, <1>6, <1>7 DEF Fed
<1> QED  BY <1>8 DEF v

LEMMA FedLess ==
    ASSUME NEW f, NEW k \in Nat, NEW up \in [Source -> Nat], Fed(f, k, up)
    PROVE  Fed(f, k, [up EXCEPT !["uart"] = @ + 1])
<1> DEFINE v == [up EXCEPT !["uart"] = @ + 1]
<1>1. /\ \A r \in Source : up[r] \in Nat /\ v[r] \in Nat /\ up[r] <= v[r]
      /\ v["usb"] = up["usb"] /\ v["rtt"] = up["rtt"]
  BY DEF Source
<1> HIDE DEF v
<1>2. ASSUME NEW i \in 1..k PROVE f[i] \in Incoming /\ f[i][2] \in 1..v[f[i][1]]
  <2>1. f[i] \in Incoming /\ f[i][2] \in 1..up[f[i][1]]
    BY DEF Fed
  <2>2. f[i][1] \in Source
    BY <2>1 DEF Incoming
  <2>3. up[f[i][1]] \in Nat /\ v[f[i][1]] \in Nat /\ up[f[i][1]] <= v[f[i][1]]
    BY <1>1, <2>2
  <2> QED  BY <2>1, <2>3
<1>3. \A s \in {"usb", "rtt"} : v[s] = up[s]
  BY <1>1
<1>4. Fed(f, k, v)
  BY <1>2, <1>3 DEF Fed
<1> QED  BY <1>4 DEF v

-----------------------------------------------------------------------------
(* How many bytes of each source have been queued, number by number.       *)
LEMMA QueuedIs ==
    LET Numbers ==
          /\ Queued["uart"] = produced["uart"]
          /\ Queued["usb"] = produced["usb"] - held["usb"]
                - ((IF Adding /\ arg[1] = "usb" THEN 1 ELSE 0) + Len(batch))
          /\ Queued["rtt"] = produced["rtt"] - held["rtt"]
                - ((IF Adding /\ arg[1] = "rtt" THEN 1 ELSE 0)
                   + (IF pushback = NoByte THEN 0 ELSE 1))
          /\ Queued = [s \in Source |-> Queued[s]]
    IN  Numbers /\ Numbers'
  BY DEF Queued, InHand, Source, Adding

(* A step that queues nothing changes no number.                           *)
LEMMA SameNumbers ==
    ASSUME RxTyped, \A s \in Source : Queued'[s] = Queued[s]
    PROVE  Queued' = Queued /\ Queued' \in [Source -> Nat]
<1>1. Queued' = [s \in Source |-> Queued'[s]] /\ Queued = [s \in Source |-> Queued[s]]
  BY QueuedIs
<1>2. Queued' = Queued
  BY <1>1
<1> QED  BY <1>2 DEF RxTyped

LEMMA SameStream ==
    ASSUME RxInv, UNCHANGED <<queue, out>>, Queued' = Queued
    PROVE  Fed(Stream, Len(out) + Level, Queued)'
<1>1. Level' = Level /\ Stream' = Stream
  BY DEF queue, Level, Stream
<1> QED  BY <1>1 DEF RxInv, Fed

LEMMA FreeIs ==
    ASSUME RxTyped
    PROVE  /\ Level \in Nat /\ Level <= Capacity - 1 /\ Free = Capacity - 1 - Level /\ Free \in Nat
           /\ Masked(head + 1) = tail <=> Free = 0
           /\ Masked(head + 1) \in Place
<1>1. head \in Place /\ tail \in Place
  BY DEF RxTyped
<1>2. Level = (IF head >= tail THEN head - tail ELSE head - tail + Capacity) /\ Level \in Place
  BY <1>1, Distance DEF Level
<1>3. /\ Masked(head + 1) = (IF head + 1 < Capacity THEN head + 1 ELSE head + 1 - Capacity)
      /\ Masked(head + 1) \in Place
  BY <1>1, RxAssumption, PlaceAfter
<1> QED  BY <1>1, <1>2, <1>3, RxAssumption DEF Free, Place

(* While the loop has something to add, the interrupt does not write.      *)
LEMMA LoopAlone ==
    ASSUME RxInv, OneWriter, pc \notin {"loop", "rtt"}
    PROVE  "uart" \notin inputs
  BY DEF RxInv, UartInv

-----------------------------------------------------------------------------
LEMMA Arrives ==
    ASSUME RxInv, OneWriter, NEW s \in Source, Arrive(s)
    PROVE  RxInv'
<1>1. /\ s \in {"usb", "rtt"} /\ s \in inputs /\ "uart" \notin inputs
      /\ produced' = [produced EXCEPT ![s] = @ + 1] /\ held' = [held EXCEPT ![s] = @ + 1]
      /\ UNCHANGED <<inputs, buf, head, tail, pc, batch, arg, h, pushback, out>>
  BY DEF Arrive, OneWriter, queue, loop
<1>2. RxTyped
  BY DEF RxInv
<1>3. /\ produced' \in [Source -> Nat] /\ held' \in [Source -> Nat]
      /\ \A r \in Source : produced'[r] - held'[r] = produced[r] - held[r]
      /\ produced'["uart"] = produced["uart"]
  <2>1. produced \in [Source -> Nat] /\ held \in [Source -> Nat]
    BY <1>2 DEF RxTyped
  <2>2. produced' \in [Source -> Nat] /\ held' \in [Source -> Nat]
    BY <1>1, <2>1
  <2>3. ASSUME NEW r \in Source PROVE produced'[r] - held'[r] = produced[r] - held[r]
    <3>1. CASE r = s
      BY <1>1, <2>1, <3>1
    <3>2. CASE r # s
      BY <1>1, <2>1, <3>2
    <3> QED  BY <3>1, <3>2
  <2> QED  BY <1>1, <2>1, <2>2, <2>3 DEF Source
<1>4. Len(batch) \in Nat
  BY <1>2 DEF RxTyped
<1>5. Queued' = Queued /\ Queued' \in [Source -> Nat]
  <2>1. Queued'["uart"] = Queued["uart"] /\ Queued'["usb"] = Queued["usb"]
        /\ Queued'["rtt"] = Queued["rtt"]
    BY <1>1, <1>3, QueuedIs DEF Source, Adding
  <2> QED  BY <1>2, <2>1, SameNumbers DEF Source
<1>6. RxTyped'
  <2>1. \A r \in Source : produced[r] <= MaxInput
    BY <1>2 DEF RxTyped
  <2>2. produced \in [Source -> Nat] /\ produced[s] < MaxInput
    BY <1>2 DEF RxTyped, Arrive
  <2>3. \A r \in Source : produced'[r] <= MaxInput
    BY <1>1, <2>1, <2>2, RxAssumption
  <2> QED  BY <1>1, <1>2, <1>3, <1>5, <2>3 DEF RxTyped
<1>7. HandInv'
  <2>1. Free' = Free
    BY <1>1 DEF Free, Level
  <2>2. \A i \in 1..Len(batch) :
           batch[i] = <<"usb", produced'["usb"] - held'["usb"] - Len(batch) + i>>
    BY <1>3 DEF RxInv, HandInv, Source
  <2> QED  BY <1>1, <1>5, <2>1, <2>2 DEF RxInv, HandInv, Adding
<1>8. UartInv'
  BY <1>1 DEF UartInv
<1>9. Fed(Stream, Len(out) + Level, Queued)'
  BY <1>1, <1>5, SameStream DEF queue
<1> QED  BY <1>6, <1>7, <1>8, <1>9 DEF RxInv

LEMMA UsbStarts ==
    ASSUME RxInv, OneWriter, UsbRead
    PROVE  RxInv'
<1> DEFINE k == Batch(held["usb"], Free)  n == produced["usb"] - held["usb"]
<1>1. /\ pc = "loop" /\ k > 0 /\ batch' = Oldest("usb", k) /\ pc' = "usb"
      /\ held' = [held EXCEPT !["usb"] = @ - k]
      /\ UNCHANGED <<inputs, buf, head, tail, produced, arg, h, pushback, out>>
  BY DEF UsbRead, queue
<1>2. RxTyped /\ batch = <<>> /\ ~Adding /\ ~Adding'
  BY <1>1 DEF RxInv, HandInv, Adding
<1>3. /\ held \in [Source -> Nat] /\ produced \in [Source -> Nat]
      /\ held["usb"] \in Nat /\ produced["usb"] \in Nat
  BY <1>2 DEF RxTyped, Source
<1>4. k \in Nat /\ k <= Free /\ k <= held["usb"]
  BY <1>2, <1>3, FreeIs DEF Batch
<1> HIDE DEF k
<1>5. /\ held' \in [Source -> Nat] /\ held'["usb"] = held["usb"] - k
      /\ held'["rtt"] = held["rtt"]
  BY <1>1, <1>3, <1>4 DEF Source
<1>6. /\ batch' \in Seq(Incoming) /\ Len(batch') = k
      /\ \A i \in 1..k : batch'[i] = <<"usb", n + i>>
  <2>1. batch' = [i \in 1..k |-> <<"usb", n + i>>]
    BY <1>1 DEF Oldest
  <2>2. n \in Nat
    <3>1. Queued["usb"] \in Nat /\ Len(batch) = 0
      BY <1>2 DEF RxTyped, Source
    <3>2. Queued["usb"] = n
      BY <1>2, <1>3, <3>1, QueuedIs
    <3> QED  BY <3>1, <3>2
  <2>3. \A i \in 1..k : <<"usb", n + i>> \in Incoming
    BY <1>4, <2>2 DEF Incoming, Source
  <2> QED  BY <1>4, <2>1, <2>3
<1>7. Queued' = Queued /\ Queued' \in [Source -> Nat]
  <2>1. Queued'["uart"] = Queued["uart"] /\ Queued'["rtt"] = Queued["rtt"]
    BY <1>1, <1>2, <1>5, QueuedIs
  <2>2. Queued'["usb"] = Queued["usb"]
    <3>1. Len(batch) = 0
      BY <1>2
    <3> QED  BY <1>1, <1>2, <1>3, <1>4, <1>5, <1>6, <3>1, QueuedIs
  <2> QED  BY <1>2, <2>1, <2>2, SameNumbers DEF Source
<1>8. RxTyped'
  BY <1>1, <1>2, <1>5, <1>6, <1>7 DEF RxTyped
<1>9. HandInv'
  <2>1. Free' = Free
    BY <1>1 DEF Free, Level
  <2>2. \A i \in 1..Len(batch') :
           batch'[i] = <<"usb", produced'["usb"] - held'["usb"] - Len(batch') + i>>
    <3>1. produced'["usb"] - held'["usb"] - Len(batch') = n
      BY <1>1, <1>3, <1>4, <1>5, <1>6
    <3> QED  BY <1>6, <3>1
  <2>3. pushback' # NoByte => pushback' = <<"rtt", Queued'["rtt"] + 1>>
    BY <1>1, <1>7 DEF RxInv, HandInv
  <2>4. Len(batch') <= Free'
    BY <1>4, <1>6, <2>1
  <2> QED  BY <1>1, <1>2, <2>2, <2>3, <2>4 DEF HandInv
<1>10. UartInv'
  <2>1. "uart" \notin inputs
    BY <1>1, <1>3, <1>4 DEF RxInv, UartInv
  <2> QED  BY <1>1, <2>1 DEF UartInv
<1>11. Fed(Stream, Len(out) + Level, Queued)'
  BY <1>1, <1>7, SameStream DEF queue
<1> QED  BY <1>8, <1>9, <1>10, <1>11 DEF RxInv

LEMMA UsbOver ==
    ASSUME RxInv, OneWriter, UsbSkip
    PROVE  RxInv'
<1>1. /\ pc = "loop" /\ pc' = "rtt"
      /\ UNCHANGED <<inputs, buf, head, tail, produced, held, batch, arg, h, pushback, out>>
  BY DEF UsbSkip, queue
<1>2. RxTyped /\ batch = <<>> /\ ~Adding /\ ~Adding'
  BY <1>1 DEF RxInv, HandInv, Adding
<1>3. Queued' = Queued /\ Queued' \in [Source -> Nat]
  <2>1. Queued'["uart"] = Queued["uart"] /\ Queued'["usb"] = Queued["usb"]
        /\ Queued'["rtt"] = Queued["rtt"]
    BY <1>1, <1>2, QueuedIs
  <2> QED  BY <1>2, <2>1, SameNumbers DEF Source
<1>4. RxTyped'
  BY <1>1, <1>2, <1>3 DEF RxTyped
<1>5. HandInv'
  BY <1>1, <1>2, <1>3 DEF RxInv, HandInv
<1>6. UartInv'
  BY <1>1 DEF RxInv, UartInv
<1>7. Fed(Stream, Len(out) + Level, Queued)'
  BY <1>1, <1>3, SameStream DEF queue
<1> QED  BY <1>4, <1>5, <1>6, <1>7 DEF RxInv

LEMMA UsbTakes ==
    ASSUME RxInv, OneWriter, UsbNext
    PROVE  RxInv'
<1>1. /\ pc = "usb" /\ UNCHANGED <<inputs, buf, head, tail, produced, held, h, pushback, out>>
      /\ ~Adding /\ RxTyped /\ "uart" \notin inputs
  BY LoopAlone DEF UsbNext, queue, Adding, RxInv
<1>2. CASE batch = <<>>
  <2>1. pc' = "rtt" /\ UNCHANGED <<batch, arg>> /\ ~Adding'
    BY <1>2 DEF UsbNext, Adding
  <2>2. Queued' = Queued /\ Queued' \in [Source -> Nat]
    <3>1. Queued'["uart"] = Queued["uart"] /\ Queued'["usb"] = Queued["usb"]
          /\ Queued'["rtt"] = Queued["rtt"]
      BY <1>1, <2>1, QueuedIs
    <3> QED  BY <1>1, <3>1, SameNumbers DEF Source
  <2>3. RxTyped'
    BY <1>1, <2>1, <2>2 DEF RxTyped
  <2>4. HandInv'
    BY <1>1, <1>2, <2>1, <2>2 DEF RxInv, HandInv
  <2>5. UartInv'
    BY <1>1 DEF UartInv
  <2>6. Fed(Stream, Len(out) + Level, Queued)'
    BY <1>1, <2>2, SameStream DEF queue
  <2> QED  BY <2>3, <2>4, <2>5, <2>6 DEF RxInv
<1>3. CASE batch # <<>>
  <2>1. pc' = "test" /\ arg' = batch[1] /\ batch' = Tail(batch) /\ Adding'
    BY <1>3 DEF UsbNext, Adding
  <2>2. /\ batch \in Seq(Incoming) /\ Len(batch) \in Nat /\ Len(batch) > 0
        /\ batch' \in Seq(Incoming) /\ Len(batch') = Len(batch) - 1
        /\ \A i \in 1..Len(batch') : batch'[i] = batch[i + 1]
    BY <1>1, <1>3, <2>1, EmptySeq DEF RxTyped
  <2>3. /\ produced["usb"] \in Nat /\ held["usb"] \in Nat
        /\ \A i \in 1..Len(batch) :
             batch[i] = <<"usb", produced["usb"] - held["usb"] - Len(batch) + i>>
    BY <1>1 DEF RxTyped, RxInv, HandInv, Source
  <2>4. /\ Queued["usb"] = produced["usb"] - held["usb"] - Len(batch)
        /\ arg' = <<"usb", Queued["usb"] + 1>> /\ arg'[1] = "usb"
    <3>1. Queued["usb"] = produced["usb"] - held["usb"] - Len(batch)
      BY <1>1, <2>2, <2>3, QueuedIs
    <3>2. batch[1] = <<"usb", produced["usb"] - held["usb"] - Len(batch) + 1>>
      BY <2>2, <2>3
    <3> QED  BY <2>1, <3>1, <3>2
  <2>5. Queued' = Queued /\ Queued' \in [Source -> Nat]
    <3>1. Queued'["uart"] = Queued["uart"] /\ Queued'["rtt"] = Queued["rtt"]
      BY <1>1, <2>1, <2>4, QueuedIs
    <3>2. Queued'["usb"] = Queued["usb"]
      BY <1>1, <2>1, <2>2, <2>3, <2>4, QueuedIs
    <3> QED  BY <1>1, <3>1, <3>2, SameNumbers DEF Source
  <2>6. RxTyped'
    BY <1>1, <2>1, <2>2, <2>5 DEF RxTyped
  <2>7. HandInv'
    <3>1. Free' = Free /\ Len(batch) <= Free
      BY <1>1 DEF Free, Level, RxInv, HandInv
    <3>2. ASSUME NEW i \in 1..Len(batch')
          PROVE  batch'[i] = <<"usb", produced'["usb"] - held'["usb"] - Len(batch') + i>>
      <4>1. i + 1 \in 1..Len(batch) /\ -Len(batch) + (i + 1) = -Len(batch') + i
        BY <2>2
      <4>2. batch'[i] = <<"usb", produced["usb"] - held["usb"] - Len(batch) + (i + 1)>>
        BY <2>2, <2>3, <4>1
      <4>3. produced["usb"] - held["usb"] - Len(batch) + (i + 1)
              = produced'["usb"] - held'["usb"] - Len(batch') + i
        <5>1. produced' = produced /\ held' = held /\ produced["usb"] - held["usb"] \in Int
          BY <1>1, <2>3
        <5>2. Len(batch) \in Nat /\ Len(batch') = Len(batch) - 1 /\ i \in Int
          BY <2>2
        <5> QED  BY <5>1, <5>2
      <4> QED  BY <4>2, <4>3
    <3>3. arg' \in {<<s, Queued'[s] + 1>> : s \in {"usb", "rtt"}}
      BY <2>4, <2>5
    <3>4. pushback' # NoByte => pushback' = <<"rtt", Queued'["rtt"] + 1>>
      BY <1>1, <2>5 DEF RxInv, HandInv
    <3>5. Len(batch') + 1 <= Free'
      BY <2>2, <3>1
    <3> QED  BY <2>1, <2>4, <3>2, <3>3, <3>4, <3>5 DEF HandInv
  <2>8. UartInv'
    BY <1>1 DEF UartInv
  <2>9. Fed(Stream, Len(out) + Level, Queued)'
    BY <1>1, <2>5, SameStream DEF queue
  <2> QED  BY <2>6, <2>7, <2>8, <2>9 DEF RxInv
<1> QED  BY <1>2, <1>3

LEMMA RttTakes ==
    ASSUME RxInv, OneWriter, RttNext
    PROVE  RxInv'
<1>1. /\ pc = "rtt" /\ UNCHANGED <<inputs, buf, head, tail, produced, batch, h, out>>
      /\ ~Adding /\ RxTyped /\ batch = <<>> /\ Len(batch) = 0
  <2>1. batch = <<>>
    BY DEF RttNext, RxInv, HandInv, Adding
  <2> QED  BY <2>1 DEF RttNext, queue, Adding, RxInv
<1>2. /\ produced["rtt"] \in Nat /\ held["rtt"] \in Nat /\ produced["usb"] \in Nat
      /\ held["usb"] \in Nat /\ held \in [Source -> Nat]
  BY <1>1 DEF RxTyped, Source
<1>3. /\ Queued["rtt"] = produced["rtt"] - held["rtt"] - (IF pushback = NoByte THEN 0 ELSE 1)
      /\ Queued["usb"] = produced["usb"] - held["usb"]
      /\ Queued["rtt"] \in Nat /\ Queued["usb"] \in Nat
  <2>1. Queued["rtt"] \in Nat /\ Queued["usb"] \in Nat
    BY <1>1 DEF RxTyped, Source
  <2> QED  BY <1>1, <1>2, <2>1, QueuedIs
<1>4. CASE pushback = NoByte /\ held["rtt"] = 0
  <2>1. pc' = "loop" /\ UNCHANGED <<held, arg, pushback>> /\ ~Adding'
    BY <1>4 DEF RttNext, Adding
  <2>2. Queued' = Queued /\ Queued' \in [Source -> Nat]
    <3>1. Queued'["uart"] = Queued["uart"] /\ Queued'["usb"] = Queued["usb"]
          /\ Queued'["rtt"] = Queued["rtt"]
      BY <1>1, <2>1, QueuedIs
    <3> QED  BY <1>1, <3>1, SameNumbers DEF Source
  <2>3. RxTyped'
    BY <1>1, <2>1, <2>2 DEF RxTyped
  <2>4. HandInv'
    BY <1>1, <1>4, <2>1, <2>2 DEF RxInv, HandInv
  <2>5. UartInv'
    BY <1>1, <2>1 DEF RxInv, UartInv
  <2>6. Fed(Stream, Len(out) + Level, Queued)'
    BY <1>1, <2>2, SameStream DEF queue
  <2> QED  BY <2>3, <2>4, <2>5, <2>6 DEF RxInv
<1>5. CASE pushback # NoByte \/ held["rtt"] > 0
  <2>1. /\ pc' = "test" /\ pushback' = NoByte /\ Adding' /\ arg' = <<"rtt", Queued["rtt"] + 1>>
        /\ held' \in [Source -> Nat] /\ held'["usb"] = held["usb"]
        /\ produced'["rtt"] - held'["rtt"] = Queued["rtt"] + 1
    <3>1. CASE pushback # NoByte
      <4>1. pc' = "test" /\ pushback' = NoByte /\ arg' = pushback /\ held' = held
        BY <3>1 DEF RttNext
      <4>2. pushback = <<"rtt", Queued["rtt"] + 1>>
        BY <3>1 DEF RxInv, HandInv
      <4>3. produced'["rtt"] - held'["rtt"] = Queued["rtt"] + 1
        BY <1>1, <1>2, <1>3, <3>1, <4>1
      <4> QED  BY <1>2, <4>1, <4>2, <4>3 DEF Adding
    <3>2. CASE pushback = NoByte /\ held["rtt"] > 0
      <4>1. /\ pc' = "test" /\ pushback' = NoByte /\ arg' = Oldest("rtt", 1)[1]
            /\ held' = [held EXCEPT !["rtt"] = @ - 1]
        BY <3>2 DEF RttNext
      <4>2. Oldest("rtt", 1)[1] = <<"rtt", produced["rtt"] - held["rtt"] + 1>>
        BY <1>2 DEF Oldest
      <4>3. /\ held'["rtt"] = held["rtt"] - 1 /\ held' \in [Source -> Nat]
            /\ held'["usb"] = held["usb"]
        BY <1>2, <3>2, <4>1 DEF Source
      <4>4. Queued["rtt"] = produced["rtt"] - held["rtt"]
        BY <1>2, <1>3, <3>2
      <4>5. produced'["rtt"] - held'["rtt"] = Queued["rtt"] + 1
        BY <1>1, <1>2, <4>3, <4>4
      <4> QED  BY <4>1, <4>2, <4>3, <4>4, <4>5 DEF Adding
    <3> QED  BY <1>5, <3>1, <3>2
  <2>2. arg'[1] = "rtt"
    BY <2>1
  <2>3. Queued' = Queued /\ Queued' \in [Source -> Nat]
    <3>1. Queued'["uart"] = Queued["uart"] /\ Queued'["usb"] = Queued["usb"]
      BY <1>1, <2>1, <2>2, QueuedIs
    <3>2. Queued'["rtt"] = produced'["rtt"] - held'["rtt"] - (1 + 0)
      BY <2>1, <2>2, QueuedIs
    <3>3. Queued'["rtt"] = Queued["rtt"]
      BY <1>3, <2>1, <3>2
    <3> QED  BY <1>1, <3>1, <3>3, SameNumbers DEF Source
  <2>4. RxTyped'
    BY <1>1, <2>1, <2>3 DEF RxTyped
  <2>5. HandInv'
    <3>1. arg' \in {<<s, Queued'[s] + 1>> : s \in {"usb", "rtt"}}
      BY <2>1, <2>3
    <3> QED  BY <1>1, <2>1, <2>2, <3>1 DEF HandInv
  <2>6. "uart" \notin inputs
    BY <1>2, <1>5 DEF RxInv, UartInv
  <2>7. Fed(Stream, Len(out) + Level, Queued)'
    BY <1>1, <2>3, SameStream DEF queue
  <2> QED  BY <1>1, <2>4, <2>5, <2>6, <2>7 DEF RxInv, UartInv
<1> QED  BY <1>2, <1>4, <1>5

LEMMA FullTested ==
    ASSUME RxInv, OneWriter, TestFull
    PROVE  RxInv'
<1>1. /\ pc = "test" /\ Adding /\ h' = head /\ RxTyped /\ "uart" \notin inputs
      /\ UNCHANGED <<inputs, buf, head, tail, produced, held, batch, arg, out>>
  BY LoopAlone DEF TestFull, queue, Adding, RxInv
<1>2. PICK s \in {"usb", "rtt"} : arg = <<s, Queued[s] + 1>>
  BY <1>1 DEF RxInv, HandInv
<1>3. Free' = Free
  BY <1>1 DEF Free, Level
<1>4. Len(batch) \in Nat /\ Queued["usb"] \in Nat /\ Queued["rtt"] \in Nat
  BY <1>1 DEF RxTyped, Source
<1>5. CASE Masked(head + 1) # tail
  <2>1. pc' = "store" /\ UNCHANGED pushback /\ Adding'
    BY <1>5 DEF TestFull, Adding
  <2>2. Queued' = Queued /\ Queued' \in [Source -> Nat]
    <3>1. Queued'["uart"] = Queued["uart"] /\ Queued'["usb"] = Queued["usb"]
          /\ Queued'["rtt"] = Queued["rtt"]
      BY <1>1, <2>1, QueuedIs
    <3> QED  BY <1>1, <3>1, SameNumbers DEF Source
  <2>3. RxTyped'
    BY <1>1, <2>1, <2>2 DEF RxTyped
  <2>4. HandInv'
    BY <1>1, <1>3, <1>5, <2>1, <2>2 DEF RxInv, HandInv, Masked
  <2>5. Fed(Stream, Len(out) + Level, Queued)'
    BY <1>1, <2>2, SameStream DEF queue
  <2> QED  BY <1>1, <2>3, <2>4, <2>5 DEF RxInv, UartInv
<1>6. CASE Masked(head + 1) = tail
  <2>1. s = "rtt"
    <3>1. Free = 0
      BY <1>1, <1>6, FreeIs
    <3>2. s = "usb" => Len(batch) + 1 <= Free
      BY <1>1, <1>2 DEF RxInv, HandInv
    <3> QED  BY <1>4, <3>1, <3>2
  <2>2. arg[1] = "rtt" /\ arg = <<"rtt", Queued["rtt"] + 1>> /\ arg # NoByte
    BY <1>2, <2>1 DEF NoByte
  <2>3. pc' = "loop" /\ pushback' = arg /\ ~Adding'
    BY <1>6, <2>2 DEF TestFull, AfterFull, Adding
  <2>4. pushback = NoByte /\ batch = <<>>
    BY <1>1, <2>2 DEF RxInv, HandInv
  <2>5. Queued' = Queued /\ Queued' \in [Source -> Nat]
    <3>1. Queued'["uart"] = Queued["uart"] /\ Queued'["usb"] = Queued["usb"]
      BY <1>1, <2>2, <2>3, QueuedIs
    <3>2. Queued'["rtt"] = Queued["rtt"]
      BY <1>1, <2>2, <2>3, <2>4, QueuedIs
    <3> QED  BY <1>1, <3>1, <3>2, SameNumbers DEF Source
  <2>6. RxTyped'
    BY <1>1, <2>3, <2>5 DEF RxTyped
  <2>7. HandInv'
    BY <1>1, <2>2, <2>3, <2>4, <2>5 DEF HandInv
  <2>8. Fed(Stream, Len(out) + Level, Queued)'
    BY <1>1, <2>5, SameStream DEF queue
  <2> QED  BY <1>1, <2>6, <2>7, <2>8 DEF RxInv, UartInv
<1> QED  BY <1>5, <1>6

LEMMA ByteStored ==
    ASSUME RxInv, OneWriter, StoreByte
    PROVE  RxInv'
<1>1. /\ pc = "store" /\ pc' = "publish" /\ Adding /\ Adding' /\ RxTyped /\ "uart" \notin inputs
      /\ buf' = [buf EXCEPT ![h] = arg] /\ h = head /\ Masked(head + 1) # tail
      /\ UNCHANGED <<inputs, head, tail, produced, held, batch, arg, h, pushback, out>>
  BY LoopAlone DEF StoreByte, Adding, RxInv, HandInv
<1>2. PICK s \in {"usb", "rtt"} : arg = <<s, Queued[s] + 1>>
  BY <1>1 DEF RxInv, HandInv
<1>3. /\ buf' \in [Place -> Incoming \cup {NoByte}] /\ buf'[head] = arg
      /\ \A p \in Place \ {head} : buf'[p] = buf[p]
  <2>1. head \in Place /\ buf \in [Place -> Incoming \cup {NoByte}]
    BY <1>1 DEF RxTyped
  <2>2. arg \in Incoming
    BY <1>1, <1>2 DEF Incoming, RxTyped, Source
  <2> QED  BY <1>1, <2>1, <2>2
<1>4. Queued' = Queued /\ Queued' \in [Source -> Nat]
  <2>1. Queued'["uart"] = Queued["uart"] /\ Queued'["usb"] = Queued["usb"]
        /\ Queued'["rtt"] = Queued["rtt"]
    BY <1>1, QueuedIs
  <2> QED  BY <1>1, <2>1, SameNumbers DEF Source
<1>5. RxTyped'
  BY <1>1, <1>3, <1>4 DEF RxTyped
<1>6. HandInv'
  <2>1. Free' = Free
    BY <1>1 DEF Free, Level
  <2> QED  BY <1>1, <1>3, <1>4, <2>1 DEF RxInv, HandInv, Masked
<1>7. Fed(Stream, Len(out) + Level, Queued)'
  <2>1. /\ Level' = Level /\ Level \in Nat /\ Len(out) \in Nat
        /\ \A i \in 1..Len(out) + Level : Stream'[i] = Stream[i]
    BY <1>1, <1>3, StreamStored DEF RxTyped
  <2>2. Len(out) + Level \in Nat
    BY <2>1
  <2>3. Fed(Stream', Len(out) + Level, Queued)
    <3>1. Fed(Stream, Len(out) + Level, Queued)
      BY DEF RxInv
    <3> QED  BY <2>1, <2>2, <3>1, FedAgain
  <2> QED  BY <1>1, <1>4, <2>1, <2>3 DEF Fed
<1> QED  BY <1>1, <1>5, <1>6, <1>7 DEF RxInv, UartInv

LEMMA HeadStored ==
    ASSUME RxInv, OneWriter, StoreHead
    PROVE  RxInv'
<1>1. /\ pc = "publish" /\ pc' = arg[1] /\ Adding /\ RxTyped /\ "uart" \notin inputs
      /\ head' = Masked(head + 1) /\ Masked(head + 1) # tail /\ buf[head] = arg
      /\ UNCHANGED <<inputs, buf, tail, produced, held, batch, arg, h, pushback, out>>
  BY LoopAlone DEF StoreHead, Adding, RxInv, HandInv
<1>2. PICK s \in {"usb", "rtt"} : arg = <<s, Queued[s] + 1>>
  BY <1>1 DEF RxInv, HandInv
<1>3. /\ Queued \in [Source -> Nat] /\ produced \in [Source -> Nat] /\ held \in [Source -> Nat]
      /\ Len(batch) \in Nat /\ s \in Source /\ arg[1] = s /\ ~Adding'
  BY <1>1, <1>2 DEF RxTyped, Source, Adding
<1>4. Queued' = [Queued EXCEPT ![s] = @ + 1]
  <2>0. /\ produced["usb"] - held["usb"] \in Int /\ produced["rtt"] - held["rtt"] \in Int
    BY <1>3 DEF Source
  <2>1. Queued'["uart"] = Queued["uart"]
    BY <1>1, QueuedIs
  <2>2. Queued'["usb"] = IF s = "usb" THEN Queued["usb"] + 1 ELSE Queued["usb"]
    BY <1>1, <1>3, <2>0, QueuedIs
  <2>3. Queued'["rtt"] = IF s = "rtt" THEN Queued["rtt"] + 1 ELSE Queued["rtt"]
    BY <1>1, <1>3, <2>0, QueuedIs
  <2>4. Queued' = [r \in Source |-> Queued'[r]] /\ Queued = [r \in Source |-> Queued[r]]
    BY QueuedIs
  <2> QED  BY <1>2, <1>3, <2>1, <2>2, <2>3, <2>4 DEF Source
<1>5. Queued' \in [Source -> Nat] /\ \A r \in Source \ {s} : Queued'[r] = Queued[r]
  BY <1>3, <1>4
<1>6. RxTyped'
  <2>1. head' \in Place
    BY <1>1, FreeIs
  <2>2. pc' \in {"usb", "rtt"}
    BY <1>1, <1>2, <1>3
  <2> QED  BY <1>1, <1>5, <2>1, <2>2 DEF RxTyped
<1>7. /\ Level \in Nat /\ Len(out) \in Nat /\ Level' = Level + 1
      /\ \A i \in 1..Len(out) + Level : Stream'[i] = Stream[i]
      /\ Stream'[Len(out) + Level + 1] = arg
  <2>1. \A p \in Place \ {head} : buf'[p] = buf[p]
    BY <1>1
  <2>2. buf'[head] = arg
    BY <1>1
  <2> QED  BY <1>1, <2>1, <2>2, StreamGrows
<1>8. HandInv'
  <2>1. Free = Capacity - 1 - Level /\ Free' = Capacity - 1 - Level'
    BY <1>1, FreeIs DEF Free
  <2>2. pushback' # NoByte => s = "usb" /\ pushback' = <<"rtt", Queued'["rtt"] + 1>>
    <3>1. pushback # NoByte => pushback = <<"rtt", Queued["rtt"] + 1>> /\ arg[1] # "rtt"
      BY <1>1 DEF RxInv, HandInv
    <3>2. s = "usb" => Queued'["rtt"] = Queued["rtt"]
      BY <1>5 DEF Source
    <3> QED  BY <1>1, <1>2, <1>3, <3>1, <3>2
  <2>3. pc' = "usb" => Len(batch') <= Free'
    <3>1. arg[1] = "usb" => Len(batch) + 1 <= Free
      BY <1>1 DEF RxInv, HandInv
    <3> QED  BY <1>1, <1>3, <1>7, <2>1, <3>1, RxAssumption
  <2>4. batch' # <<>> => pc' = "usb"
    BY <1>1 DEF RxInv, HandInv
  <2>5. \A i \in 1..Len(batch') :
           batch'[i] = <<"usb", produced'["usb"] - held'["usb"] - Len(batch') + i>>
    BY <1>1 DEF RxInv, HandInv
  <2>6. ~(pc' \in {"store", "publish"})
    BY <1>3 DEF Adding
  <2> QED  BY <1>3, <2>2, <2>3, <2>4, <2>5, <2>6 DEF HandInv
<1>9. Fed(Stream, Len(out) + Level, Queued)'
  <2>1. Len(out) + Level \in Nat /\ Fed(Stream, Len(out) + Level, Queued)
    BY <1>7 DEF RxInv
  <2>2. Fed(Stream', Len(out) + Level + 1, Queued')
    BY <1>2, <1>3, <1>4, <1>7, <2>1, FedMore
  <2>3. Len(out') + Level' = Len(out) + Level + 1
    BY <1>1, <1>7
  <2> QED  BY <2>2, <2>3 DEF Fed
<1> QED  BY <1>1, <1>6, <1>8, <1>9 DEF RxInv, UartInv

LEMMA UartWrites ==
    ASSUME RxInv, OneWriter, UartIrq
    PROVE  RxInv'
<1>1. /\ "uart" \in inputs /\ RxTyped /\ pc \in {"loop", "rtt"} /\ ~Adding /\ ~Adding'
      /\ batch = <<>> /\ pushback = NoByte /\ held["usb"] = 0 /\ held["rtt"] = 0
      /\ produced' = [produced EXCEPT !["uart"] = @ + 1]
      /\ UNCHANGED <<inputs, tail, held, pc, batch, arg, h, pushback, out>>
  BY DEF UartIrq, RxInv, UartInv, Adding, loop
<1>2. /\ Queued \in [Source -> Nat] /\ produced \in [Source -> Nat] /\ "uart" \in Source
      /\ produced' \in [Source -> Nat]
      /\ Queued["uart"] = produced["uart"] /\ produced'["uart"] = produced["uart"] + 1
      /\ produced'["usb"] = produced["usb"] /\ produced'["rtt"] = produced["rtt"]
  <2>1. Queued \in [Source -> Nat] /\ produced \in [Source -> Nat] /\ "uart" \in Source
    BY <1>1 DEF RxTyped, Source
  <2> QED  BY <1>1, <2>1, QueuedIs DEF Source
<1>3. Queued' = [Queued EXCEPT !["uart"] = @ + 1]
  <2>1. Queued'["uart"] = Queued["uart"] + 1
    BY <1>2, QueuedIs
  <2>2. Queued'["usb"] = Queued["usb"] /\ Queued'["rtt"] = Queued["rtt"]
    BY <1>1, <1>2, QueuedIs
  <2>3. Queued' = [r \in Source |-> Queued'[r]] /\ Queued = [r \in Source |-> Queued[r]]
    BY QueuedIs
  <2> QED  BY <1>2, <2>1, <2>2, <2>3 DEF Source
<1>4. Queued' \in [Source -> Nat]
  BY <1>2, <1>3
<1>5. HandInv'
  <2>1. Len(batch') = 0 /\ batch' = <<>> /\ pushback' = NoByte
    BY <1>1
  <2> QED  BY <1>1, <2>1 DEF HandInv
<1>6. UartInv'
  BY <1>1 DEF UartInv
<1>7. head \in Place /\ buf \in [Place -> Incoming \cup {NoByte}]
  BY <1>1 DEF RxTyped
<1>10. \A s \in Source : produced'[s] <= MaxInput
  <2>1. produced["uart"] < MaxInput /\ \A s \in Source : produced[s] <= MaxInput
    BY <1>1 DEF UartIrq, RxTyped
  <2> QED  BY <1>1, <1>2, <2>1, RxAssumption
<1>8. CASE Masked(head + 1) = tail
  <2>1. UNCHANGED <<buf, head>>
    BY <1>8 DEF UartIrq
  <2>2. RxTyped'
    BY <1>1, <1>2, <1>4, <1>10, <2>1 DEF RxTyped
  <2>3. Level' = Level /\ Stream' = Stream /\ Level \in Nat /\ Len(out) + Level \in Nat
    <3>1. Len(out) \in Nat
      BY <1>1 DEF RxTyped
    <3> QED  BY <1>1, <2>1, <3>1, FreeIs DEF Level, Stream
  <2>4. Fed(Stream, Len(out) + Level, Queued)
    BY DEF RxInv
  <2>5. Fed(Stream, Len(out) + Level, Queued')
    BY <1>2, <1>3, <2>3, <2>4, FedLess
  <2>6. Fed(Stream, Len(out) + Level, Queued)'
    BY <1>1, <2>3, <2>5 DEF Fed
  <2> QED  BY <1>5, <1>6, <2>2, <2>6 DEF RxInv
<1>9. CASE Masked(head + 1) # tail
  <2>1. /\ buf' = [buf EXCEPT ![head] = <<"uart", produced["uart"] + 1>>]
        /\ head' = Masked(head + 1)
    BY <1>9 DEF UartIrq
  <2>2. /\ buf' \in [Place -> Incoming \cup {NoByte}]
        /\ buf'[head] = <<"uart", Queued["uart"] + 1>>
        /\ \A p \in Place \ {head} : buf'[p] = buf[p]
    <3>1. <<"uart", produced["uart"] + 1>> \in Incoming
      BY <1>2 DEF Incoming
    <3> QED  BY <1>2, <1>7, <2>1, <3>1
  <2>3. head' \in Place
    BY <1>1, <2>1, FreeIs
  <2>4. RxTyped'
    BY <1>1, <1>2, <1>4, <1>10, <2>2, <2>3 DEF RxTyped
  <2>5. /\ Level \in Nat /\ Len(out) \in Nat /\ Level' = Level + 1
        /\ \A i \in 1..Len(out) + Level : Stream'[i] = Stream[i]
        /\ Stream'[Len(out) + Level + 1] = <<"uart", Queued["uart"] + 1>>
    BY <1>1, <1>9, <2>1, <2>2, StreamGrows
  <2>6. Len(out) + Level \in Nat /\ Fed(Stream, Len(out) + Level, Queued)
    BY <2>5 DEF RxInv
  <2>7. Fed(Stream', Len(out) + Level + 1, Queued')
    BY <1>2, <1>3, <2>5, <2>6, FedMore
  <2>8. Len(out') + Level' = Len(out) + Level + 1
    BY <1>1, <2>5
  <2>9. Fed(Stream, Len(out) + Level, Queued)'
    BY <2>7, <2>8 DEF Fed
  <2> QED  BY <1>5, <1>6, <2>4, <2>9 DEF RxInv
<1> QED  BY <1>8, <1>9

LEMMA ByteRead ==
    ASSUME RxInv, OneWriter, TryGet
    PROVE  RxInv'
<1>1. /\ RxTyped /\ tail # head /\ out' = Append(out, buf[tail])
      /\ UNCHANGED <<inputs, buf, head, produced, held, pc, batch, arg, h, pushback>>
  BY DEF TryGet, RxInv, loop
<1>2. /\ Level' = Level - 1 /\ Level \in Nat /\ Len(out') + Level' = Len(out) + Level
      /\ \A i \in 1..Len(out) + Level : Stream'[i] = Stream[i]
      /\ tail' \in Place
  BY <1>1, StreamRead
<1>3. Queued' = Queued /\ Queued' \in [Source -> Nat]
  <2>1. Queued'["uart"] = Queued["uart"] /\ Queued'["usb"] = Queued["usb"]
        /\ Queued'["rtt"] = Queued["rtt"]
    BY <1>1, QueuedIs DEF Adding
  <2> QED  BY <1>1, <2>1, SameNumbers DEF Source
<1>4. Len(out) \in Nat /\ Level > 0 /\ Len(out) + Level \in Nat
  <2>1. /\ Len(out) \in Nat /\ head \in Place /\ tail \in Place
    BY <1>1 DEF RxTyped
  <2>2. Level = IF head >= tail THEN head - tail ELSE head - tail + Capacity
    BY <2>1, Distance DEF Level
  <2> QED  BY <1>1, <1>2, <2>1, <2>2, RxAssumption DEF Place
<1>5. buf[tail] \in Incoming
  <2>1. buf[tail] = Stream[Len(out) + 1]
    <3>1. Masked(tail + 0) = tail
      BY <1>1, RxAssumption, ReducedLinearly DEF Place, RxTyped
    <3>2. Len(out) + 1 \in 1..Len(out) + Level /\ ~(Len(out) + 1 <= Len(out))
          /\ Len(out) + 1 - Len(out) - 1 = 0
      BY <1>2, <1>4
    <3> QED  BY <3>1, <3>2 DEF Stream
  <2>2. Len(out) + 1 \in 1..Len(out) + Level
    BY <1>2, <1>4
  <2> QED  BY <2>1, <2>2 DEF RxInv, Fed
<1>6. RxTyped'
  <2>1. out' \in Seq(Incoming)
    BY <1>1, <1>5 DEF RxTyped
  <2> QED  BY <1>1, <1>2, <1>3, <2>1 DEF RxTyped
<1>7. HandInv'
  <2>1. Free' = Free + 1 /\ Free \in Nat /\ Free' # 0
    <3>1. Free = Capacity - 1 - Level /\ Free \in Nat
      BY <1>1, FreeIs
    <3>2. Free' = Capacity - 1 - Level'
      BY DEF Free
    <3> QED  BY <1>2, <3>1, <3>2, RxAssumption
  <2>2. pc \in {"store", "publish"} => Masked(head + 1) # tail'
    <3>1. head \in Place /\ tail' \in Place /\ head' = head
      BY <1>1, <1>2 DEF RxTyped
    <3>2. Level < Capacity /\ Level' = Level - 1 /\ Level \in Nat
      BY <1>1, <1>2, FreeIs, RxAssumption
    <3>3. Masked(head - tail' + Capacity) < Capacity - 1
      BY <3>1, <3>2, RxAssumption DEF Level
    <3> QED  BY <3>1, <3>3, RoomAfter
  <2>3. Len(batch) \in Nat
    BY <1>1 DEF RxTyped
  <2> QED  BY <1>1, <1>3, <2>1, <2>2, <2>3 DEF RxInv, HandInv, Adding, Masked
<1>8. UartInv'
  BY <1>1 DEF RxInv, UartInv
<1>9. Fed(Stream, Len(out) + Level, Queued)'
  <2>1. Fed(Stream, Len(out) + Level, Queued)
    BY DEF RxInv
  <2>2. Fed(Stream', Len(out) + Level, Queued)
    BY <1>2, <1>4, <2>1, FedAgain
  <2> QED  BY <1>2, <1>3, <2>2 DEF Fed
<1> QED  BY <1>6, <1>7, <1>8, <1>9 DEF RxInv

-----------------------------------------------------------------------------
LEMMA RxSteps == RxInv /\ OneWriter /\ [RxNext]_rxVars => RxInv' /\ OneWriter'
<1> SUFFICES ASSUME RxInv, OneWriter, [RxNext]_rxVars
             PROVE  RxInv' /\ OneWriter'
  OBVIOUS
<1>1. OneWriter'
  BY DEF OneWriter, RxNext, rxVars, Arrive, Core1, UsbRead, UsbSkip, UsbNext, RttNext, TestFull,
         StoreByte, StoreHead, UartIrq, TryGet
<1>2. CASE \E s \in Source : Arrive(s)
  BY <1>1, <1>2, Arrives
<1>3. CASE UsbRead \/ UsbSkip \/ UsbNext
  BY <1>1, <1>3, UsbStarts, UsbOver, UsbTakes
<1>4. CASE RttNext
  BY <1>1, <1>4, RttTakes
<1>5. CASE TestFull \/ StoreByte \/ StoreHead
  BY <1>1, <1>5, FullTested, ByteStored, HeadStored
<1>6. CASE UartIrq
  BY <1>1, <1>6, UartWrites
<1>7. CASE TryGet
  BY <1>1, <1>7, ByteRead
<1>8. CASE UNCHANGED rxVars
  <2>1. UNCHANGED <<inputs, buf, head, tail, produced, held, pc, batch, arg, h, pushback, out>>
    BY <1>8 DEF rxVars, queue, loop
  <2>2. Queued' = Queued /\ Level' = Level /\ Stream' = Stream /\ Free' = Free
    BY <2>1 DEF Queued, InHand, Adding, Level, Stream, Free
  <2> QED  BY <1>1, <2>1, <2>2 DEF RxInv, RxTyped, HandInv, UartInv, Adding, Fed, Masked
<1> QED  BY <1>2, <1>3, <1>4, <1>5, <1>6, <1>7, <1>8 DEF RxNext, Core1

LEMMA RxInitially == RxInit => RxInv
<1> SUFFICES ASSUME RxInit PROVE RxInv
  OBVIOUS
<1>1. /\ inputs \subseteq Source
      /\ buf = [i \in Place |-> NoByte] /\ head = 0 /\ tail = 0
      /\ produced = [s \in Source |-> 0] /\ held = [s \in Source |-> 0]
      /\ pc = "loop" /\ batch = <<>> /\ pushback = NoByte /\ out = <<>>
  BY RxAssumption DEF RxInit, Source, Place
<1>2. ~Adding /\ Len(batch) = 0 /\ Len(out) = 0
  BY <1>1 DEF Adding
<1>3. Queued = [s \in Source |-> 0]
  <2>1. Queued["uart"] = 0 /\ Queued["usb"] = 0 /\ Queued["rtt"] = 0
    BY <1>1, <1>2, QueuedIs DEF Source
  <2>2. Queued = [s \in Source |-> Queued[s]]
    BY QueuedIs
  <2> QED  BY <2>1, <2>2 DEF Source
<1>4. 0 \in Place
  BY RxAssumption DEF Place
<1>5. Level = 0
  BY <1>1, RxAssumption, ReducedLinearly DEF Level
<1>6. RxTyped
  <2>1. out \in Seq(Incoming) /\ batch \in Seq(Incoming)
    BY <1>1
  <2>2. Queued \in [Source -> Nat] /\ produced \in [Source -> Nat] /\ held \in [Source -> Nat]
    BY <1>1, <1>3
  <2>3. buf \in [Place -> Incoming \cup {NoByte}]
    BY <1>1
  <2>4. \A s \in Source : produced[s] <= MaxInput
    BY <1>1, RxAssumption
  <2> QED  BY <1>1, <1>4, <2>1, <2>2, <2>3, <2>4 DEF RxTyped
<1>7. HandInv
  BY <1>1, <1>2 DEF HandInv
<1>8. UartInv
  BY <1>1 DEF UartInv, Source
<1>9. Fed(Stream, Len(out) + Level, Queued)
  BY <1>2, <1>3, <1>5 DEF Fed, Source
<1> QED  BY <1>6, <1>7, <1>8, <1>9 DEF RxInv

LEMMA RxInductive == RxSpec => [](OneWriter => RxInv)
<1>1. RxInit => (OneWriter => RxInv)
  BY RxInitially
<1>2. (OneWriter => RxInv) /\ [RxNext]_rxVars => (OneWriter => RxInv)'
  <2> SUFFICES ASSUME OneWriter => RxInv, [RxNext]_rxVars, OneWriter' PROVE RxInv'
    OBVIOUS
  <2>1. inputs' = inputs
    BY DEF RxNext, rxVars, Arrive, Core1, UsbRead, UsbSkip, UsbNext, RttNext, TestFull,
           StoreByte, StoreHead, UartIrq, TryGet
  <2>2. OneWriter
    BY <2>1 DEF OneWriter
  <2> QED  BY <2>2, RxSteps
<1> QED  BY <1>1, <1>2, PTL DEF RxSpec

-----------------------------------------------------------------------------
(* What core 0 has read is the beginning of the stream.                    *)
LEMMA ReadOfStream ==
    ASSUME RxInv
    PROVE  /\ Len(out) \in Nat /\ Level \in Nat
           /\ \A i \in 1..Len(out) : i \in 1..Len(out) + Level /\ Stream[i] = out[i]
           /\ Fed(Stream, Len(out) + Level, Queued)
<1>1. Len(out) \in Nat /\ Level \in Nat
  <2>1. RxTyped
    BY DEF RxInv
  <2> QED  BY <2>1, FreeIs DEF RxTyped
<1>2. \A i \in 1..Len(out) : i \in 1..Len(out) + Level /\ i <= Len(out)
  BY <1>1
<1> QED  BY <1>1, <1>2 DEF Stream, RxInv

LEMMA InOrder ==
    ASSUME RxInv, NEW s \in Source
    PROVE  Ordered(s)
<1> SUFFICES ASSUME NEW i \in 1..Len(out), NEW j \in 1..Len(out), i < j,
                    out[i][1] = s, out[j][1] = s
             PROVE  out[i][2] < out[j][2]
  BY DEF Ordered
<1> QED  BY ReadOfStream DEF Fed

(* With one writer - the interrupt alone, or the main loop of core 1 - no  *)
(* byte of the host or of the debug probe is read before all that came     *)
(* before it, and of every source, the UART too, core 0 reads each byte    *)
(* once at most and in the order in which they came.                       *)
THEOREM InputIsComplete == RxSpec => [](OneWriter => CompleteInput)
<1>1. ASSUME RxInv, NEW s \in {"usb", "rtt"}, NEW i \in 1..Len(out), out[i][1] = s,
             NEW n \in 1..out[i][2]
      PROVE  \E j \in 1..i : out[j] = <<s, n>>
  <2>1. /\ Len(out) \in Nat /\ Level \in Nat /\ i \in 1..Len(out) + Level /\ Stream[i] = out[i]
        /\ Fed(Stream, Len(out) + Level, Queued)
    BY <1>1, ReadOfStream
  <2>2. out[i][2] \in 1..Queued[s] /\ Queued[s] \in Nat
    BY <1>1, <2>1 DEF Fed, RxInv, RxTyped, Source
  <2>3. n \in 1..Queued[s]
    BY <2>2
  <2>4. PICK j \in 1..Len(out) + Level : Stream[j] = <<s, n>>
    BY <2>1, <2>3 DEF Fed
  <2>5. ~(i < j)
    <3>1. i < j => Stream[i][2] < Stream[j][2]
      BY <1>1, <2>1, <2>4 DEF Fed
    <3> QED  BY <2>1, <2>2, <2>4, <3>1
  <2>6. j \in 1..i /\ j \in 1..Len(out)
    BY <2>1, <2>5
  <2> QED  BY <1>1, <2>4, <2>6, ReadOfStream
<1>2. ASSUME RxInv PROVE CompleteInput
  <2>1. \A s \in Source : Ordered(s)
    BY <1>2, InOrder
  <2> QED  BY <1>1, <1>2, <2>1 DEF CompleteInput
<1>3. (OneWriter => RxInv) => (OneWriter => CompleteInput)
  BY <1>2
<1> QED  BY <1>3, RxInductive, PTL

(* With one writer nothing that core 1 took from its drivers is lost: what *)
(* the run of the loop together with the interrupt refutes.                *)
THEOREM OneWriterLosesNothing == RxSpec => [](OneWriter => NothingLost)
<1>1. ASSUME RxInv PROVE NothingLost
  <2> SUFFICES ASSUME pc = "loop", pushback = NoByte, head = tail, NEW s \in {"usb", "rtt"},
                      NEW n \in 1..produced[s] - held[s]
               PROVE  \E i \in 1..Len(out) : out[i] = <<s, n>>
    BY DEF NothingLost
  <2>1. RxTyped /\ ~Adding /\ batch = <<>> /\ Len(batch) = 0
    BY <1>1 DEF RxInv, HandInv, Adding
  <2>2. produced[s] \in Nat /\ held[s] \in Nat
    BY <2>1 DEF RxTyped, Source
  <2>3. Queued[s] = produced[s] - held[s]
    BY <2>1, <2>2, QueuedIs
  <2>4. Level = 0
    <3>1. head \in Place /\ tail \in Place
      BY <2>1 DEF RxTyped
    <3> QED  BY <3>1, Distance, RxAssumption DEF Level, Place
  <2>5. PICK i \in 1..Len(out) + Level : Stream[i] = <<s, n>>
    BY <1>1, <2>3, ReadOfStream DEF Fed
  <2>6. i \in 1..Len(out)
    BY <1>1, <2>4, <2>5, ReadOfStream
  <2> QED  BY <1>1, <2>5, <2>6, ReadOfStream
<1>2. (OneWriter => RxInv) => (OneWriter => NothingLost)
  BY <1>1
<1> QED  BY <1>2, RxInductive, PTL

(* With one writer tud_cdc_rx_task never finds the queue full: it read no  *)
(* more from USB than the queue has room for, so core 1 does not stop at   *)
(* its assert_error().                                                     *)
THEOREM BatchFits == RxSpec => [](OneWriter => pc # "assert_error")
<1>1. (OneWriter => RxInv) => (OneWriter => pc # "assert_error")
  BY DEF RxInv, RxTyped
<1> QED  BY <1>1, RxInductive, PTL

-----------------------------------------------------------------------------
(* The queue as ByteFifo: the end of the stream that core 0 has not read.  *)
QueueIsEnd ==
    /\ Level \in Nat /\ Len(out) \in Nat /\ Level <= Capacity - 1
    /\ InQueue \in Seq(Incoming) /\ Len(InQueue) = Level
    /\ \A i \in 1..Level : InQueue[i] = Stream[Len(out) + i]

LEMMA QueueTyped == RxInv => QueueIsEnd
<1> SUFFICES ASSUME RxInv PROVE QueueIsEnd
  OBVIOUS
<1>1. RxTyped /\ Level \in Nat /\ Len(out) \in Nat /\ Level <= Capacity - 1
  <2>1. RxTyped
    BY DEF RxInv
  <2> QED  BY <2>1, FreeIs DEF RxTyped
<1>2. ASSUME NEW i \in 1..Level
      PROVE  buf[Masked(tail + (i - 1))] = Stream[Len(out) + i] /\ Stream[Len(out) + i] \in Incoming
  <2>1. /\ Len(out) + i \in 1..Len(out) + Level /\ ~(Len(out) + i <= Len(out))
        /\ (Len(out) + i) - Len(out) - 1 = i - 1
    BY <1>1
  <2>2. Stream[Len(out) + i] = buf[Masked(tail + (i - 1))]
    BY <2>1 DEF Stream
  <2>3. Stream[Len(out) + i] \in Incoming
    BY <2>1 DEF RxInv, Fed
  <2> QED  BY <2>2, <2>3
<1>3. InQueue \in Seq(Incoming) /\ Len(InQueue) = Level
  BY <1>1, <1>2 DEF InQueue
<1>4. \A i \in 1..Level : InQueue[i] = Stream[Len(out) + i]
  BY <1>2 DEF InQueue
<1> QED  BY <1>1, <1>3, <1>4 DEF QueueIsEnd

LEMMA QueueTypedNext == RxInv' => QueueIsEnd'
  BY QueueTyped, PTL

(* A stream that has grown by a byte is a queue to which it was added.     *)
LEMMA GrowsIsAdd ==
    ASSUME QueueIsEnd, QueueIsEnd', NEW d \in Source \X (1..MaxInput),
           out' = out, Level' = Level + 1,
           \A i \in 1..Len(out) + Level : Stream'[i] = Stream[i],
           Stream'[Len(out) + Level + 1] = d
    PROVE  RxFifo!Add(d)
<1>1. Level \in Nat /\ Len(out) \in Nat /\ Level < Capacity - 1
  BY RxAssumption DEF QueueIsEnd
<1>2. /\ InQueue \in Seq(Incoming) /\ InQueue' \in Seq(Incoming)
      /\ Len(InQueue) = Level /\ Len(InQueue') = Level + 1
      /\ \A i \in 1..Level : InQueue[i] = Stream[Len(out) + i]
      /\ \A i \in 1..Level + 1 : InQueue'[i] = Stream'[Len(out) + i]
  BY DEF QueueIsEnd
<1>3. d \in Incoming
  BY RxAssumption DEF Incoming
<1>4. /\ Append(InQueue, d) \in Seq(Incoming) /\ Len(Append(InQueue, d)) = Level + 1
      /\ \A i \in 1..Level : Append(InQueue, d)[i] = InQueue[i]
      /\ Append(InQueue, d)[Level + 1] = d
  BY <1>2, <1>3
<1>5. ASSUME NEW i \in 1..Level + 1 PROVE InQueue'[i] = Append(InQueue, d)[i]
  <2>1. CASE i \in 1..Level
    <3>1. Len(out) + i \in 1..Len(out) + Level
      BY <1>1, <2>1
    <3> QED  BY <1>2, <1>4, <1>5, <2>1, <3>1
  <2>2. CASE i = Level + 1
    <3>1. Len(out) + i = Len(out) + Level + 1
      BY <1>1, <2>2
    <3> QED  BY <1>2, <1>4, <1>5, <2>2, <3>1
  <2>3. i \in 1..Level \/ i = Level + 1
    BY <1>1
  <2> QED  BY <2>1, <2>2, <2>3, Zenon
<1>6. InQueue' = Append(InQueue, d)
  BY <1>2, <1>4, <1>5, SeqEqual
<1> QED  BY <1>1, <1>2, <1>6 DEF RxFifo!Add, LastRead

LEMMA ReadIsTake ==
    ASSUME RxInv, QueueIsEnd, QueueIsEnd', TryGet
    PROVE  RxFifo!Remove
<1>1. RxTyped /\ out \in Seq(Incoming) /\ tail # head /\ out' = Append(out, buf[tail])
      /\ head \in Place /\ tail \in Place
  BY DEF RxInv, RxTyped, TryGet
<1>2. /\ Level' = Level - 1 /\ Level \in Nat /\ Len(out) \in Nat
      /\ \A i \in 1..Len(out) + Level : Stream'[i] = Stream[i]
  BY <1>1, StreamRead DEF QueueIsEnd
<1>3. Level > 0
  <2>1. Level = IF head >= tail THEN head - tail ELSE head - tail + Capacity
    BY <1>1, Distance DEF Level
  <2> QED  BY <1>1, <2>1, RxAssumption DEF Place
<1>4. Len(out') = Len(out) + 1 /\ out'[Len(out')] = buf[tail] /\ out' # <<>>
  BY <1>1, <1>2
<1>5. /\ InQueue \in Seq(Incoming) /\ InQueue' \in Seq(Incoming)
      /\ Len(InQueue) = Level /\ Len(InQueue') = Level - 1
      /\ \A i \in 1..Level : InQueue[i] = Stream[Len(out) + i]
      /\ \A i \in 1..Level - 1 : InQueue'[i] = Stream'[Len(out') + i]
  BY <1>2 DEF QueueIsEnd
<1>6. InQueue # <<>> /\ Head(InQueue) = InQueue[1] /\ InQueue[1] = buf[tail]
  <2>1. Masked(tail + 0) = tail
    BY <1>1, RxAssumption, ReducedLinearly DEF Place
  <2>2. 1 \in 1..Level /\ 1 - 1 = 0
    BY <1>2, <1>3
  <2>3. InQueue[1] = buf[tail]
    BY <2>1, <2>2 DEF InQueue
  <2> QED  BY <1>2, <1>3, <1>5, <2>3
<1>7. /\ Tail(InQueue) \in Seq(Incoming) /\ Len(Tail(InQueue)) = Level - 1
      /\ \A i \in 1..Level - 1 : Tail(InQueue)[i] = InQueue[i + 1]
  BY <1>2, <1>3, <1>5, <1>6
<1>8. ASSUME NEW i \in 1..Level - 1 PROVE InQueue'[i] = Tail(InQueue)[i]
  <2>1. /\ i + 1 \in 1..Level /\ Len(out') + i = Len(out) + (i + 1)
        /\ Len(out) + (i + 1) \in 1..Len(out) + Level
    BY <1>2, <1>4
  <2>2. InQueue'[i] = Stream'[Len(out) + (i + 1)]
    BY <1>5, <2>1, Zenon
  <2>3. Stream'[Len(out) + (i + 1)] = Stream[Len(out) + (i + 1)]
    BY <1>2, <2>1, Zenon
  <2>4. Tail(InQueue)[i] = Stream[Len(out) + (i + 1)]
    BY <1>5, <1>7, <2>1, Zenon
  <2> QED  BY <2>2, <2>3, <2>4, Zenon
<1>9. InQueue' = Tail(InQueue)
  BY <1>5, <1>7, <1>8, SeqEqual
<1>10. LastRead' = Head(InQueue)
  BY <1>4, <1>6 DEF LastRead
<1> QED  BY <1>6, <1>9, <1>10 DEF RxFifo!Remove

(* The bytes in hand have numbers that their source has reached.           *)
LEMMA HandIsSent ==
    ASSUME RxInv, Adding
    PROVE  arg \in Source \X (1..MaxInput)
<1>1. PICK s \in {"usb", "rtt"} : arg = <<s, Queued[s] + 1>>
  BY DEF RxInv, HandInv
<1>2. RxTyped /\ s \in Source /\ arg[1] = s
  BY <1>1 DEF RxInv, Source
<1>3. /\ produced[s] \in Nat /\ held[s] \in Nat /\ Queued[s] \in Nat /\ produced[s] <= MaxInput
      /\ Len(batch) \in Nat
  BY <1>2 DEF RxTyped
<1>4. Queued[s] + 1 <= produced[s]
  <2>1. CASE s = "usb"
    BY <1>2, <1>3, <2>1, QueuedIs
  <2>2. CASE s = "rtt"
    BY <1>2, <1>3, <2>2, QueuedIs
  <2> QED  BY <1>1, <2>1, <2>2
<1> QED  BY <1>1, <1>2, <1>3, <1>4, RxAssumption

LEMMA RxStepsRefine ==
    RxInv /\ RxInv' /\ OneWriter /\ [RxNext]_rxVars => [AddOrTake]_(RxFifo!vars)
<1> SUFFICES ASSUME RxInv, RxInv', OneWriter, [RxNext]_rxVars
             PROVE  [AddOrTake]_(RxFifo!vars)
  OBVIOUS
<1>1. QueueIsEnd /\ QueueIsEnd' /\ RxTyped
  BY QueueTyped, QueueTypedNext DEF RxInv
<1>2. CASE UNCHANGED <<queue, out>>
  <2>1. InQueue' = InQueue /\ LastRead' = LastRead
    BY <1>2 DEF queue, InQueue, Level, LastRead
  <2> QED  BY <2>1 DEF RxFifo!vars
<1>3. CASE \/ \E s \in Source : Arrive(s)
           \/ UsbRead \/ UsbSkip \/ UsbNext \/ RttNext \/ TestFull \/ UNCHANGED rxVars
  BY <1>2, <1>3 DEF Arrive, UsbRead, UsbSkip, UsbNext, RttNext, TestFull, rxVars
<1>4. CASE StoreByte
  <2>1. /\ UNCHANGED <<head, tail, out>> /\ h = head /\ head \in Place
        /\ \A p \in Place \ {head} : buf'[p] = buf[p]
    BY <1>1, <1>4 DEF StoreByte, RxInv, HandInv, RxTyped
  <2>2. /\ Level' = Level /\ Level \in Nat /\ Len(out) \in Nat
        /\ \A i \in 1..Len(out) + Level : Stream'[i] = Stream[i]
    BY <1>1, <2>1, StreamStored DEF QueueIsEnd
  <2>3. /\ InQueue \in Seq(Incoming) /\ InQueue' \in Seq(Incoming)
        /\ Len(InQueue) = Level /\ Len(InQueue') = Level
        /\ \A i \in 1..Level : InQueue[i] = Stream[Len(out) + i]
        /\ \A i \in 1..Level : InQueue'[i] = Stream'[Len(out) + i]
    BY <1>1, <2>1, <2>2 DEF QueueIsEnd
  <2>4. \A i \in 1..Level : InQueue'[i] = InQueue[i]
    <3>1. \A i \in 1..Level : Len(out) + i \in 1..Len(out) + Level
      BY <2>2
    <3> QED  BY <2>2, <2>3, <3>1
  <2>5. InQueue' = InQueue
    BY <2>3, <2>4, SeqEqual
  <2>6. LastRead' = LastRead
    BY <2>1 DEF LastRead
  <2> QED  BY <2>5, <2>6 DEF RxFifo!vars
<1>5. CASE StoreHead
  <2>1. /\ Masked(head + 1) # tail /\ head' = Masked(head + 1) /\ buf' = buf
        /\ UNCHANGED <<tail, out>> /\ buf'[head] = arg /\ Adding
    BY <1>5 DEF StoreHead, RxInv, HandInv, Adding
  <2>2. /\ Level' = Level + 1 /\ \A i \in 1..Len(out) + Level : Stream'[i] = Stream[i]
        /\ Stream'[Len(out) + Level + 1] = arg
    BY <1>1, <2>1, StreamGrows
  <2>3. arg \in Source \X (1..MaxInput)
    BY <2>1, HandIsSent
  <2>4. RxFifo!Add(arg)
    BY <1>1, <2>1, <2>2, <2>3, GrowsIsAdd
  <2> QED  BY <2>3, <2>4 DEF AddOrTake
<1>6. CASE UartIrq
  <2>1. CASE Masked(head + 1) = tail
    BY <1>2, <1>6, <2>1 DEF UartIrq, queue
  <2>2. CASE Masked(head + 1) # tail
    <3> DEFINE d == <<"uart", produced["uart"] + 1>>
    <3>1. /\ head' = Masked(head + 1) /\ buf' = [buf EXCEPT ![head] = d]
          /\ UNCHANGED <<tail, out>> /\ produced["uart"] < MaxInput
      BY <1>6, <2>2 DEF UartIrq
    <3>2. d \in Source \X (1..MaxInput)
      BY <1>1, <3>1, RxAssumption DEF RxTyped, Source
    <3>3. buf'[head] = d /\ \A p \in Place \ {head} : buf'[p] = buf[p]
      BY <1>1, <3>1 DEF RxTyped
    <3> HIDE DEF d
    <3>4. /\ Level' = Level + 1 /\ \A i \in 1..Len(out) + Level : Stream'[i] = Stream[i]
          /\ Stream'[Len(out) + Level + 1] = d
      BY <1>1, <2>2, <3>1, <3>3, StreamGrows
    <3>5. RxFifo!Add(d)
      BY <1>1, <3>1, <3>2, <3>4, GrowsIsAdd
    <3> QED  BY <3>2, <3>5 DEF AddOrTake
  <2> QED  BY <2>1, <2>2
<1>7. CASE TryGet
  BY <1>1, <1>7, ReadIsTake DEF AddOrTake
<1> QED  BY <1>3, <1>4, <1>5, <1>6, <1>7 DEF RxNext, Core1

(* With one writer rx_fifo is, for whoever fills it and for core 0, the    *)
(* bounded queue that spsc_queue.h promises.                               *)
THEOREM OneWriterMakesFifo == OneWriter /\ RxSpec => RxFifoSpec
<1>1. RxInit => RxFifo!Init
  <2> SUFFICES ASSUME RxInit PROVE RxFifo!Init
    OBVIOUS
  <2>1. QueueIsEnd
    BY RxInitially, QueueTyped
  <2>2. Level = 0
    <3>1. Masked(Capacity) = 0
      BY RxAssumption, ReducedLinearly
    <3> QED  BY <3>1, RxAssumption DEF RxInit, Level
  <2>3. InQueue = <<>>
    BY <2>1, <2>2, EmptySeq DEF QueueIsEnd
  <2>4. LastRead = NoByte
    BY DEF RxInit, LastRead
  <2> QED  BY <2>3, <2>4 DEF RxFifo!Init
<1>2. OneWriter /\ RxInit => RxInv
  BY RxInitially
<1>3. RxInv /\ OneWriter /\ [RxNext]_rxVars => RxInv' /\ OneWriter'
  BY RxSteps
<1>4. RxInv /\ RxInv' /\ OneWriter /\ [RxNext]_rxVars => [AddOrTake]_(RxFifo!vars)
  BY RxStepsRefine
<1> QED  BY <1>1, <1>2, <1>3, <1>4, PTL DEF RxSpec, RxFifoSpec

=============================================================================
