-------------------------- MODULE SpscQueue_proofs --------------------------
(***************************************************************************)
(* Proofs about SpscQueue for every capacity and every set of bytes: its   *)
(* type invariant, the three safety invariants, and that it implements     *)
(* ByteFifo.                                                               *)
(*                                                                         *)
(* All index arithmetic is reduced by MaskedSucc and LevelLinear to linear *)
(* arithmetic on 0..Capacity-1; the inductive invariant orders the five    *)
(* positions  tail, ctail, (chead,) head, phead  on the ring.              *)
(***************************************************************************)
EXTENDS SpscQueue, SequenceTheorems, TLAPS

LEMMA MaskedSucc ==
    \A i \in Slot : /\ Masked(i + 1) = IF i = Capacity - 1 THEN 0 ELSE i + 1
                    /\ Masked(i + 1) \in Slot
<1>1. \A i \in 0..Capacity-1 : (i + 1) % Capacity = IF i = Capacity - 1 THEN 0 ELSE i + 1
  BY CapacityAssumption, SMT
<1> QED  BY <1>1, CapacityAssumption DEF Masked, Slot

LEMMA LevelLinear ==
    \A h, t \in Slot : /\ Level(h, t) = IF h >= t THEN h - t ELSE h - t + Capacity
                       /\ Level(h, t) \in Slot
<1>1. \A x \in 0..2*Capacity-1 : x % Capacity = IF x < Capacity THEN x ELSE x - Capacity
  BY CapacityAssumption, SMTT(20)
<1> QED  BY <1>1, CapacityAssumption DEF Level, Masked, Slot

(* Where the k-th byte after position t is.                                *)
LEMMA MaskedOffset ==
    \A t \in Slot : \A k \in 0..Capacity :
        /\ Masked(t + k) = IF t + k < Capacity THEN t + k ELSE t + k - Capacity
        /\ Masked(t + k) \in Slot
<1>1. \A x \in 0..2*Capacity-1 : x % Capacity = IF x < Capacity THEN x ELSE x - Capacity
  BY CapacityAssumption, SMTT(20)
<1> QED  BY <1>1, CapacityAssumption DEF Masked, Slot

LEMMA FreeLinear ==
    \A h, t \in Slot : /\ Free(h, t) \in Slot
                       /\ Free(h, t) = Capacity - 1 - Level(h, t)
<1>1. \A x \in Slot : Capacity - 1 - x \in Slot
  BY CapacityAssumption DEF Slot
<1> QED  BY <1>1, LevelLinear DEF Free

(* Distances on the ring: going from a to b and on to c is going from a to *)
(* c, or once more round.                                                  *)
LEMMA LevelTriangle ==
    \A a, b, c \in Slot :
        \/ Level(b, a) + Level(c, b) = Level(c, a)
        \/ Level(b, a) + Level(c, b) = Level(c, a) + Capacity
<1> SUFFICES ASSUME NEW a \in Slot, NEW b \in Slot, NEW c \in Slot
             PROVE  \/ Level(b, a) + Level(c, b) = Level(c, a)
                    \/ Level(b, a) + Level(c, b) = Level(c, a) + Capacity
  OBVIOUS
<1>1. /\ Level(b, a) = IF b >= a THEN b - a ELSE b - a + Capacity
      /\ Level(c, b) = IF c >= b THEN c - b ELSE c - b + Capacity
      /\ Level(c, a) = IF c >= a THEN c - a ELSE c - a + Capacity
  BY LevelLinear
<1> QED  BY <1>1, CapacityAssumption DEF Slot

LEMMA LevelZero ==
    \A a, b \in Slot : Level(b, a) = 0 <=> a = b
<1> SUFFICES ASSUME NEW a \in Slot, NEW b \in Slot PROVE Level(b, a) = 0 <=> a = b
  OBVIOUS
<1>1. Level(b, a) = IF b >= a THEN b - a ELSE b - a + Capacity
  BY LevelLinear
<1> QED  BY <1>1, CapacityAssumption DEF Slot

(* Advancing the far end makes the distance one longer, advancing the near *)
(* end one shorter.                                                        *)
LEMMA LevelSucc ==
    \A a, c \in Slot :
        /\ Masked(c + 1) # a => Level(Masked(c + 1), a) = Level(c, a) + 1
        /\ a # c => Level(c, Masked(a + 1)) = Level(c, a) - 1
<1> SUFFICES ASSUME NEW a \in Slot, NEW c \in Slot
             PROVE  /\ Masked(c + 1) # a => Level(Masked(c + 1), a) = Level(c, a) + 1
                    /\ a # c => Level(c, Masked(a + 1)) = Level(c, a) - 1
  OBVIOUS
<1> DEFINE a1 == Masked(a + 1)
           c1 == Masked(c + 1)
<1>1. /\ a1 = IF a = Capacity - 1 THEN 0 ELSE a + 1
      /\ c1 = IF c = Capacity - 1 THEN 0 ELSE c + 1
      /\ a1 \in Slot /\ c1 \in Slot
  BY MaskedSucc
<1> HIDE DEF a1, c1
<1>2. /\ Level(c, a) = IF c >= a THEN c - a ELSE c - a + Capacity
      /\ Level(c1, a) = IF c1 >= a THEN c1 - a ELSE c1 - a + Capacity
      /\ Level(c, a1) = IF c >= a1 THEN c - a1 ELSE c - a1 + Capacity
  BY <1>1, LevelLinear
<1>3. /\ c1 # a => Level(c1, a) = Level(c, a) + 1
      /\ a # c => Level(c, a1) = Level(c, a) - 1
  BY <1>1, <1>2, CapacityAssumption DEF Slot
<1> QED  BY <1>3 DEF a1, c1

LEMMA LevelInSlot == \A a, b \in Slot : Level(b, a) \in 0..Capacity-1
BY LevelLinear DEF Slot

-----------------------------------------------------------------------------
(* a, b and c come in this order when one goes round the ring from a.      *)
Between(a, b, c) == Level(b, a) + Level(c, b) = Level(c, a)

LEMMA BetweenSplit ==
    \A a, b, c, d \in Slot :
        Between(a, b, d) /\ Between(b, c, d) => Between(a, b, c) /\ Between(a, c, d)
<1> SUFFICES ASSUME NEW a \in Slot, NEW b \in Slot, NEW c \in Slot, NEW d \in Slot,
                    Between(a, b, d), Between(b, c, d)
             PROVE  Between(a, b, c) /\ Between(a, c, d)
  OBVIOUS
<1>1. \/ Level(b, a) + Level(c, b) = Level(c, a)
      \/ Level(b, a) + Level(c, b) = Level(c, a) + Capacity
  BY LevelTriangle
<1>2. \/ Level(c, a) + Level(d, c) = Level(d, a)
      \/ Level(c, a) + Level(d, c) = Level(d, a) + Capacity
  BY LevelTriangle
<1>3. /\ Level(b, a) + Level(d, b) = Level(d, a)
      /\ Level(c, b) + Level(d, c) = Level(d, b)
  BY DEF Between
<1>4. /\ Level(b, a) \in 0..Capacity-1 /\ Level(c, b) \in 0..Capacity-1
      /\ Level(c, a) \in 0..Capacity-1 /\ Level(d, a) \in 0..Capacity-1
      /\ Level(d, b) \in 0..Capacity-1 /\ Level(d, c) \in 0..Capacity-1
  BY LevelInSlot
<1> QED  BY <1>1, <1>2, <1>3, <1>4, CapacityAssumption DEF Between

(* Merging the first two of four positions in order, and the last two.     *)
LEMMA BetweenTrivial ==
    \A a, b \in Slot : Between(a, a, b) /\ Between(a, b, b)
<1> SUFFICES ASSUME NEW a \in Slot, NEW b \in Slot PROVE Between(a, a, b) /\ Between(a, b, b)
  OBVIOUS
<1>1. Level(a, a) = 0 /\ Level(b, b) = 0 /\ Level(b, a) \in 0..Capacity-1
  BY LevelZero, LevelInSlot
<1> QED  BY <1>1, CapacityAssumption DEF Between

LEMMA BetweenSucc ==
    \A a, b, c \in Slot :
        Between(a, b, c) =>
            /\ Masked(c + 1) # a => Between(a, b, Masked(c + 1))
            /\ a # b => Between(Masked(a + 1), b, c)
<1> SUFFICES ASSUME NEW a \in Slot, NEW b \in Slot, NEW c \in Slot, Between(a, b, c)
             PROVE  /\ Masked(c + 1) # a => Between(a, b, Masked(c + 1))
                    /\ a # b => Between(Masked(a + 1), b, c)
  OBVIOUS
<1>0. /\ Level(b, a) \in 0..Capacity-1 /\ Level(c, b) \in 0..Capacity-1
      /\ Level(c, a) \in 0..Capacity-1
  BY LevelInSlot
<1>1. ASSUME Masked(c + 1) # a PROVE Between(a, b, Masked(c + 1))
  <2>1. Level(Masked(c + 1), a) = Level(c, a) + 1
    BY <1>1, LevelSucc
  <2>2. CASE Masked(c + 1) # b
    <3>1. Level(Masked(c + 1), b) = Level(c, b) + 1
      BY <2>2, LevelSucc
    <3> QED  BY <1>0, <2>1, <3>1, CapacityAssumption DEF Between
  <2>3. CASE Masked(c + 1) = b
    <3>1. Level(b, b) = 0
      BY LevelZero
    <3>2. Level(b, a) + 0 = Level(b, a)
      BY <1>0, CapacityAssumption
    <3> QED  BY <2>3, <3>1, <3>2 DEF Between
  <2> QED  BY <2>2, <2>3
<1>2. ASSUME a # b PROVE Between(Masked(a + 1), b, c)
  <2>1. Level(b, Masked(a + 1)) = Level(b, a) - 1
    BY <1>2, LevelSucc
  <2>2. a # c
    BY <1>0, <1>2, LevelZero, CapacityAssumption DEF Between
  <2>3. Level(c, Masked(a + 1)) = Level(c, a) - 1
    BY <2>2, LevelSucc
  <2> QED  BY <1>0, <2>1, <2>3, CapacityAssumption DEF Between
<1> QED  BY <1>1, <1>2

(* If b comes before c on the way from a to c, and c before d on the way   *)
(* from a to d, all four are in order.                                     *)
LEMMA BetweenJoin ==
    \A a, b, c, d \in Slot :
        Between(a, b, c) /\ Between(a, c, d) => Between(a, b, d) /\ Between(b, c, d)
<1> SUFFICES ASSUME NEW a \in Slot, NEW b \in Slot, NEW c \in Slot, NEW d \in Slot,
                    Between(a, b, c), Between(a, c, d)
             PROVE  Between(a, b, d) /\ Between(b, c, d)
  OBVIOUS
<1>1. \/ Level(b, a) + Level(d, b) = Level(d, a)
      \/ Level(b, a) + Level(d, b) = Level(d, a) + Capacity
  BY LevelTriangle
<1>2. \/ Level(c, b) + Level(d, c) = Level(d, b)
      \/ Level(c, b) + Level(d, c) = Level(d, b) + Capacity
  BY LevelTriangle
<1>3. /\ Level(b, a) + Level(c, b) = Level(c, a)
      /\ Level(c, a) + Level(d, c) = Level(d, a)
  BY DEF Between
<1>4. /\ Level(b, a) \in 0..Capacity-1 /\ Level(c, b) \in 0..Capacity-1
      /\ Level(c, a) \in 0..Capacity-1 /\ Level(d, a) \in 0..Capacity-1
      /\ Level(d, b) \in 0..Capacity-1 /\ Level(d, c) \in 0..Capacity-1
  BY LevelInSlot
<1> QED  BY <1>1, <1>2, <1>3, <1>4, CapacityAssumption DEF Between

(* The position after a comes first on the way to any other one.           *)
LEMMA BetweenFirst ==
    \A a, b, c \in Slot :
        a # b /\ Between(a, b, c) => Between(a, Masked(a + 1), c)
<1> SUFFICES ASSUME NEW a \in Slot, NEW b \in Slot, NEW c \in Slot, a # b, Between(a, b, c)
             PROVE  Between(a, Masked(a + 1), c)
  OBVIOUS
<1>0. /\ Level(b, a) \in 0..Capacity-1 /\ Level(c, b) \in 0..Capacity-1
      /\ Level(c, a) \in 0..Capacity-1
  BY LevelInSlot
<1>1. a # c
  BY <1>0, LevelZero, CapacityAssumption DEF Between
<1>2. Level(c, Masked(a + 1)) = Level(c, a) - 1
  BY <1>1, LevelSucc
<1>3. Masked(a + 1) # a
  BY <1>0, <1>1, <1>2, CapacityAssumption
<1>4. Level(Masked(a + 1), a) = Level(a, a) + 1
  BY <1>3, LevelSucc
<1>5. Level(a, a) = 0
  BY LevelZero
<1> QED  BY <1>0, <1>2, <1>4, <1>5, CapacityAssumption DEF Between

(* The positions are in order; what the producer sees of tail and what the *)
(* consumer sees of head err only on the safe side.                        *)
PositionsInv ==
    /\ Between(tail, ctail, phead)
    /\ Between(ctail, head, phead)

(* Between the test for full and the store of head there is room, and the  *)
(* byte is in the store buffer or in its slot.                             *)
ProducerInv ==
    /\ ppc = "publish" => ~Full
    /\ pstore \subseteq {<<phead, pdata>>}
    /\ ppc # "publish" => pstore = {}
    /\ ppc = "publish" /\ pstore = {} => buf[phead] = pdata

(* What the consumer's remaining accesses say about those already made.    *)
ConsumerInv ==
    /\ cop = "none" => ctodo = {}
    /\ cop # "none" => ctodo \subseteq Accesses[cop] /\ ctodo # {}
    /\ cop \in {"remove", "flush"} => "tail" \in ctodo
    /\ cop = "peek" => "byte" \in ctodo
    /\ cop = "remove" /\ "byte" \notin ctodo
          => "head" \notin ctodo /\ cdata = buf[ctail]
    /\ cop \in {"remove", "peek"} /\ "head" \notin ctodo => ctail # head
    /\ cop = "flush" /\ "head" \notin ctodo => Between(ctail, chead, head)

PromiseInv ==
    /\ credit <= Free(phead, tail)
    /\ avail <= Level(head, ctail)

IInv == TypeOK /\ PositionsInv /\ ProducerInv /\ ConsumerInv /\ PromiseInv

(* Type correctness and the inductive invariant hold initially.            *)
LEMMA InitIInv == Init => IInv
<1> SUFFICES ASSUME Init PROVE IInv
  OBVIOUS
<1>1. 0 \in Slot
  BY CapacityAssumption DEF Slot
<1>2. Level(0, 0) = 0
  BY <1>1, LevelLinear DEF Slot
<1>3. TypeOK
  BY <1>1 DEF Init, TypeOK
<1>4. Free(0, 0) >= 0
  BY <1>2, CapacityAssumption DEF Free
<1> QED
  BY <1>1, <1>2, <1>3, <1>4 DEF Init, IInv, PositionsInv, ProducerInv, ConsumerInv, PromiseInv, Between

(* Every step keeps the state well-typed.                                  *)
LEMMA NextTypeOK == IInv /\ [Next]_vars => TypeOK'
<1> SUFFICES ASSUME IInv, [Next]_vars PROVE TypeOK'
  OBVIOUS
<1> USE DEF IInv, TypeOK
<1>1. ASSUME NEW d \in Byte, NEW blocking \in BOOLEAN, CallAdd(d, blocking) PROVE TypeOK'
  BY <1>1 DEF CallAdd, cvars
<1>2. CASE ReturnFull
  BY <1>2 DEF ReturnFull, cvars
<1>3. CASE StoreByte
  BY <1>3 DEF StoreByte, cvars
<1>4. CASE StoreHead
  BY <1>4, MaskedSucc, CapacityAssumption DEF StoreHead, cvars, Slot
<1>5. CASE QueryFree
  BY <1>5, FreeLinear DEF QueryFree, cvars
<1>6. ASSUME NEW op \in {"remove", "peek", "flush"}, NEW blocking \in BOOLEAN,
             Call(op, blocking)
      PROVE TypeOK'
  BY <1>6 DEF Call, pvars, Accesses
<1>7. CASE ReturnEmpty
  BY <1>7 DEF ReturnEmpty, Continue, pvars
<1>8. CASE LoadHead
  BY <1>8 DEF LoadHead, Continue, pvars
<1>9. CASE LoadByte
  BY <1>9 DEF LoadByte, Continue, pvars
<1>10. CASE StoreTail
  BY <1>10, MaskedSucc, CapacityAssumption DEF StoreTail, Continue, pvars, Slot
<1>11. CASE QueryLevel
  BY <1>11, LevelLinear DEF QueryLevel, pvars
<1>12. CASE DrainByte
  BY <1>12 DEF DrainByte, cvars
<1>13. CASE DrainHead
  BY <1>13 DEF DrainHead, cvars, pvars
<1>14. CASE DrainTail
  BY <1>14 DEF DrainTail, cvars, pvars
<1>15. CASE UNCHANGED vars
  BY <1>15 DEF vars, cvars, pvars
<1> QED
  BY <1>1, <1>2, <1>3, <1>4, <1>5, <1>6, <1>7, <1>8, <1>9, <1>10, <1>11, <1>12,
     <1>13, <1>14, <1>15
     DEF Next, Producer, Consumer, Memory, CallRemove, CallPeek, CallFlush

(* The order of the positions survives every step: a position moves only   *)
(* up to the next one, and a drain only closes a gap.                      *)
LEMMA NextPositions == IInv /\ [Next]_vars => PositionsInv'
<1> SUFFICES ASSUME IInv, [Next]_vars PROVE PositionsInv'
  OBVIOUS
<1> USE DEF IInv, PositionsInv
<1>0. /\ head \in Slot /\ phead \in Slot /\ tail \in Slot /\ ctail \in Slot
      /\ chead \in Slot
  BY DEF TypeOK
<1>1. CASE UNCHANGED <<head, phead, tail, ctail>>
  BY <1>1 DEF Between
<1>2. CASE StoreHead
  <2>1. phead' = Masked(phead + 1) /\ UNCHANGED <<head, tail, ctail>>
    BY <1>2 DEF StoreHead, cvars
  <2>2. Masked(phead + 1) # tail
    BY <1>2 DEF StoreHead, ProducerInv, Full
  <2>3. Between(tail, ctail, Masked(phead + 1))
    BY <1>0, <2>2, BetweenSucc
  <2>4. Masked(phead + 1) # ctail
    <3>1. Level(Masked(phead + 1), tail) = Level(phead, tail) + 1
      BY <1>0, <2>2, LevelSucc
    <3>2. /\ Level(phead, tail) \in 0..Capacity-1 /\ Level(ctail, tail) \in 0..Capacity-1
          /\ Level(phead, ctail) \in 0..Capacity-1
      BY <1>0, LevelInSlot
    <3>3. Level(ctail, tail) <= Level(phead, tail)
      BY <3>2, CapacityAssumption DEF Between
    <3>4. Level(Masked(phead + 1), tail) # Level(ctail, tail)
      BY <3>1, <3>2, <3>3, CapacityAssumption
    <3> QED  BY <3>4
  <2>5. Between(ctail, head, Masked(phead + 1))
    BY <1>0, <2>4, BetweenSucc
  <2> QED  BY <2>1, <2>3, <2>5 DEF Between
<1>3. CASE StoreTail /\ cop = "flush"
  <2>1. ctail' = chead /\ tail = ctail /\ UNCHANGED <<head, tail, phead>>
    BY <1>3 DEF StoreTail, ConsumerBarrier, pvars
  <2>2. Between(ctail, chead, head)
    BY <1>3 DEF StoreTail, ConsumerInv
  <2>3. Between(ctail, chead, phead) /\ Between(chead, head, phead)
    BY <1>0, <2>2, BetweenJoin
  <2> QED  BY <2>1, <2>3 DEF Between
<1>4. CASE StoreTail /\ cop # "flush"
  <2>1. /\ ctail' = Masked(ctail + 1) /\ tail = ctail
        /\ UNCHANGED <<head, tail, phead>>
    BY <1>4 DEF StoreTail, ConsumerBarrier, pvars
  <2>2. ctail # head
    <3>1. cop \in {"remove", "peek"}
      BY <1>4 DEF StoreTail, ConsumerInv, TypeOK
    <3> QED  BY <1>4, <3>1 DEF StoreTail, ConsumerInv
  <2>3. Between(Masked(ctail + 1), head, phead)
    BY <1>0, <2>2, BetweenSucc
  <2>4. Between(ctail, Masked(ctail + 1), phead)
    BY <1>0, <2>2, BetweenFirst
  <2> QED  BY <2>1, <2>3, <2>4 DEF Between
<1>5. CASE DrainHead
  <2>1. head' = phead /\ UNCHANGED <<phead, tail, ctail>>
    BY <1>5 DEF DrainHead, pvars, cvars
  <2>2. Between(ctail, phead, phead)
    BY <1>0, BetweenTrivial
  <2> QED  BY <2>1, <2>2 DEF Between
<1>6. CASE DrainTail
  <2>1. tail' = ctail /\ UNCHANGED <<head, phead, ctail>>
    BY <1>6 DEF DrainTail, pvars, cvars
  <2>2. Between(ctail, ctail, phead)
    BY <1>0, BetweenTrivial
  <2> QED  BY <2>1, <2>2 DEF Between
<1>7. CASE Producer
  <2>1. CASE StoreHead
    BY <1>2, <2>1
  <2>2. CASE ~StoreHead
    BY <1>1, <1>7, <2>2 DEF Producer, CallAdd, ReturnFull, StoreByte, QueryFree, cvars
  <2> QED  BY <2>1, <2>2
<1>8. CASE Consumer
  <2>1. CASE StoreTail
    BY <1>3, <1>4, <2>1
  <2>2. CASE ~StoreTail
    BY <1>1, <1>8, <2>2
       DEF Consumer, CallRemove, CallPeek, CallFlush, Call, ReturnEmpty, LoadHead,
           LoadByte, QueryLevel, pvars
  <2> QED  BY <2>1, <2>2
<1>9. CASE DrainByte
  BY <1>1, <1>9 DEF DrainByte, cvars
<1>10. CASE UNCHANGED vars
  BY <1>1, <1>10 DEF vars, pvars, cvars
<1> QED
  BY <1>5, <1>6, <1>7, <1>8, <1>9, <1>10 DEF Next, Memory

(* What tail the producer sees can only come closer: room it has found     *)
(* stays.                                                                  *)
LEMMA RoomStays ==
    IInv => /\ Level(phead, ctail) <= Level(phead, tail)
            /\ ~Full => Masked(phead + 1) # ctail
<1> SUFFICES ASSUME IInv
             PROVE  /\ Level(phead, ctail) <= Level(phead, tail)
                    /\ ~Full => Masked(phead + 1) # ctail
  OBVIOUS
<1>0. phead \in Slot /\ tail \in Slot /\ ctail \in Slot
  BY DEF IInv, TypeOK
<1>1. Level(ctail, tail) + Level(phead, ctail) = Level(phead, tail)
  BY DEF IInv, PositionsInv, Between
<1>2. /\ Level(ctail, tail) \in 0..Capacity-1 /\ Level(phead, ctail) \in 0..Capacity-1
      /\ Level(phead, tail) \in 0..Capacity-1
  BY <1>0, LevelInSlot
<1>3. ASSUME ~Full PROVE Masked(phead + 1) # ctail
  <2>1. Masked(phead + 1) # tail
    BY <1>3 DEF Full
  <2>2. Level(Masked(phead + 1), tail) = Level(phead, tail) + 1
    BY <1>0, <2>1, LevelSucc
  <2> QED  BY <1>1, <1>2, <2>2, CapacityAssumption
<1> QED  BY <1>1, <1>2, <1>3, CapacityAssumption

LEMMA NextProducer == IInv /\ [Next]_vars => ProducerInv'
<1> SUFFICES ASSUME IInv, [Next]_vars PROVE ProducerInv'
  OBVIOUS
<1> USE DEF IInv, ProducerInv
<1>1. CASE UNCHANGED <<buf, tail, phead, pstore, ppc, pdata>>
  BY <1>1 DEF Full
<1>2. ASSUME NEW d \in Byte, NEW blocking \in BOOLEAN, CallAdd(d, blocking)
      PROVE  ProducerInv'
  BY <1>2 DEF CallAdd
<1>3. CASE ReturnFull
  BY <1>3 DEF ReturnFull
<1>4. CASE StoreByte
  BY <1>4 DEF StoreByte, Full
<1>5. CASE StoreHead
  BY <1>5 DEF StoreHead, ReleaseBarrier
<1>6. CASE QueryFree
  BY <1>1, <1>6 DEF QueryFree
<1>7. CASE Consumer
  BY <1>1, <1>7
     DEF Consumer, CallRemove, CallPeek, CallFlush, Call, ReturnEmpty, LoadHead,
         LoadByte, StoreTail, QueryLevel, pvars
<1>8. CASE DrainByte
  <2>1. PICK w \in pstore : /\ buf' = [buf EXCEPT ![w[1]] = w[2]]
                            /\ pstore' = pstore \ {w}
                            /\ UNCHANGED <<tail, phead, ppc, pdata>>
    BY <1>8 DEF DrainByte
  <2>2. w = <<phead, pdata>> /\ pstore' = {}
    BY <2>1
  <2>3. buf'[phead] = pdata
    BY <2>1, <2>2 DEF TypeOK
  <2> QED  BY <2>1, <2>2, <2>3 DEF Full
<1>9. CASE DrainHead
  BY <1>1, <1>9 DEF DrainHead, pvars
<1>10. CASE DrainTail
  <2>1. tail' = ctail /\ UNCHANGED <<buf, phead, pstore, ppc, pdata>>
    BY <1>10 DEF DrainTail, pvars
  <2>2. ppc = "publish" => Masked(phead + 1) # ctail
    BY RoomStays
  <2> QED  BY <2>1, <2>2 DEF Full
<1>11. CASE UNCHANGED vars
  BY <1>1, <1>11 DEF vars, pvars
<1> QED
  BY <1>2, <1>3, <1>4, <1>5, <1>6, <1>7, <1>8, <1>9, <1>10, <1>11
     DEF Next, Producer, Memory

(* A store in flight goes beyond what the consumer may look at.            *)
LEMMA StoresAhead ==
    IInv /\ ctail # phead => \A w \in pstore : w[1] # ctail
BY DEF IInv, ProducerInv

LEMMA SeenNonempty ==
    IInv /\ ctail # head => ctail # phead
<1> SUFFICES ASSUME IInv, ctail # head PROVE ctail # phead
  OBVIOUS
<1>0. phead \in Slot /\ head \in Slot /\ ctail \in Slot
  BY DEF IInv, TypeOK
<1>1. Level(head, ctail) + Level(phead, head) = Level(phead, ctail)
  BY DEF IInv, PositionsInv, Between
<1>2. /\ Level(head, ctail) \in 0..Capacity-1 /\ Level(phead, head) \in 0..Capacity-1
      /\ Level(head, ctail) # 0
  BY <1>0, LevelInSlot, LevelZero
<1>3. Level(phead, ctail) # 0
  BY <1>1, <1>2, CapacityAssumption
<1> QED  BY <1>0, <1>3, LevelZero

LEMMA NextConsumer == IInv /\ [Next]_vars => ConsumerInv'
<1> SUFFICES ASSUME IInv, [Next]_vars PROVE ConsumerInv'
  OBVIOUS
<1> USE DEF IInv, ConsumerInv
<1>0. /\ head \in Slot /\ phead \in Slot /\ ctail \in Slot /\ chead \in Slot
      /\ cop \in {"none", "remove", "peek", "flush"}
      /\ ctodo \subseteq {"head", "byte", "tail"}
  BY DEF TypeOK
<1>1. CASE UNCHANGED <<buf, head, cvars>>
  BY <1>1 DEF Between, cvars
<1>2. CASE Producer
  BY <1>1, <1>2
     DEF Producer, CallAdd, ReturnFull, StoreByte, StoreHead, QueryFree
<1>3. ASSUME NEW op \in {"remove", "peek", "flush"}, NEW blocking \in BOOLEAN,
             Call(op, blocking)
      PROVE  ConsumerInv'
  BY <1>3 DEF Call, Accesses
<1>4. CASE ReturnEmpty
  BY <1>4 DEF ReturnEmpty, Continue
<1>5. CASE LoadHead
  <2>1. CASE cop = "flush"
    <3>1. chead' = head /\ UNCHANGED <<head, ctail>>
      BY <1>5, <2>1 DEF LoadHead
    <3>2. Between(ctail, head, head)
      BY <1>0, BetweenTrivial
    <3>3. (Between(ctail, chead, head))'
      BY <3>1, <3>2 DEF Between
    <3> QED  BY <1>5, <2>1, <3>3 DEF LoadHead, Continue, Accesses
  <2>2. CASE cop # "flush"
    BY <1>0, <1>5, <2>2 DEF LoadHead, Continue, Accesses
  <2> QED  BY <2>1, <2>2
<1>6. CASE LoadByte
  BY <1>0, <1>6 DEF LoadByte, AcquireBarrier, Continue, Accesses
<1>7. CASE StoreTail
  BY <1>0, <1>7 DEF StoreTail, ConsumerBarrier, Continue, Accesses
<1>8. CASE QueryLevel
  BY <1>8 DEF QueryLevel
<1>9. CASE DrainByte
  <2>1. PICK w \in pstore : /\ buf' = [buf EXCEPT ![w[1]] = w[2]]
                            /\ UNCHANGED <<head, cvars>>
    BY <1>9 DEF DrainByte
  <2>2. cop = "remove" /\ "head" \notin ctodo => w[1] # ctail
    BY StoresAhead, SeenNonempty
  <2>3. cop = "remove" /\ "byte" \notin ctodo => buf'[ctail] = buf[ctail]
    BY <1>0, <2>1, <2>2 DEF TypeOK
  <2> QED  BY <2>1, <2>3 DEF Between, cvars
<1>10. CASE DrainHead
  <2>1. head' = phead /\ UNCHANGED <<buf, cvars>>
    BY <1>10 DEF DrainHead
  <2>2. ctail # head => ctail # phead
    BY SeenNonempty
  <2>3. Between(ctail, chead, head) => Between(ctail, chead, phead)
    BY <1>0, BetweenJoin DEF PositionsInv
  <2>4. cop = "flush" /\ "head" \notin ctodo => (Between(ctail, chead, head))'
    BY <2>1, <2>3 DEF Between, cvars
  <2> QED  BY <2>1, <2>2, <2>4 DEF cvars
<1>11. CASE DrainTail
  BY <1>1, <1>11 DEF DrainTail
<1>12. CASE UNCHANGED vars
  BY <1>1, <1>12 DEF vars
<1> QED
  BY <1>2, <1>3, <1>4, <1>5, <1>6, <1>7, <1>8, <1>9, <1>10, <1>11, <1>12
     DEF Next, Consumer, Memory, CallRemove, CallPeek, CallFlush

(* What was promised to either side stays true: the other side only adds   *)
(* to it, and one's own operation takes at most one byte of it.            *)
LEMMA NextPromise == IInv /\ [Next]_vars => PromiseInv'
<1> SUFFICES ASSUME IInv, [Next]_vars PROVE PromiseInv'
  OBVIOUS
<1>0. /\ head \in Slot /\ phead \in Slot /\ ctail \in Slot /\ tail \in Slot
      /\ credit \in Slot /\ avail \in Slot
      /\ credit <= Free(phead, tail) /\ avail <= Level(head, ctail)
  BY DEF IInv, TypeOK, PromiseInv
<1>a. /\ Level(phead, tail) \in 0..Capacity-1 /\ Level(phead, ctail) \in 0..Capacity-1
      /\ Level(head, ctail) \in 0..Capacity-1
      /\ Free(phead, tail) = Capacity - 1 - Level(phead, tail)
      /\ Free(phead, ctail) = Capacity - 1 - Level(phead, ctail)
  BY <1>0, LevelInSlot, FreeLinear
<1>b. credit \in 0..Capacity-1 /\ avail \in 0..Capacity-1
  BY <1>0 DEF Slot
<1>1. CASE UNCHANGED <<head, phead, tail, ctail, credit, avail>>
  BY <1>0, <1>1 DEF PromiseInv, Free
<1>2. CASE StoreHead
  <2>1. /\ phead' = Masked(phead + 1) /\ UNCHANGED <<head, tail, ctail, avail>>
        /\ credit' = IF credit > 0 THEN credit - 1 ELSE 0
    BY <1>2 DEF StoreHead, cvars
  <2>2. Masked(phead + 1) # tail
    BY <1>2 DEF StoreHead, IInv, ProducerInv, Full
  <2>3. Level(Masked(phead + 1), tail) = Level(phead, tail) + 1
    BY <1>0, <2>2, LevelSucc
  <2>4. /\ Masked(phead + 1) \in Slot
        /\ Level(Masked(phead + 1), tail) \in 0..Capacity-1
    BY <1>0, MaskedSucc, LevelInSlot
  <2>5. Free(Masked(phead + 1), tail) = Free(phead, tail) - 1
    BY <1>0, <1>a, <2>3, <2>4, FreeLinear, CapacityAssumption
  <2>6. credit' <= Free(Masked(phead + 1), tail)
    BY <1>0, <1>a, <1>b, <2>1, <2>3, <2>4, <2>5, CapacityAssumption
  <2> QED  BY <1>0, <2>1, <2>6 DEF PromiseInv, Free
<1>3. CASE QueryFree
  <2>1. credit' = Free(phead, tail) /\ UNCHANGED <<head, phead, tail, ctail, avail>>
    BY <1>3 DEF QueryFree, cvars
  <2>2. Free(phead, tail) <= Free(phead, tail)
    BY <1>a, CapacityAssumption
  <2> QED  BY <1>0, <2>1, <2>2 DEF PromiseInv, Free
<1>4. CASE StoreTail
  <2>1. UNCHANGED <<head, tail, phead, credit>>
    BY <1>4 DEF StoreTail, pvars
  <2>2. CASE cop = "flush"
    <3>1. ctail' \in Slot /\ avail' = 0
      BY <1>4, <2>2 DEF StoreTail, IInv, TypeOK
    <3>2. Level(head, ctail') \in 0..Capacity-1
      BY <1>0, <3>1, LevelInSlot
    <3>3. avail' <= Level(head, ctail')
      BY <3>1, <3>2, CapacityAssumption
    <3> QED  BY <1>0, <2>1, <3>3 DEF PromiseInv, Free
  <2>3. CASE cop # "flush"
    <3>1. /\ ctail' = Masked(ctail + 1)
          /\ avail' = IF avail > 0 THEN avail - 1 ELSE 0
      BY <1>4, <2>3 DEF StoreTail
    <3>2. cop \in {"remove", "peek"}
      BY <1>4, <2>3 DEF StoreTail, IInv, ConsumerInv, TypeOK
    <3>3. ctail # head
      BY <1>4, <3>2 DEF StoreTail, IInv, ConsumerInv
    <3>4. Level(head, Masked(ctail + 1)) = Level(head, ctail) - 1
      BY <1>0, <3>3, LevelSucc
    <3>5. Masked(ctail + 1) \in Slot
      BY <1>0, MaskedSucc
    <3>6. Level(head, Masked(ctail + 1)) \in 0..Capacity-1
      BY <1>0, <3>5, LevelInSlot
    <3>7. avail' <= Level(head, Masked(ctail + 1))
      BY <1>0, <1>a, <1>b, <3>1, <3>4, <3>6, CapacityAssumption
    <3> QED  BY <1>0, <2>1, <3>1, <3>7 DEF PromiseInv, Free
  <2> QED  BY <2>2, <2>3
<1>5. CASE QueryLevel
  <2>1. avail' = Level(head, ctail) /\ UNCHANGED <<head, phead, tail, ctail, credit>>
    BY <1>5 DEF QueryLevel, pvars
  <2>2. Level(head, ctail) <= Level(head, ctail)
    BY <1>a, CapacityAssumption
  <2> QED  BY <1>0, <2>1, <2>2 DEF PromiseInv, Free
<1>6. CASE DrainHead
  <2>1. head' = phead /\ UNCHANGED <<phead, tail, ctail, credit, avail>>
    BY <1>6 DEF DrainHead, pvars, cvars
  <2>2. Level(head, ctail) + Level(phead, head) = Level(phead, ctail)
    BY DEF IInv, PositionsInv, Between
  <2>3. Level(phead, head) \in 0..Capacity-1
    BY <1>0, LevelInSlot
  <2>4. avail <= Level(phead, ctail)
    BY <1>0, <1>a, <1>b, <2>2, <2>3, CapacityAssumption
  <2> QED  BY <1>0, <2>1, <2>4 DEF PromiseInv, Free
<1>7. CASE DrainTail
  <2>1. tail' = ctail /\ UNCHANGED <<head, phead, ctail, credit, avail>>
    BY <1>7 DEF DrainTail, pvars, cvars
  <2>2. Level(phead, ctail) <= Level(phead, tail)
    BY RoomStays
  <2>3. credit <= Free(phead, ctail)
    BY <1>0, <1>a, <1>b, <2>2, CapacityAssumption
  <2> QED  BY <1>0, <2>1, <2>3 DEF PromiseInv, Free
<1>8. CASE Producer /\ ~StoreHead /\ ~QueryFree
  BY <1>1, <1>8 DEF Producer, CallAdd, ReturnFull, StoreByte, cvars
<1>9. CASE Consumer /\ ~StoreTail /\ ~QueryLevel
  BY <1>1, <1>9
     DEF Consumer, CallRemove, CallPeek, CallFlush, Call, ReturnEmpty, LoadHead,
         LoadByte, pvars
<1>10. CASE DrainByte
  BY <1>1, <1>10 DEF DrainByte, cvars
<1>11. CASE UNCHANGED vars
  BY <1>1, <1>11 DEF vars, pvars, cvars
<1> QED
  BY <1>2, <1>3, <1>4, <1>5, <1>6, <1>7, <1>8, <1>9, <1>10, <1>11
     DEF Next, Memory

LEMMA Inductive == Spec => []IInv
<1>1. IInv /\ [Next]_vars => IInv'
  BY NextTypeOK, NextPositions, NextProducer, NextConsumer, NextPromise DEF IInv
<1> QED  BY InitIInv, <1>1, PTL DEF Spec

-----------------------------------------------------------------------------
(* Every reachable state is well-typed.                                    *)
THEOREM TypeCorrect == Spec => []TypeOK
BY Inductive, PTL DEF IInv

(* The producer never writes the slot the consumer is reading: the         *)
(* barriers of try_add and try_remove are enough without any lock.         *)
THEOREM RaceFree == Spec => []NoDataRace
<1>1. IInv => NoDataRace
  BY StoresAhead, SeenNonempty DEF NoDataRace, IInv, ConsumerInv
<1> QED  BY Inductive, <1>1, PTL

(* Room that spsc_queue_free reported stays until it is used.              *)
THEOREM ReservationsHold == Spec => []ReservedSpaceHolds
<1>1. IInv => ReservedSpaceHolds
  <2> SUFFICES ASSUME IInv, credit > 0 PROVE ~Full
    BY DEF ReservedSpaceHolds
  <2>0. phead \in Slot /\ tail \in Slot /\ credit \in Slot
    BY DEF IInv, TypeOK
  <2>1. /\ credit <= Free(phead, tail)
        /\ Free(phead, tail) = Capacity - 1 - Level(phead, tail)
        /\ Level(phead, tail) \in 0..Capacity-1
        /\ credit \in 0..Capacity-1
    BY <2>0, FreeLinear, LevelInSlot DEF IInv, PromiseInv, Slot
  <2>2. Level(phead, tail) < Capacity - 1
    BY <2>1, CapacityAssumption
  <2>3. ASSUME Masked(phead + 1) = tail PROVE FALSE
    <3>1. Masked(phead + 1) = IF phead = Capacity - 1 THEN 0 ELSE phead + 1
      BY <2>0, MaskedSucc
    <3>2. Level(phead, tail) = IF phead >= tail THEN phead - tail
                                                ELSE phead - tail + Capacity
      BY <2>0, LevelLinear
    <3> QED  BY <2>0, <2>2, <2>3, <3>1, <3>2, CapacityAssumption DEF Slot
  <2> QED  BY <2>3 DEF Full
<1> QED  BY Inductive, <1>1, PTL

(* Bytes that spsc_queue_level reported stay until they are removed.       *)
THEOREM PromisesHold == Spec => []PromisedBytesHold
<1>1. IInv => PromisedBytesHold
  <2> SUFFICES ASSUME IInv, avail > 0 PROVE ctail # head
    BY DEF PromisedBytesHold
  <2>0. head \in Slot /\ ctail \in Slot /\ avail \in 0..Capacity-1
    BY DEF IInv, TypeOK, Slot
  <2>1. Level(head, ctail) \in 0..Capacity-1 /\ avail <= Level(head, ctail)
    BY <2>0, LevelInSlot DEF IInv, PromiseInv
  <2>2. Level(head, ctail) # 0
    BY <2>0, <2>1, CapacityAssumption
  <2> QED  BY <2>0, <2>2, LevelZero
<1> QED  BY Inductive, <1>1, PTL

-----------------------------------------------------------------------------
(* The queue between two positions as a sequence: its length, and what     *)
(* moving either end or writing beyond the far end does to it.             *)
LEMMA ContentsType ==
    ASSUME NEW b \in [Slot -> Byte], NEW h \in Slot, NEW t \in Slot
    PROVE  /\ Contents(b, h, t) \in Seq(Byte)
           /\ Len(Contents(b, h, t)) = Level(h, t)
           /\ DOMAIN Contents(b, h, t) = 1..Level(h, t)
           /\ \A k \in 1..Level(h, t) : Contents(b, h, t)[k] = b[Masked(t + k - 1)]
<1>1. Level(h, t) \in Nat /\ Level(h, t) < Capacity
  BY LevelInSlot, CapacityAssumption
<1>2. \A k \in 1..Level(h, t) : Masked(t + k - 1) \in Slot
  <2> SUFFICES ASSUME NEW k \in 1..Level(h, t) PROVE Masked(t + k - 1) \in Slot
    OBVIOUS
  <2>1. k - 1 \in 0..Capacity
    BY <1>1, CapacityAssumption
  <2>2. Masked(t + (k - 1)) \in Slot
    BY <2>1, MaskedOffset
  <2>3. t + (k - 1) = t + k - 1
    BY CapacityAssumption DEF Slot
  <2> QED  BY <2>2, <2>3
<1>3. \A k \in 1..Level(h, t) : b[Masked(t + k - 1)] \in Byte
  BY <1>2
<1> QED  BY <1>1, <1>3 DEF Contents

LEMMA ContentsAppend ==
    ASSUME NEW b \in [Slot -> Byte], NEW h \in Slot, NEW t \in Slot,
           Masked(h + 1) # t
    PROVE  Contents(b, Masked(h + 1), t) = Append(Contents(b, h, t), b[h])
<1> DEFINE n == Level(h, t)
           s == Contents(b, h, t)
           s1 == Contents(b, Masked(h + 1), t)
<1>1. n \in Nat /\ n < Capacity
  BY LevelInSlot, CapacityAssumption
<1>2. Level(Masked(h + 1), t) = n + 1
  BY LevelSucc
<1>3. /\ s \in Seq(Byte) /\ Len(s) = n
      /\ \A k \in 1..n : s[k] = b[Masked(t + k - 1)]
  BY ContentsType
<1>4. Masked(t + (n + 1) - 1) = h
  <2>1. n = IF h >= t THEN h - t ELSE h - t + Capacity
    BY LevelLinear
  <2>2. Masked(t + n) = IF t + n < Capacity THEN t + n ELSE t + n - Capacity
    <3>1. n \in 0..Capacity
      BY <1>1, CapacityAssumption
    <3> QED  BY <3>1, MaskedOffset
  <2>3. t + (n + 1) - 1 = t + n
    BY <1>1, CapacityAssumption DEF Slot
  <2>4. Masked(t + n) = h
    BY <1>1, <2>1, <2>2, CapacityAssumption DEF Slot
  <2> QED  BY <2>3, <2>4
<1> HIDE DEF n, s
<1>5. s1 = [k \in 1..(n + 1) |-> b[Masked(t + k - 1)]]
  BY <1>2 DEF Contents
<1>6. Append(s, b[h]) = [k \in 1..(n + 1) |-> IF k <= n THEN s[k] ELSE b[h]]
  BY <1>1, <1>3
<1>7. \A k \in 1..(n + 1) : (IF k <= n THEN s[k] ELSE b[h]) = b[Masked(t + k - 1)]
  <2> SUFFICES ASSUME NEW k \in 1..(n + 1)
               PROVE  (IF k <= n THEN s[k] ELSE b[h]) = b[Masked(t + k - 1)]
    OBVIOUS
  <2>1. CASE k <= n
    BY <1>1, <1>3, <2>1
  <2>2. CASE ~(k <= n)
    <3>1. k = n + 1
      BY <1>1, <2>2
    <3> QED  BY <1>4, <2>2, <3>1
  <2> QED  BY <2>1, <2>2
<1> QED  BY <1>5, <1>6, <1>7 DEF s

LEMMA ContentsDrop ==
    ASSUME NEW b \in [Slot -> Byte], NEW h \in Slot, NEW t \in Slot, NEW t1 \in Slot,
           Between(t, t1, h)
    PROVE  /\ Contents(b, h, t1)
                 = SubSeq(Contents(b, h, t), Level(t1, t) + 1, Len(Contents(b, h, t)))
           /\ Level(t1, t) <= Len(Contents(b, h, t))
<1> DEFINE n == Level(h, t)
           m == Level(t1, t)
           s == Contents(b, h, t)
<1>1. n \in 0..Capacity-1 /\ m \in 0..Capacity-1 /\ Level(h, t1) \in 0..Capacity-1
  BY LevelInSlot
<1>2. Level(h, t1) = n - m /\ m <= n
  BY <1>1, CapacityAssumption DEF Between
<1>3. /\ s \in Seq(Byte) /\ Len(s) = n
      /\ \A k \in 1..n : s[k] = b[Masked(t + k - 1)]
  BY ContentsType
<1>4. \A k \in 1..(n - m) : Masked(t1 + k - 1) = Masked(t + (m + k) - 1)
  <2> SUFFICES ASSUME NEW k \in 1..(n - m)
               PROVE  Masked(t1 + k - 1) = Masked(t + (m + k) - 1)
    OBVIOUS
  <2>1. m = IF t1 >= t THEN t1 - t ELSE t1 - t + Capacity
    BY LevelLinear
  <2> HIDE DEF m, n, s
  <2>2. k - 1 \in 0..Capacity /\ m + k - 1 \in 0..Capacity
    BY <1>1, <1>2, CapacityAssumption
  <2>3. /\ Masked(t1 + (k - 1)) = IF t1 + (k - 1) < Capacity THEN t1 + (k - 1)
                                                             ELSE t1 + (k - 1) - Capacity
        /\ Masked(t + (m + k - 1)) = IF t + (m + k - 1) < Capacity
                                        THEN t + (m + k - 1)
                                        ELSE t + (m + k - 1) - Capacity
    BY <2>2, MaskedOffset
  <2>4. t1 + (k - 1) = t1 + k - 1 /\ t + (m + k - 1) = t + (m + k) - 1
    BY <1>1, CapacityAssumption DEF Slot
  <2>5. Masked(t1 + (k - 1)) = Masked(t + (m + k - 1))
    BY <1>1, <1>2, <2>1, <2>2, <2>3, CapacityAssumption DEF Slot
  <2> QED  BY <2>4, <2>5
<1> HIDE DEF n, m, s
<1>5. SubSeq(s, m + 1, n) = [k \in 1..(n - m) |-> s[m + k]]
  <2>1. SubSeq(s, m + 1, n) = [k \in 1..(n - (m + 1) + 1) |-> s[k + (m + 1) - 1]]
    BY <1>1, <1>2, <1>3, CapacityAssumption
  <2>2. n - (m + 1) + 1 = n - m
    BY <1>1, CapacityAssumption
  <2>3. \A k \in 1..(n - m) : k + (m + 1) - 1 = m + k
    BY <1>1, CapacityAssumption
  <2> QED  BY <2>1, <2>2, <2>3
<1>6. \A k \in 1..(n - m) : s[m + k] = b[Masked(t1 + k - 1)]
  <2> SUFFICES ASSUME NEW k \in 1..(n - m) PROVE s[m + k] = b[Masked(t1 + k - 1)]
    OBVIOUS
  <2>1. m + k \in 1..n
    BY <1>1, <1>2, CapacityAssumption
  <2>2. s[m + k] = b[Masked(t + (m + k) - 1)]
    BY <1>3, <2>1
  <2> QED  BY <1>4, <2>2
<1>7. Contents(b, h, t1) = [k \in 1..(n - m) |-> b[Masked(t1 + k - 1)]]
  BY <1>2 DEF Contents
<1>8. Contents(b, h, t1) = SubSeq(s, m + 1, n) /\ m <= n
  BY <1>2, <1>5, <1>6, <1>7
<1> QED  BY <1>3, <1>8 DEF s, m

LEMMA ContentsRemove ==
    ASSUME NEW b \in [Slot -> Byte], NEW h \in Slot, NEW t \in Slot, t # h
    PROVE  /\ Contents(b, h, t) # <<>>
           /\ Head(Contents(b, h, t)) = b[t]
           /\ Tail(Contents(b, h, t)) = Contents(b, h, Masked(t + 1))
<1> DEFINE n == Level(h, t)
           s == Contents(b, h, t)
           t1 == Masked(t + 1)
<1>1. n \in Nat /\ n # 0
  BY LevelInSlot, LevelZero, CapacityAssumption
<1>2. /\ s \in Seq(Byte) /\ Len(s) = n
      /\ \A k \in 1..n : s[k] = b[Masked(t + k - 1)]
  BY ContentsType
<1>3. t1 \in Slot
  BY MaskedSucc
<1>4. Between(t, t1, h)
  BY BetweenTrivial, BetweenFirst
<1>5. Level(t1, t) = 1
  <2>1. Level(t1, t) + Level(h, t1) = n
    BY <1>4 DEF Between
  <2>2. Level(h, t1) = n - 1
    BY LevelSucc
  <2>3. Level(t1, t) \in 0..Capacity-1
    BY <1>3, LevelInSlot
  <2> HIDE DEF t1, n
  <2> QED  BY <1>1, <2>1, <2>2, <2>3, CapacityAssumption
<1>6. Contents(b, h, t1) = SubSeq(s, Level(t1, t) + 1, Len(s))
  BY <1>3, <1>4, ContentsDrop
<1>7. s[1] = b[t]
  <2>1. 1 \in 1..n
    BY <1>1
  <2>2. t + 1 - 1 = t + 0 /\ t + 0 = t /\ 0 \in 0..Capacity
    BY CapacityAssumption DEF Slot
  <2>3. Masked(t + 0) = t
    BY <2>2, MaskedOffset, CapacityAssumption DEF Slot
  <2> QED  BY <1>2, <2>1, <2>2, <2>3
<1> HIDE DEF n, s, t1
<1>8. s # <<>>
  BY <1>1, <1>2
<1>9. Head(s) = b[t] /\ Tail(s) = SubSeq(s, 2, Len(s))
  BY <1>2, <1>7, <1>8
<1>10. Contents(b, h, t1) = SubSeq(s, 2, Len(s))
  <2>1. Level(t1, t) + 1 = 2
    BY <1>5
  <2> QED  BY <1>6, <2>1
<1>11. Head(s) = b[t] /\ Tail(s) = Contents(b, h, t1)
  BY <1>9, <1>10
<1> QED  BY <1>8, <1>11 DEF s, t1

LEMMA ContentsElsewhere ==
    ASSUME NEW b \in [Slot -> Byte], NEW h \in Slot, NEW t \in Slot, NEW d \in Byte
    PROVE  Contents([b EXCEPT ![h] = d], h, t) = Contents(b, h, t)
<1> DEFINE n == Level(h, t)
<1>1. n \in 0..Capacity-1 /\ n = IF h >= t THEN h - t ELSE h - t + Capacity
  BY LevelInSlot, LevelLinear
<1>2. \A k \in 1..n : Masked(t + k - 1) # h /\ Masked(t + k - 1) \in Slot
  <2> SUFFICES ASSUME NEW k \in 1..n
               PROVE  Masked(t + k - 1) # h /\ Masked(t + k - 1) \in Slot
    OBVIOUS
  <2> HIDE DEF n
  <2>1. k - 1 \in 0..Capacity /\ t + (k - 1) = t + k - 1
    BY <1>1, CapacityAssumption DEF Slot
  <2>2. /\ Masked(t + (k - 1)) = IF t + (k - 1) < Capacity THEN t + (k - 1)
                                                           ELSE t + (k - 1) - Capacity
        /\ Masked(t + (k - 1)) \in Slot
    BY <2>1, MaskedOffset
  <2>3. Masked(t + (k - 1)) # h
    BY <1>1, <2>2, CapacityAssumption DEF Slot
  <2> QED  BY <2>1, <2>2, <2>3
<1>3. \A k \in 1..n : [b EXCEPT ![h] = d][Masked(t + k - 1)] = b[Masked(t + k - 1)]
  BY <1>2
<1> QED  BY <1>3 DEF Contents

-----------------------------------------------------------------------------
(* Publishing head appends the byte stored before it.                      *)
LEMMA StoreHeadAdds == IInv /\ StoreHead => Fifo!Add(pdata)
<1> SUFFICES ASSUME IInv, StoreHead PROVE Fifo!Add(pdata)
  OBVIOUS
<1>0. /\ phead \in Slot /\ ctail \in Slot /\ tail \in Slot
      /\ buf \in [Slot -> Byte]
  BY DEF IInv, TypeOK
<1>1. /\ phead' = Masked(phead + 1) /\ UNCHANGED <<buf, tail, ctail, cdata>>
      /\ pstore = {} /\ ppc = "publish"
  BY DEF StoreHead, ReleaseBarrier, cvars
<1>2. buf[phead] = pdata /\ ~Full
  BY <1>1 DEF IInv, ProducerInv
<1>3. Masked(phead + 1) # ctail
  BY <1>2, RoomStays
<1>4. Contents(buf, Masked(phead + 1), ctail) = Append(Contents(buf, phead, ctail), pdata)
  BY <1>0, <1>2, <1>3, ContentsAppend
<1>5. Len(Contents(buf, phead, ctail)) < Capacity - 1
  <2>1. Len(Contents(buf, phead, ctail)) = Level(phead, ctail)
    BY <1>0, ContentsType
  <2>2. Level(Masked(phead + 1), ctail) = Level(phead, ctail) + 1
    BY <1>0, <1>3, LevelSucc
  <2>3. Level(Masked(phead + 1), ctail) \in 0..Capacity-1 /\ Level(phead, ctail) \in 0..Capacity-1
    BY <1>0, MaskedSucc, LevelInSlot
  <2> QED  BY <2>1, <2>2, <2>3, CapacityAssumption
<1> QED  BY <1>1, <1>4, <1>5 DEF Fifo!Add

(* The byte loaded is the oldest one.                                      *)
LEMMA LoadBytePeeks == IInv /\ LoadByte => Fifo!Peek
<1> SUFFICES ASSUME IInv, LoadByte PROVE Fifo!Peek
  OBVIOUS
<1>0. phead \in Slot /\ ctail \in Slot /\ buf \in [Slot -> Byte]
  BY DEF IInv, TypeOK
<1>1. /\ cdata' = buf[ctail] /\ UNCHANGED <<buf, phead, ctail>>
      /\ "head" \notin ctodo /\ "byte" \in ctodo
  BY DEF LoadByte, AcquireBarrier, pvars
<1>2. cop \in {"remove", "peek"}
  BY <1>1 DEF IInv, ConsumerInv, TypeOK, Accesses
<1>3. ctail # phead
  BY <1>1, <1>2, SeenNonempty DEF IInv, ConsumerInv
<1> QED  BY <1>0, <1>1, <1>3, ContentsRemove DEF Fifo!Peek

(* Publishing tail removes the byte loaded before it; in flush, all bytes  *)
(* up to the snapshot of head.                                             *)
LEMMA StoreTailRemoves ==
    IInv /\ StoreTail => Fifo!Remove \/ \E n \in 0..Capacity-1 : Fifo!Discard(n)
<1> SUFFICES ASSUME IInv, StoreTail
             PROVE  Fifo!Remove \/ \E n \in 0..Capacity-1 : Fifo!Discard(n)
  OBVIOUS
<1>0. /\ phead \in Slot /\ ctail \in Slot /\ head \in Slot /\ chead \in Slot
      /\ buf \in [Slot -> Byte]
  BY DEF IInv, TypeOK
<1>1. /\ UNCHANGED <<buf, phead, cdata>>
      /\ "head" \notin ctodo /\ "tail" \in ctodo /\ "byte" \notin ctodo
  BY DEF StoreTail, ConsumerBarrier, pvars
<1>2. CASE cop = "flush"
  <2>1. ctail' = chead /\ Between(ctail, chead, head)
    BY <1>1, <1>2 DEF StoreTail, IInv, ConsumerInv
  <2>2. Between(ctail, chead, phead)
    BY <1>0, <2>1, BetweenJoin DEF IInv, PositionsInv
  <2>3. Fifo!Discard(Level(chead, ctail))
    BY <1>0, <1>1, <2>1, <2>2, ContentsDrop DEF Fifo!Discard
  <2> QED  BY <1>0, <2>3, LevelInSlot
<1>3. CASE cop # "flush"
  <2>1. ctail' = Masked(ctail + 1)
    BY <1>3 DEF StoreTail
  <2>2. cop = "remove"
    BY <1>1, <1>3 DEF IInv, ConsumerInv, TypeOK, Accesses
  <2>3. cdata = buf[ctail] /\ ctail # phead
    BY <1>1, <2>2, SeenNonempty DEF IInv, ConsumerInv
  <2>4. Fifo!Remove
    BY <1>0, <1>1, <2>1, <2>3, ContentsRemove DEF Fifo!Remove
  <2> QED  BY <2>4
<1> QED  BY <1>2, <1>3

(* Every behaviour of the queue is one of a bounded FIFO: no byte is lost, *)
(* duplicated, reordered, overwritten or read early, for every capacity.   *)
THEOREM ImplementsFifo == Spec => FifoSpec
<1>1. Init => Fifo!Init
  <2> SUFFICES ASSUME Init PROVE Contents(buf, 0, 0) = <<>> /\ cdata \in Byte
    BY DEF Init, Fifo!Init
  <2>1. 0 \in Slot
    BY CapacityAssumption DEF Slot
  <2>2. Level(0, 0) = 0
    BY <2>1, LevelZero
  <2>3. Len(Contents(buf, 0, 0)) = 0 /\ Contents(buf, 0, 0) \in Seq(Byte)
    BY <2>1, <2>2, ContentsType DEF Init
  <2> QED  BY <2>3 DEF Init
<1>2. IInv /\ [Next]_vars => [Fifo!Next]_(Fifo!vars)
  <2> SUFFICES ASSUME IInv, [Next]_vars PROVE [Fifo!Next]_(Fifo!vars)
    OBVIOUS
  <2>0. pdata \in Byte /\ phead \in Slot /\ ctail \in Slot /\ buf \in [Slot -> Byte]
    BY DEF IInv, TypeOK
  <2>1. CASE UNCHANGED <<buf, phead, ctail, cdata>>
    BY <2>1 DEF Fifo!vars
  <2>2. CASE Producer
    <3>1. CASE StoreHead
      BY <2>0, <3>1, StoreHeadAdds DEF Fifo!Next
    <3>2. CASE ~StoreHead
      BY <2>1, <2>2, <3>2 DEF Producer, CallAdd, ReturnFull, StoreByte, QueryFree, cvars
    <3> QED  BY <3>1, <3>2
  <2>3. CASE Consumer
    <3>1. CASE StoreTail
      BY <3>1, StoreTailRemoves DEF Fifo!Next
    <3>2. CASE LoadByte
      BY <3>2, LoadBytePeeks DEF Fifo!Next
    <3>3. CASE ~StoreTail /\ ~LoadByte
      BY <2>1, <2>3, <3>3
         DEF Consumer, CallRemove, CallPeek, CallFlush, Call, ReturnEmpty, LoadHead,
             QueryLevel, pvars
    <3> QED  BY <3>1, <3>2, <3>3
  <2>4. CASE DrainByte
    <3>1. PICK w \in pstore : /\ buf' = [buf EXCEPT ![w[1]] = w[2]]
                              /\ UNCHANGED <<phead, cvars>>
      BY <2>4 DEF DrainByte
    <3>2. w[1] = phead /\ w[2] = pdata
      BY <3>1 DEF IInv, ProducerInv
    <3>3. Contents(buf', phead, ctail) = Contents(buf, phead, ctail)
      BY <2>0, <3>1, <3>2, ContentsElsewhere
    <3> QED  BY <3>1, <3>3 DEF Fifo!vars, cvars
  <2>5. CASE DrainHead \/ DrainTail
    BY <2>1, <2>5 DEF DrainHead, DrainTail, pvars, cvars
  <2>6. CASE UNCHANGED vars
    BY <2>1, <2>6 DEF vars, pvars, cvars
  <2> QED  BY <2>2, <2>3, <2>4, <2>5, <2>6 DEF Next, Memory
<1> QED  BY Inductive, <1>1, <1>2, PTL DEF Spec, FifoSpec, Fifo!Spec

=============================================================================
