----------------------------- MODULE SpscQueue ------------------------------
(***************************************************************************)
(* The lock-free single-producer single-consumer byte queue that every     *)
(* stream between the two RP2040/RP2350 cores goes through                 *)
(* (src/spsc_queue.h).                                                     *)
(*                                                                         *)
(* One step is one access to shared memory.  A store is first known only   *)
(* to the core that made it (phead, ctail, pstore) and becomes visible to  *)
(* the other core by a Drain step; the loads of one call may be performed  *)
(* in any order.  A __dmb() is the guard that waits until what precedes it *)
(* has been performed, and nothing else orders the two cores.              *)
(***************************************************************************)
EXTENDS Integers, Sequences, FiniteSets

CONSTANTS Capacity,   \* slots of the buffer: q->capacity
          Byte        \* the values a slot can hold

ASSUME CapacityAssumption ==
    /\ Capacity \in Nat \ {0}
    /\ \E n \in 0..31 : Capacity = 2^n

ASSUME ByteAssumption == Byte # {}

Slot == 0..Capacity-1

VARIABLES
    \* shared memory
    buf,      \* q->buffer
    head,     \* q->head, as the consumer's core sees it
    tail,     \* q->tail, as the producer's core sees it
    \* producer
    phead,    \* the producer's last value of q->head
    pstore,   \* data stores not yet visible: pairs <<slot, byte>>
    ppc,      \* where the producer is in spsc_queue_try_add
    pdata,    \* its argument
    pblock,   \* is it called from spsc_queue_add_blocking?
    credit,   \* bytes that spsc_queue_free still promises room for
    \* consumer
    ctail,    \* the consumer's last value of q->tail
    cop,      \* the operation in progress
    ctodo,    \* its accesses not yet performed
    cblock,   \* is it one of the _blocking variants?
    cdata,    \* *data, the byte last loaded from the buffer
    chead,    \* the head snapshot of spsc_queue_flush
    avail     \* bytes that spsc_queue_level still promises

pvars == <<phead, pstore, ppc, pdata, pblock, credit>>
cvars == <<ctail, cop, ctodo, cblock, cdata, chead, avail>>
vars  == <<buf, head, tail, pvars, cvars>>

-----------------------------------------------------------------------------
(* Plausible slips: each of them breaks a property below.                  *)
UnmaskedIndex(x) == x
FreeCountsReservedSlot(h, t) == Capacity - ((h - t + Capacity) % Capacity)
LevelTurnedRound(h, t) == (t - h + Capacity) % Capacity
FullWithoutMask == phead + 1 = tail
NoBarrier == TRUE

(* `x & q->mask': the capacity is a power of two.                          *)
Masked(x) == x % Capacity

(* spsc_queue_level on given positions; the unsigned difference wraps.     *)
Level(h, t) == Masked(h - t + Capacity)

(* spsc_queue_free on given positions.                                     *)
Free(h, t) == Capacity - 1 - Level(h, t)

Init ==
    /\ buf \in [Slot -> Byte]
    /\ head = 0 /\ tail = 0
    /\ phead = 0 /\ pstore = {} /\ ppc = "idle"
    /\ pdata \in Byte /\ pblock = FALSE /\ credit = 0
    /\ ctail = 0 /\ cop = "none" /\ ctodo = {} /\ cblock = FALSE
    /\ cdata \in Byte /\ chead = 0 /\ avail = 0

-----------------------------------------------------------------------------
(* Producer: spsc_queue_try_add, spsc_queue_add_blocking, spsc_queue_free. *)

CallAdd(d, blocking) ==
    /\ ppc = "idle"
    /\ ppc' = "add" /\ pdata' = d /\ pblock' = blocking
    /\ UNCHANGED <<buf, head, tail, phead, pstore, credit, cvars>>

Full == Masked(phead + 1) = tail

(* Reports `full' to a caller that did not ask to wait; a blocking caller  *)
(* just tests again.                                                       *)
ReturnFull ==
    /\ ppc = "add" /\ Full /\ ~pblock
    /\ ppc' = "idle"
    /\ UNCHANGED <<buf, head, tail, phead, pstore, pdata, pblock, credit, cvars>>

StoreByte ==
    /\ ppc = "add" /\ ~Full
    /\ pstore' = pstore \cup {<<phead, pdata>>}
    /\ ppc' = "publish"
    /\ UNCHANGED <<buf, head, tail, phead, pdata, pblock, credit, cvars>>

(* The __dmb() between the data store and the head store.                  *)
ReleaseBarrier == pstore = {} /\ head = phead

StoreHead ==
    /\ ppc = "publish" /\ ReleaseBarrier
    /\ phead' = Masked(phead + 1)
    /\ ppc' = "idle"
    /\ credit' = IF credit > 0 THEN credit - 1 ELSE 0
    /\ UNCHANGED <<buf, head, tail, pstore, pdata, pblock, cvars>>

(* spsc_queue_free called on the producer's core.                          *)
QueryFree ==
    /\ ppc = "idle"
    /\ credit' = Free(phead, tail)
    /\ UNCHANGED <<buf, head, tail, phead, pstore, ppc, pdata, pblock, cvars>>

(* A store of the producer reaches the memory.                             *)
DrainByte ==
    \E w \in pstore :
        /\ buf' = [buf EXCEPT ![w[1]] = w[2]]
        /\ pstore' = pstore \ {w}
        /\ UNCHANGED <<head, tail, phead, ppc, pdata, pblock, credit, cvars>>

DrainHead ==
    /\ head # phead
    /\ head' = phead
    /\ UNCHANGED <<buf, tail, pvars, cvars>>

-----------------------------------------------------------------------------
(* Consumer: spsc_queue_try_remove, _remove_blocking, _try_peek,           *)
(* _peek_blocking, _flush and _level.                                      *)

Accesses == [remove |-> {"head", "byte", "tail"},
             peek   |-> {"head", "byte"},
             flush  |-> {"head", "tail"}]

Call(op, blocking) ==
    /\ cop = "none"
    /\ cop' = op /\ ctodo' = Accesses[op] /\ cblock' = blocking
    /\ UNCHANGED <<buf, head, tail, pvars, ctail, cdata, chead, avail>>

CallRemove == \E blocking \in BOOLEAN : Call("remove", blocking)
CallPeek   == \E blocking \in BOOLEAN : Call("peek", blocking)
CallFlush  == Call("flush", FALSE)

(* The operation that still has the accesses `todo' to make.               *)
Continue(todo) ==
    /\ ctodo' = todo
    /\ cop' = IF todo = {} THEN "none" ELSE cop

(* The empty test fails: give up, or, in a blocking variant, test again.   *)
ReturnEmpty ==
    /\ cop \in {"remove", "peek"} /\ "head" \in ctodo
    /\ ctail = head /\ ~cblock
    /\ Continue({})
    /\ UNCHANGED <<buf, head, tail, pvars, ctail, cblock, cdata, chead, avail>>

LoadHead ==
    /\ "head" \in ctodo
    /\ cop = "flush" \/ ctail # head
    /\ chead' = IF cop = "flush" THEN head ELSE chead
    /\ Continue(ctodo \ {"head"})
    /\ UNCHANGED <<buf, head, tail, pvars, ctail, cblock, cdata, avail>>

(* The __dmb() between the test of head and the load of the byte.          *)
AcquireBarrier == "head" \notin ctodo /\ tail = ctail

LoadByte ==
    /\ "byte" \in ctodo /\ AcquireBarrier
    /\ cdata' = buf[ctail]
    /\ Continue(ctodo \ {"byte"})
    /\ UNCHANGED <<buf, head, tail, pvars, ctail, cblock, chead, avail>>

(* The __dmb() between the load of the byte and the store of tail; in      *)
(* flush, the one between the load of head and the store of tail.          *)
ConsumerBarrier == "byte" \notin ctodo /\ tail = ctail

StoreTail ==
    /\ "tail" \in ctodo /\ "head" \notin ctodo /\ ConsumerBarrier
    /\ IF cop = "flush"
         THEN /\ ctail' = chead
              /\ avail' = 0
         ELSE /\ ctail' = Masked(ctail + 1)
              /\ avail' = IF avail > 0 THEN avail - 1 ELSE 0
    /\ Continue(ctodo \ {"tail"})
    /\ UNCHANGED <<buf, head, tail, pvars, cblock, cdata, chead>>

(* spsc_queue_level called on the consumer's core.                         *)
QueryLevel ==
    /\ cop = "none"
    /\ avail' = Level(head, ctail)
    /\ UNCHANGED <<buf, head, tail, pvars, ctail, cop, ctodo, cblock, cdata, chead>>

DrainTail ==
    /\ tail # ctail
    /\ tail' = ctail
    /\ UNCHANGED <<buf, head, pvars, cvars>>

-----------------------------------------------------------------------------
Producer ==
    \/ \E d \in Byte, blocking \in BOOLEAN : CallAdd(d, blocking)
    \/ ReturnFull \/ StoreByte \/ StoreHead \/ QueryFree

Consumer ==
    \/ CallRemove \/ CallPeek \/ CallFlush
    \/ ReturnEmpty \/ LoadHead \/ LoadByte \/ StoreTail \/ QueryLevel

Memory == DrainByte \/ DrainHead \/ DrainTail

Next == Producer \/ Consumer \/ Memory

Spec == Init /\ [][Next]_vars

-----------------------------------------------------------------------------
TypeOK ==
    /\ buf \in [Slot -> Byte]
    /\ head \in Slot /\ tail \in Slot
    /\ phead \in Slot /\ pstore \subseteq Slot \X Byte
    /\ ppc \in {"idle", "add", "publish"}
    /\ pdata \in Byte /\ pblock \in BOOLEAN /\ credit \in Slot
    /\ ctail \in Slot /\ cop \in {"none", "remove", "peek", "flush"}
    /\ ctodo \subseteq {"head", "byte", "tail"}
    /\ cblock \in BOOLEAN /\ cdata \in Byte
    /\ chead \in Slot /\ avail \in Slot

(* The bytes between two positions, oldest first.                          *)
Contents(b, h, t) == [k \in 1..Level(h, t) |-> b[Masked(t + k - 1)]]

(* Every call of the detailed queue, whatever the interleaving and the     *)
(* order in which the memory performs its accesses, is a call of a         *)
(* bounded FIFO: no byte is lost, duplicated, reordered, overwritten or    *)
(* read before it is there.                                                *)
Fifo == INSTANCE ByteFifo WITH fifo <- Contents(buf, phead, ctail),
                               out <- cdata, MaxLen <- Capacity - 1
FifoSpec == Fifo!Spec

(* The two cores never access one slot of the buffer at the same time:     *)
(* while the consumer has a byte to load, no store to that slot is in      *)
(* flight.                                                                 *)
NoDataRace ==
    cop \in {"remove", "peek"} /\ "head" \notin ctodo /\ "byte" \in ctodo
        => \A w \in pstore : w[1] # ctail

(* The room that spsc_queue_free reported to the producer does not go      *)
(* away while it adds that many bytes ("Safe to call from either core, but *)
(* result may be stale"; tud_cdc_rx_task relies on it).                    *)
ReservedSpaceHolds == ppc = "add" /\ credit > 0 => ~Full

(* The bytes that spsc_queue_level reported to the consumer are there for  *)
(* that many removes: it never finds the queue empty before.               *)
PromisedBytesHold ==
    cop \in {"remove", "peek"} /\ "head" \in ctodo /\ avail > 0 => ctail # head

=============================================================================
