------------------------------- MODULE RxPath -------------------------------
(***************************************************************************)
(* Terminal input: everything that fills rx_fifo on core 1 (usb_rx.c, and  *)
(* tud_cdc_rx_task in pirate.c) and the reads of core 0.                   *)
(*                                                                         *)
(* Core 1 has up to three inputs for the one queue.  Its main loop copies  *)
(* what USB and the RTT console have, and the UART receive interrupt,      *)
(* which can strike between any two memory accesses of that loop, adds     *)
(* bytes by itself.  One step of the loop is one access of try_add; the    *)
(* interrupt handler runs to its end before the loop goes on, so it is one *)
(* step.  What the two cores' stores do to each other is the subject of    *)
(* SpscQueue; here memory is sequentially consistent.                      *)
(*                                                                         *)
(* A byte is a pair <<source, n>>: the n-th byte that source sent.         *)
(***************************************************************************)
EXTENDS Integers, Sequences

CONSTANTS Capacity,       \* RX_FIFO_LENGTH_IN_BYTES
          Configurations, \* possible sets of inputs, of "usb", "rtt", "uart"
          MaxInput        \* bound: bytes each input sends

ASSUME RxAssumption == /\ Capacity \in Nat \ {0, 1}
                       /\ Configurations \subseteq SUBSET {"usb", "rtt", "uart"}
                       /\ MaxInput \in Nat

Source == {"usb", "rtt", "uart"}
NoByte == <<"none", 0>>

VARIABLES
    inputs,            \* the ones this device is configured for
    buf, head, tail,   \* rx_fifo
    produced,          \* bytes each source has produced so far
    held,              \* of those, bytes still in the driver: TinyUSB, RTT buffer
    pc,                \* where the main loop of core 1 is
    batch,             \* tud_cdc_rx_task: buf[i..count-1], still to be added
    arg,               \* argument of the try_add in progress
    h,                 \* its local variable head
    pushback,          \* rx_from_rtt_terminal: last_character
    out                \* everything core 0 has read

queue  == <<buf, head, tail>>
loop   == <<pc, batch, arg, h, pushback>>
rxVars == <<inputs, queue, produced, held, loop, out>>

RxInit ==
    /\ inputs \in Configurations
    /\ buf = [i \in 0..Capacity-1 |-> NoByte] /\ head = 0 /\ tail = 0
    /\ produced = [s \in Source |-> 0] /\ held = [s \in Source |-> 0]
    /\ pc = "loop" /\ batch = <<>> /\ arg = NoByte /\ h = 0
    /\ pushback = NoByte
    /\ out = <<>>

-----------------------------------------------------------------------------
(* Plausible slips: each of them breaks a property below.                  *)
AfterFullForgets == [to |-> "loop", keep |-> NoByte]
UartIrqOverwrites ==
    /\ "uart" \in inputs /\ produced["uart"] < MaxInput
    /\ produced' = [produced EXCEPT !["uart"] = @ + 1]
    /\ buf' = [buf EXCEPT ![head] = <<"uart", produced["uart"] + 1>>]
    /\ head' = (head + 1) % Capacity
    /\ UNCHANGED <<inputs, tail, held, loop, out>>

Masked(x) == x % Capacity
Level == Masked(head - tail + Capacity)
Free  == Capacity - 1 - Level

(* The next k bytes that the driver of source s holds.                     *)
Oldest(s, k) == [i \in 1..k |-> <<s, produced[s] - held[s] + i>>]

(* The host, or the debug probe, sends a byte: TinyUSB and the RTT down    *)
(* buffer keep it (the host is throttled when they are full).              *)
Arrive(s) ==
    /\ s \in inputs \cap {"usb", "rtt"}
    /\ produced[s] < MaxInput
    /\ produced' = [produced EXCEPT ![s] = @ + 1]
    /\ held' = [held EXCEPT ![s] = @ + 1]
    /\ UNCHANGED <<inputs, queue, loop, out>>

-----------------------------------------------------------------------------
(* tud_cdc_rx_task: read no more than fits and add it byte by byte.        *)

(* How many bytes tud_cdc_n_read takes: MIN(available, free_space).        *)
Batch(n, free) == IF n <= free THEN n ELSE free

UsbRead ==
    /\ pc = "loop"
    /\ LET k == Batch(held["usb"], Free) IN
         /\ k > 0
         /\ batch' = Oldest("usb", k)
         /\ held' = [held EXCEPT !["usb"] = @ - k]
    /\ pc' = "usb"
    /\ UNCHANGED <<inputs, queue, produced, arg, h, pushback, out>>

UsbSkip ==
    /\ pc = "loop" /\ Batch(held["usb"], Free) = 0
    /\ pc' = "rtt"
    /\ UNCHANGED <<inputs, queue, produced, held, batch, arg, h, pushback, out>>

UsbNext ==
    /\ pc = "usb"
    /\ IF batch = <<>>
         THEN /\ pc' = "rtt"
              /\ UNCHANGED <<batch, arg>>
         ELSE /\ pc' = "test"
              /\ arg' = Head(batch)
              /\ batch' = Tail(batch)
    /\ UNCHANGED <<inputs, queue, produced, held, h, pushback, out>>

(* rx_from_rtt_terminal: the byte left over from last time comes first.    *)
RttNext ==
    /\ pc = "rtt"
    /\ \/ /\ pushback # NoByte
          /\ arg' = pushback /\ pushback' = NoByte /\ pc' = "test"
          /\ UNCHANGED held
       \/ /\ pushback = NoByte /\ held["rtt"] > 0
          /\ arg' = Oldest("rtt", 1)[1]
          /\ held' = [held EXCEPT !["rtt"] = @ - 1]
          /\ pc' = "test"
          /\ UNCHANGED pushback
       \/ /\ pushback = NoByte /\ held["rtt"] = 0
          /\ pc' = "loop"
          /\ UNCHANGED <<held, arg, pushback>>
    /\ UNCHANGED <<inputs, queue, produced, batch, h, out>>

-----------------------------------------------------------------------------
(* spsc_queue_try_add, as the main loop of core 1 executes it.             *)

(* What the caller does with `full': tud_cdc_rx_task calls assert_error(), *)
(* rx_from_rtt_terminal keeps the byte for its next call.                  *)
AfterFull == IF arg[1] = "usb" THEN [to |-> "assert_error", keep |-> pushback]
                               ELSE [to |-> "loop", keep |-> arg]

TestFull ==
    /\ pc = "test"
    /\ h' = head
    /\ IF Masked(head + 1) = tail
         THEN /\ pc' = AfterFull.to
              /\ pushback' = AfterFull.keep
         ELSE /\ pc' = "store"
              /\ UNCHANGED pushback
    /\ UNCHANGED <<inputs, queue, produced, held, batch, arg, out>>

StoreByte ==
    /\ pc = "store"
    /\ buf' = [buf EXCEPT ![h] = arg]
    /\ pc' = "publish"
    /\ UNCHANGED <<inputs, head, tail, produced, held, batch, arg, h, pushback, out>>

StoreHead ==
    /\ pc = "publish"
    /\ head' = Masked(h + 1)
    /\ pc' = arg[1]
    /\ UNCHANGED <<inputs, buf, tail, produced, held, batch, arg, h, pushback, out>>

(* rx_uart_irq_handler: try_add, and drop the byte if the queue is full.   *)
UartIrq ==
    /\ "uart" \in inputs /\ pc # "assert_error"
    /\ produced["uart"] < MaxInput
    /\ produced' = [produced EXCEPT !["uart"] = @ + 1]
    /\ IF Masked(head + 1) = tail
         THEN UNCHANGED <<inputs, buf, head>>
         ELSE /\ buf' = [buf EXCEPT ![head] = <<"uart", produced["uart"] + 1>>]
              /\ head' = Masked(head + 1)
    /\ UNCHANGED <<inputs, tail, held, loop, out>>

(* Core 0: rx_fifo_try_get, or rx_fifo_get_blocking that has waited.       *)
TryGet ==
    /\ tail # head
    /\ out' = Append(out, buf[tail])
    /\ tail' = Masked(tail + 1)
    /\ UNCHANGED <<inputs, buf, head, produced, held, loop>>

(* assert_error() ends in hard_assert(false): core 1 stands still.         *)
Core1 == UsbRead \/ UsbSkip \/ UsbNext \/ RttNext \/ TestFull \/ StoreByte \/ StoreHead

RxNext == \/ \E s \in Source : Arrive(s)
          \/ Core1
          \/ UartIrq
          \/ TryGet

RxSpec == RxInit /\ [][RxNext]_rxVars

(* Core 1 loops for ever and core 0 keeps asking for input.                *)
RxLiveSpec == RxSpec /\ WF_rxVars(Core1) /\ WF_rxVars(TryGet)

-----------------------------------------------------------------------------
(* What core 0 has read of one source is in the order in which it was      *)
(* sent, and nothing twice.                                                *)
Ordered(s) ==
    \A i, j \in 1..Len(out) :
        i < j /\ out[i][1] = s /\ out[j][1] = s => out[i][2] < out[j][2]

(* Core 0 never reads a byte before all that its source sent before it     *)
(* have been read, once each, in order ("ensuring no characters are lost").*)
(* Bytes of the UART may be dropped, but never repeated or reordered.      *)
CompleteInput ==
    /\ \A s \in Source : Ordered(s)
    /\ \A i \in 1..Len(out) : out[i][1] \in {"usb", "rtt"} =>
           \A n \in 1..out[i][2] : \E j \in 1..i : out[j] = <<out[i][1], n>>

(* Once core 1 has nothing in hand and the queue is empty, core 0 has read *)
(* every byte that core 1 took from its drivers.                           *)
NothingLost ==
    pc = "loop" /\ pushback = NoByte /\ head = tail
        => \A s \in {"usb", "rtt"} : \A n \in 1..produced[s]-held[s] :
               \E i \in 1..Len(out) : out[i] = <<s, n>>

(* Seen from its two ends rx_fifo is the queue that spsc_queue.h promises, *)
(* although the room is counted, tested and used in different steps, and   *)
(* although an interrupt may be what fills it: every step adds one byte    *)
(* behind the others, takes the oldest, or is invisible.  Nobody           *)
(* overwrites a byte, publishes a place that has none, or drops one.       *)
InQueue == [i \in 1..Level |-> buf[Masked(tail + (i - 1))]]
LastRead == IF out = <<>> THEN NoByte ELSE out[Len(out)]

RxFifo == INSTANCE ByteFifo WITH Byte <- (Source \X (1..MaxInput)) \cup {NoByte},
                                 MaxLen <- Capacity - 1,
                                 fifo <- InQueue, out <- LastRead

AddOrTake == (\E d \in Source \X (1..MaxInput) : RxFifo!Add(d)) \/ RxFifo!Remove
RxFifoSpec == RxFifo!Init /\ [][AddOrTake]_(RxFifo!vars)

(* Whatever the host or the debug probe sent is read in the end.           *)
InputArrives ==
    \A s \in {"usb", "rtt"} : \A n \in 1..MaxInput :
        produced[s] >= n ~> \E i \in 1..Len(out) : out[i] = <<s, n>>

=============================================================================
