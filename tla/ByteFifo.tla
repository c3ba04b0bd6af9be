------------------------------ MODULE ByteFifo ------------------------------
(***************************************************************************)
(* What spsc_queue.h promises to its two users: a bounded first-in         *)
(* first-out queue of bytes.  `out' is the byte most recently handed to    *)
(* the consumer by a remove or a peek.                                     *)
(***************************************************************************)
EXTENDS Naturals, Sequences

CONSTANTS Byte, MaxLen

VARIABLES fifo, out

vars == <<fifo, out>>

Init == fifo = <<>> /\ out \in Byte

(* The producer appends one byte if there is room for it.                  *)
Add(d) ==
    /\ Len(fifo) < MaxLen
    /\ fifo' = Append(fifo, d)
    /\ UNCHANGED out

(* The consumer looks at the oldest byte.                                  *)
Peek ==
    /\ fifo # <<>>
    /\ out' = Head(fifo)
    /\ UNCHANGED fifo

(* The consumer takes the oldest byte away; it is the byte it was handed.  *)
Remove ==
    /\ fifo # <<>>
    /\ out' = Head(fifo)
    /\ fifo' = Tail(fifo)

(* The consumer throws away the n oldest bytes; what the producer adds     *)
(* meanwhile may stay behind.                                              *)
Discard(n) ==
    /\ n <= Len(fifo)
    /\ fifo' = SubSeq(fifo, n + 1, Len(fifo))
    /\ UNCHANGED out

Next ==
    \/ \E d \in Byte : Add(d)
    \/ Peek
    \/ Remove
    \/ \E n \in 0..MaxLen : Discard(n)

Spec == Init /\ [][Next]_vars

=============================================================================
