---------------------------- MODULE MCSpscQueue -----------------------------
(* SpscQueue for TLC: four slots, so three bytes in flight and every       *)
(* position wraps, and two byte values.                                    *)
EXTENDS SpscQueue, TLC

ByteSymmetry == Permutations(Byte)
=============================================================================
