------------------------------ MODULE MCMonitor -----------------------------
(***************************************************************************)
(* Instance of Monitor for TLC: nothing tells one pin from another.        *)
(***************************************************************************)
EXTENDS Monitor, TLC

PinSymmetry == Permutations(Pins)

=============================================================================
