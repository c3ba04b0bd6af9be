------------------------------- MODULE Syntax -------------------------------
(***************************************************************************)
(* Bus syntax: syntax_compile.c makes a program of what the user typed,    *)
(* syntax_run.c runs it on the mode and collects one result for each       *)
(* repetition, syntax_post.c prints the results.  Programs and results     *)
(* share the limit SYN_MAX_LENGTH, which the compiler tests by counting    *)
(* the results to come, and the handlers that repeat test again.  Both     *)
(* count in uint32_t, where a large repeat wraps around.                   *)
(*                                                                         *)
(* An item is a command with its repeat; its data, bits and pin are left   *)
(* out.  Whether the text of an item is in order, and whether the bus      *)
(* answers with an error, is the environment's choice.                     *)
(***************************************************************************)
EXTENDS Integers, Sequences, SequencesExt

CONSTANTS MaxLength,   \* SYN_MAX_LENGTH
          MaxItems,    \* items that a line has room for (UI_CMDBUFFSIZE)
          Word,        \* 2^32: counts are uint32_t
          Repeats      \* the values of :repeat, any of a uint32_t and 0 too

ASSUME SyntaxAssumption ==
    /\ MaxItems \in Nat /\ MaxLength \in Nat /\ 0 < MaxItems /\ MaxItems < MaxLength
    /\ Word \in Nat /\ 2 * MaxLength <= Word
    /\ Repeats \subseteq 0..Word-1 /\ 1 \in Repeats

VARIABLES out,         \* syntax_io.out[0..out_cnt-1]
          generated,   \* generated_in_cnt: results the program will need
          pos,         \* the item that runs
          in           \* syntax_io.in[0..in_cnt-1]: results, each of an item

syntax_io == <<out, generated, pos, in>>

Item == [command : {"write", "read", "wait", "bus"}, repeat : Repeats]

Empty == out = <<>> /\ generated = 0 /\ pos = 1 /\ in = <<>>

-----------------------------------------------------------------------------
(* Plausible slips: each of them breaks a property of CommandLine.         *)
OneTooMany(n) == (generated + n) % Word <= MaxLength
PastTheEnd == pos + 2

-----------------------------------------------------------------------------
(* syntax_compile.  A delay or a run of clock ticks has one result however *)
(* often it repeats.                                                       *)
Clear == out' = <<>> /\ generated' = 0 /\ pos' = 1 /\ in' = <<>>

Needs(item) == IF item.command = "wait" THEN 1 ELSE item.repeat

Plus(a, b) == (a + b) % Word

Fits(n) == Plus(generated, n) < MaxLength

CompileItem ==
    \E item \in Item :
        /\ Len(out) < MaxItems /\ Fits(Needs(item))
        /\ out' = Append(out, item)
        /\ generated' = Plus(generated, Needs(item))
        /\ UNCHANGED <<pos, in>>

(* A string is a row of writes.                                            *)
CompileString ==
    \E n \in 2..MaxItems - Len(out) :
        /\ Len(out) + n < MaxLength /\ Fits(n)
        /\ out' = out \o [i \in 1..n |-> [command |-> "write", repeat |-> 1]]
        /\ generated' = Plus(generated, n)
        /\ UNCHANGED <<pos, in>>

-----------------------------------------------------------------------------
(* syntax_run, one item: its handler, then the tests of the main loop.     *)

(* The handlers of write and read refuse what the buffer has no room for;  *)
(* syntax_run_read looks at the repeat of the first item for that.         *)
Refused(item) ==
    \/ item.command = "write" /\ Plus(Len(in), item.repeat) >= MaxLength
    \/ item.command = "read" /\ Plus(Len(in), out[1].repeat) >= MaxLength

(* Only write and read have a result for each repetition.  One that is     *)
(* repeated 0 times has a result all the same, without touching the bus.   *)
(* Waiting, and ticks of the clock, never fail.                            *)
ResultsOf(item) ==
    IF item.command \in {"write", "read"} /\ item.repeat > 0 THEN item.repeat ELSE 1

Reaches(item) ==
    item.command = "bus" \/ (item.command \in {"write", "read"} /\ item.repeat > 0)

Results(item, failing) ==
    IF Refused(item)
      THEN <<[item |-> pos, error |-> "full"]>>
      ELSE [i \in 1..ResultsOf(item) |->
              [item |-> pos, error |-> IF i \in failing THEN "bus" ELSE "none"]]

NextItem == pos + 1

(* Which repetitions fail: no matter, where they leave the buffer anyway.  *)
Failing(item) ==
    IF Reaches(item) /\ ResultsOf(item) <= MaxLength THEN SUBSET (1..ResultsOf(item)) ELSE {{}}

(* A handler has written past syntax_io.in, over the counts behind it.     *)
Overrun == Len(in) > MaxLength

(* A result that takes the last slot is not counted and so never shown.    *)
RunItem ==
    /\ pos <= Len(out) /\ ~Overrun
    /\ \E failing \in Failing(out[pos]) :
           LET all == in \o Results(out[pos], failing) IN
           \/ /\ Len(all) > MaxLength
              /\ in' = all /\ pos' = pos
           \/ /\ Len(all) = MaxLength
              /\ in' = Front(all) /\ pos' = Len(out) + 1
           \/ /\ Len(all) < MaxLength
              /\ in' = all
              /\ pos' = IF Last(all).error # "none" THEN Len(out) + 1 ELSE NextItem
    /\ UNCHANGED <<out, generated>>

Ran == pos = Len(out) + 1

(* syntax_post prints the results, all there are; the next compilation     *)
(* clears the program.                                                     *)
Post == Clear

=============================================================================
