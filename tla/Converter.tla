------------------------------ MODULE Converter -----------------------------
(***************************************************************************)
(* The analog-to-digital converter and the multiplexer before it (amux.c). *)
(* Both cores use them: each takes a lock, selects the converter's input   *)
(* and the multiplexer's channel, waits, converts, and frees the lock.  A  *)
(* sweep does so for all channels and then for the supply's current.  The  *)
(* oscilloscope takes no lock: it selects its pin, later sets              *)
(* scope_running and converts on its own; amux.c tests that flag instead.  *)
(*                                                                         *)
(* Left out: the values, the waits, the discharge of the channel to ground *)
(* before each selection, and the order of the channels in a sweep (of     *)
(* which the supply's current is the last).                                *)
(***************************************************************************)
EXTENDS Integers

CONSTANT Channels          \* of the multiplexer

Current == "current"       \* CURRENT_SENSE_ADC, not a channel of the multiplexer
Ground == "ground"         \* HW_ADC_MUX_GND

ASSUME ConverterAssumption ==
    {"io", "fuse"} \subseteq Channels /\ Current \notin Channels /\ Ground \notin Channels

VARIABLES busy,            \* the flag of adc_busy_wait
          input, channel,  \* what the converter and the multiplexer are set to
          reader,          \* of each core: how far its reading has come
          scope_running

converter == <<busy, input, channel, reader, scope_running>>

Cores == {0, 1}

(* "todo" is what is still to be converted, "on" what the core has         *)
(* selected; "spoilt", a history variable: the oscilloscope has cut in.    *)
NotReading == [at |-> "idle", todo |-> {}, on |-> Ground, spoilt |-> FALSE]
Idle(c) == reader[c].at = "idle"

InitConverter ==
    /\ busy = FALSE /\ input = "mux" /\ channel = Ground
    /\ reader = [c \in Cores |-> NotReading]
    /\ scope_running = FALSE

-----------------------------------------------------------------------------
(* Plausible slips: each of them breaks a property of Monitor.             *)
NoWait == TRUE

-----------------------------------------------------------------------------
Sweep == Channels \cup {Current}

(* amux_read, amux_read_current, amux_sweep: refused while the scope runs, *)
(* which is not tested again once the lock is held.                        *)
Read(c, todo) ==
    /\ Idle(c) /\ ~scope_running
    /\ reader' = [reader EXCEPT ![c] = [NotReading EXCEPT !.at = "wait", !.todo = todo]]
    /\ UNCHANGED <<busy, input, channel, scope_running>>

(* adc_busy_wait: test and set under a spin lock.                          *)
Free == ~busy

Acquire(c) ==
    /\ reader[c].at = "wait" /\ Free
    /\ busy' = TRUE /\ reader' = [reader EXCEPT ![c].at = "select"]
    /\ UNCHANGED <<input, channel, scope_running>>

(* adc_select_input, amux_select_input; the latter is refused while the    *)
(* scope runs.                                                             *)
Select(c) ==
    /\ reader[c].at = "select"
    /\ \E what \in reader[c].todo :
           /\ what = Current => reader[c].todo = {Current}
           /\ input' = IF what = Current THEN Current ELSE "mux"
           /\ channel' = IF scope_running THEN channel
                         ELSE IF what = Current THEN Ground ELSE what
           /\ reader' = [reader EXCEPT ![c].at = "convert", ![c].on = what]
    /\ UNCHANGED <<busy, scope_running>>

(* adc_read *)
Convert(c) ==
    /\ reader[c].at = "convert"
    /\ LET left == reader[c].todo \ {reader[c].on} IN
           reader' = [reader EXCEPT ![c].todo = left,
                                    ![c].at = IF left = {} THEN "free" ELSE "select"]
    /\ UNCHANGED <<busy, input, channel, scope_running>>

Release(c) ==
    /\ reader[c].at = "free"
    /\ busy' = FALSE
    /\ reader' = [reader EXCEPT ![c] = NotReading]
    /\ UNCHANGED <<input, channel, scope_running>>

Reading(c) == Acquire(c) \/ Select(c) \/ Convert(c) \/ Release(c)

(* scope_start takes no lock, and sets the flag last; the interrupt that   *)
(* ends a capture.                                                         *)
CutIn == reader' = [c \in Cores |-> [reader[c] EXCEPT !.spoilt = ~Idle(c)]]

ScopeSelect ==
    /\ ~scope_running
    /\ input' = "mux" /\ channel' = "io"
    /\ CutIn
    /\ UNCHANGED <<busy, scope_running>>

ScopeStart ==
    /\ scope_running' = TRUE
    /\ CutIn
    /\ UNCHANGED <<busy, input, channel>>

ScopeStop ==
    /\ scope_running /\ scope_running' = FALSE
    /\ UNCHANGED <<busy, input, channel, reader>>

-----------------------------------------------------------------------------
(* What the converter is connected to.                                     *)
Connected == IF input = Current THEN Current ELSE channel

ConverterTypeOK ==
    /\ busy \in BOOLEAN /\ scope_running \in BOOLEAN
    /\ input \in {"mux", Current} /\ channel \in Channels \cup {Ground}
    /\ reader \in [Cores -> [at : {"idle", "wait", "select", "convert", "free"},
                            todo : SUBSET Sweep, on : Sweep \cup {Ground},
                            spoilt : BOOLEAN]]

(* "Uses spinlock to ensure only one core accesses the ADC at a time": a   *)
(* core converts what it has selected, however the other core's readings   *)
(* are timed.  Only the oscilloscope, which takes no lock, can cut in.     *)
ReadsOwnChannel ==
    \A c \in Cores :
        reader[c].at = "convert" /\ ~reader[c].spoilt => Connected = reader[c].on

=============================================================================
