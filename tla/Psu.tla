-------------------------------- MODULE Psu --------------------------------
(***************************************************************************)
(* The power supply (pirate/psu.c, commands/global/w_psu.c).  Core 0 turns *)
(* it on and off; core 1 polls its sensors in every turn of its loop and   *)
(* turns it off when the fuse has tripped or the voltage has dropped; what *)
(* it found is shown by core 0 at the end of a turn of its own loop, when  *)
(* system_config.error is set (pirate.c).  Nothing locks psu_status: the   *)
(* order of the assignments and the re-check in the poll must do.          *)
(*                                                                         *)
(* Busy-waits order the cores: a wait of psu_disable outlasts the part of  *)
(* a poll that has no wait of its own (two conversions of 60 us), and the  *)
(* settling time outlasts a whole poll.  The circuit is external: vreg is  *)
(* the regulator switch, tripped the latch of the current limiter.         *)
(***************************************************************************)
EXTENDS Integers

CONSTANT Loads          \* what may hang on the output: "ok", "short", "driven"

ASSUME PsuAssumption == "ok" \in Loads /\ Loads \subseteq {"ok", "short", "driven"}

VARIABLES
    enabled, overcurrent, undervoltage, pending,   \* psu_status
    uv_override,                                   \* undervoltage_limit_override
    vreg, limiting, tripped, load,                 \* the circuit
    faulty,                                        \* has the load ever been at fault?
    scope_running,
    error,                                         \* system_config.error
    c0, then, limited,                             \* core 0: position, return address, argument
    c1, bad,                                       \* core 1: position, its local error
    refused                                        \* was a conversion of this poll refused?

flags   == <<overcurrent, undervoltage, pending>>
circuit == <<vreg, limiting, tripped>>
world   == <<load, faulty, scope_running>>
core0   == <<c0, then, limited>>
core1   == <<c1, bad, refused>>
vars    == <<enabled, flags, uv_override, circuit, world, error, core0, core1>>

Init ==
    /\ enabled = FALSE /\ overcurrent = FALSE /\ undervoltage = FALSE /\ pending = FALSE
    /\ uv_override = FALSE
    /\ vreg = FALSE /\ limiting = TRUE /\ tripped = FALSE
    /\ load = "ok" /\ faulty = FALSE /\ scope_running = FALSE
    /\ error = FALSE
    /\ c0 = "prompt" /\ then = "none" /\ limited = TRUE
    /\ c1 = "test" /\ bad = FALSE /\ refused = FALSE

-----------------------------------------------------------------------------
(* Plausible slips: each of them breaks a property below.                  *)
NoRecheck == TRUE
VregStaysOn == vreg
FuseIgnored == ~overcurrent
ReturnLost == "none"

(* The load changes, and a short trips the current limiter.                *)
LoadChanges ==
    /\ load' \in Loads \ {load}
    /\ faulty' = (faulty \/ load' # "ok")
    /\ UNCHANGED <<enabled, flags, uv_override, circuit, scope_running, error, core0, core1>>

Trip ==
    /\ vreg /\ limiting /\ load = "short" /\ ~tripped
    /\ tripped' = TRUE
    /\ UNCHANGED <<enabled, flags, uv_override, vreg, limiting, world, error, core0, core1>>

(* psu_fuse_ok, psu_vout_ok, psu_backflow_ok.  A conversion answers 0      *)
(* while the oscilloscope owns the converter.                              *)
VoutHigh == ~scope_running /\ (load = "driven" \/ (vreg /\ load = "ok"))

FuseOk == ~overcurrent /\ ~scope_running /\ ~tripped
VoutOk == uv_override \/ (~undervoltage /\ VoutHigh)
BackflowOk == scope_running \/ load # "driven"

(* While its display is selected, the oscilloscope runs and stops again    *)
(* and again: a button and commands of core 0 and the refresh of the       *)
(* display on core 1 start it, they and its interrupt stop it.             *)
ScopeSwitch ==
    /\ scope_running \/ c0 \in {"prompt", "command"} \/ c1 = "test"
    /\ scope_running' = ~scope_running
    /\ UNCHANGED <<enabled, flags, uv_override, circuit, load, faulty, error, core0, core1>>

-----------------------------------------------------------------------------
(* psu_disable, as core 0 calls it; `then' is where it returns to.         *)
VregOff == FALSE
Return == then

Off0 ==
    /\ c0 = "off"
    /\ enabled' = FALSE
    /\ c0' = "cut"
    /\ UNCHANGED <<flags, uv_override, circuit, world, error, then, limited, core1>>

Cut0 ==
    /\ c0 = "cut"
    /\ vreg' = VregOff /\ limiting' = TRUE
    /\ c0' = "cool"
    /\ UNCHANGED <<enabled, flags, uv_override, tripped, world, error, then, limited, core1>>

(* busy_wait_ms(1); psu_fuse_reset()                                       *)
Cool0 ==
    /\ c0 = "cool" /\ c1 \notin {"fuse", "vout", "recheck", "off", "cut"}
    /\ tripped' = FALSE
    /\ c0' = Return /\ then' = "none"
    /\ UNCHANGED <<enabled, flags, uv_override, vreg, limiting, world, error, limited, core1>>

Call(address) == c0' = "off" /\ then' = address

-----------------------------------------------------------------------------
(* The commands of core 0, and psu_enable.                                 *)
Command ==
    /\ c0 = "prompt"
    /\ c0' = "command"
    /\ UNCHANGED <<enabled, flags, uv_override, circuit, world, error, then, limited, core1>>

EnableCommand ==
    /\ c0 = "command" /\ ~scope_running
    /\ Call("setup")
    /\ limited' \in BOOLEAN
    /\ UNCHANGED <<enabled, flags, uv_override, circuit, world, error, core1>>

DisableCommand ==
    /\ c0 = "command"
    /\ Call("return")
    /\ UNCHANGED <<enabled, flags, uv_override, circuit, world, error, limited, core1>>

OtherCommand ==
    /\ c0 = "command"
    /\ c0' = "return"
    /\ UNCHANGED <<enabled, flags, uv_override, circuit, world, error, then, limited, core1>>

Setup ==
    /\ c0 = "setup"
    /\ overcurrent' = FALSE /\ undervoltage' = FALSE /\ pending' = FALSE
    /\ uv_override' \in BOOLEAN
    /\ limiting' = FALSE
    /\ c0' = "power"
    /\ UNCHANGED <<enabled, vreg, tripped, world, error, then, limited, core1>>

Power ==
    /\ c0 = "power"
    /\ tripped' = FALSE /\ vreg' = TRUE
    /\ c0' = "settle"
    /\ UNCHANGED <<enabled, flags, uv_override, limiting, world, error, then, limited, core1>>

Settle ==
    /\ c0 = "settle" /\ c1 = "test"
    /\ limiting' = limited
    /\ c0' = IF limited THEN "fuse" ELSE "vout"
    /\ UNCHANGED <<enabled, flags, uv_override, vreg, tripped, world, error, then, limited,
                   core1>>

(* The three checks; a failed one turns the supply off again.              *)
Check(at, ok, next) ==
    /\ c0 = at
    /\ IF ok THEN c0' = next /\ UNCHANGED then ELSE Call("failed")
    /\ UNCHANGED <<enabled, flags, uv_override, circuit, world, error, limited, core1>>

(* The last one reads twice, and the oscilloscope may start in between.    *)
Checks == \/ Check("fuse", FuseOk, "vout")
          \/ Check("vout", VoutOk, "backflow")
          \/ Check("backflow", BackflowOk, "enable")
          \/ scope_running /\ Check("backflow", FALSE, "enable")

Enable ==
    /\ c0 = "enable"
    /\ enabled' = TRUE
    /\ c0' = "return"
    /\ UNCHANGED <<flags, uv_override, circuit, world, error, then, limited, core1>>

(* psucmd_enable calls psucmd_disable when psu_enable has failed.          *)
Failed ==
    /\ c0 = "failed"
    /\ Call("return")
    /\ UNCHANGED <<enabled, flags, uv_override, circuit, world, error, limited, core1>>

-----------------------------------------------------------------------------
(* core0_infinite_loop: error = ui_process_commands(), and its last lines. *)
CommandReturns ==
    /\ c0 = "return"
    /\ error' \in BOOLEAN
    /\ c0' = "test_error"
    /\ UNCHANGED <<enabled, flags, uv_override, circuit, world, then, limited, core1>>

NoInput ==
    /\ c0 = "prompt"
    /\ c0' = "test_error"
    /\ UNCHANGED <<enabled, flags, uv_override, circuit, world, error, then, limited, core1>>

TestError ==
    /\ c0 = "test_error"
    /\ c0' = IF error THEN "show" ELSE "prompt"
    /\ UNCHANGED <<enabled, flags, uv_override, circuit, world, error, then, limited, core1>>

(* psucmd_show_clear_error                                                 *)
Show ==
    /\ c0 = "show"
    /\ pending' = (pending /\ ~overcurrent /\ ~undervoltage)
    /\ c0' = "clear_error"
    /\ UNCHANGED <<enabled, overcurrent, undervoltage, uv_override, circuit, world, error, then,
                   limited, core1>>

ClearError ==
    /\ c0 = "clear_error"
    /\ error' = FALSE
    /\ c0' = "prompt"
    /\ UNCHANGED <<enabled, flags, uv_override, circuit, world, then, limited, core1>>

Core0Continues == Off0 \/ Cut0 \/ Cool0 \/ Setup \/ Power \/ Settle \/ Checks \/ Enable
                  \/ Failed \/ CommandReturns \/ TestError \/ Show \/ ClearError

Core0 == Command \/ NoInput \/ EnableCommand \/ DisableCommand \/ OtherCommand \/ Core0Continues

-----------------------------------------------------------------------------
(* Core 1: psu_poll_fuse_vout_error and psucmd_irq_callback.               *)
PollTest ==
    /\ c1 = "test" /\ enabled
    /\ c1' = "fuse" /\ refused' = FALSE
    /\ UNCHANGED <<enabled, flags, uv_override, circuit, world, error, core0, bad>>

PollFuse ==
    /\ c1 = "fuse"
    /\ overcurrent' = (overcurrent \/ ~FuseOk)
    /\ bad' = ~FuseOk /\ refused' = scope_running
    /\ c1' = "vout"
    /\ UNCHANGED <<enabled, undervoltage, pending, uv_override, circuit, world, error, core0>>

PollVout ==
    /\ c1 = "vout"
    /\ undervoltage' = (undervoltage \/ ~VoutOk)
    /\ bad' = (bad \/ ~VoutOk)
    /\ refused' = (refused \/ (scope_running /\ ~uv_override))
    /\ c1' = "recheck"
    /\ UNCHANGED <<enabled, overcurrent, pending, uv_override, circuit, world, error, core0>>

StillEnabled == enabled

PollRecheck ==
    /\ c1 = "recheck"
    /\ IF bad /\ StillEnabled
         THEN /\ c1' = "off"
              /\ UNCHANGED <<overcurrent, undervoltage, bad>>
         ELSE /\ overcurrent' = FALSE /\ undervoltage' = FALSE /\ bad' = FALSE
              /\ c1' = "test"
    /\ UNCHANGED <<enabled, pending, uv_override, circuit, world, error, core0, refused>>

(* psu_disable, as core 1 calls it.                                        *)
Off1 ==
    /\ c1 = "off"
    /\ enabled' = FALSE
    /\ c1' = "cut"
    /\ UNCHANGED <<flags, uv_override, circuit, world, error, core0, bad, refused>>

Cut1 ==
    /\ c1 = "cut"
    /\ vreg' = VregOff /\ limiting' = TRUE
    /\ c1' = "cool"
    /\ UNCHANGED <<enabled, flags, uv_override, tripped, world, error, core0, bad, refused>>

Cool1 ==
    /\ c1 = "cool"
    /\ tripped' = FALSE
    /\ c1' = "pending"
    /\ UNCHANGED <<enabled, flags, uv_override, vreg, limiting, world, error, core0, bad, refused>>

SetPending ==
    /\ c1 = "pending"
    /\ pending' = TRUE
    /\ c1' = "callback"
    /\ UNCHANGED <<enabled, overcurrent, undervoltage, uv_override, circuit, world, error, core0,
                   bad, refused>>

Callback ==
    /\ c1 = "callback"
    /\ error' = TRUE /\ bad' = FALSE
    /\ c1' = "test"
    /\ UNCHANGED <<enabled, flags, uv_override, circuit, world, core0, refused>>

Core1 == PollTest \/ PollFuse \/ PollVout \/ PollRecheck \/ Off1 \/ Cut1 \/ Cool1 \/ SetPending
         \/ Callback

Next == LoadChanges \/ Trip \/ ScopeSwitch \/ Core0 \/ Core1

Spec == Init /\ [][Next]_vars

(* Both loops keep turning.  Commands end, and core 0 looks at the error   *)
(* flag again and again while nobody types.                                *)
LiveSpec == /\ Spec
            /\ WF_vars(Core1) /\ WF_vars(Core0Continues \/ OtherCommand \/ NoInput)

-----------------------------------------------------------------------------
TypeOK ==
    /\ {enabled, overcurrent, undervoltage, pending, uv_override, vreg, limiting, tripped, faulty,
        scope_running, error, limited, bad, refused} \subseteq BOOLEAN
    /\ load \in Loads
    /\ c0 \in {"prompt", "command", "off", "cut", "cool", "setup", "power", "settle", "fuse",
               "vout", "backflow", "enable", "failed", "return", "test_error", "show",
               "clear_error"}
    /\ then \in {"none", "setup", "failed", "return"}
    /\ c1 \in {"test", "fuse", "vout", "recheck", "off", "cut", "cool", "pending", "callback"}

(* While core 0 is not switching the supply, and core 1 is not turning it  *)
(* off, the regulator is on exactly if psu_status says so: no interleaving *)
(* of a poll with psu_enable or psu_disable leaves it on unnoticed.        *)
OutputFollowsStatus ==
    /\ c0 \in {"prompt", "command", "return", "test_error", "show", "clear_error"}
    /\ c1 \in {"test", "fuse", "vout", "recheck"}
    => enabled = vreg

(* Core 1 trips the supply only if the load has been at fault, or if the   *)
(* oscilloscope had a conversion of this poll refused, which then reads 0  *)
(* (amux.c:159).  A supply that core 0 turns off during a poll is not      *)
(* taken for a fault: psu_disable clears enabled first, and the poll looks *)
(* at it again (psu.c:230); the spurious warning that w_psu.c:272 expects  *)
(* of this race does not come.                                             *)
NoFalseTrip == c1 \in {"off", "cut", "cool", "pending"} => faulty \/ refused

(* When the current limiter trips, the regulator is turned off.            *)
TripCutsPower == (tripped /\ vreg) ~> ~vreg

=============================================================================
