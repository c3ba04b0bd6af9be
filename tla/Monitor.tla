------------------------------- MODULE Monitor ------------------------------
(***************************************************************************)
(* How core 1 keeps the LCD up to date, and when it must not.  A timer     *)
(* asks for an update every half second; core 1's main loop then sweeps    *)
(* the pins' voltages, collects what has changed, paints it, and clears    *)
(* the marks of change (pirate.c, system_monitor.c).  Core 0 marks pins    *)
(* whose labels it changes, and sends messages, one at a time, that stop,  *)
(* resume and force updates.  While it runs a program of the bus syntax    *)
(* (see CommandLine) or the legacy protocol, the sweep must not disturb    *)
(* the pins.                                                               *)
(*                                                                         *)
(* Left out: toolbars (see Toolbar) with the marks that only they show,    *)
(* voltages and current on the LCD, the SPI bus.                           *)
(***************************************************************************)
EXTENDS Converter

CONSTANT Pins

VARIABLES core0, message,      \* what core 0 does; the message not answered yet
          display, dark,       \* system_config.display, .lcd_screensaver_active
          suppress,            \* system_config.binmode_suppress_monitor
          core1, flags,        \* core 1's main loop, and its update_flags
          request, force,      \* lcd_update_request, lcd_update_force
          timers, firing,      \* running timers; the callback is about to run
          changed,             \* system_config.pin_changed
          unseen,              \* pins whose label on the LCD is out of date
          overlooked,          \* history: marked while marks are being cleared
          disturbances         \* history: monitor's sweeps since the bus was claimed

lcd   == <<display, dark, unseen, overlooked>>
asked == <<request, force, timers, firing>>
vars  == <<converter, core0, message, suppress, core1, flags, changed, disturbances, lcd, asked>>

Init ==
    /\ InitConverter
    /\ core0 = "idle" /\ message = "none"
    /\ display = "default" /\ dark = FALSE /\ suppress = FALSE
    /\ core1 = "loop" /\ flags = {}
    /\ request = FALSE /\ force = FALSE /\ timers = 1 /\ firing = FALSE
    /\ changed = Pins /\ unseen = Pins /\ overlooked = {}
    /\ disturbances = 0

-----------------------------------------------------------------------------
(* Plausible slips: each of them breaks a property below.                  *)
NotForced == force
TimerKept == timers
AskedByScope == scope_running

-----------------------------------------------------------------------------
(* system_pin_update_purpose_and_label, by core 0, or by core 1 when the   *)
(* supply has tripped.  Each reads the mask, adds its mark and writes it:  *)
(* when both do so at once, one mark may be lost.  (Core 0's reading may   *)
(* also bring marks back that are cleared meanwhile: those pins are only   *)
(* painted once more.)                                                     *)
AtWork == core0 \in {"idle", "program", "legacy", "leaving"}
Clearing == core1 \in {"paint", "scoping", "reset"}

Announce(p) ==
    /\ AtWork \/ core1 = "loop"
    /\ changed' = changed \cup {p} /\ unseen' = unseen \cup {p}
    /\ overlooked' = IF Clearing \/ core0 = "woken" THEN overlooked \cup {p} ELSE overlooked
    /\ UNCHANGED <<converter, core0, message, suppress, core1, flags, disturbances,
                   display, dark, asked>>

AnnounceBoth(p, q) ==
    /\ AtWork /\ core1 = "loop"
    /\ changed' \in {changed \cup {p}, changed \cup {q}}
    /\ unseen' = unseen \cup {p, q}
    /\ overlooked' = overlooked \cup ({p, q} \ changed')
    /\ UNCHANGED <<converter, core0, message, suppress, core1, flags, disturbances,
                   display, dark, asked>>

(* What reaches the LCD now.                                               *)
Show(pins) ==
    IF display = "default"
      THEN unseen' = unseen \ pins /\ overlooked' = overlooked \ pins
      ELSE UNCHANGED <<unseen, overlooked>>

-----------------------------------------------------------------------------
(* Core 0.  icm_core0_send_message_synchronous returns when the message    *)
(* has been answered.                                                      *)
Ready(place) == core0 = place /\ message = "none" /\ Idle(0)

Send(m, place) == message' = m /\ core0' = place

(* ui_process_syntax, and the self test.                                   *)
StartProgram ==
    /\ Ready("idle") /\ Send("disable", "disabling")
    /\ UNCHANGED <<converter, suppress, core1, flags, changed, disturbances, lcd, asked>>

Program ==
    /\ Ready("disabling") /\ core0' = "program"
    /\ disturbances' = 0
    /\ UNCHANGED <<converter, message, suppress, core1, flags, changed, lcd, asked>>

EndProgram ==
    /\ Ready("program") /\ Send("enable", "enabling")
    /\ UNCHANGED <<converter, suppress, core1, flags, changed, disturbances, lcd, asked>>

(* legacy_protocol: the sweep that runs is not waited for.                 *)
StartLegacy ==
    /\ Ready("idle") /\ core0' = "legacy"
    /\ suppress' = TRUE
    /\ disturbances' = IF core1 = "sweep" THEN 1 ELSE 0
    /\ UNCHANGED <<converter, message, core1, flags, changed, lcd, asked>>

EndLegacy ==
    /\ Ready("legacy") /\ core0' = "leaving"
    /\ suppress' = FALSE
    /\ UNCHANGED <<converter, message, core1, flags, changed, disturbances, lcd, asked>>

(* cmd_mcu_reset *)
Restart ==
    /\ Ready("leaving") /\ core0' = "idle" /\ core1' = "loop"
    /\ busy' = FALSE /\ input' = "mux" /\ channel' = Ground
    /\ reader' = [c \in Cores |-> NotReading] /\ scope_running' = FALSE
    /\ display' = "default" /\ dark' = FALSE
    /\ flags' = {} /\ request' = FALSE /\ force' = FALSE /\ timers' = 1 /\ firing' = FALSE
    /\ changed' = Pins /\ unseen' = Pins /\ overlooked' = {} /\ disturbances' = 0
    /\ UNCHANGED <<message, suppress>>

(* ui_display_enable_args; the default display's disp_default_setup_exc    *)
(* sends two messages.                                                     *)
SelectDisplay(d) ==
    /\ Ready("idle") /\ display' = d
    /\ IF d = "default" THEN Send("disable", "selecting") ELSE UNCHANGED <<core0, message>>
    /\ UNCHANGED <<converter, suppress, core1, flags, changed, disturbances, dark, unseen,
                   overlooked, asked>>

ForceUpdate ==
    /\ Ready("selecting") /\ Send("force", "forcing")
    /\ UNCHANGED <<converter, suppress, core1, flags, changed, disturbances, lcd, asked>>

Resume ==
    /\ Ready("enabling") \/ Ready("forcing")
    /\ core0' = "idle"
    /\ UNCHANGED <<converter, message, suppress, core1, flags, changed, disturbances, lcd, asked>>

(* Commands, the bus syntax and the binary modes read the converter.       *)
ReadAdc ==
    /\ core0 \in {"idle", "program", "legacy"} /\ message = "none"
    /\ \E todo \in {{"io"}, {Current}, Sweep} : Read(0, todo)
    /\ UNCHANGED <<core0, message, suppress, core1, flags, changed, disturbances, lcd, asked>>

(* lcd_screensaver_alarm_callback, an interrupt, clears the LCD; a key     *)
(* press sweeps, paints everything and only then unsets the flag.          *)
ScreensaverStarts ==
    /\ ~dark /\ dark' = TRUE
    /\ UNCHANGED <<converter, core0, message, suppress, core1, flags, changed, disturbances,
                   display, unseen, overlooked, asked>>

Wake ==
    /\ Ready("idle") /\ dark /\ core0' = "waking"
    /\ IF scope_running THEN UNCHANGED converter ELSE Read(0, Sweep)
    /\ UNCHANGED <<message, suppress, core1, flags, changed, disturbances, lcd, asked>>

Repaint ==
    /\ Ready("waking") /\ core0' = "woken"
    /\ Show(Pins)
    /\ UNCHANGED <<converter, message, suppress, core1, flags, changed, disturbances,
                   display, dark, asked>>

Woken ==
    /\ Ready("woken") /\ core0' = "idle"
    /\ dark' = FALSE
    /\ UNCHANGED <<converter, message, suppress, core1, flags, changed, disturbances,
                   display, unseen, overlooked, asked>>

-----------------------------------------------------------------------------
(* The timer: lcd_timer_callback runs in an interrupt of core 0, which a   *)
(* cancellation by core 1 may find on its way.                             *)
TimerExpires ==
    /\ timers > 0 /\ ~firing /\ firing' = TRUE
    /\ UNCHANGED <<converter, core0, message, suppress, core1, flags, changed, disturbances,
                   lcd, request, force, timers>>

TimerCallback ==
    /\ firing /\ firing' = FALSE /\ request' = TRUE
    /\ UNCHANGED <<converter, core0, message, suppress, core1, flags, changed, disturbances,
                   lcd, force, timers>>

-----------------------------------------------------------------------------
(* Core 1.  psu_poll_fuse_vout_error *)
Poll ==
    /\ core1 = "loop" /\ core1' = "poll"
    /\ Read(1, {"fuse"})
    /\ UNCHANGED <<core0, message, suppress, flags, changed, disturbances, lcd, asked>>

(* monitor: no sweep while the scope runs, or when the legacy protocol     *)
(* asks for none.                                                          *)
NoSweep == scope_running \/ suppress

Update ==
    /\ core1 = "loop" /\ request
    /\ IF NoSweep
         THEN core1' = "collect" /\ UNCHANGED <<converter, disturbances>>
         ELSE /\ core1' = "sweep" /\ Read(1, Sweep)
              /\ disturbances' = IF disturbances < 2 THEN disturbances + 1 ELSE 2
    /\ UNCHANGED <<core0, message, suppress, flags, changed, lcd, asked>>

EndOfReading ==
    /\ core1 \in {"poll", "sweep"} /\ Idle(1)
    /\ core1' = IF core1 = "poll" THEN "loop" ELSE "collect"
    /\ UNCHANGED <<converter, core0, message, suppress, flags, changed, disturbances, lcd, asked>>

LabelsIfChanged == IF changed # {} THEN {"labels"} ELSE {}

Collect ==
    /\ core1 = "collect" /\ core1' = "paint"
    /\ flags' = LabelsIfChanged \cup (IF force THEN {"force"} ELSE {})
    /\ force' = FALSE
    /\ UNCHANGED <<converter, core0, message, suppress, changed, disturbances, lcd,
                   request, timers, firing>>

(* ui_lcd_update reads the marks again.                                    *)
Paint ==
    /\ core1 = "paint" /\ Idle(1) /\ core1' = "reset"
    /\ IF dark THEN UNCHANGED <<unseen, overlooked>>
       ELSE Show(IF "force" \in flags THEN Pins ELSE IF "labels" \in flags THEN changed ELSE {})
    /\ UNCHANGED <<converter, core0, message, suppress, flags, changed, disturbances,
                   display, dark, asked>>

Reset ==
    /\ core1 = "reset" /\ core1' = "loop"
    /\ flags' = {} /\ changed' = {} /\ request' = FALSE
    /\ UNCHANGED <<converter, core0, message, suppress, disturbances, lcd, force, timers, firing>>

(* The messages, at the end of a round of the loop.                        *)
TimerCancelled == 0

Disable ==
    /\ core1 = "loop" /\ message = "disable" /\ message' = "none"
    /\ timers' = TimerCancelled /\ request' = FALSE
    /\ UNCHANGED <<converter, core0, suppress, core1, flags, changed, disturbances, lcd,
                   force, firing>>

Forced == force \/ message = "force"

Enable ==
    /\ core1 = "loop" /\ message \in {"enable", "force"} /\ message' = "none"
    /\ timers' = timers + 1 /\ request' = TRUE
    /\ force' = Forced
    /\ UNCHANGED <<converter, core0, suppress, core1, flags, changed, disturbances, lcd, firing>>

-----------------------------------------------------------------------------
(* The oscilloscope is started by a command or a button, or by its display *)
(* when a capture has ended; that display also sweeps, which the legacy    *)
(* protocol does not forbid.                                               *)
ScopeSelects ==
    /\ display = "scope" /\ ScopeSelect
    /\ \/ Ready("idle") /\ core0' = "scoping" /\ UNCHANGED core1
       \/ core1 = "paint" /\ Idle(1) /\ ~dark /\ core1' = "scoping" /\ UNCHANGED core0
    /\ UNCHANGED <<message, suppress, flags, changed, disturbances, lcd, asked>>

ScopeStarts ==
    /\ ScopeStart
    /\ \/ core0 = "scoping" /\ core0' = "idle" /\ UNCHANGED core1
       \/ core1 = "scoping" /\ core1' = "paint" /\ UNCHANGED core0
    /\ UNCHANGED <<message, suppress, flags, changed, disturbances, lcd, asked>>

ScopeSweeps ==
    /\ display = "scope" /\ core1 = "paint" /\ ~dark
    /\ Read(1, Sweep)
    /\ UNCHANGED <<core0, message, suppress, core1, flags, changed, disturbances, lcd, asked>>

ScopeStops ==
    /\ ScopeStop
    /\ UNCHANGED <<core0, message, suppress, core1, flags, changed, disturbances, lcd, asked>>

Reads ==
    /\ \E c \in Cores : Reading(c)
    /\ UNCHANGED <<core0, message, suppress, core1, flags, changed, disturbances, lcd, asked>>

Next ==
    \/ \E p \in Pins : Announce(p)
    \/ \E p, q \in Pins : AnnounceBoth(p, q)
    \/ StartProgram \/ Program \/ EndProgram \/ StartLegacy \/ EndLegacy \/ Restart
    \/ \E d \in {"default", "scope"} : SelectDisplay(d)
    \/ ForceUpdate \/ Resume \/ ReadAdc \/ ScreensaverStarts \/ Wake \/ Repaint \/ Woken
    \/ TimerExpires \/ TimerCallback
    \/ Poll \/ Update \/ EndOfReading \/ Collect \/ Paint \/ Reset \/ Disable \/ Enable
    \/ ScopeSelects \/ ScopeStarts \/ ScopeSweeps \/ ScopeStops \/ Reads

Spec == Init /\ [][Next]_vars

-----------------------------------------------------------------------------
TypeOK ==
    /\ ConverterTypeOK
    /\ core0 \in {"idle", "disabling", "program", "enabling", "legacy", "leaving",
                  "selecting", "forcing", "waking", "woken", "scoping"}
    /\ message \in {"none", "disable", "enable", "force"}
    /\ core1 \in {"loop", "poll", "sweep", "collect", "paint", "scoping", "reset"}
    /\ display \in {"default", "scope"} /\ flags \subseteq {"labels", "force"}
    /\ {dark, suppress, request, force, firing} \subseteq BOOLEAN
    /\ timers \in 0..1 /\ disturbances \in 0..2
    /\ {changed, unseen, overlooked} \subseteq SUBSET Pins

(* "Mark the need to update the UI (labels) for this pin."  A label that   *)
(* has changed stays marked until the LCD shows it, through screensaver,   *)
(* oscilloscope and forced updates.  It is lost only if it was marked      *)
(* while core 1 was painting, just before it clears the marks, while core  *)
(* 0 was leaving the screensaver, or by both cores at the same instant.    *)
LabelsReachTheLcd ==
    core1 = "loop" /\ display = "default" /\ ~dark /\ ~force
        /\ core0 \notin {"selecting", "forcing"}
        => unseen \subseteq changed \cup overlooked

(* While core 0 has the bus for a program or the legacy protocol, at most  *)
(* one sweep of the monitor disturbs the pins: the one that ran, or whose  *)
(* timer had expired, when it was claimed.                                 *)
BusIsLeftAlone == core0 \in {"program", "legacy"} => disturbances <= 1

=============================================================================
