------------------------------- MODULE Toolbar ------------------------------
(***************************************************************************)
(* The toolbars at the bottom of the terminal (ui/ui_toolbar.c).  Core 0   *)
(* owns the registry and paints its own toolbars inside an envelope of     *)
(* toolbar_draw_prepare and toolbar_draw_release; core 1 renders the other *)
(* ones, in cycles that it starts from the periodic screen update or when  *)
(* core 0 asks it to (pirate.c, intercore_helpers.c).  No lock protects    *)
(* the registry: a flag that core 0 sets and a state that core 1 publishes *)
(* must keep the two apart.                                                *)
(*                                                                         *)
(* A step is one access to what the cores share.  Moving the entries of    *)
(* the registry is one step; rows, widths and colours are left out, and so *)
(* is the keyboard focus.  Terminal and frame transmission are external:   *)
(* TxService shows that a frame that has been rendered is sent.            *)
(***************************************************************************)
EXTENDS Integers, Sequences, FiniteSets

CONSTANTS Toolbars,
          MaxCount,     \* TOOLBAR_MAX_COUNT
          Anchored,     \* toolbars with anchor_bottom
          OnCore1,      \* toolbars with update_core1; the other ones have draw
          Reactivated,  \* toolbars whose owner may activate them when they are active
          NULL,
          Loads         \* what core 1 may have to do: periodic screen "updates", and
                        \* frames so "slow" that it is busy for more than 50 ms

ASSUME ToolbarAssumption ==
    /\ MaxCount \in Nat \ {0} /\ NULL \notin Toolbars
    /\ Anchored \cup OnCore1 \cup Reactivated \subseteq Toolbars
    /\ Loads \subseteq SUBSET {"updates", "slow"}

VARIABLES
    load,                  \* one of Loads
    toolbar_registry, toolbar_count,
    enabled,               \* tb->enabled
    pause,                 \* system_config.terminal_toolbar_pause
    c0, op, arg, need,     \* core 0: position, call in progress, its argument, need_core1_update
    timedOut,              \* the wait of this envelope gave up
    c1, tb,                \* core 1: position in its loop, toolbar it looks at
    tb_c1_state, tb_c1_index, tb_c1_update_flags,
    tx_tb_buf_ready,
    icm,                   \* the message UPDATE_TOOLBARS: none, sent, done
    connected,
    late,                  \* cycles that began within this envelope
    unpainted,             \* toolbars of core 1 not shown since they were activated
    missed                 \* those that the last request to paint all has left out

registry == <<toolbar_registry, toolbar_count, enabled>>
core0    == <<c0, op, arg, need, timedOut>>
cycle    == <<tb_c1_state, tb_c1_index, tb_c1_update_flags>>
core1    == <<c1, tb, cycle>>
seen     == <<late, unpainted, missed>>
vars     == <<registry, core0, pause, core1, tx_tb_buf_ready, icm, connected, seen>>

Init ==
    /\ load \in Loads
    /\ toolbar_registry = [i \in 0..MaxCount-1 |-> NULL] /\ toolbar_count = 0
    /\ enabled = [t \in Toolbars |-> FALSE]
    /\ pause = FALSE
    /\ c0 = "idle" /\ op = "none" /\ arg = NULL /\ need = FALSE /\ timedOut = FALSE
    /\ c1 = "service" /\ tb = NULL
    /\ tb_c1_state = "IDLE" /\ tb_c1_index = 0 /\ tb_c1_update_flags = "none"
    /\ tx_tb_buf_ready = FALSE /\ icm = "none" /\ connected = TRUE
    /\ late = 0 /\ unpainted = {} /\ missed = {}

Registered == {toolbar_registry[i] : i \in 0..toolbar_count-1}

(* Nobody waits for these toolbars any more: they are painted or gone.     *)
Settled(S) == unpainted' = unpainted \ S /\ missed' = missed \ S

-----------------------------------------------------------------------------
(* Plausible slips: each of them breaks a property below.                  *)
PrepareWithoutPause == pause
DoesNotWait == TRUE
OnTop(t) == [toolbar_registry EXCEPT ![toolbar_count] = t]
AdvanceSkips == tb_c1_index + 2
NotifyForgotten == "none"

-----------------------------------------------------------------------------
(* Core 0: toolbar_activate and toolbar_register.                          *)

(* The registry with t at the bottom, or on top.                           *)
Inserted(t) ==
    IF t \in Anchored
      THEN [i \in 0..MaxCount-1 |->
              IF i = 0 THEN t
              ELSE IF i <= toolbar_count THEN toolbar_registry[i - 1]
              ELSE toolbar_registry[i]]
      ELSE [toolbar_registry EXCEPT ![toolbar_count] = t]

Full == toolbar_count >= MaxCount

Activate(t) ==
    /\ c0 = "idle" /\ (enabled[t] => t \in Reactivated)
    /\ IF Full
         THEN /\ enabled' = [enabled EXCEPT ![t] = FALSE]
              /\ Settled({t})
              /\ UNCHANGED <<toolbar_registry, core0>>
         ELSE /\ enabled' = [enabled EXCEPT ![t] = TRUE]
              /\ toolbar_registry' = Inserted(t)
              /\ c0' = "count" /\ op' = "activate" /\ arg' = t
              /\ UNCHANGED <<need, timedOut, unpainted, missed>>
    /\ UNCHANGED <<toolbar_count, pause, core1, tx_tb_buf_ready, icm,
                   connected, late>>

ActivateCount ==
    /\ c0 = "count"
    /\ toolbar_count' = toolbar_count + 1
    /\ unpainted' = IF connected THEN unpainted \cup ({arg} \cap OnCore1) ELSE unpainted
    /\ c0' = "prepare"
    /\ UNCHANGED <<toolbar_registry, enabled, op, arg, need, timedOut, pause,
                   core1, tx_tb_buf_ready, icm, connected, late, missed>>

(* The calls that begin with the envelope: toolbar_redraw_all, and every   *)
(* program of core 0 that draws on the whole screen; toolbar_teardown;     *)
(* toolbar_teardown_all.                                                   *)
Begin(o, t) ==
    /\ c0 = "idle"
    /\ \/ o = "redraw" /\ t = NULL
       \/ o = "teardown" /\ t \in Toolbars /\ enabled[t]
       \/ o = "teardown_all" /\ t = NULL /\ toolbar_count > 0
    /\ c0' = "prepare" /\ op' = o /\ arg' = t
    /\ UNCHANGED <<registry, need, timedOut, pause, core1, tx_tb_buf_ready,
                   icm, connected, seen>>

-----------------------------------------------------------------------------
(* toolbar_draw_prepare: raise the flag, then wait for a running cycle.    *)
PauseInPrepare == TRUE

Prepare ==
    /\ c0 = "prepare"
    /\ pause' = PauseInPrepare
    /\ c0' = "wait" /\ timedOut' = FALSE /\ late' = 0
    /\ UNCHANGED <<registry, op, arg, need, core1, tx_tb_buf_ready, icm,
                   connected, unpainted, missed>>

(* Where core 0 goes on inside the envelope.                               *)
Inside == CASE op = "teardown"     -> "shift"
            [] op = "teardown_all" -> "pop"
            [] OTHER               -> "draw"

CycleOver == tb_c1_state = "IDLE"

WaitDone ==
    /\ c0 = "wait" /\ CycleOver
    /\ c0' = Inside
    /\ UNCHANGED <<registry, op, arg, need, timedOut, pause, core1,
                   tx_tb_buf_ready, icm, connected, seen>>

(* It takes a frame that the host does not fetch to make core 1 that late. *)
WaitTimesOut ==
    /\ "slow" \in load /\ c0 = "wait" /\ tb_c1_state = "DRAINING"
    /\ c0' = Inside /\ timedOut' = TRUE
    /\ UNCHANGED <<registry, op, arg, need, pause, core1, tx_tb_buf_ready, icm,
                   connected, seen>>

-----------------------------------------------------------------------------
(* toolbar_unregister, first the entries above, then the count.            *)
Without(t) ==
    LET at == CHOOSE i \in 0..toolbar_count-1 :
                 toolbar_registry[i] = t /\ \A j \in 0..i-1 : toolbar_registry[j] # t
    IN  [i \in 0..MaxCount-1 |->
           IF at <= i /\ i < toolbar_count - 1 THEN toolbar_registry[i + 1]
                                               ELSE toolbar_registry[i]]

Unregister ==
    /\ c0 = "shift"
    /\ IF arg \in Registered
         THEN toolbar_registry' = Without(arg) /\ c0' = "drop"
         ELSE UNCHANGED toolbar_registry /\ c0' = "disable"
    /\ missed' = IF tb_c1_state = "IDLE" THEN missed ELSE unpainted
    /\ UNCHANGED <<toolbar_count, enabled, op, arg, need, timedOut, pause,
                   core1, tx_tb_buf_ready, icm, connected, late, unpainted>>

(* toolbar_registry[--toolbar_count] = NULL                                *)
OneLess == toolbar_count - 1

UnregisterCount ==
    /\ c0 = "drop"
    /\ toolbar_registry' = [toolbar_registry EXCEPT ![toolbar_count - 1] = NULL]
    /\ toolbar_count' = OneLess
    /\ c0' = "disable"
    /\ UNCHANGED <<enabled, op, arg, need, timedOut, pause, core1,
                   tx_tb_buf_ready, icm, connected, seen>>

Disable ==
    /\ c0 = "disable"
    /\ enabled' = [enabled EXCEPT ![arg] = FALSE]
    /\ Settled({arg})
    /\ c0' = "draw"
    /\ UNCHANGED <<toolbar_registry, toolbar_count, op, arg, need, timedOut,
                   pause, core1, tx_tb_buf_ready, icm, connected, late>>

(* toolbar_teardown_all: destroy, disable and remove the topmost one.      *)
Pop ==
    /\ c0 = "pop"
    /\ IF toolbar_count = 0
         THEN c0' = "release" /\ UNCHANGED <<registry, unpainted, missed>>
         ELSE LET t == toolbar_registry[toolbar_count - 1] IN
              /\ enabled' = [enabled EXCEPT ![t] = FALSE]
              /\ toolbar_registry' = [toolbar_registry EXCEPT ![toolbar_count - 1] = NULL]
              /\ toolbar_count' = OneLess
              /\ Settled({t})
              /\ UNCHANGED c0
    /\ UNCHANGED <<op, arg, need, timedOut, pause, core1, tx_tb_buf_ready, icm,
                   connected, late>>

-----------------------------------------------------------------------------
(* Paint the toolbars of core 0, and note whether core 1 has any.          *)
Draw ==
    /\ c0 = "draw"
    /\ need' = \E t \in Registered : enabled[t] /\ t \in OnCore1
    /\ c0' = "release"
    /\ UNCHANGED <<registry, op, arg, timedOut, pause, core1, tx_tb_buf_ready,
                   icm, connected, seen>>

Release ==
    /\ c0 = "release"
    /\ pause' = FALSE
    /\ c0' = IF need THEN "kick" ELSE "idle"
    /\ need' = FALSE /\ op' = "none" /\ arg' = NULL /\ timedOut' = FALSE
    /\ UNCHANGED <<registry, core1, tx_tb_buf_ready, icm, connected, seen>>

(* toolbar_update_blocking, at the end of these calls or by itself, sends  *)
(* the message with icm_core0_send_message_synchronous.                    *)
Kick ==
    /\ c0 \in {"kick", "idle"}
    /\ IF connected THEN icm' = "sent" /\ c0' = "await"
                    ELSE c0' = "idle" /\ UNCHANGED icm
    /\ UNCHANGED <<registry, op, arg, need, timedOut, pause, core1,
                   tx_tb_buf_ready, connected, seen>>

KickDone ==
    /\ c0 = "await" /\ icm = "done"
    /\ icm' = "none" /\ c0' = "idle"
    /\ UNCHANGED <<registry, op, arg, need, timedOut, pause, core1,
                   tx_tb_buf_ready, connected, seen>>

Starts == (\E t \in Toolbars : Activate(t))
          \/ \E o \in {"redraw", "teardown", "teardown_all"}, t \in Toolbars \cup {NULL} :
                Begin(o, t)

Continues == ActivateCount \/ Prepare \/ WaitDone \/ WaitTimesOut \/ Unregister
             \/ UnregisterCount \/ Disable \/ Pop \/ Draw \/ Release \/ Kick \/ KickDone

-----------------------------------------------------------------------------
(* Core 1: toolbar_core1_service.                                          *)

Advance == tb_c1_index + 1

FrameDone == ~tx_tb_buf_ready

ServiceIdle ==
    /\ c1 = "service"
    /\ tb_c1_state = "IDLE" \/ (tb_c1_state = "DRAINING" /\ ~FrameDone)
    /\ c1' = "tick"
    /\ UNCHANGED <<registry, core0, pause, tb, cycle, tx_tb_buf_ready, icm,
                   connected, seen>>

ServiceDrained ==
    /\ c1 = "service" /\ tb_c1_state = "DRAINING" /\ FrameDone
    /\ tb_c1_index' = Advance /\ tb_c1_state' = "RENDERING"
    /\ UNCHANGED <<registry, core0, pause, c1, tb, tb_c1_update_flags,
                   tx_tb_buf_ready, icm, connected, seen>>

ServiceRender ==
    /\ c1 = "service" /\ tb_c1_state = "RENDERING"
    /\ IF connected THEN c1' = "scan" /\ UNCHANGED tb_c1_state
                    ELSE c1' = "tick" /\ tb_c1_state' = "IDLE"
    /\ UNCHANGED <<registry, core0, pause, tb, tb_c1_index, tb_c1_update_flags,
                   tx_tb_buf_ready, icm, connected, seen>>

(* while (tb_c1_index < toolbar_count)                                     *)
ScanTest ==
    /\ c1 = "scan"
    /\ IF tb_c1_index < toolbar_count
         THEN c1' = "fetch" /\ UNCHANGED tb_c1_state
         ELSE c1' = "tick" /\ tb_c1_state' = "IDLE"
    /\ UNCHANGED <<registry, core0, pause, tb, tb_c1_index, tb_c1_update_flags,
                   tx_tb_buf_ready, icm, connected, seen>>

ScanFetch ==
    /\ c1 = "fetch"
    /\ tb' = toolbar_registry[tb_c1_index]
    /\ c1' = IF tb' = NULL THEN "fault" ELSE "render"
    /\ UNCHANGED <<registry, core0, pause, cycle, tx_tb_buf_ready, icm,
                   connected, seen>>

(* What the callback puts into tx_tb_buf: nothing, if the flags say that   *)
(* nothing it shows has changed.  toolbar_get_start_row answers 0 for a    *)
(* toolbar that is no longer in the registry.                              *)
Rendered(some) ==
    /\ enabled[tb] /\ tb \in OnCore1 /\ tb \in Registered
    /\ some \/ tb_c1_update_flags # "all"

RenderSkip ==
    /\ c1 = "render" /\ (~Rendered(TRUE) \/ Rendered(FALSE))
    /\ tb_c1_index' = Advance /\ c1' = "scan"
    /\ UNCHANGED <<registry, core0, pause, tb, tb_c1_state, tb_c1_update_flags,
                   tx_tb_buf_ready, icm, connected, seen>>

Render ==
    /\ c1 = "render" /\ Rendered(TRUE)
    /\ IF connected
         THEN /\ tx_tb_buf_ready' = TRUE /\ tb_c1_state' = "DRAINING"
              /\ Settled(IF tb_c1_update_flags = "all" THEN {tb} ELSE {})
         ELSE /\ tb_c1_state' = "IDLE"
              /\ UNCHANGED <<tx_tb_buf_ready, unpainted, missed>>
    /\ c1' = "tick"
    /\ UNCHANGED <<registry, core0, pause, tb, tb_c1_index, tb_c1_update_flags,
                   icm, connected, late>>

-----------------------------------------------------------------------------
(* toolbar_core1_begin_update                                              *)
BeginUpdate(flags) ==
    IF tb_c1_state # "IDLE"
      THEN UNCHANGED <<cycle, late>>
      ELSE /\ tb_c1_state' = "RENDERING" /\ tb_c1_index' = 0
           /\ tb_c1_update_flags' = flags
           /\ late' = IF c0 \in {"wait", "shift", "drop", "disable", "pop", "draw", "release"}
                        THEN late + 1 ELSE late

(* The periodic update in core1_infinite_loop tests the flag, then begins. *)
TickTest ==
    /\ c1 = "tick"
    /\ c1' \in IF "updates" \in load /\ toolbar_count > 0 /\ ~pause
                 THEN {"begin", "icm"} ELSE {"icm"}
    /\ UNCHANGED <<registry, core0, pause, tb, cycle, tx_tb_buf_ready, icm,
                   connected, seen>>

TickBegin ==
    /\ c1 = "begin"
    /\ BeginUpdate("changes")
    /\ c1' = "icm"
    /\ UNCHANGED <<registry, core0, pause, tb, tx_tb_buf_ready, icm, connected,
                   unpainted, missed>>

(* icm_core1_notify_completion                                             *)
Completion == "done"

Message ==
    /\ c1 = "icm"
    /\ IF icm = "sent"
         THEN /\ BeginUpdate("all") /\ icm' = Completion
              /\ missed' = IF tb_c1_state = "IDLE" THEN {} ELSE unpainted
         ELSE UNCHANGED <<cycle, late, icm, missed>>
    /\ c1' = "service"
    /\ UNCHANGED <<registry, core0, pause, tb, tx_tb_buf_ready, connected,
                   unpainted>>

Core1 == ServiceIdle \/ ServiceDrained \/ ServiceRender \/ ScanTest \/ ScanFetch
         \/ RenderSkip \/ Render \/ TickTest \/ TickBegin \/ Message

(* tx_fifo_service has sent the frame.                                     *)
FrameSent == /\ tx_tb_buf_ready
             /\ tx_tb_buf_ready' = FALSE
             /\ UNCHANGED <<registry, core0, pause, core1, icm, connected,
                            seen>>

(* The terminal program closes or opens the port.                          *)
Switch == /\ connected' = ~connected
          /\ Settled(Toolbars)
          /\ UNCHANGED <<registry, core0, pause, core1, tx_tb_buf_ready, icm,
                         late>>

Next == /\ Starts \/ Continues \/ Core1 \/ FrameSent \/ Switch
        /\ UNCHANGED load

Spec == Init /\ [][Next]_<<load, vars>>

(* Both cores keep running.  That frames are sent is an assumption on core *)
(* 0's output, which must pause for long enough (FrameIsSent of TxService  *)
(* needs it).  For CallsReturn the code provides it: core 0 prints nothing *)
(* while it waits for core 1.  For NewToolbarIsPainted nothing does: under *)
(* output that never pauses the toolbars freeze.  Nothing makes core 0     *)
(* begin a call, but one it began it goes on with.                         *)
LiveSpec == /\ Spec
            /\ WF_vars(c0 # "idle" /\ Continues) /\ WF_vars(Core1) /\ WF_vars(FrameSent)

-----------------------------------------------------------------------------
(* Between two calls the registry has toolbars below its count and nothing *)
(* above, those anchored to the bottom first.  Every active toolbar is     *)
(* there.  A toolbar that its owner never activates twice is there only    *)
(* when it is active, and once; one that is activated again while it is    *)
(* active gets a second slot, which a teardown leaves behind.              *)
RegistryOK ==
    c0 \in {"idle", "kick", "await"} =>
        /\ Registered \subseteq Toolbars
        /\ \A i \in toolbar_count..MaxCount-1 : toolbar_registry[i] = NULL
        /\ {t \in Toolbars : enabled[t]} \subseteq Registered
        /\ \A i, j \in 0..toolbar_count-1 :
               toolbar_registry[j] \in Anchored /\ i < j => toolbar_registry[i] \in Anchored
        /\ \A i \in 0..toolbar_count-1 : toolbar_registry[i] \notin Reactivated =>
               /\ enabled[toolbar_registry[i]]
               /\ \A j \in 0..toolbar_count-1 :
                      toolbar_registry[j] = toolbar_registry[i] => j = i

(* Core 1 is in no cycle while core 0 changes the registry or draws        *)
(* ("Setting toolbar_pause above prevents new cycles from starting").      *)
DrawingIsExclusive ==
    c0 \in {"shift", "drop", "disable", "pop", "draw"} => tb_c1_state = "IDLE"

(* It is so as long as core 0 alone starts cycles and its wait for core 1  *)
(* does not time out.                                                      *)
QuietDrawingIsExclusive == load = {} => DrawingIsExclusive

(* The flag is tested before the cycle begins, so that one cycle may slip  *)
(* into an envelope; there is never a second one.                          *)
AtMostOneLateCycle == late <= 1

(* A toolbar that was activated is painted in the end, unless it is torn   *)
(* down, the terminal leaves, or the request to paint it came to nothing:  *)
(* core 1 was in a cycle and dropped it, or core 0 gave up waiting and     *)
(* moved the registry under the cycle.  toolbar_activate returns before    *)
(* the toolbar is painted, and with the periodic update the request may be *)
(* dropped, so that ui_toolbar.h:103-104 ("After this returns true, the    *)
(* toolbar is fully visible") promises more than this.                     *)
NewToolbarIsPainted ==
    \A t \in OnCore1 :
        (t \in unpainted) ~> (t \notin unpainted \/ t \in missed \/ c1 = "fault")

(* Every call of core 0 returns, its waits for core 1 included, whatever   *)
(* core 1 has to do; unless core 1 took an empty slot for a toolbar.       *)
CallsReturn == (c0 # "idle") ~> (c0 = "idle" \/ c1 = "fault")

=============================================================================
