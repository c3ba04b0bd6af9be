------------------------------ MODULE BigBuffer -----------------------------
(***************************************************************************)
(* The big buffer (pirate/mem.c): one static array, half of the memory,    *)
(* for whoever asks first.  Its users on core 0 are the oscilloscope       *)
(* display, the logic analyzer, modes that sniff, and commands such as the *)
(* editors, for as long as they run.  The analyzer itself serves several   *)
(* masters: the SUMP binary mode, and, through hooks, the binary mode      *)
(* falaio and the toolbar of the command "logic".                          *)
(*                                                                         *)
(* Left out: sizes, which all fit; the display "disabled", which behaves   *)
(* like the default one; the legacy binary mode, which keeps core 0 until  *)
(* it resets the device.                                                   *)
(***************************************************************************)
VARIABLES
    mem,        \* mem_buffer: whether it is allocated, and the users whose
                \* pointer (fb, la_buf, g_buffer, ringbuff, a local) is not NULL
    mode, display,              \* system_config.mode, .display
    command,                    \* a command that needs the buffer is running
    binmode, service,           \* .binmode_select; state of sump.c is not IDLE
    hooks,                      \* fala_notify_hooks
    dropped,                    \* history: modes left without protocol_cleanup
    abandoned,                  \* history: SUMP was left while in service
    mixed                       \* history: the analyzer had two masters of both kinds

choice   == <<mode, display, command>>
analyzer == <<binmode, service, hooks>>
vars     == <<mem, choice, analyzer, dropped, abandoned, mixed>>

BufferModes == {"usb", "ps2"}
Users == BufferModes \cup {"scope", "analyzer", "command"}
Memory == [allocated : BOOLEAN, pointers : SUBSET Users]
Binmodes == {"sump", "bpio", "falaio", "locked"}   \* the last: lock_terminal, exit by a key

-----------------------------------------------------------------------------
(* Plausible slips: each of them breaks a property below.                  *)
FreeNothing(m, user) == m
AllocAlways(m, user) == [allocated |-> TRUE, pointers |-> m.pointers \cup {user}]

(* mem_alloc; the user's pointer takes the answer, NULL when the buffer    *)
(* belongs to somebody.                                                    *)
Alloc(m, user) ==
    IF m.allocated THEN [m EXCEPT !.pointers = @ \ {user}]
    ELSE [allocated |-> TRUE, pointers |-> m.pointers \cup {user}]

(* mem_free: every pointer to the buffer is the same to it.                *)
Free(m, user) == IF user \in m.pointers THEN [m EXCEPT !.allocated = FALSE] ELSE m

Forget(m, user) == [m EXCEPT !.pointers = @ \ {user}]

FreeAndForget(m, user) == Forget(Free(m, user), user)

(* logicanalyzer_setup does not look at the answer, and                    *)
(* logic_analyzer_cleanup keeps the pointer.                               *)
LaSetup(m)   == Alloc(m, "analyzer")
LaCleanup(m) == Free(m, "analyzer")

-----------------------------------------------------------------------------
(* fala_notify_register and _unregister: the first hook sets the analyzer  *)
(* up, the last one cleans up.                                             *)
Registered(m) == IF hooks = {} THEN LaSetup(m) ELSE m
Unregistered(m, hook) == IF hooks \subseteq {hook} THEN LaCleanup(m) ELSE m

(* binmode_setup at the start, for the binary mode of the configuration.   *)
Init ==
    /\ mode = "HiZ" /\ display = "default" /\ command = FALSE
    /\ binmode \in Binmodes \ {"locked"} /\ service = FALSE
    /\ hooks = IF binmode = "falaio" THEN {"falaio"} ELSE {}
    /\ mem = LET m == [allocated |-> FALSE, pointers |-> {}]
             IN  IF binmode = "falaio" THEN LaSetup(m) ELSE m
    /\ dropped = {} /\ abandoned = FALSE /\ mixed = FALSE

(* Commands come one after the other: from the prompt, or from a script    *)
(* that the button starts.  Where no terminal is connected the button does *)
(* so also while a binary mode has locked the terminal.                    *)
AtPrompt == ~command

(* sump_logic_analyzer_service: the host connects; it leaves, or the       *)
(* button is pressed.                                                      *)
SumpBegins ==
    /\ binmode = "sump" /\ ~service /\ ~command
    /\ mem' = LaSetup(mem)
    /\ service' = TRUE /\ mixed' = (mixed \/ hooks # {})
    /\ UNCHANGED <<choice, binmode, hooks, dropped, abandoned>>

SumpEnds ==
    /\ binmode = "sump" /\ service /\ ~command
    /\ mem' = LaCleanup(mem)
    /\ service' = FALSE
    /\ UNCHANGED <<choice, binmode, hooks, dropped, abandoned, mixed>>

(* cmd_binmode_handler: cleanup and setup.  The cleanup of SUMP leaves its *)
(* state as it is.  A mode that locks the terminal selects HiZ.            *)
BinmodeCleanup(m) ==
    CASE binmode = "sump" /\ service -> LaCleanup(m)
      [] binmode = "falaio"          -> Unregistered(m, "falaio")
      [] OTHER                       -> m

ModeCleanup(m) == IF mode \in BufferModes THEN FreeAndForget(m, mode) ELSE m

BinmodeSetup(m, b, others) ==
    CASE b = "falaio" /\ others = {} -> LaSetup(m)
      [] b = "locked"                -> ModeCleanup(m)
      [] OTHER                       -> m

BinmodeCommand(b) ==
    /\ AtPrompt
    /\ LET others == hooks \ {"falaio"} IN
           /\ mem' = BinmodeSetup(BinmodeCleanup(mem), b, others)
           /\ hooks' = others \cup ({b} \cap {"falaio"})
    /\ binmode' = b
    /\ mode' = IF b = "locked" THEN "HiZ" ELSE mode
    /\ abandoned' = (abandoned \/ (binmode = "sump" /\ service))
    /\ mixed' = (mixed \/ (b = "sump" /\ service /\ hooks' # {}))
    /\ UNCHANGED <<display, command, service, dropped>>

(* binmode_service with a key pressed: back to SUMP, and to HiZ without    *)
(* protocol_cleanup of the mode that a button script may have selected.    *)
BinmodeExit ==
    /\ binmode = "locked" /\ AtPrompt
    /\ binmode' = "sump" /\ mode' = "HiZ"
    /\ dropped' = dropped \cup ({mode} \cap BufferModes)
    /\ mixed' = (mixed \/ (service /\ hooks # {}))
    /\ UNCHANGED <<mem, display, command, service, hooks, abandoned>>

-----------------------------------------------------------------------------
(* logic start: the toolbar may not fit, logic_bar_start then unregisters. *)
LogicStart ==
    /\ AtPrompt /\ "bar" \notin hooks
    /\ \/ mem' = Registered(mem) /\ hooks' = hooks \cup {"bar"}
       \/ mem' = Unregistered(Registered(mem), "bar") /\ UNCHANGED hooks
    /\ mixed' = (mixed \/ (binmode = "sump" /\ service))
    /\ UNCHANGED <<choice, binmode, service, dropped, abandoned>>

LogicStop ==
    /\ AtPrompt /\ "bar" \in hooks
    /\ mem' = Unregistered(mem, "bar")
    /\ hooks' = hooks \ {"bar"}
    /\ UNCHANGED <<choice, binmode, service, dropped, abandoned, mixed>>

(* ui_display_enable_args: the cleanup of the old display; the setup of    *)
(* the oscilloscope tries an allocation, its setup_exc keeps one.          *)
ScopeCleanup(m) == IF display = "scope" THEN FreeAndForget(m, "scope") ELSE m

DisplayCommand(d) ==
    /\ AtPrompt
    /\ LET m == ScopeCleanup(mem) IN
           IF d = "scope" /\ ~m.allocated
             THEN mem' = Alloc(m, "scope") /\ display' = "scope"
             ELSE mem' = m /\ display' = "default"
    /\ UNCHANGED <<mode, command, analyzer, dropped, abandoned, mixed>>

(* ui_mode_enable_args: protocol_cleanup of the old mode, setup_exc of the *)
(* new one, which keeps a pointer that it still has.                       *)
ModeCommand(new) ==
    /\ AtPrompt
    /\ mem' = LET m == ModeCleanup(mem) IN
              IF new \in BufferModes \ m.pointers THEN Alloc(m, new) ELSE m
    /\ mode' = new /\ dropped' = dropped \ {new}
    /\ UNCHANGED <<display, command, analyzer, abandoned, mixed>>

(* Editors, GUIs, disk format and txtest end at once without the buffer.   *)
BeginCommand ==
    /\ AtPrompt /\ ~mem.allocated
    /\ mem' = Alloc(mem, "command") /\ command' = TRUE
    /\ UNCHANGED <<mode, display, analyzer, dropped, abandoned, mixed>>

EndCommand ==
    /\ command
    /\ mem' = FreeAndForget(mem, "command") /\ command' = FALSE
    /\ UNCHANGED <<mode, display, analyzer, dropped, abandoned, mixed>>

-----------------------------------------------------------------------------
Next ==
    \/ SumpBegins \/ SumpEnds \/ BinmodeExit
    \/ \E b \in Binmodes : BinmodeCommand(b)
    \/ LogicStart \/ LogicStop
    \/ \E d \in {"default", "scope"} : DisplayCommand(d)
    \/ \E m \in BufferModes \cup {"HiZ"} : ModeCommand(m)
    \/ BeginCommand \/ EndCommand

Spec == Init /\ [][Next]_vars

-----------------------------------------------------------------------------
TypeOK ==
    /\ mem \in Memory
    /\ mode \in BufferModes \cup {"HiZ"} /\ display \in {"default", "scope"}
    /\ binmode \in Binmodes /\ hooks \subseteq {"bar", "falaio"}
    /\ {command, service, abandoned, mixed} \subseteq BOOLEAN
    /\ dropped \subseteq BufferModes

(* Who holds the buffer, whether it belongs to him or not.  The analyzer   *)
(* keeps its pointer when it is idle.                                      *)
Sampling == binmode = "sump" /\ service
AnalyzerActive == hooks # {} \/ Sampling

Holds(user) ==
    /\ user \in mem.pointers
    /\ user = "analyzer" => AnalyzerActive

(* No two users hold the buffer at a time, in whatever order they claim    *)
(* and free it; a mode that was dropped counts, for it uses its pointer    *)
(* without asking when it is set up again.  It takes a misuse of the       *)
(* analyzer to break that: SUMP is left while its host is connected, or    *)
(* shares the analyzer with a hook; its pointer may then be used, and      *)
(* freed, when it is not its own.                                          *)
OneUser ==
    ~abandoned /\ ~mixed => \A u, v \in Users : Holds(u) /\ Holds(v) => u = v

(* A mode that is not selected holds the buffer without using it.          *)
Using(user) == Holds(user) /\ (user \in BufferModes => mode = user)

(* The buffer comes back: while nobody uses it, whoever asks gets it.  In  *)
(* two ways the code loses it.  SUMP and a hook share the analyzer: the    *)
(* second of them overwrites the pointer, and nothing frees the buffer     *)
(* until a reset.  A locked binary mode is left by a key while a button    *)
(* script had selected a mode with a buffer (binmodes.c:225): the buffer   *)
(* is lost until that mode is set up again.                                *)
BufferComesBack ==
    ~mixed /\ dropped = {} => (mem.allocated => \E u \in Users : Using(u))

=============================================================================
