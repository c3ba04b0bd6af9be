# Verification of the Bus Pirate 5 firmware

The firmware of the Bus Pirate 5, 6 and 7 runs on both cores of an RP2040 or
RP2350. Core 0 runs the user interface, the bus protocols and the file system;
core 1 serves USB, the display and the sensors. There is no operating system
and, with a few exceptions, no lock: the cores share plain variables, two byte
queues, a message FIFO with acknowledgements, and conventions about who may
write what and when. These specifications state those conventions and check
them.

Paths below are relative to `src/` of the firmware unless they begin with
`docs/` or `tests/`.

1. [The parts of the system](#1-the-parts-of-the-system)
2. [The modules and the code](#2-the-modules-and-the-code)
3. [What the runs show](#3-what-the-runs-show)
4. [Bounds](#4-bounds)
5. [Fairness](#5-fairness)
6. [What is proved](#6-what-is-proved)
7. [What is only model-checked](#7-what-is-only-model-checked)
8. [Not modelled](#8-not-modelled)
9. [Plan](#9-plan)

## 1. The parts of the system

| Part | State | Operations | Interacts with | What is hard |
|---|---|---|---|---|
| Inter-core byte queue (`spsc_queue.h`) | buffer, `head`, `tail` | try_add, add_blocking, try_remove, remove_blocking, peek, level, free, flush | every stream between the cores | no lock: barriers and stale positions only |
| Terminal input (`usb_rx.c`, `tud_cdc_rx_task` in `pirate.c`) | `rx_fifo`, the byte held back for the debug probe | USB task, RTT poll, UART interrupt; get and peek on core 0 | queue, TinyUSB, `assert_error` | an interrupt fills the queue that the main loop fills |
| Terminal output (`usb_tx.c`) | `tx_fifo`, state machine, toolbar frame | put, try_put, wait_drain on core 0; `tx_fifo_service`, `tx_tb_start` on core 1 | queue, TinyUSB, toolbars | text and frames on one wire; a host that goes away |
| Toolbars (`ui/ui_toolbar.c`) | registry, pause flag, render cycle | activate, teardown, teardown_all, redraw on core 0; begin_update and service on core 1 | terminal output, intercore messages, periodic update | the registry has no lock; waits with a time limit |
| Power supply (`pirate/psu.c`, `commands/global/w_psu.c`) | `psu_status`, regulator, current limiter | enable, disable, the poll of core 1, the report of a fault | `system_config.error`, analog multiplexer, oscilloscope | both cores switch the supply off |
| Mass storage (`msc_disk.c`) | medium state, requests, acknowledgement, `writable` | eject and insert of core 0, TEST UNIT READY on core 1, eject by the host's user | main loop, FatFs, host | three parties; requests answered from a callback |
| Bus syntax (`syntax_compile.c`, `syntax_run.c`, `syntax_post.c`) | program, results, count of results to come | compile, run, post-process | modes, messages to core 1 | three counts of one buffer; errors half-way |
| Command line (`ui/ui_process.c`, `ui/ui_cmdln.c`, `commands/global/script.c`) | the buffer, the delimiter, `result.error` | find, dispatch, chain, prompt, script | bus syntax, commands | what the result of one says about the next; lines that replace the line |
| Mode switch (`ui/ui_mode.c`, `modes.c`) and pin claims (`system_config.c`, `pirate/bio.c`) | mode, labels and purposes, masks of PWM, frequency and auxiliary pins | setup, cleanup, setup_exc, fall-back; claim and release | commands, bus syntax, binary modes, sniffers | everybody keeps the books in his own way |
| System monitor and LCD (`system_monitor.c`, `ui/ui_lcd.c`) | marks of change, timer, update flags | announce, sweep, collect, paint, clear | both cores, converter, messages | marks are cleared after they are read |
| Intercore messages (`pirate/intercore_helpers.c`) | one message and its acknowledgement | send synchronously, get, notify | loop of core 1 | a wait without a time limit |
| Converter (`pirate/amux.c`, `display/scope.c`) | `adc_busy_wait`, selected input and channel, `scope_running` | select, convert, sweep | supply, monitor, oscilloscope | one converter, two cores, and a user without lock |
| Big buffer (`pirate/mem.c`, `binmode/logicanalyzer.c`, `binmode/fala.c`, `binmode/sump.c`, `display/scope.c`, sniffers) | owner, everybody's pointer, hooks | alloc, free, set up, clean up | modes, displays, binary modes | owners that are all called "none" |
| Main loop (`pirate.c`) | `bp_state`, `has_been_connected`, `error` | one turn of core 0 | all | the order of the tests in a turn |
| Binary modes (`binmode/`) | active mode, its queue pair | select, setup, service, cleanup | main loop, USB | some keep core 0 for themselves |
| Stored configuration (`pirate/storage.c`) | files | save, load | FatFs | a reset during a save |
| Button (`pirate/button.c`) | pressed flag, code, start of the press | interrupt, check | main loop | a press between two reads |

The remaining parts (drivers of the bus protocols, global commands, the line
editor, lights, translations, FatFs, the flash translation layer) keep no state
that another part depends on, or are third-party code; section 8 lists them.

What makes each modelled part correct:

- **queue**: what is removed is what was added, once and in order; an answer of
  `spsc_queue_free` or `spsc_queue_level` can be relied on by the caller.
- **input**: every byte that core 1 took from a driver reaches core 0 in order.
- **output**: no byte vanishes, frames are not torn and are sent once the text stops,
  core 0 is not blocked for ever.
- **toolbars**: core 1 renders nothing while core 0 changes the registry or draws;
  the registry holds the active toolbars; one that is activated is shown, unless the
  request to show it is lost in a way that is known.
- **supply**: the regulator follows `psu_status`; a fault is acted on, reported,
  and not invented.
- **drive**: host and firmware do not write at the same time; the host knows what
  it may do and sees what the firmware did; no request hangs.
- **pins and modes**: a pin has one function, a PWM slice one purpose, and HiZ drives
  nothing, also after a mode that could not be set up.
- **command line and syntax**: an accepted program whose repeats are counted has room for
  its results; a chain goes on exactly as its delimiters say.
- **monitor and converter**: a core converts what it selected; a changed label gets to
  the LCD; the monitor keeps off the pins while a program has them.
- **big buffer**: one user at a time, and none keeps it after he has left.

## 2. The modules and the code

In every module an action is one step that no other actor can split: one access
to shared memory where two cores or an interrupt meet, one call where only the
order of calls matters. The names of variables and states are those of the code.

### SpscQueue, ByteFifo, MCSpscQueue

`SpscQueue` models `spsc_queue.h` one memory access at a time. A core's own
stores are visible to itself at once (`phead`, `ctail`, and `pstore` for the
data byte) and to the other core by a later step (`DrainByte`, `DrainHead`,
`DrainTail`), in any order; the loads of a consumer call (`LoadHead`,
`LoadByte`) may be performed in any order too. A `__dmb()` is a guard
(`ReleaseBarrier`, `AcquireBarrier`, `ConsumerBarrier`) that waits until what
precedes it has been performed. Nothing else orders the cores, so that a
barrier that is missing in the code is missing in the model.

| Action | Code |
|---|---|
| `CallAdd`, `ReturnFull`, `StoreByte`, `StoreHead` | `spsc_queue_try_add`, `spsc_queue_add_blocking` |
| `CallRemove`, `LoadHead`, `ReturnEmpty`, `LoadByte`, `StoreTail` | `spsc_queue_try_remove`, `_remove_blocking`, `_try_peek`, `_flush` |
| `QueryFree`, `QueryLevel` | `spsc_queue_free`, `spsc_queue_level` (`is_empty` and `is_full` are level and the full test) |

`credit` and `avail` are history: what the last `free` and `level` promised and
the caller has not used. `ByteFifo` is what the two users rely on, a bounded
first-in first-out queue. The refinement maps its `fifo` to the slots between
the consumer's own tail and the producer's own head, and its `out` to the byte
last loaded. `MCSpscQueue` adds the symmetry of byte values for TLC.

### RxPath, Terminal_proofs

The writers of `rx_fifo`: `tud_cdc_rx_task` (`UsbRead`, `UsbNext`),
`rx_from_rtt_terminal` with its byte held back (`RttNext`, `pushback`) and
`rx_uart_irq_handler` (`UartIrq`). The loop executes `spsc_queue_try_add` access
by access (`TestFull`, `StoreByte`, `StoreHead`), because the interrupt runs on
the same core and may strike in between; a handler runs to its end first, so it
is one step. Which inputs a device has is chosen in `Init` from
`Configurations`. `Arrive` is the host or the debug probe; a driver keeps what
it has (`held`), since USB is throttled. `TryGet` is `rx_fifo_try_get` on core 0.
A byte is the pair of its source and its number, so that loss, repetition and
order are visible. `produced` counts what each source has sent.

A proof module may extend the modules of two components (here this one and
TxService; below MscDisk and BigBuffer). Where both would use a name, one of the
two carries a prefix: `RxInit`, `RxNext`, `RxSpec`, `rxVars`; `DiskInit`,
`DiskNext`, `DiskSpec`, `diskVars`, `DiskTypeOK`.

### TxService, Terminal_proofs

`PutCall` and `PutDone` are `tx_fifo_put` (a wait when the queue is full),
`TryPut` is `tx_fifo_try_put`, `DrainCall` and `DrainDone` are
`tx_fifo_wait_drain`, `TbStart` is `tx_tb_start`. One call of
`tx_fifo_service` is one of `Flush`, `SendRegular`, `ArmToolbar`,
`DelayInterrupted`, `DelayQuiet`, `SendToolbar`, by the state of its machine
(`tx_state`, `delay_count`, `tx_tb_buf_index`) and the early return of `Ready`.
TinyUSB and the host are external: `cdc` is the fill of the USB FIFO,
`connected` the DTR line. `lost` is history. Core 0 may print without end: `Forget`, which
is no step of the program, lets the history of what was sent begin anew.

### Toolbar, Toolbar_proofs

Core 0's calls (`toolbar_activate`, `toolbar_teardown`, `toolbar_teardown_all`,
`toolbar_redraw_all`) are sequences of steps over `c0`: enter or remove an entry
(`Activate`, `ActivateCount`, `Unregister`, `UnregisterCount`, `Pop`), the
envelope (`Prepare` sets the pause flag, `WaitDone` or `WaitTimesOut` ends the
wait, `Release`), drawing (`Draw`), and the request to core 1 with the wait for
its answer (`Kick`, `KickDone`). Core 1 is `toolbar_core1_service` (`ServiceIdle`,
`ServiceDrained`, `ServiceRender`, `ScanTest`, `ScanFetch`, `RenderSkip`,
`Render`), the periodic update of its loop (`TickTest`, `TickBegin`) and the
handler of the message (`Message`). `ScanTest` and `ScanFetch` are two steps because
the code tests `toolbar_count` and then reads the slot. `c1 = "fault"` is the
dereference of an empty slot. `FrameSent` stands for TxService, whose run shows
that a frame is sent once core 0 stops printing. `load`, chosen in `Init`, says what core 1
may have to do besides: the periodic update, and frames so slow that the wait of core 0
gives up. `Reactivated` are the toolbars that their owner may activate while they are
active, as a change of settings does with the status bar. `late`, `unpainted` and `missed`
are history; the last names the toolbars that the last request to paint all left out,
because core 1 was in a cycle when it came, or core 0 moved the registry under a cycle.

### Psu, Psu_proofs

Core 0: commands (`EnableCommand`, `DisableCommand`, `OtherCommand`),
`psu_enable` (`Setup`, `Power`, `Settle`, `Checks`, `Enable`, `Failed`),
`psu_disable` as a subroutine of either core (`Off0`, `Cut0`, `Cool0` and
`Off1`, `Cut1`, `Cool1`), the result of a command (`CommandReturns`) and the
report of a fault (`TestError`, `Show`, `ClearError`). Core 1:
`psu_poll_fuse_vout_error` (`PollTest`, `PollFuse`, `PollVout`, `PollRecheck`),
then `psu_disable`, `SetPending` and `Callback`. The circuit is external: a load
changes (`LoadChanges`) and trips the limiter (`Trip`). The oscilloscope is another display
that comes and goes (`ScopeSwitch`); while it runs, a conversion is refused and reads 0.
`faulty` and `refused` are history: the load has ever been at fault, a conversion of
this poll was refused.

Two facts about time order the cores and are stated in the module: a wait of
`psu_disable` outlasts the two conversions of a poll, and the settling time of
`psu_enable` outlasts a whole poll. They are busy-waits of milliseconds against
conversions of some ten microseconds.

### MscDisk, Ownership_proofs

`TestUnitReady` is `tud_msc_test_unit_ready_cb`: requests first (`After`), then
the state the next call will find (`Settled`). `insert_or_eject_usbmsdrive` is
`ClearAck`, `EjectTest`, `Request`, `Acknowledged`. A turn of core 0's loop
looks at the connection (`Connect`, `Disconnect`, `NothingNew`) and may then run
commands or a button script that write files (`WriteFiles`, `FilesWritten`,
`RefreshInsert` with `refresh_usbmsdrive`) until it ends (`EndTurn`).
`MakeReadOnly` and `MakeWritable` change the write protection. The host is
external: it polls, mounts a new medium and reads its protection (`HostMount`,
`HostReacts`), and its user may eject or load the drive (`HostEject`,
`HostLoad`).

### Pins, MCPins, Pins_proofs

The books of `system_config.c` (`pin`: label and purpose of each pin; the masks
`pwm_active`, `freq_active`, `aux_active`), what is driven (`outputs`, `power`,
`pullups`), `mode` and `binmode`. Core 0 does one command after the other, so an
action is a whole command:

| Action | Code |
|---|---|
| `AuxCommand`, `AuxSyntax` | `a`, `A`, `@` (`commands/global/a_auxio.c`) and the same in bus syntax |
| `DioWrite` | a number written in mode DIO |
| `PwmEnable`, `PwmDisable`, `FreqEnable`, `FreqDisable` | `commands/global/pwm.c`, `freq.c` |
| `Supply` | `w`, `W`, `p`, `P` |
| `Sniff` | a sniffer that borrows pins of the mode, and for some tears it down |
| `ModeSwitch` | `ui_mode_enable_args`: cleanup, setup, setup_exc and the fall-back to HiZ |
| `BinmodeCommand`, `BinmodeExit` | `cmd_binmode_handler`, `binmode_service` with a key pressed |

`orderly` is history: since the last change of mode nothing has happened that does
not keep the books (a sniffer, an auxiliary pin of the syntax that belongs to the
mode or is set in HiZ, a binary mode that resets to HiZ). `MCPins` is a board of
five pins with modes that stand for the kinds there are.

### Syntax, CommandLine, CommandLine_proofs

`Syntax` is the program (`out`, items with their repeat), the count of results it
will need (`generated`), the item that runs (`pos`) and the results (`in`).
`CompileItem` and `CompileString` are the cases of `syntax_compile`, `RunItem` is the
handler of an item (`Refused`, `Results`) with the tests that `syntax_run` makes
afterwards, `Post` is `syntax_post`. Compiler and handlers add in `uint32_t`: `Plus` is the
sum modulo `Word`. Results that a handler writes past the buffer are kept in `in`
(`Overrun`). `CommandLine` extends it by the line around it:

| Action | Code |
|---|---|
| `TypeLine`, `Prompt` | `BP_SM_PROCESS_COMMAND`, `BP_SM_COMMAND_PROMPT` of `core0_infinite_loop` |
| `EndOfLine`, `Skip`, `Refuse`, `FindGlobal`, `FindMode`, `FindSyntax` | the search of `ui_process_commands`, with `cmdln_find_next_command` |
| `RunGlobal`, `RunMode` | a command; if it prompts, its answer is what the buffer has now |
| `RunScript`, `NextScriptLine`, `EndOfScript` | `script_exec`, which enters `ui_process_commands` for each of its lines; also macros, and the script of the button |
| `After` | `cmd_ok`: what the delimiter makes of the outcome |
| `Compile`, `CompileError`, `Compiled`, `Run`, `RunEnds`, `PostProcess` | `ui_process_syntax` |
| `Restart` | external: what follows an overrun of the results is undefined, so the device starts again |

The text of a line is not in the model: what the code finds when it looks for the
next command is any command and any delimiter. A delimiter within a string literal of bus
syntax is one for the search and none for the compiler, so `FindSyntax` may meet any
delimiter and still have a line that is only a program. `ran` is history, the last command
of the line and its outcome.

### Converter, Monitor, MCMonitor, Monitor_proofs

`Converter` is `pirate/amux.c`: a reading is refused while the oscilloscope runs
(`Read`), waits for `adc_busy_wait` (`Acquire`), selects and converts one after the
other (`Select`, `Convert`) and frees the lock (`Release`). `scope_start` takes no
lock; it is `ScopeSelect` and `ScopeStart`, two steps, since the flag that `amux.c`
tests is set last. `Monitor` has the main loop of core 1 around it: `Update` (the
request of the timer, and the sweep of `monitor`), `Collect` (what has changed),
`Paint`, `Reset` (the marks are cleared, whatever they are by then), `Poll` (the
reading of the supply), the messages `Disable` and `Enable`. Core 0 marks pins
(`Announce`; `AnnounceBoth` when both cores do so at once), sends the messages
around programs and displays (`StartProgram` ... `Resume`), forbids sweeps for the
legacy protocol (`StartLegacy`, `EndLegacy`), reads the converter (`ReadAdc`) and
leaves the screensaver (`Wake`, `Repaint`, `Woken`). `TimerExpires` and
`TimerCallback` are two steps, since core 1 may cancel the timer in between.
`unseen`, `overlooked`, `disturbances` and `spoilt` are history.

### BigBuffer, Ownership_proofs

`Alloc` and `Free` are `mem_alloc` and `mem_free` with what their callers do with
the answer: a user whose allocation fails has NULL in his pointer. The users are the
modes that sniff (`ModeCommand`), the oscilloscope (`DisplayCommand`), the commands
(`BeginCommand`, `EndCommand`), and the logic analyzer with its two kinds of masters:
SUMP (`SumpBegins`, `SumpEnds`) and the hooks of `fala.c` (`LogicStart`, `LogicStop`,
`BinmodeCommand`). Commands come one after the other, from the prompt or from a script of
the button (`AtPrompt`); where no terminal is connected the button runs its script also
while a binary mode has locked the terminal, and may then select a mode. `dropped`,
`abandoned` and `mixed` are history: a mode that `BinmodeExit` leaves without its cleanup,
and the two misuses of the analyzer that the code does not prevent. `Holds` says who has a
pointer to the buffer, `Using` who has one and is selected, connected or running.

## 3. What the runs show

| Run | Module, configuration | Properties | Question |
|---|---|---|---|
| `spsc_safety` | MCSpscQueue, `MCSpscQueue.cfg` | TypeOK, NoDataRace, ReservedSpaceHolds, PromisedBytesHold, FifoSpec | does the queue behave like ByteFifo, with delayed stores and reordered loads? |
| `rx_path` | RxPath, `RxPath.cfg` | CompleteInput, InputArrives, RxFifoSpec | does core 0 read what was sent, and is the queue still a queue? |
| `rx_uart_loss` | RxPath, `RxUartLoss.cfg` | NothingLost (violated) | ... when the UART interrupt is added? |
| `tx_service` | TxService, `TxService.cfg` | TypeOK, NoByteVanishes, FramesAreWhole, FrameIsSent, PutReturns | do text and frames share the wire, while the terminal comes and goes? |
| `tx_closed_port` | TxService, `TxClosedPort.cfg` | PutReturns (violated) | ... when the host fetches nothing from a closed port? |
| `toolbar` | Toolbar, `Toolbar.cfg` | RegistryOK, QuietDrawingIsExclusive, AtMostOneLateCycle, NewToolbarIsPainted, CallsReturn | does the protocol between the cores work when only core 0 starts cycles, and what is left of it with the periodic update and the time limit? |
| `psu` | Psu, `Psu.cfg` | TypeOK, OutputFollowsStatus, NoFalseTrip, TripCutsPower | do the two cores agree about the supply? |
| `msc_disk` | MscDisk, `MscDisk.cfg` | DiskTypeOK, SingleWriter, ProtectionIsKnown, HostSyncs, RequestReturns | do host, user and firmware share the drive? |
| `pins` | MCPins, `Pins.cfg` | TypeOK, SliceExclusive, KeptInOrder, SafeUntilDisturbed | does a pin have one function, and is HiZ safe, whoever claims and releases? |
| `terminal_line` | CommandLine, `CommandLine.cfg` | TypeOK, AcceptedProgramsRun, ChainIsHonoured | does what the compiler accepts and can count run within its buffer, and do chains, prompts and scripts honour their delimiters? |
| `monitor` | MCMonitor, `MCMonitor.cfg` | TypeOK, ReadsOwnChannel, LabelsReachTheLcd, BusIsLeftAlone | do the cores share converter, LCD and bus? |
| `big_buffer` | BigBuffer, `BigBuffer.cfg` | OneUser, BufferComesBack | does everybody give back what he got, and only that? |

Notes on the properties that need a word more than their comment:

- **ReservedSpaceHolds**, **PromisedBytesHold**: `tud_cdc_rx_task` and others act
  on an answer of `free` or `level` many steps later; the answer must stay true
  although the other core goes on.
- **NothingLost** looks at the moments in which core 1 has nothing in hand and
  the queue is empty; **CompleteInput** says that at any time core 0 has read a
  prefix of what each source sent: before a byte all that came before it, each once
  and in order (of a UART, in order and once: its handler drops bytes when the queue
  is full); **InputArrives** that it reads all of it in the end.
- **RxFifoSpec** is ByteFifo again, without its flush and its peek: `FifoSpec` is about
  the accesses of two cores, this one about the steps of core 1 between a test, a store
  and the store of `head`, into which the other core's reads, or the interrupt, fall.
- **NoByteVanishes** divides the bytes that core 0 has put among the queue, those
  that a flush discarded, and those on the wire, for each enabled output by itself;
  no byte is in two of them and the wire has each once, in order.
- **FrameIsSent** has as its premise that core 0 stops printing (`OutputStops`). Without it
  the property is false: a byte that arrives in the delay before a frame starts the delay
  anew, so output that never pauses holds a frame back for ever. `MaxBytes` does not
  provide the pause, for `Forget` lets core 0 print again and again.
- **AtMostOneLateCycle** bounds what the test of the pause flag lets through.
- **RegistryOK** speaks of the moments between calls; within a call the registry
  is in between by design. The status bar may be activated while it is active, which
  gives it a second slot; after its teardown a slot is left behind. The property tolerates
  that for `Reactivated` toolbars and holds all others to one slot.
- **NewToolbarIsPainted** is checked with the periodic update running. A toolbar in `missed`
  is excepted: the request that was to paint it was dropped by a running cycle. Nothing
  else may keep a toolbar from being painted.
- **NoFalseTrip** excepts a poll of which the oscilloscope had a conversion refused
  (`refused`); the oscilloscope starts and stops at any time.
- **SingleWriter** is about commands of a connected terminal. A button script runs
  without one, while the drive is writable for the host too; the code makes no
  attempt to exclude the host then.
- **HostSyncs**, **RequestReturns** suppose that the user does not eject the drive on
  the host (`Undisturbed`); see below.
- **KeptInOrder** and **SafeUntilDisturbed** carry the premise `orderly`. It is not
  there to make them true: `SliceExclusive` needs no premise, and what happens
  without it is among the observations. The point of the two is that a change of
  mode, also one that fails half-way, restores order *whatever happened before*.
- **AcceptedProgramsRun** carries the premise `Counted`: every repeat is at least 1 and below
  the limit. Without it the buffer does overrun, see the disagreements. That a program also
  runs to its end needs `ReadsCountTheirOwn` besides.
- **BufferComesBack** excepts a mode that was dropped by the exit from a locked binary mode
  (`dropped`) and an analyzer that had two kinds of masters (`mixed`); **OneUser** excepts the
  misuses of the analyzer only. A mode that holds a pointer without being selected is no
  user.
- **LabelsReachTheLcd** excepts the labels in `overlooked`, which name exactly the
  three windows in which the code loses a mark.
- **BusIsLeftAlone** allows one sweep: the one that runs when the bus is claimed,
  which the legacy protocol does not wait for, or the one that a timer callback
  still requests after its timer was cancelled.

### Disagreements between code and comments

- `rx_uart_loss`: the UART handler and the main loop are two producers of a
  single-producer queue. The interrupt between the store of a byte and the store
  of `head` writes the same slot, and one byte is lost. With USB instead of the
  debug probe as the second input the interrupt may also take the room that
  `tud_cdc_rx_task` has counted, and its assertion stops core 1.
- `tx_closed_port`: the return for a full USB FIFO comes before the flush that is
  to keep core 0 from blocking while no terminal is attached.

The following ones are in the models, named in the comments of the properties that meet
them, and have no run of their own:

- `syntax.h:34` and `docs/architecture/syntax_bytecode_guide.md:32` say that the compiler
  "performs bounds checking". Its count of results is a `uint32_t` to which it adds any
  repeat (`syntax_compile.c:216-219`), and the handlers' test adds likewise
  (`syntax_run.c:39`, `54`). With `[ r:4294967295` the count wraps to 0, the program is
  accepted, the handler's test takes the repeat of the first item for that of the read, and
  results are written past `io->in`; with `[ 1:4294967295` the sum in the test wraps as well.
  A repeat of 0 is not counted and has a result all the same, so that enough of them
  before a read overrun the buffer too. `Counted` names both.
- `w_psu.c:272-273` says that a conversion which is under way while core 0 disables the supply
  "causes a spurious short circuit warning". It does not: `psu_disable` clears `enabled` before
  it switches off (`psu.c:297-298`), and the poll looks at `enabled` again before it acts on
  what it has read (`psu.c:232`). `NoFalseTrip` and the theorem `NoSpuriousTrip` cover the race.
  What does trip a sound supply is a conversion that is refused: with the oscilloscope
  running, `amux_read` answers 0 (`amux.c:159`), which is taken for a missing voltage.
- The header of `a_auxio.c` (line 12) says of auxiliary pins "Preserves aux pins across mode
  changes". Every change of mode runs `hiz_setup_exec` (`hiz.c:41-53`), which makes all pins
  inputs, clears `aux_active` and removes the labels. `SafeUntilDisturbed` and `KeptInOrder`
  state what the code does.
- `ui_toolbar.h:103-104` says of `toolbar_activate` "After this returns true, the toolbar is
  fully visible". Toolbars of core 1 are painted later, by cycles that the acknowledgement of
  core 1 does not wait for; and if a cycle of the periodic update is running, the request to
  paint is dropped (`ui_toolbar.c:344`) while core 0 is told that it was done. A cycle that
  paints changes only may then leave the new toolbar blank. `NewToolbarIsPainted` names this
  case by `missed`.

### Observations

What modelling the code showed besides. Each is in the model, as a premise, a
history variable or a value of a constant, and each was seen in the source.

Toolbars and terminal:

- Core 1 tests the pause flag and then begins a cycle (`pirate.c`); core 0 can set
  the flag and find core 1 idle in between, although `toolbar_draw_prepare` says that
  it "prevents new cycles from starting". `AtMostOneLateCycle` bounds it.
- When the wait of 50 ms gives up, core 1 may take an empty slot for a toolbar
  (`c1 = "fault"`).
- Output of core 0 that never pauses starves the toolbars: the delay before a frame starts
  again with every byte (`usb_tx.c:164`).
- A toolbar that is activated twice keeps an entry after its teardown
  (`Reactivated`); `ui/ui_config.c` does activate the status bar again.

Supply:

- `core0_infinite_loop` assigns the result of a command to `system_config.error`, over
  a fault that core 1 has put there meanwhile: the report of a trip can be lost.
- A comment before the poll says that the over-current check uses the current-sense
  input; `psu_fuse_ok` and `psu_vout_ok` go through the multiplexer.

Drive:

- After an eject by the user of the host, the acknowledgement of a request may never
  come (`RequestReturns` without its premise).

Pins and modes:

- "HiZ is a safe mode" does not hold after `reset_to_hiz` of a binary mode, which
  claims pins and may switch the supply on (and then leaves the mode's pins as
  they are), nor after an auxiliary pin is set by bus syntax in HiZ: the syntax tests
  the purpose of a pin, the command its label and the mode.

Bus syntax and command line:

- `syntax_run_read` tests the room for its results with the repeat of the *first* item
  of the program, so a program that the compiler accepted may be refused.
- A result that takes the last slot is not counted, and not shown.
- An error of the bus in one repetition does not stop the item; only the error of the
  last result is looked at, although `bytecode.h` says that an error halts execution.
- Syntax behind another command of the line never compiles, since the compiler begins at
  the start of the buffer. A string that contains a delimiter (`["a;b"]`) is compiled as a
  whole, and what the search takes for the rest of the line is then looked up as a command.
- A command that prompts, and a script, replace the buffer: the rest of the chain is
  what the answer, or the script's last line, has at the same offset.
- A failing condition of `||` or `&&` ends the chain, not only the next command. A line
  that begins with `;` takes the delimiter for a command's name.
- The docs say that `system_config.error` controls chaining
  (`docs/api/error_handling_reference.md`, `docs/guides/new_command_guide.md`); the code looks at
  `result.error`.
- A script with `-a` does not stop at a command that fails, as `ui_process_commands`
  returns false for it, and it leaves the file open when it does stop.

Monitor, converter, LCD:

- A label that core 0 announces between the moment at which core 1 reads the marks and
  the moment at which it clears them is not painted. So is one that is announced while
  core 0 leaves the screensaver, and one of two that both cores announce at once.
- `scope_start` selects its input without the lock and sets `scope_running` last; a
  reading of the other core may get the oscilloscope's pin (`spoilt`).
- The display of the oscilloscope sweeps even while the legacy protocol forbids sweeps.
- The alarm of the screensaver is an interrupt of core 0 and takes the SPI mutex to
  clear the LCD; it waits for ever if core 0 holds it.

Big buffer:

- `logicanalyzer_setup` ignores that `mem_alloc` may return NULL and always succeeds, so
  the message "out of memory" of `fala.c` is never shown; the setup of mode `usb` does
  not fail either.
- When SUMP connects while a hook is active, or a hook comes while SUMP is served, the
  second setup overwrites the pointer to the buffer with NULL, and nothing frees it.
- The cleanup of SUMP leaves its state in service; when the mode comes back, the analyzer
  uses, and then frees, a buffer that may belong to somebody else.
- A binary mode that has locked the terminal and is left by a key sets the mode to HiZ without
  `protocol_cleanup` (`binmodes.c:221-225`). Where no terminal is connected the button runs
  its scripts in that state too (`pirate.c:501-508`), and one that had selected a mode with a
  buffer leaves the buffer allocated with no user, until that mode is set up again
  (`dropped`).
- Analyzer, sniffers and legacy protocol claim with owner 0, the value for "no owner".

## 4. Bounds

- **MCSpscQueue**: 4 slots, so up to 3 bytes in flight; every position wraps, the
  queue gets full and empty. Two byte values tell an old byte from a new one;
  they are interchangeable, hence the symmetry. The theorems lift the result to
  every capacity that is a power of two.
- **RxPath**: `Capacity = 4`, `MaxInput = 5` for each input: two more than the queue
  holds, so it fills, wraps, refuses a byte and takes the next one, for USB and the
  debug probe together and for the UART alone. `rx_uart_loss` needs no more than 4.
- **TxService**: `QMax = 3`, `Chunk = 2`, `CdcSize = 3` stand for 1023, 64 and the
  USB FIFO: the queue holds more than a chunk, the FIFO holds a chunk but not two.
  Frames of length 1 and 3 fit in a chunk and need two. `MaxBytes = 4`,
  `MaxFrames = 2`: a frame waits for text, text for a frame, and a second frame
  follows the first. The two bounds limit what is remembered, not what core 0 prints: when
  they are reached and all is sent, the history begins anew (`Forget`).
- **Toolbar**: three toolbars for two places (`MaxCount = 2`), so the registry can be
  full; one anchored to the bottom, which may be activated again while it is active and so
  fill the registry by itself; two painted by core 1 and one by core 0.
  `late` needs no bound, as its invariant shows.
- **Psu**: no counters. The loads are sound, too heavy, and feeding back; the oscilloscope
  comes and goes at any time.
- **MscDisk**, **BigBuffer**: no counters, no constants. What TLC explores is all there is.
- **Pins**: five pins in three slices, one of them with a single pin, the debug UART; one
  pin without PWM. Modes of every kind: with pins of purpose MODE and of purpose IO, with
  and without a supply, with a setup that may fail, with a cleanup that resets pins, with
  sniffers that only listen and that drive. No counters.
- **CommandLine**: `MaxLength = 5` results, `MaxItems = 3`, counts modulo `Word = 16` (the code's
  are 1024 and 2^32; what matters is that a sum of two counts below the limit does not wrap),
  repeats 0, 1, 3 and 15, the largest: programs that fill the buffer exactly, that exceed it
  by one, that have a repeat of 0, whose first item is repeated more often than a later one,
  and whose count wraps. A program that overruns the buffer is followed to that point. Lines
  and scripts are as long as they like; scripts that run scripts are cut at the first level.
- **Monitor**: two pins, since a mark is lost or kept pin by pin and both cores may mark
  one each, interchangeable, hence the symmetry; two channels, the one that the
  oscilloscope and the one that the supply uses; both besides the supply's current.
  `timers` and `disturbances` need no bound, as TypeOK shows.

## 5. Fairness

- Both cores run an endless loop: weak fairness of the actions of core 1, and of
  the steps of core 0 inside a call. Nothing makes core 0 begin a call, a user
  type, a terminal open, or a load change.
- RxPath: core 0 keeps asking for input (its line editor polls `rx_fifo`).
- TxService: a host that has the port open, for good or again and again, fetches
  what is there (strong fairness of `HostRead`). It is not assumed to open it.
- Toolbar: a frame is sent. That is an assumption on core 0's output, which must pause for
  long enough (`FrameIsSent` has the end of the output as its premise). While core 0 waits
  for core 1 it prints nothing, so for `CallsReturn` the code provides it; for
  `NewToolbarIsPainted` nothing does, and under output that never pauses toolbars freeze.
- Psu: commands end, and core 0 looks at the error flag between them.
- MscDisk: the host polls a removable drive and uses a medium that is ready;
  commands end (strong fairness of `EndTurn`), so core 0 gets to look at the
  connection although the next command may already wait.
- SpscQueue, Pins, CommandLine, Monitor and BigBuffer are checked for safety only; they
  need no fairness.

## 6. What is proved

TLAPS checks these theorems for all values of the constants.

**SpscQueue_proofs** (from `CapacityAssumption`: the capacity is a power of two,
and `ByteAssumption`: there is a byte):

| Theorem | States |
|---|---|
| `TypeCorrect` | `Spec => []TypeOK` |
| `RaceFree` | `Spec => []NoDataRace` |
| `ReservationsHold` | `Spec => []ReservedSpaceHolds` |
| `PromisesHold` | `Spec => []PromisedBytesHold` |
| `ImplementsFifo` | `Spec => FifoSpec`, the refinement of ByteFifo |

The inductive invariant is `IInv`: `TypeOK`, `PositionsInv` (going round the
buffer one meets tail as the producer sees it, the real tail, head as the
consumer sees it, the real head: stale positions err on the safe side),
`ProducerInv` (between the full test and the store of `head` there is room and
the byte is in the store buffer or in its slot), `ConsumerInv` (what the accesses
still to be made say about those already made) and `PromiseInv`. Without the
order of the positions none of the properties is inductive: they hold because no
core's stale view can overtake the other one. Order on a ring is the relation
`Between`, and its lemmas (`BetweenJoin`, `BetweenSucc`, `LevelTriangle`, ...) are
proved from the arithmetic of `%` first. `ImplementsFifo` shows that `StoreHead`
is `Add`, `LoadByte` is `Peek`, `StoreTail` is `Remove` or `Discard`, and that all
other steps leave the abstract queue alone.

**Psu_proofs** (from `PsuAssumption`):

| Theorem | States |
|---|---|
| `TypeCorrect` | `Spec => []TypeOK` |
| `OutputCorrect` | `Spec => []OutputFollowsStatus` |
| `NoSpuriousTrip` | `Spec => []NoFalseTrip` |

`IInv` is `Typed` (TypeOK, variable by variable) and `SwitchInv`, which follows the
two cores through `psu_disable` and `psu_enable`: whoever is past the first
assignment of `psu_disable` finds the supply disabled until it is through, and
core 0 switches on only while core 1 is not polling. `NoSpuriousTrip` adds
`FaultInv`: a reading that is wrong has one of three reasons, a load at fault, a refused
conversion, or a supply that core 0 turned off during the poll; the last exists only up to
the re-check of `enabled`, which discards it.

**Pins_proofs** (from `PinsAssumption`: any set of pins, modes and binary modes):

| Theorem | States |
|---|---|
| `TypeCorrect` | `Spec => []TypeOK` |
| `SlicesAreExclusive` | `Spec => []SliceExclusive` |
| `BooksAreKept` | `Spec => []KeptInOrder` |
| `HizStaysSafe` | `Spec => []SafeUntilDisturbed` |

`IInv` adds two facts to the properties: `DebugInv`, the pins of the debug UART, and
only they, are labelled so for ever; and `LockedInv`, while everything is orderly no
binary mode has locked the terminal. `KeptInOrder` is inductive only together with
`SliceExclusive`: that a pin's purpose can be read off its label rests on no other
user having its slice.

**CommandLine_proofs** (from `SyntaxAssumption`: any sizes with `MaxItems < MaxLength`, any
width of the counts with `2 * MaxLength <= Word`, any set of repeats with 1):

| Theorem | States |
|---|---|
| `TypeCorrect` | `Spec => []TypeOK` |
| `ProgramsHaveRoom` | `Spec => []AcceptedProgramsRun` |
| `ChainsAreHonoured` | `Spec => ChainIsHonoured` |

A count is a function `f` on the positions of a program: `f[i]` results are needed by its
first `i` items. `CountInv` says that the compiler's number is the end of such a count, unless
an item needs more than the buffer has (`NoWrap`; `CountsAreJoined`: the counts of two
programs one behind the other make one of both). Two counts below the limit are added without
wrapping (`PlusIsSum`). `RunInv` says that, where the repeats are `Counted`, what has run has
no more results than the count says at its position. The handlers' tests then never refuse
(`ItemHasRoom`), since the count is monotone and its end is below the limit. `TypeCorrect`
does not bound the results, which may overrun; `ProgramsHaveRoom` does, for programs that are
`Counted`. `ChainInv` follows the outcome of the last command through the
states of a line and through a script, whose caller kept its own delimiter.

**Monitor_proofs** (from `ConverterAssumption`: any channels and pins):

| Theorem | States |
|---|---|
| `TypeCorrect` | `Spec => []TypeOK` |
| `ConvertsWhatItSelected` | `Spec => []ReadsOwnChannel` |
| `BusIsClaimed` | `Spec => []BusIsLeftAlone` |
| `LabelsAreShown` | `Spec => []LabelsReachTheLcd` |

`ConverterInv` is the type with `LockInv` (one core at most is past the lock, and the flag
is set exactly then) and `ScopeInv`. `BusInv` needs `MessageInv` (where core 0 and core 1
are in the exchange of a message) and counts what is on its way: a sweep that runs, a
request, a timer's callback (`Asked`). `LabelInv` follows a label from its mark to the
LCD through collecting, painting and clearing (`Marked`, `Lit`, `Shown`).

**Ownership_proofs** (the big buffer and the drive; no constants, so the proofs add to
TLC's answer the reason for it):

| Theorem | States |
|---|---|
| `TypeCorrect` | `Spec => []TypeOK` |
| `OneUserAtATime` | `Spec => []OneUser` |
| `BufferIsReturned` | `Spec => []BufferComesBack` |
| `DiskTypeCorrect` | `DiskSpec => []DiskTypeOK` |
| `FilesHaveOneWriter` | `DiskSpec => []SingleWriter` |
| `HostKnowsProtection` | `DiskSpec => []ProtectionIsKnown` |

For the buffer, `IInv` says who may have a pointer (`PointersInv`, by mode, display and
command; a mode that is not selected has one only if it was dropped), when the analyzer has a
master (`MastersInv`), that a pointer in use means an allocated buffer (`HeldInv`), and that
an allocated buffer has somebody who holds it (`HolderInv`).

For the drive, `DiskInv` follows a request through its acknowledgement. `RequestInv`: a
request stands only while core 0 waits for it, and the acknowledgement was cleared before
the request was made, so that an old one is never taken for the answer. `AbsentInv`: once
an eject is acknowledged the medium is absent, and stays so until core 0 has changed the
protection, whatever the host's user does meanwhile; the host keeps nothing of a medium
that is absent. `ConnectionInv`: while a terminal is connected the drive is writable only
on the way to being made read-only, and the other way round. `SingleWriter` follows from
the last, `ProtectionIsKnown` is inductive with the first two: protection changes while
the host has no medium, and it reads it again with the next.

**Toolbar_proofs** (from `ToolbarAssumption`: any set of toolbars, any size of the registry,
any loads of core 1):

| Theorem | States |
|---|---|
| `RegistryIsExact` | `Spec => []RegistryOK` |
| `OneLateCycle` | `Spec => []AtMostOneLateCycle` |
| `QuietDrawing` | `Spec => []QuietDrawingIsExclusive` |

`IInv`: within the envelope the flag is set and no message is under way, so that a cycle
can only begin for a test that was made before, and there is room for one such test.
`RInv` says what slots, count and flags hold between the steps of a call (`Exact`, of the
first `Count` slots and the `Members`); it rests on one lemma for each way in which the
code changes the slots (`OnTopIsExact`, `AtTheBottomIsExact`, `ShiftedIsExact`,
`PoppedIsExact`). `Exact` allows a second slot to the toolbars of `Reactivated`, whatever they
are, and to no other.

**Terminal_proofs** (from `TxAssumption`: any sizes with a chunk that fits in the FIFO of
the USB driver, any set of frame lengths, and `RxAssumption`: any capacity from 2 on, any
inputs):

| Theorem | States |
|---|---|
| `FramesStayWhole` | `Spec => []FramesAreWhole` |
| `BytesAreAccountedFor` | `Spec => []NoByteVanishes` |
| `TxTypeCorrect` | `Spec => []TypeOK` |
| `InputIsComplete` | `RxSpec => [](OneWriter => CompleteInput)` |
| `OneWriterLosesNothing` | `RxSpec => [](OneWriter => NothingLost)` |
| `BatchFits` | `RxSpec => [](OneWriter => pc # "assert_error")` |
| `OneWriterMakesFifo` | `OneWriter /\ RxSpec => RxFifoSpec`, the refinement of ByteFifo |

Output: `IInv` relates the state machine to the last byte on the wire: in the middle of a
frame it is the frame's byte at `tx_tb_buf_index`, and otherwise none that another byte of a
frame has to follow. `WholeTogether` says when two pieces of output fit together. `BytesInv`
rests on one number, `Gone`: the queue holds exactly the bytes from `Gone + 1` to the
newest (`QueueInv`), and those up to `Gone` are divided between an output and `lost`
(`Accounted`). One lemma for each way in which an output grows, with text (`TextIsAccounted`)
or with a frame (`FrameIsNoText`), and one for a flush (`DiscardedIsAccounted`) keep that.

Input: `Stream` is what core 0 has read and, behind it, what is in the queue; `Fed` says
that this is in order and complete up to `Queued`, the number of the last byte of each
source that has entered the queue. Reading leaves `Stream` alone (`StreamRead`), so does the
store of a byte (`StreamStored`), and only the store of `head` lengthens it (`StreamGrows`).
`HandInv` says what the loop of core 1 has between a driver and the queue: the next bytes of
their source, in order, and no more of USB than there is room for, an answer of
`spsc_queue_free` that core 0 can only improve. `CompleteInput` alone is not inductive,
since it says nothing of the bytes that are still in the queue or in hand. The same lemmas
give the refinement: the queue is the end of the stream that core 0 has not read, so a step
that lengthens the stream is `Add` and a read is `Remove` (`GrowsIsAdd`, `ReadIsTake`).

The premise `OneWriter` of the input theorems says that the UART's receive interrupt is
configured, or the main loop has inputs, and not both. `UartInv` is what follows: where the
interrupt writes, the loop has nothing in hand. Without the premise they are false, as
`rx_uart_loss` shows; the configurations of `rx_path` satisfy it.

## 7. What is only model-checked

- Every property under fairness (InputArrives, FrameIsSent, PutReturns,
  NewToolbarIsPainted, CallsReturn, TripCutsPower, HostSyncs, RequestReturns): liveness
  under fairness and ENABLED are out of the reach of the prover.
- Everything else that a run checks is also the subject of a theorem; where the theorem
  has a premise that the property has not (the input theorems above), the configuration of
  the run satisfies it.

## 8. Not modelled

Within the modelled parts: the values of bytes and the wording of output; line
states of the USB interfaces; the queue pair of the binary interface
(`bin_rx_fifo`, `bin_tx_fifo`), which is the same code on a second queue; rows,
widths and keyboard focus of toolbars; the conversion of volts and amperes, the
calibration and the prompts of the supply; the transfer of blocks by the drive.

Parts that are listed but not modelled, with the reason:

- **Main loop**: its turn appears where it matters, in MscDisk (the connection), Psu (the
  error), CommandLine (the states around a line) and Toolbar (the loop of core 1). What is
  left is their order in one turn, in straight-line code.
- **Binary modes**: selection, claims and exit are in Pins and BigBuffer. Their services
  are parsers over formats that are defined elsewhere (SUMP, BPIO, FALA, IRtoy, legacy).
- **Stored configuration**: a file is rewritten in place, so what a reset leaves behind is
  decided by FatFs and the flash translation layer. Errors of writing are not looked at.
- **Button**: an interrupt and a poll share a flag and a code without protection. A press
  between the reading of the code and the clearing of the flag is lost, and one that began
  before the interrupt was enabled is taken for a long one. There is nothing the code
  promises beyond that the next press counts, which is a matter of one variable.
- **SPI bus**: one mutex, held within single functions. Apart from the screensaver's
  interrupt (see the observations) no holder waits for anything else.
- **Users of the pause flag outside of the envelope** (progress bar, UART bridge, monitors
  of the modes): they set and clear the flag without waiting, and it does not nest. The
  cycles they are to hold off are those that `AtMostOneLateCycle` lets through anyway.
- **Mode internals**: glitching, UART bridge, monitors and the state of USB PD negotiation.

Left out for good:

- drivers of the bus protocols, PIO programs, display and lights: register
  accesses whose meaning is that of the hardware;
- global commands and commands of the modes: sequential work on a device;
- the line editor, escape sequences, layout, help and translations: formatting;
- FatFs, dhara, TinyUSB, linenoise, mjson and the SDK: third-party code, modelled
  as external where the firmware depends on what they do;

## 9. Plan

What remains, in the order of its worth:

1. The other users of the pause flag in Toolbar: an envelope within an envelope ends the
   outer one.
2. Button and screensaver as a module of interrupts of core 0, with the SPI mutex.
3. Stored configuration, over a model of FatFs that loses what was not synced.
