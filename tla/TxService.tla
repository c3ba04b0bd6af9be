------------------------------ MODULE TxService -----------------------------
(***************************************************************************)
(* Terminal output (usb_tx.c): core 0 puts bytes into tx_fifo and waits    *)
(* when it is full; core 1 calls tx_fifo_service in every turn of its loop *)
(* and moves what it finds to the USB CDC interface and to the terminal    *)
(* UART, or, when the queue stays quiet, sends the rendered toolbar frame. *)
(*                                                                         *)
(* One step is one call of tx_fifo_service.  Its loop of try_remove is one *)
(* removal: a byte that core 0 adds during the loop is either taken by it  *)
(* or by the next call.  TinyUSB and the host are external: `cdc' counts   *)
(* the bytes in the transmit FIFO of TinyUSB, and `connected' is           *)
(* tud_cdc_n_connected(0), that is, a program has the port open (DTR).     *)
(*                                                                         *)
(* Core 0 prints without end: what has been sent is a history, which the   *)
(* step Forget drops from time to time so that TLC's states stay finite.   *)
(***************************************************************************)
EXTENDS Integers, Sequences, FiniteSets, SequencesExt, FiniteSetsExt

CONSTANTS
    QMax,             \* bytes tx_fifo holds: TX_FIFO_LENGTH_IN_BYTES - 1
    Chunk,            \* 64
    CdcSize,          \* transmit FIFO of TinyUSB
    FrameLens,        \* possible lengths of a toolbar frame
    UsbEnabled,       \* system_config.terminal_usb_enable
    UartEnabled,      \* system_config.terminal_uart_enable
    HostMayLeave,     \* may the terminal program close the port?
    DrainsWhenClosed, \* does the host fetch bytes while it is closed?
    MaxBytes,         \* bound: bytes remembered at a time
    MaxFrames         \* bound: frames rendered between two such memories

ASSUME TxAssumption ==
    /\ QMax \in Nat \ {0} /\ Chunk \in Nat \ {0} /\ CdcSize \in Nat /\ CdcSize >= Chunk
    /\ FrameLens \subseteq Nat \ {0}
    /\ {UsbEnabled, UartEnabled, HostMayLeave, DrainsWhenClosed} \subseteq BOOLEAN
    /\ MaxBytes \in Nat /\ MaxFrames \in Nat

VARIABLES
    c0,          \* core 0: "idle", "put" (tx_fifo_put), "drain" (tx_fifo_wait_drain)
    sent,        \* bytes put since the last Forget; byte n is the n-th
    fifo,        \* tx_fifo
    tx_state, delay_count,                          \* statics of tx_fifo_service
    tx_tb_buf_ready, tx_tb_buf_cnt, tx_tb_buf_index,
    frames,      \* frames rendered since the last Forget
    connected, cdc,
    usb, uart,   \* what was written to the CDC interface and to the UART
    lost         \* bytes discarded by spsc_queue_flush

core0 == <<c0, sent>>
tb    == <<tx_tb_buf_ready, tx_tb_buf_cnt, tx_tb_buf_index, frames>>
fsm   == <<tx_state, delay_count>>
host  == <<connected, cdc>>
wire  == <<usb, uart>>
vars  == <<core0, fifo, fsm, tb, host, wire, lost>>

Init ==
    /\ c0 = "idle" /\ sent = 0 /\ fifo = <<>>
    /\ tx_state = "IDLE" /\ delay_count = 0
    /\ tx_tb_buf_ready = FALSE /\ tx_tb_buf_cnt = 0 /\ tx_tb_buf_index = 0
    /\ frames = 0
    /\ connected \in {FALSE, UsbEnabled} /\ (~HostMayLeave => connected = UsbEnabled)
    /\ cdc = 0 /\ usb = <<>> /\ uart = <<>> /\ lost = {}

-----------------------------------------------------------------------------
(* Core 0: tx_fifo_put (and _write, byte by byte), tx_fifo_wait_drain.     *)

PutCall == /\ c0 = "idle" /\ sent < MaxBytes
           /\ c0' = "put"
           /\ UNCHANGED <<sent, fifo, fsm, tb, host, wire, lost>>

PutDone == /\ c0 = "put" /\ Len(fifo) < QMax
           /\ fifo' = Append(fifo, sent + 1)
           /\ sent' = sent + 1 /\ c0' = "idle"
           /\ UNCHANGED <<fsm, tb, host, wire, lost>>

(* tx_fifo_try_put ignores the answer of the queue: a byte that does not   *)
(* fit is dropped, and is not counted.                                     *)
TryPut == /\ c0 = "idle" /\ sent < MaxBytes
          /\ IF Len(fifo) < QMax
               THEN fifo' = Append(fifo, sent + 1) /\ sent' = sent + 1
               ELSE UNCHANGED <<sent, fifo>>
          /\ UNCHANGED <<c0, fsm, tb, host, wire, lost>>

DrainCall == /\ c0 = "idle" /\ fifo # <<>>
             /\ c0' = "drain"
             /\ UNCHANGED <<sent, fifo, fsm, tb, host, wire, lost>>

DrainDone == /\ c0 = "drain" /\ fifo = <<>>
             /\ c0' = "idle"
             /\ UNCHANGED <<sent, fifo, fsm, tb, host, wire, lost>>

-----------------------------------------------------------------------------
(* The host: it fetches bytes while a program has the port open.           *)

HostRead == /\ cdc > 0 /\ (connected \/ DrainsWhenClosed)
            /\ cdc' = cdc - 1
            /\ UNCHANGED <<core0, fifo, fsm, tb, connected, wire, lost>>

HostSwitch == /\ HostMayLeave /\ UsbEnabled
              /\ connected' = ~connected
              /\ UNCHANGED <<core0, fifo, fsm, tb, cdc, wire, lost>>

-----------------------------------------------------------------------------
(* tx_tb_start, as toolbar_core1_service calls it: the last frame has been *)
(* sent and a terminal is connected.                                       *)
TbStart == /\ ~tx_tb_buf_ready /\ connected /\ frames < MaxFrames
           /\ \E len \in FrameLens : tx_tb_buf_cnt' = len
           /\ tx_tb_buf_ready' = TRUE
           /\ frames' = frames + 1
           /\ UNCHANGED <<tx_tb_buf_index, core0, fifo, fsm, host, wire, lost>>

(* Plausible slips: each of them breaks a property below.                  *)
AfterChunkToIdle(index) == "IDLE"
MustFlushNever == FALSE
RoomAlways == TRUE
DropOneMore(s) == SubSeq(s, Min({Chunk, Len(s)}) + 2, Len(s))
ReadyThresholdTooHigh == UsbEnabled => CdcSize - cdc > CdcSize

(* tud_cdc_n_write_available(0) >= 64.                                     *)
Ready == UsbEnabled => CdcSize - cdc >= Chunk

(* Write a piece of output wherever the terminal is.                       *)
Write(bytes) ==
    /\ usb'  = IF UsbEnabled THEN usb \o bytes ELSE usb
    /\ cdc'  = IF UsbEnabled THEN cdc + Len(bytes) ELSE cdc
    /\ uart' = IF UartEnabled THEN uart \o bytes ELSE uart
    /\ UNCHANGED connected

(* Nobody reads: discard, so that core 0 is not blocked.                   *)
MustFlush == ~connected

Flush ==
    /\ Ready /\ tx_state = "IDLE" /\ fifo # <<>> /\ MustFlush
    /\ fifo' = <<>> /\ lost' = lost \cup Range(fifo)
    /\ UNCHANGED <<core0, fsm, tb, host, wire>>

(* What the loop of try_remove leaves in the queue.                        *)
Rest(s) == SubSeq(s, Min({Chunk, Len(s)}) + 1, Len(s))

SendRegular ==
    /\ Ready /\ tx_state = "IDLE" /\ fifo # <<>> /\ connected
    /\ LET k == Min({Chunk, Len(fifo)})
       IN  Write([i \in 1..k |-> <<"text", fifo[i]>>])
    /\ fifo' = Rest(fifo)
    /\ UNCHANGED <<core0, fsm, tb, lost>>

ArmToolbar ==
    /\ Ready /\ tx_state = "IDLE" /\ fifo = <<>> /\ tx_tb_buf_ready
    /\ tx_state' = "TOOLBAR_DELAY" /\ tx_tb_buf_index' = 0
    /\ UNCHANGED <<delay_count, core0, fifo, tx_tb_buf_ready, tx_tb_buf_cnt, frames,
                   host, wire, lost>>

DelayInterrupted ==
    /\ Ready /\ tx_state = "TOOLBAR_DELAY" /\ fifo # <<>>
    /\ delay_count' = 0 /\ tx_state' = "IDLE"
    /\ UNCHANGED <<core0, fifo, tb, host, wire, lost>>

DelayQuiet ==
    /\ Ready /\ tx_state = "TOOLBAR_DELAY" /\ fifo = <<>>
    /\ IF delay_count + 1 >= 3
         THEN delay_count' = 0 /\ tx_state' = "TOOLBAR_TX"
         ELSE delay_count' = delay_count + 1 /\ UNCHANGED tx_state
    /\ UNCHANGED <<core0, fifo, tb, host, wire, lost>>

(* Where the state machine goes when `index' bytes of the frame are sent.  *)
AfterChunk(index) == IF index >= tx_tb_buf_cnt THEN "IDLE" ELSE "TOOLBAR_TX"

SendToolbar ==
    /\ Ready /\ tx_state = "TOOLBAR_TX"
    /\ LET k == Min({Chunk, tx_tb_buf_cnt - tx_tb_buf_index})
       IN  /\ Write([i \in 1..k |-> <<"frame", tx_tb_buf_index + i, tx_tb_buf_cnt>>])
           /\ tx_tb_buf_index' = tx_tb_buf_index + k
    /\ tx_state' = AfterChunk(tx_tb_buf_index')
    /\ tx_tb_buf_ready' = (tx_tb_buf_index' < tx_tb_buf_cnt)
    /\ UNCHANGED <<delay_count, tx_tb_buf_cnt, frames, core0, fifo, lost>>

(* A call that finds no room, or nothing to do.                            *)
NothingToDo ==
    /\ ~Ready \/ (tx_state = "IDLE" /\ fifo = <<>> /\ ~tx_tb_buf_ready)
    /\ UNCHANGED vars

tx_fifo_service == Flush \/ SendRegular \/ ArmToolbar \/ DelayInterrupted \/ DelayQuiet
                   \/ SendToolbar

Core0 == PutCall \/ PutDone \/ TryPut \/ DrainCall \/ DrainDone

(* No step of the program: the history is full, everything in it has left  *)
(* the queue and no frame is on its way, so the counting starts again.     *)
Forget ==
    /\ sent = MaxBytes \/ frames = MaxFrames
    /\ fifo = <<>> /\ tx_state # "TOOLBAR_TX"
    /\ sent' = 0 /\ frames' = 0 /\ usb' = <<>> /\ uart' = <<>> /\ lost' = {}
    /\ UNCHANGED <<c0, fifo, fsm, tx_tb_buf_ready, tx_tb_buf_cnt, tx_tb_buf_index, host>>

Next == Core0 \/ HostRead \/ HostSwitch \/ TbStart \/ tx_fifo_service \/ NothingToDo
        \/ Forget

Spec == Init /\ [][Next]_vars

(* Core 1 calls the service in every turn of its loop, core 0 spins in a   *)
(* blocking call, and a host that has the port open, for good or again and *)
(* again, fetches what is there.  Nothing makes the host open the port.    *)
LiveSpec == /\ Spec
            /\ WF_vars(tx_fifo_service) /\ SF_vars(HostRead)
            /\ WF_vars(PutDone) /\ WF_vars(DrainDone)

-----------------------------------------------------------------------------
(* A piece of output: byte n of core 0, or byte i of a frame of len bytes. *)
TextByte  == {"text"} \X (1..MaxBytes)
FrameByte == {"frame"} \X Nat \X FrameLens

TypeOK ==
    /\ c0 \in {"idle", "put", "drain"} /\ sent \in 0..MaxBytes
    /\ fifo \in Seq(1..MaxBytes) /\ Len(fifo) <= QMax
    /\ tx_state \in {"IDLE", "TOOLBAR_DELAY", "TOOLBAR_TX"} /\ delay_count \in 0..2
    /\ tx_tb_buf_ready \in BOOLEAN /\ tx_tb_buf_cnt \in FrameLens \cup {0}
    /\ tx_tb_buf_index \in Nat
    /\ \E len \in FrameLens \cup {0} : tx_tb_buf_index <= len
    /\ frames \in 0..MaxFrames /\ connected \in BOOLEAN /\ cdc \in 0..CdcSize
    /\ usb \in Seq(TextByte \cup FrameByte) /\ uart \in Seq(TextByte \cup FrameByte)
    /\ lost \subseteq 1..MaxBytes

(* Where the output goes, and which of core 0's bytes are in it.           *)
Outputs == (IF UsbEnabled THEN {usb} ELSE {}) \cup (IF UartEnabled THEN {uart} ELSE {})
TextAt(out) == {i \in 1..Len(out) : out[i][1] = "text"}
Written(out) == {out[i][2] : i \in TextAt(out)}

(* Every byte core 0 put is in exactly one place: still queued, written,   *)
(* once, to each output, or discarded; and what was written keeps the      *)
(* order core 0 gave it.                                                   *)
NoByteVanishes ==
    \A out \in Outputs :
        /\ Written(out) \cup Range(fifo) \cup lost = 1..sent
        /\ Written(out) \cap (Range(fifo) \cup lost) = {} /\ Range(fifo) \cap lost = {}
        /\ \A i, j \in TextAt(out) : i < j => out[i][2] < out[j][2]
        /\ \A i, j \in 1..Len(fifo) : i < j => fifo[i] < fifo[j]

(* No regular output gets into the middle of a toolbar frame ("Ensures     *)
(* toolbar output doesn't corrupt regular output").                        *)
FramesAreWhole ==
    \A i \in 1..Len(usb) - 1 :
        usb[i][1] = "frame" /\ usb[i][2] < usb[i][3]
            => usb[i + 1] = <<"frame", usb[i][2] + 1, usb[i][3]>>

(* Once core 0 stops printing, a frame that has been rendered is sent and  *)
(* core 1 can render again.  The premise is needed: each byte that arrives *)
(* in the delay starts it anew, so output without a long enough pause      *)
(* holds a frame back for ever (DelayInterrupted).                         *)
OutputStops == <>[](fifo = <<>>)
FrameIsSent == OutputStops => (tx_tb_buf_ready ~> ~tx_tb_buf_ready)

(* Core 0 does not wait for ever in tx_fifo_put or tx_fifo_wait_drain      *)
(* ("prevents filling the FIFO and blocking Core0 when no terminal is      *)
(* attached").                                                             *)
PutReturns == (c0 # "idle") ~> (c0 = "idle")

=============================================================================
