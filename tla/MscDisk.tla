------------------------------ MODULE MscDisk ------------------------------
(***************************************************************************)
(* The mass storage drive (msc_disk.c).  Core 0 takes the medium out and   *)
(* puts it back, to give the file system to the host or to the firmware    *)
(* (pirate.c) and to make the host look again at files that a command has  *)
(* written (fatfs/ff.c).  It can only ask: the callback that answers the   *)
(* host's TEST UNIT READY, on core 1, changes the state of the medium and  *)
(* acknowledges, and core 0 waits for that.                                *)
(*                                                                         *)
(* The host is external.  It asks again and again whether the unit is      *)
(* ready, drops what it cached when it is not or the medium has changed,   *)
(* and reads the write protection (MODE SENSE) when it uses a new medium.  *)
(* Its commands come one after the other; TinyUSB refuses WRITE 10 while   *)
(* tud_msc_is_writable_cb answers false.                                   *)
(***************************************************************************)

VARIABLES
    medium_state, next_medium_state,
    eject_request, insert_request, cmd_ack,
    writable, host_ejected,
    connected, has_been_connected,     \* a terminal is connected; core 0 has seen it
    c0, then,                          \* core 0: position, where eject returns to
    host,                              \* "none", "ready" or "mounted"
    host_ro,                           \* the write protection the host has read
    host_stale                         \* the files changed since the host mounted

medium  == <<medium_state, next_medium_state>>
request == <<eject_request, insert_request>>
term    == <<connected, has_been_connected>>
core0   == <<c0, then>>
view    == <<host, host_ro>>
diskVars == <<medium, request, cmd_ack, writable, host_ejected, term, core0, view, host_stale>>

DiskInit ==
    /\ medium_state = "ready" /\ next_medium_state = "ready"
    /\ eject_request = FALSE /\ insert_request = FALSE /\ cmd_ack = FALSE
    /\ writable = TRUE /\ host_ejected = FALSE
    /\ connected = FALSE /\ has_been_connected = FALSE
    /\ c0 = "loop" /\ then = "none"
    /\ host = "none" /\ host_ro = FALSE /\ host_stale = FALSE

-----------------------------------------------------------------------------
(* Plausible slips: each of them breaks a property below.                  *)
AcksInsertOnly(m) == insert_request /\ m = "not_present"
StaysSame(m) == m
AfterIgnoresEject(m) ==
    IF host_ejected THEN "not_present"
    ELSE IF insert_request /\ m = "not_present" THEN "medium_changed"
    ELSE m
RefreshSkipped == c0' = "turn" /\ then' = "none"
LeftWritable == writable

(* tud_msc_test_unit_ready_cb: the requests of core 0 and of the user,     *)
(* then the sense data for the host.                                       *)
Acts(m) == \/ insert_request /\ m = "not_present"
           \/ eject_request /\ m = "ready"

After(m) ==
    IF host_ejected THEN "not_present"
    ELSE IF insert_request /\ m = "not_present" THEN "medium_changed"
    ELSE IF eject_request /\ m = "ready" THEN "not_present_stage1"
    ELSE m

Settled(m) ==
    CASE m \in {"not_present_stage1", "not_present"} -> "not_present"
      [] m = "medium_changed"                        -> "ready_stage1"
      [] m \in {"ready_stage1", "ready"}             -> "ready"

(* What the answer makes the host do.                                      *)
HostReacts(m) ==
    IF m \in {"ready_stage1", "ready"}
      THEN host' = IF host = "none" THEN "ready" ELSE host
      ELSE host' = "none"

TestUnitReady ==
    /\ medium_state' = After(next_medium_state)
    /\ next_medium_state' = Settled(medium_state')
    /\ cmd_ack' = (cmd_ack \/ (~host_ejected /\ Acts(next_medium_state)))
    /\ host_ejected' = FALSE
    /\ HostReacts(medium_state')
    /\ UNCHANGED <<request, writable, term, core0, host_ro, host_stale>>

HostMount ==
    /\ host = "ready"
    /\ host' = "mounted" /\ host_ro' = ~writable /\ host_stale' = FALSE
    /\ UNCHANGED <<medium, request, cmd_ack, writable, host_ejected, term, core0>>

(* tud_msc_start_stop_cb: the user ejects the drive, or loads it again.    *)
HostEject ==
    /\ host = "mounted"
    /\ host_ejected' = TRUE /\ host' = "none"
    /\ UNCHANGED <<medium, request, cmd_ack, writable, term, core0, host_ro, host_stale>>

HostLoad ==
    /\ host_ejected
    /\ host_ejected' = FALSE
    /\ UNCHANGED <<medium, request, cmd_ack, writable, term, core0, view, host_stale>>

Terminal ==
    /\ connected' = ~connected
    /\ UNCHANGED <<medium, request, cmd_ack, writable, host_ejected, has_been_connected, core0,
                   view, host_stale>>

-----------------------------------------------------------------------------
(* insert_or_eject_usbmsdrive                                              *)
CallEject(address) == c0' = "eject" /\ then' = address
CallInsert == c0' = "insert" /\ then' = "turn"

ClearAck ==
    /\ c0 \in {"eject", "insert"}
    /\ cmd_ack' = FALSE
    /\ c0' = IF c0 = "eject" THEN "eject_test" ELSE "insert_set"
    /\ UNCHANGED <<medium, request, writable, host_ejected, term, then, view, host_stale>>

EjectTest ==
    /\ c0 = "eject_test"
    /\ IF medium_state = "not_present"
         THEN c0' = then /\ then' = "none"
         ELSE c0' = "eject_set" /\ UNCHANGED then
    /\ UNCHANGED <<medium, request, cmd_ack, writable, host_ejected, term, view, host_stale>>

Request ==
    /\ \/ /\ c0 = "eject_set" /\ eject_request' = TRUE /\ c0' = "eject_wait"
          /\ UNCHANGED insert_request
       \/ /\ c0 = "insert_set" /\ insert_request' = TRUE /\ c0' = "insert_wait"
          /\ UNCHANGED eject_request
    /\ UNCHANGED <<medium, cmd_ack, writable, host_ejected, term, then, view, host_stale>>

Acknowledged ==
    /\ c0 \in {"eject_wait", "insert_wait"} /\ cmd_ack
    /\ eject_request' = FALSE /\ insert_request' = FALSE
    /\ c0' = then /\ then' = "none"
    /\ UNCHANGED <<medium, cmd_ack, writable, host_ejected, term, view, host_stale>>

-----------------------------------------------------------------------------
(* core0_infinite_loop and prepare_usbmsdrive_readonly                     *)
Connect ==
    /\ c0 = "loop" /\ connected /\ ~has_been_connected
    /\ has_been_connected' = TRUE
    /\ IF writable THEN CallEject("ro") ELSE CallInsert
    /\ UNCHANGED <<medium, request, cmd_ack, writable, host_ejected, connected, view,
                   host_stale>>

ReadOnly == FALSE

(* sync, writable = false; back in the main loop: mount, insert            *)
MakeReadOnly ==
    /\ c0 = "ro"
    /\ writable' = ReadOnly
    /\ CallInsert
    /\ UNCHANGED <<medium, request, cmd_ack, host_ejected, term, view, host_stale>>

(* No terminal: make_usbmsdrive_writable                                   *)
Disconnect ==
    /\ c0 = "loop" /\ ~connected /\ (has_been_connected \/ ~writable)
    /\ has_been_connected' = FALSE
    /\ IF writable THEN c0' = "turn" /\ UNCHANGED then ELSE CallEject("rw")
    /\ UNCHANGED <<medium, request, cmd_ack, writable, host_ejected, connected, view,
                   host_stale>>

MakeWritable ==
    /\ c0 = "rw"
    /\ writable' = TRUE
    /\ CallInsert
    /\ UNCHANGED <<medium, request, cmd_ack, host_ejected, term, view, host_stale>>

NothingNew ==
    /\ c0 = "loop" /\ IF connected THEN has_been_connected ELSE ~has_been_connected /\ writable
    /\ c0' = "turn"
    /\ UNCHANGED <<medium, request, cmd_ack, writable, host_ejected, term, then, view, host_stale>>

(* The rest of the turn.  A command of the terminal, or the script of a    *)
(* button when there is none, may write files, which ends in               *)
(* refresh_usbmsdrive.                                                     *)
WriteFiles ==
    /\ c0 = "turn"
    /\ c0' = "files"
    /\ UNCHANGED <<medium, request, cmd_ack, writable, host_ejected, term, then, view, host_stale>>

EndTurn ==
    /\ c0 = "turn"
    /\ c0' = "loop"
    /\ UNCHANGED <<medium, request, cmd_ack, writable, host_ejected, term, then, view, host_stale>>

Refresh == CallEject("refresh")

FilesWritten ==
    /\ c0 = "files"
    /\ host_stale' = (host = "mounted")
    /\ Refresh
    /\ UNCHANGED <<medium, request, cmd_ack, writable, host_ejected, term, view>>

RefreshInsert ==
    /\ c0 = "refresh"
    /\ CallInsert
    /\ UNCHANGED <<medium, request, cmd_ack, writable, host_ejected, term, view, host_stale>>

Core0Continues == ClearAck \/ EjectTest \/ Request \/ Acknowledged \/ Connect \/ Disconnect
                  \/ NothingNew \/ MakeReadOnly \/ MakeWritable \/ FilesWritten \/ RefreshInsert

DiskNext == TestUnitReady \/ HostMount \/ HostEject \/ HostLoad \/ Terminal
        \/ Core0Continues \/ WriteFiles \/ EndTurn

DiskSpec == DiskInit /\ [][DiskNext]_diskVars

(* Core 0 goes on with what it does, commands end, and the host polls the  *)
(* unit and uses a medium that is ready.  User and terminal are free.      *)
DiskLiveSpec == /\ DiskSpec
            /\ WF_diskVars(Core0Continues) /\ SF_diskVars(EndTurn)
            /\ WF_diskVars(TestUnitReady) /\ WF_diskVars(HostMount)

-----------------------------------------------------------------------------
DiskTypeOK ==
    /\ medium_state \in {"not_present_stage1", "not_present", "medium_changed", "ready_stage1",
                         "ready"}
    /\ next_medium_state \in {"not_present", "ready_stage1", "ready"}
    /\ {eject_request, insert_request, cmd_ack, writable, host_ejected, connected,
        has_been_connected, host_ro, host_stale} \subseteq BOOLEAN
    /\ c0 \in {"loop", "turn", "eject", "eject_test", "eject_set", "eject_wait", "insert",
               "insert_set", "insert_wait", "ro", "rw", "files", "refresh"}
    /\ then \in {"none", "turn", "ro", "rw", "refresh"}
    /\ host \in {"none", "ready", "mounted"}

(* While a command of the terminal writes files, the host cannot write to  *)
(* the drive ("making USB storage read-only").                             *)
SingleWriter == c0 = "files" /\ has_been_connected => ~(host = "mounted" /\ ~host_ro /\ writable)

(* A host that uses the medium knows whether it is write-protected: the    *)
(* flag never changes under a medium that is in use.                       *)
ProtectionIsKnown == host = "mounted" => host_ro = ~writable

(* An eject by the user may strand a request: the acknowledgement of core 0 *)
(* is in the branches that a host_ejected skips.  Without one:             *)
Undisturbed == []~host_ejected

(* The host looks again at files that the firmware has written ("force the *)
(* host to sync its contents").                                            *)
HostSyncs ==
    Undisturbed => (host_stale /\ host = "mounted" ~> ~(host_stale /\ host = "mounted"))

(* Core 0 comes back from every request to the drive.                      *)
RequestReturns == Undisturbed => ((c0 # "loop") ~> (c0 = "loop"))

=============================================================================
