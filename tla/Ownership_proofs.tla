-------------------------- MODULE Ownership_proofs --------------------------
(***************************************************************************)
(* Who may use what there is only one of: that the big buffer has one user *)
(* and comes back (BigBuffer), and that the drive has one writer and a     *)
(* host that knows it (MscDisk).  The two share no state; what belongs to  *)
(* the specification of the drive has Disk in its name.                    *)
(***************************************************************************)
EXTENDS BigBuffer, MscDisk, TLAPS

-----------------------------------------------------------------------------
(* The big buffer.                                                         *)

(* Who has a pointer, and what the selections say, go together.            *)
PointersInv ==
    /\ "scope" \in mem.pointers => display = "scope"
    /\ \A m \in BufferModes : m \in mem.pointers => mode = m \/ m \in dropped
    /\ "command" \in mem.pointers <=> command

(* The masters of the analyzer.                                            *)
MastersInv ==
    /\ "falaio" \in hooks <=> binmode = "falaio"
    /\ service /\ ~abandoned => binmode = "sump"
    /\ Sampling /\ hooks # {} => mixed

(* As long as the analyzer is not misused, the buffer is allocated for     *)
(* whoever holds it, and somebody holds it while it is allocated.          *)
HeldInv == ~abandoned /\ ~mixed => \A u \in Users : Holds(u) => mem.allocated

HolderInv == ~mixed => (mem.allocated => \E u \in Users : Holds(u))

IInv == TypeOK /\ PointersInv /\ MastersInv /\ HeldInv /\ OneUser /\ HolderInv

-----------------------------------------------------------------------------
(* What the calls of mem.c do keeps the type.                              *)
LEMMA MemoryTypes ==
    ASSUME NEW m \in Memory, NEW u \in Users
    PROVE  /\ Alloc(m, u) \in Memory /\ Free(m, u) \in Memory
           /\ Forget(m, u) \in Memory
  BY DEF Alloc, Free, Forget, Memory

LEMMA Initially == Init => IInv
  <1> SUFFICES ASSUME Init PROVE IInv
    OBVIOUS
  <1> USE DEF Init, Users, BufferModes, Binmodes, LaSetup, Alloc
  <1>1. /\ binmode = "falaio" => mem.allocated /\ mem.pointers = {"analyzer"}
        /\ binmode # "falaio" => ~mem.allocated /\ mem.pointers = {}
    OBVIOUS
  <1>2. TypeOK
    BY MemoryTypes, [allocated |-> FALSE, pointers |-> {}] \in Memory DEF TypeOK, Memory
  <1>3. PointersInv /\ MastersInv
    BY <1>1 DEF PointersInv, MastersInv, Sampling
  <1>4. HeldInv /\ OneUser /\ HolderInv
    BY <1>1 DEF HeldInv, OneUser, HolderInv, Holds, AnalyzerActive, Sampling
  <1>5. QED
    BY <1>2, <1>3, <1>4 DEF IInv

(* One lemma for each part of the invariant, one step for each action.     *)
LEMMA TypeOKStep == ASSUME IInv, Next PROVE TypeOK'
  <1> USE DEF Users, BufferModes, Binmodes, choice, analyzer, IInv
  <1>1. CASE SumpBegins
    BY <1>1, MemoryTypes DEF SumpBegins, LaSetup, TypeOK
  <1>2. CASE SumpEnds
    BY <1>2, MemoryTypes DEF SumpEnds, LaCleanup, TypeOK
  <1>3. CASE BinmodeExit
    BY <1>3, MemoryTypes DEF BinmodeExit, TypeOK
  <1>4. ASSUME NEW b \in Binmodes, BinmodeCommand(b) PROVE TypeOK'
    BY <1>4, MemoryTypes DEF BinmodeCommand, AtPrompt, BinmodeSetup,
        BinmodeCleanup, LaSetup, LaCleanup, Unregistered, ModeCleanup,
        FreeAndForget, TypeOK
  <1>5. CASE LogicStart
    <2>1. Registered(mem) \in Memory /\ Unregistered(Registered(mem), "bar") \in Memory
      BY MemoryTypes DEF Registered, Unregistered, LaSetup, LaCleanup, TypeOK
    <2>2. mem' \in Memory /\ hooks' \subseteq {"bar", "falaio"}
      BY <1>5, <2>1 DEF LogicStart, TypeOK
    <2>3. QED
      BY <1>5, <2>2 DEF LogicStart, TypeOK
  <1>6. CASE LogicStop
    BY <1>6, MemoryTypes DEF LogicStop, AtPrompt, Unregistered, LaCleanup,
        TypeOK
  <1>7. ASSUME NEW d \in {"default", "scope"}, DisplayCommand(d) PROVE TypeOK'
    BY <1>7, MemoryTypes DEF DisplayCommand, AtPrompt, ScopeCleanup,
        FreeAndForget, TypeOK
  <1>8. ASSUME NEW m \in BufferModes \cup {"HiZ"}, ModeCommand(m) PROVE TypeOK'
    BY <1>8, MemoryTypes DEF ModeCommand, AtPrompt, ModeCleanup,
        FreeAndForget, TypeOK
  <1>9. CASE BeginCommand
    BY <1>9, MemoryTypes DEF BeginCommand, AtPrompt, TypeOK
  <1>10. CASE EndCommand
    BY <1>10, MemoryTypes DEF EndCommand, FreeAndForget, TypeOK
  <1>11. QED BY <1>1, <1>2, <1>3, <1>4, <1>5, <1>6, <1>7, <1>8, <1>9, <1>10 DEF Next

LEMMA PointersInvStep == ASSUME IInv, Next PROVE PointersInv'
  <1> USE DEF Users, BufferModes, Binmodes, choice, analyzer, IInv
  <1>1. CASE SumpBegins
    BY <1>1 DEF SumpBegins, LaSetup, Alloc, PointersInv, TypeOK, Memory
  <1>2. CASE SumpEnds
    BY <1>2 DEF SumpEnds, LaCleanup, Free, PointersInv, TypeOK, Memory
  <1>3. CASE BinmodeExit
    BY <1>3 DEF BinmodeExit, PointersInv, TypeOK, Memory
  <1>4. ASSUME NEW b \in Binmodes, BinmodeCommand(b) PROVE PointersInv'
    BY <1>4 DEF BinmodeCommand, AtPrompt, BinmodeSetup, BinmodeCleanup,
        LaSetup, LaCleanup, Unregistered, ModeCleanup, FreeAndForget, Forget,
        Free, Alloc, PointersInv, TypeOK, Memory
  <1>5. CASE LogicStart
    BY <1>5 DEF LogicStart, AtPrompt, Registered, Unregistered, LaSetup,
        LaCleanup, Alloc, Free, PointersInv, TypeOK, Memory
  <1>6. CASE LogicStop
    BY <1>6 DEF LogicStop, AtPrompt, Unregistered, LaCleanup, Free,
        PointersInv, TypeOK, Memory
  <1>7. ASSUME NEW d \in {"default", "scope"}, DisplayCommand(d) PROVE PointersInv'
    BY <1>7 DEF DisplayCommand, AtPrompt, ScopeCleanup, FreeAndForget, Forget,
        Free, Alloc, PointersInv, TypeOK, Memory
  <1>8. ASSUME NEW m \in BufferModes \cup {"HiZ"}, ModeCommand(m) PROVE PointersInv'
    BY <1>8 DEF ModeCommand, AtPrompt, ModeCleanup, FreeAndForget, Forget,
        Free, Alloc, PointersInv, TypeOK, Memory
  <1>9. CASE BeginCommand
    BY <1>9 DEF BeginCommand, AtPrompt, Alloc, PointersInv, TypeOK, Memory
  <1>10. CASE EndCommand
    BY <1>10 DEF EndCommand, FreeAndForget, Forget, Free, PointersInv, TypeOK,
        Memory
  <1>11. QED BY <1>1, <1>2, <1>3, <1>4, <1>5, <1>6, <1>7, <1>8, <1>9, <1>10 DEF Next

LEMMA MastersInvStep == ASSUME IInv, Next PROVE MastersInv'
  <1> USE DEF Users, BufferModes, Binmodes, choice, analyzer, IInv
  <1>1. CASE SumpBegins
    BY <1>1 DEF SumpBegins, LaSetup, Alloc, MastersInv, Sampling, TypeOK
  <1>2. CASE SumpEnds
    BY <1>2 DEF SumpEnds, LaCleanup, Free, MastersInv, Sampling, TypeOK
  <1>3. CASE BinmodeExit
    BY <1>3 DEF BinmodeExit, MastersInv, Sampling, TypeOK
  <1>4. ASSUME NEW b \in Binmodes, BinmodeCommand(b) PROVE MastersInv'
    BY <1>4 DEF BinmodeCommand, AtPrompt, BinmodeSetup, BinmodeCleanup,
        LaSetup, LaCleanup, Unregistered, ModeCleanup, FreeAndForget, Forget,
        Free, Alloc, MastersInv, Sampling, TypeOK
  <1>5. CASE LogicStart
    BY <1>5 DEF LogicStart, AtPrompt, Registered, Unregistered, LaSetup,
        LaCleanup, Alloc, Free, MastersInv, Sampling, TypeOK
  <1>6. CASE LogicStop
    BY <1>6 DEF LogicStop, AtPrompt, Unregistered, LaCleanup, Free,
        MastersInv, Sampling, TypeOK
  <1>7. ASSUME NEW d \in {"default", "scope"}, DisplayCommand(d) PROVE MastersInv'
    BY <1>7 DEF DisplayCommand, AtPrompt, ScopeCleanup, FreeAndForget, Forget,
        Free, Alloc, MastersInv, Sampling, TypeOK
  <1>8. ASSUME NEW m \in BufferModes \cup {"HiZ"}, ModeCommand(m) PROVE MastersInv'
    BY <1>8 DEF ModeCommand, AtPrompt, ModeCleanup, FreeAndForget, Forget,
        Free, Alloc, MastersInv, Sampling, TypeOK
  <1>9. CASE BeginCommand
    BY <1>9 DEF BeginCommand, AtPrompt, Alloc, MastersInv, Sampling, TypeOK
  <1>10. CASE EndCommand
    BY <1>10 DEF EndCommand, FreeAndForget, Forget, Free, MastersInv,
        Sampling, TypeOK
  <1>11. QED BY <1>1, <1>2, <1>3, <1>4, <1>5, <1>6, <1>7, <1>8, <1>9, <1>10 DEF Next

LEMMA HeldInvStep == ASSUME IInv, Next PROVE HeldInv'
  <1> USE DEF Users, BufferModes, Binmodes, choice, analyzer, IInv
  <1>1. CASE SumpBegins
    BY <1>1 DEF SumpBegins, LaSetup, Alloc, HeldInv, OneUser, PointersInv,
        MastersInv, TypeOK, Memory, Holds, AnalyzerActive, Sampling
  <1>2. CASE SumpEnds
    BY <1>2 DEF SumpEnds, LaCleanup, Free, HeldInv, OneUser, PointersInv,
        MastersInv, TypeOK, Memory, Holds, AnalyzerActive, Sampling
  <1>3. CASE BinmodeExit
    BY <1>3 DEF BinmodeExit, HeldInv, OneUser, PointersInv, MastersInv,
        TypeOK, Memory, Holds, AnalyzerActive, Sampling
  <1>4. ASSUME NEW b \in Binmodes, BinmodeCommand(b) PROVE HeldInv'
    BY <1>4 DEF BinmodeCommand, AtPrompt, BinmodeSetup, BinmodeCleanup,
        LaSetup, LaCleanup, Unregistered, ModeCleanup, FreeAndForget, Forget,
        Free, Alloc, HeldInv, OneUser, PointersInv, MastersInv, TypeOK,
        Memory, Holds, AnalyzerActive, Sampling
  <1>5. CASE LogicStart
    BY <1>5 DEF LogicStart, AtPrompt, Registered, Unregistered, LaSetup,
        LaCleanup, Alloc, Free, HeldInv, OneUser, PointersInv, MastersInv,
        TypeOK, Memory, Holds, AnalyzerActive, Sampling
  <1>6. CASE LogicStop
    BY <1>6 DEF LogicStop, AtPrompt, Unregistered, LaCleanup, Free, HeldInv,
        OneUser, PointersInv, MastersInv, TypeOK, Memory, Holds,
        AnalyzerActive, Sampling
  <1>7. ASSUME NEW d \in {"default", "scope"}, DisplayCommand(d) PROVE HeldInv'
    BY <1>7 DEF DisplayCommand, AtPrompt, ScopeCleanup, FreeAndForget, Forget,
        Free, Alloc, HeldInv, OneUser, PointersInv, MastersInv, TypeOK,
        Memory, Holds, AnalyzerActive, Sampling
  <1>8. ASSUME NEW m \in BufferModes \cup {"HiZ"}, ModeCommand(m) PROVE HeldInv'
    BY <1>8 DEF ModeCommand, AtPrompt, ModeCleanup, FreeAndForget, Forget,
        Free, Alloc, HeldInv, OneUser, PointersInv, MastersInv, TypeOK,
        Memory, Holds, AnalyzerActive, Sampling
  <1>9. CASE BeginCommand
    BY <1>9 DEF BeginCommand, AtPrompt, Alloc, HeldInv, OneUser, PointersInv,
        MastersInv, TypeOK, Memory, Holds, AnalyzerActive, Sampling
  <1>10. CASE EndCommand
    BY <1>10 DEF EndCommand, FreeAndForget, Forget, Free, HeldInv, OneUser,
        PointersInv, MastersInv, TypeOK, Memory, Holds, AnalyzerActive,
        Sampling
  <1>11. QED BY <1>1, <1>2, <1>3, <1>4, <1>5, <1>6, <1>7, <1>8, <1>9, <1>10 DEF Next

LEMMA OneUserStep == ASSUME IInv, Next PROVE OneUser'
  <1> USE DEF Users, BufferModes, Binmodes, choice, analyzer, IInv
  <1>1. CASE SumpBegins
    BY <1>1 DEF SumpBegins, LaSetup, Alloc, HeldInv, OneUser, HolderInv,
        PointersInv, MastersInv, TypeOK, Memory, Holds, AnalyzerActive,
        Sampling
  <1>2. CASE SumpEnds
    BY <1>2 DEF SumpEnds, LaCleanup, Free, HeldInv, OneUser, HolderInv,
        PointersInv, MastersInv, TypeOK, Memory, Holds, AnalyzerActive,
        Sampling
  <1>3. CASE BinmodeExit
    BY <1>3 DEF BinmodeExit, HeldInv, OneUser, HolderInv, PointersInv,
        MastersInv, TypeOK, Memory, Holds, AnalyzerActive, Sampling
  <1>4. ASSUME NEW b \in Binmodes, BinmodeCommand(b) PROVE OneUser'
    BY <1>4 DEF BinmodeCommand, AtPrompt, BinmodeSetup, BinmodeCleanup,
        LaSetup, LaCleanup, Unregistered, ModeCleanup, FreeAndForget, Forget,
        Free, Alloc, HeldInv, OneUser, HolderInv, PointersInv,
        MastersInv, TypeOK, Memory, Holds, AnalyzerActive, Sampling
  <1>5. CASE LogicStart
    BY <1>5 DEF LogicStart, AtPrompt, Registered, Unregistered, LaSetup,
        LaCleanup, Alloc, Free, HeldInv, OneUser, HolderInv,
        PointersInv, MastersInv, TypeOK, Memory, Holds, AnalyzerActive,
        Sampling
  <1>6. CASE LogicStop
    BY <1>6 DEF LogicStop, AtPrompt, Unregistered, LaCleanup, Free, HeldInv,
        OneUser, HolderInv, PointersInv, MastersInv, TypeOK, Memory,
        Holds, AnalyzerActive, Sampling
  <1>7. ASSUME NEW d \in {"default", "scope"}, DisplayCommand(d) PROVE OneUser'
    BY <1>7 DEF DisplayCommand, AtPrompt, ScopeCleanup, FreeAndForget, Forget,
        Free, Alloc, HeldInv, OneUser, HolderInv, PointersInv,
        MastersInv, TypeOK, Memory, Holds, AnalyzerActive, Sampling
  <1>8. ASSUME NEW m \in BufferModes \cup {"HiZ"}, ModeCommand(m) PROVE OneUser'
    BY <1>8 DEF ModeCommand, AtPrompt, ModeCleanup, FreeAndForget, Forget,
        Free, Alloc, HeldInv, OneUser, HolderInv, PointersInv,
        MastersInv, TypeOK, Memory, Holds, AnalyzerActive, Sampling
  <1>9. CASE BeginCommand
    BY <1>9 DEF BeginCommand, AtPrompt, Alloc, HeldInv, OneUser,
        HolderInv, PointersInv, MastersInv, TypeOK, Memory, Holds,
        AnalyzerActive, Sampling
  <1>10. CASE EndCommand
    BY <1>10 DEF EndCommand, FreeAndForget, Forget, Free, HeldInv, OneUser,
        HolderInv, PointersInv, MastersInv, TypeOK, Memory, Holds,
        AnalyzerActive, Sampling
  <1>11. QED BY <1>1, <1>2, <1>3, <1>4, <1>5, <1>6, <1>7, <1>8, <1>9, <1>10 DEF Next

LEMMA HolderInvStep == ASSUME IInv, Next PROVE HolderInv'
  <1> USE DEF Users, BufferModes, Binmodes, choice, analyzer, IInv
  <1>1. CASE SumpBegins
    BY <1>1 DEF SumpBegins, LaSetup, Alloc, HolderInv, PointersInv,
        MastersInv, TypeOK, Memory, Holds, AnalyzerActive, Sampling
  <1>2. CASE SumpEnds
    BY <1>2 DEF SumpEnds, LaCleanup, Free, HolderInv, PointersInv,
        MastersInv, TypeOK, Memory, Holds, AnalyzerActive, Sampling
  <1>3. CASE BinmodeExit
    BY <1>3 DEF BinmodeExit, HolderInv, PointersInv, MastersInv, TypeOK,
        Memory, Holds, AnalyzerActive, Sampling
  <1>4. ASSUME NEW b \in Binmodes, BinmodeCommand(b) PROVE HolderInv'
    BY <1>4 DEF BinmodeCommand, AtPrompt, BinmodeSetup, BinmodeCleanup,
        LaSetup, LaCleanup, Unregistered, ModeCleanup, FreeAndForget, Forget,
        Free, Alloc, HolderInv, PointersInv, MastersInv, TypeOK, Memory,
        Holds, AnalyzerActive, Sampling
  <1>5. CASE LogicStart
    BY <1>5 DEF LogicStart, AtPrompt, Registered, Unregistered, LaSetup,
        LaCleanup, Alloc, Free, HolderInv, PointersInv, MastersInv,
        TypeOK, Memory, Holds, AnalyzerActive, Sampling
  <1>6. CASE LogicStop
    BY <1>6 DEF LogicStop, AtPrompt, Unregistered, LaCleanup, Free,
        HolderInv, PointersInv, MastersInv, TypeOK, Memory, Holds,
        AnalyzerActive, Sampling
  <1>7. ASSUME NEW d \in {"default", "scope"}, DisplayCommand(d) PROVE HolderInv'
    BY <1>7 DEF DisplayCommand, AtPrompt, ScopeCleanup, FreeAndForget, Forget,
        Free, Alloc, HolderInv, PointersInv, MastersInv, TypeOK, Memory,
        Holds, AnalyzerActive, Sampling
  <1>8. ASSUME NEW m \in BufferModes \cup {"HiZ"}, ModeCommand(m) PROVE HolderInv'
    BY <1>8 DEF ModeCommand, AtPrompt, ModeCleanup, FreeAndForget, Forget,
        Free, Alloc, HolderInv, PointersInv, MastersInv, TypeOK, Memory,
        Holds, AnalyzerActive, Sampling
  <1>9. CASE BeginCommand
    BY <1>9 DEF BeginCommand, AtPrompt, Alloc, HolderInv, PointersInv,
        MastersInv, TypeOK, Memory, Holds, AnalyzerActive, Sampling
  <1>10. CASE EndCommand
    BY <1>10 DEF EndCommand, FreeAndForget, Forget, Free, HolderInv,
        PointersInv, MastersInv, TypeOK, Memory, Holds, AnalyzerActive,
        Sampling
  <1>11. QED BY <1>1, <1>2, <1>3, <1>4, <1>5, <1>6, <1>7, <1>8, <1>9, <1>10 DEF Next

-----------------------------------------------------------------------------
LEMMA Preserved == IInv /\ [Next]_vars => IInv'
  <1>1. ASSUME IInv, Next PROVE IInv'
    BY <1>1, TypeOKStep, PointersInvStep, MastersInvStep, HeldInvStep, OneUserStep,
       HolderInvStep DEF IInv
  <1>2. ASSUME IInv, UNCHANGED vars PROVE IInv'
    BY <1>2 DEF vars, choice, analyzer, IInv, TypeOK, PointersInv, MastersInv, HeldInv,
                OneUser, HolderInv, Holds, AnalyzerActive, Sampling
  <1>3. QED
    BY <1>1, <1>2

LEMMA Inductive == Spec => []IInv
  BY Initially, Preserved, PTL DEF Spec

(* The state of the buffer, its users and the selections keep their type,  *)
(* whatever commands, host and keys do.                                    *)
THEOREM TypeCorrect == Spec => []TypeOK
  <1>1. IInv => TypeOK
    BY DEF IInv
  <1>2. QED
    BY <1>1, Inductive, PTL

(* No two users have the buffer, as long as SUMP is not left while its     *)
(* host is connected and does not share the analyzer with a hook.          *)
THEOREM OneUserAtATime == Spec => []OneUser
  <1>1. IInv => OneUser
    BY DEF IInv
  <1>2. QED
    BY <1>1, Inductive, PTL

(* Nothing but a shared analyzer and a mode dropped with a locked binary   *)
(* mode loses the buffer: otherwise it is allocated only while the selected*)
(* mode or display, a command, SUMP or a hook uses it.                     *)
THEOREM BufferIsReturned == Spec => []BufferComesBack
  <1>1. IInv => BufferComesBack
    BY DEF IInv, PointersInv, HolderInv, BufferComesBack, Using, Holds
  <1>2. QED
    BY <1>1, Inductive, PTL

-----------------------------------------------------------------------------
(* The mass storage drive.                                                 *)

(* The host has nothing to write to.                                       *)
Absent == medium_state \in {"not_present_stage1", "not_present"}

Ejecting  == {"eject", "eject_test", "eject_set", "eject_wait"}
Inserting == {"insert", "insert_set", "insert_wait"}

(* A request stands only while core 0 waits for its answer, which is not   *)
(* an old one; and core 0 knows what it will do next.                      *)
RequestInv ==
    /\ eject_request => c0 = "eject_wait"
    /\ insert_request => c0 = "insert_wait"
    /\ c0 \in {"eject_test", "eject_set", "insert_set"} => ~cmd_ack
    /\ c0 \in Ejecting => then \in {"ro", "rw", "refresh"}
    /\ c0 \in Inserting => then = "turn"

(* The acknowledgement of an eject means what core 0 takes it for, until   *)
(* core 0 itself inserts the medium again.                                 *)
AbsentInv ==
    /\ next_medium_state = Settled(medium_state)
    /\ medium_state \notin {"ready_stage1", "ready"} => host = "none"
    /\ c0 = "eject_wait" /\ cmd_ack => Absent
    /\ c0 \in {"ro", "rw", "refresh"} => Absent

(* With a terminal the drive is read-only, or is about to be made so       *)
(* before core 0 does anything else.                                       *)
ConnectionInv ==
    /\ has_been_connected /\ writable => c0 = "ro" \/ (c0 \in Ejecting /\ then = "ro")
    /\ c0 = "rw" \/ (c0 \in Ejecting /\ then = "rw") => ~has_been_connected

DiskInv == DiskTypeOK /\ RequestInv /\ AbsentInv /\ ConnectionInv /\ ProtectionIsKnown

-----------------------------------------------------------------------------
LEMMA DiskInitially == DiskInit => DiskInv
<1> SUFFICES ASSUME DiskInit PROVE DiskInv
  OBVIOUS
<1> USE DEF DiskInit
<1>1. DiskTypeOK /\ ProtectionIsKnown
  BY DEF DiskTypeOK, ProtectionIsKnown
<1>2. RequestInv /\ AbsentInv /\ ConnectionInv
  BY DEF RequestInv, AbsentInv, ConnectionInv, Settled, Absent, Ejecting, Inserting
<1> QED  BY <1>1, <1>2 DEF DiskInv

(* The host and its user.  A poll takes the medium out, or lets the host   *)
(* use it again, never both at once.                                       *)
LEMMA HostSteps ==
    ASSUME DiskInv,
           TestUnitReady \/ HostMount \/ HostEject \/ HostLoad \/ Terminal
    PROVE  DiskInv'
<1> USE DEF DiskInv, medium, request, term, core0, view
<1>1. CASE TestUnitReady
  <2> USE <1>1 DEF TestUnitReady, After, Settled, HostReacts, Acts
  <2>1. DiskTypeOK'
    BY DEF DiskTypeOK
  <2>2. RequestInv'
    BY DEF RequestInv, DiskTypeOK, Ejecting, Inserting
  <2>3. AbsentInv'
    BY DEF RequestInv, AbsentInv, DiskTypeOK, Absent, Ejecting, Inserting
  <2>4. ConnectionInv' /\ ProtectionIsKnown'
    BY DEF ConnectionInv, ProtectionIsKnown, DiskTypeOK, Ejecting
  <2> QED  BY <2>1, <2>2, <2>3, <2>4
<1>2. CASE HostMount \/ HostEject \/ HostLoad \/ Terminal
  <2> USE <1>2 DEF HostMount, HostEject, HostLoad, Terminal
  <2>1. DiskTypeOK'
    BY DEF DiskTypeOK
  <2>2. ProtectionIsKnown'
    BY DEF DiskTypeOK, ProtectionIsKnown
  <2>3. RequestInv' /\ AbsentInv' /\ ConnectionInv'
    BY DEF RequestInv, AbsentInv, ConnectionInv, DiskTypeOK, Settled, Absent, Ejecting,
           Inserting
  <2> QED  BY <2>1, <2>2, <2>3
<1> QED  BY <1>1, <1>2

(* insert_or_eject_usbmsdrive: core 0 leaves it with the medium out of the *)
(* host's hands, or after an insert.                                       *)
LEMMA RequestSteps ==
    ASSUME DiskInv, ClearAck \/ EjectTest \/ Request \/ Acknowledged
    PROVE  DiskInv'
<1> USE DEF DiskInv, medium, request, term, core0, view
<1> USE DEF ClearAck, EjectTest, Request, Acknowledged
<1>1. DiskTypeOK'
  BY DEF RequestInv, DiskTypeOK, Ejecting, Inserting
<1>2. ProtectionIsKnown'
  BY DEF DiskTypeOK, ProtectionIsKnown
<1>3. RequestInv'
  BY DEF RequestInv, DiskTypeOK, Ejecting, Inserting
<1>4. AbsentInv'
  BY DEF RequestInv, AbsentInv, DiskTypeOK, Settled, Absent, Ejecting, Inserting
<1>5. ConnectionInv'
  BY DEF RequestInv, ConnectionInv, DiskTypeOK, Ejecting, Inserting
<1> QED  BY <1>1, <1>2, <1>3, <1>4, <1>5

(* The main loop of core 0, which calls it.                                *)
LEMMA LoopSteps ==
    ASSUME DiskInv,
           \/ Connect \/ Disconnect \/ NothingNew \/ MakeReadOnly
           \/ MakeWritable \/ WriteFiles \/ EndTurn \/ FilesWritten
           \/ RefreshInsert
    PROVE  DiskInv'
<1> USE DEF DiskInv, medium, request, term, core0, view
<1> USE DEF Connect, Disconnect, NothingNew, MakeReadOnly,
            MakeWritable, WriteFiles, EndTurn, FilesWritten,
            RefreshInsert, Refresh, ReadOnly, CallEject, CallInsert
<1>1. DiskTypeOK'
  BY DEF DiskTypeOK
<1>2. ProtectionIsKnown'
  BY DEF DiskTypeOK, ProtectionIsKnown, AbsentInv, Absent
<1>3. RequestInv'
  BY DEF RequestInv, DiskTypeOK, Ejecting, Inserting
<1>4. AbsentInv'
  BY DEF AbsentInv, DiskTypeOK, Settled, Absent
<1>5. ConnectionInv'
  BY DEF RequestInv, ConnectionInv, DiskTypeOK, Ejecting, Inserting
<1> QED  BY <1>1, <1>2, <1>3, <1>4, <1>5

LEMMA DiskSteps == DiskInv /\ [DiskNext]_diskVars => DiskInv'
<1> SUFFICES ASSUME DiskInv, [DiskNext]_diskVars PROVE DiskInv'
  OBVIOUS
<1>1. CASE UNCHANGED diskVars
  BY <1>1 DEF DiskInv, diskVars, medium, request, term, core0, view,
      DiskTypeOK, ProtectionIsKnown, RequestInv, AbsentInv, ConnectionInv, Settled,
      Absent
<1> QED  BY <1>1, HostSteps, RequestSteps, LoopSteps DEF DiskNext, Core0Continues

LEMMA DiskInductive == DiskSpec => []DiskInv
  BY DiskInitially, DiskSteps, PTL DEF DiskSpec

(* The states of medium, host and core 0 are those that msc_disk.c names.  *)
THEOREM DiskTypeCorrect == DiskSpec => []DiskTypeOK
<1>1. DiskInv => DiskTypeOK
  BY DEF DiskInv
<1> QED  BY <1>1, DiskInductive, PTL

(* While a command of the terminal writes files, the host cannot: the      *)
(* drive has been made read-only before the terminal got its prompt.       *)
THEOREM FilesHaveOneWriter == DiskSpec => []SingleWriter
<1>1. DiskInv => SingleWriter
  BY DEF DiskInv, ConnectionInv, Ejecting, SingleWriter
<1> QED  BY <1>1, DiskInductive, PTL

(* A host that uses the medium knows its protection: the flag changes only *)
(* while the medium is out, and the host looks again when it comes back.   *)
THEOREM HostKnowsProtection == DiskSpec => []ProtectionIsKnown
<1>1. DiskInv => ProtectionIsKnown
  BY DEF DiskInv
<1> QED  BY <1>1, DiskInductive, PTL

=============================================================================
